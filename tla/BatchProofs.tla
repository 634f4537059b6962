----------------------------- MODULE BatchProofs ------------------------------
(***************************************************************************)
(* Proofs about Batch, for any number of variants, of hook calls at a time *)
(* and of things that go wrong.                                            *)
(***************************************************************************)
EXTENDS Batch, FiniteSetTheorems, WellFoundedInduction, TLAPS

\* Spec without its fairness: what the safety properties follow from.
Steps == Init /\ [][Next]_vars

\* Any set of positions has a first one.
LEMMA Least ==
    ASSUME NEW S \in SUBSET Nat, S # {}
    PROVE  \E m \in S : \A n \in S : m <= n
<1> DEFINE R == {ss \in Nat \X Nat : ss[1] < ss[2]}
<1>1. IsWellFoundedOn(R, Nat)
    BY NatLessThanWellFounded DEF OpToRel
<1> HIDE DEF R
<1>2. PICK m \in S : \A n \in S : <<n, m>> \notin R
    BY <1>1, WFMin
<1>3. \A n \in S : m <= n
  <2>1. ASSUME NEW n \in S, n < m PROVE FALSE
    <3>1. <<n, m>> \in Nat \X Nat /\ <<n, m>>[1] = n /\ <<n, m>>[2] = m
      OBVIOUS
    <3>2. <<n, m>> \in R
      BY <2>1, <3>1 DEF R
    <3> QED
      BY <1>2, <3>2
  <2> QED
    BY <2>1
<1> QED
    BY <1>3

\* The positions of a batch are the first numbers.
LEMMA PositionsFacts ==
    ASSUME BatchConstants
    PROVE  /\ Positions \subseteq Nat /\ 0 \in Positions
           /\ \A p \in Positions : p # 0 => p - 1 \in Positions
           /\ \A p \in Positions, q \in Nat : q < p => q \in Positions
    BY DEF BatchConstants, Positions

\* FirstPending is the waiting item with the least position.
LEMMA FirstPendingIs ==
    ASSUME BatchConstants, Pending # {}
    PROVE  /\ FirstPending \in Pending
           /\ \A q \in Pending : FirstPending <= q
<1>1. Pending \in SUBSET Nat
    BY PositionsFacts DEF Pending
<1>2. \E p \in Pending : \A q \in Pending : p <= q
    BY <1>1, Least
<1> QED
    BY <1>2 DEF FirstPending

\* The elements of two positions are told apart, and none is the first one.
LEMMA ElementFacts ==
    ASSUME BatchConstants
    PROVE  /\ First \in ElementIds
           /\ \A p \in Positions : <<p>> \in ElementIds /\ JobOf(p) \in ElementIds
           /\ \A p, q \in Positions : <<p>> = <<q>> => p = q
           /\ \A p \in Positions : <<p>> # First
           /\ None \notin ElementIds
    BY DEF BatchConstants, ElementIds, JobOf

\* How one hook call goes on: it is over, or it is still about the same element.
Goes(h, c) ==
    /\ c \in {None} \cup HookCall
    /\ hook' = [hook EXCEPT ![h] = c]
    /\ c # None => c.of = hook[h].of

\* HandleJobTerminal returns; when it was called a second time for the same job, it goes on.
LEMMA ReturnEffect ==
    ASSUME BatchConstants, TypeOK, NEW h \in Slots, hook[h] # None, Return(h)
    PROVE  \E c : /\ Goes(h, c)
                  /\ c # None => hook[h].after /\ c.step = "mark" /\ ~c.after
<1>1. hook[h] \in HookCall
    BY DEF TypeOK
<1> DEFINE again1 == [hook[h] EXCEPT !.after = FALSE, !.status = "completed", !.step = "mark"]
<1>2. CASE hook[h].after
  <2>1. hook' = [hook EXCEPT ![h] = again1]
    BY <1>2 DEF Return
  <2>2. again1 \in HookCall /\ again1.of = hook[h].of /\ again1.step = "mark" /\ ~again1.after
    BY <1>1 DEF HookCall, Outcomes
  <2> QED
    BY <1>2, <2>1, <2>2 DEF Goes
<1>3. CASE ~hook[h].after
  <2>1. hook' = [hook EXCEPT ![h] = None]
    BY <1>3 DEF Return
  <2> QED
    BY <2>1 DEF Goes
<1> QED
    BY <1>2, <1>3

\* MarkItem: the items of the element that ended get a status other than "pending".
LEMMA MarkEffect ==
    ASSUME BatchConstants, TypeOK, NEW h \in Slots, MarkItem(h)
    PROVE  /\ hook[h] # None /\ hook[h].step = "mark"
           /\ \E c :
                  /\ Goes(h, c)
                  /\ \/ /\ c # None => hook[h].after /\ c.step = "mark" /\ ~c.after
                        /\ item' = item
                     \/ /\ c # None /\ c.step = "next" /\ c.after = hook[h].after
                        /\ item' \in [Positions -> {None} \cup Item]
                        /\ \A p \in Positions :
                               \/ item'[p] = item[p]
                               \/ /\ item[p] # None /\ item[p].elem = hook[h].of
                                  /\ item'[p] # None /\ item'[p].elem = item[p].elem
                                  /\ item'[p].status # "pending"
           /\ UNCHANGED <<batch, document, work, jobs, live, mishaps, started, announced, again,
                          early>>
<1> DEFINE mine == {p \in Positions : item[p] # None /\ item[p].elem = hook[h].of}
<1>1. /\ hook[h] # None /\ hook[h].step = "mark" /\ hook[h] \in HookCall
      /\ UNCHANGED <<batch, document, work, jobs, live, mishaps, started, announced, again, early>>
    BY DEF MarkItem, TypeOK
<1>2. CASE mine = {}
  <2>1. Return(h) /\ item' = item
    BY <1>2 DEF MarkItem
  <2> QED
    BY <1>1, <2>1, ReturnEffect
<1>3. CASE mine # {}
  <2> DEFINE c == [hook[h] EXCEPT !.step = "next"]
  <2>1. /\ hook' = [hook EXCEPT ![h].step = "next"]
        /\ item' = [p \in Positions |-> IF p \in mine
                                        THEN [item[p] EXCEPT !.status = hook[h].status]
                                        ELSE item[p]]
    BY <1>3 DEF MarkItem
  <2>2. c \in HookCall /\ c.of = hook[h].of /\ c.step = "next" /\ c.after = hook[h].after
    BY <1>1 DEF HookCall
  <2>3. hook' = [hook EXCEPT ![h] = c]
    BY <2>1
  <2>4. hook[h].status \in Outcomes \cup {Stale} /\ hook[h].status # "pending"
    BY <1>1 DEF HookCall, Outcomes, Stale
  <2>5. ASSUME NEW p \in Positions
        PROVE  /\ item'[p] \in {None} \cup Item
               /\ \/ item'[p] = item[p]
                  \/ /\ item[p] # None /\ item[p].elem = hook[h].of
                     /\ item'[p] # None /\ item'[p].elem = item[p].elem
                     /\ item'[p].status # "pending"
    <3>1. CASE p \in mine
      <4>1. item'[p] = [item[p] EXCEPT !.status = hook[h].status]
        BY <2>1, <3>1
      <4>2. item[p] \in Item /\ item[p].elem = hook[h].of
        BY <3>1 DEF TypeOK
      <4>3. item'[p] \in Item /\ item'[p].elem = item[p].elem /\ item'[p].status = hook[h].status
        BY <2>4, <4>1, <4>2 DEF Item
      <4> QED
        BY <2>4, <3>1, <4>2, <4>3 DEF BatchConstants
    <3>2. CASE p \notin mine
      BY <2>1, <3>2 DEF TypeOK
    <3> QED
      BY <3>1, <3>2
  <2>6. item' \in [Positions -> {None} \cup Item]
    BY <2>1, <2>5
  <2>7. Goes(h, c) /\ c # None
    BY <2>2, <2>3 DEF BatchConstants, Goes
  <2> HIDE DEF c
  <2> QED
    BY <1>1, <2>2, <2>5, <2>6, <2>7
<1> QED
    BY <1>2, <1>3

\* NextItem: the first item that waits, or the batch is completed.
LEMMA NextItemEffect ==
    ASSUME BatchConstants, TypeOK, NEW h \in Slots, NextItem(h)
    PROVE  /\ hook[h] # None /\ hook[h].step = "next"
           /\ \E c :
                  /\ Goes(h, c)
                  /\ \/ /\ c # None => hook[h].after /\ c.step = "mark" /\ ~c.after
                        /\ Pending = {} /\ batch' = "completed"
                     \/ /\ c # None /\ c.step = "start" /\ c.after = hook[h].after
                        /\ c.pos \in Pending /\ \A q \in Pending : c.pos <= q
                        /\ batch' = batch
           /\ UNCHANGED <<document, item, work, jobs, live, mishaps, history>>
<1>1. /\ hook[h] # None /\ hook[h].step = "next" /\ hook[h] \in HookCall
      /\ UNCHANGED <<document, item, work, jobs, live, mishaps, history>>
    BY DEF NextItem, TypeOK
<1>2. CASE Pending = {}
  <2>1. Return(h) /\ batch' = "completed"
    BY <1>2 DEF NextItem
  <2> QED
    BY <1>1, <1>2, <2>1, ReturnEffect
<1>3. CASE Pending # {}
  <2> DEFINE c == [hook[h] EXCEPT !.step = "start", !.pos = FirstPending]
  <2>1. /\ FirstPending \in Pending /\ FirstPending \in Positions
        /\ \A q \in Pending : FirstPending <= q
    BY <1>3, FirstPendingIs DEF Pending
  <2>2. hook' = [hook EXCEPT ![h].step = "start", ![h].pos = FirstPending] /\ batch' = batch
    BY <1>3 DEF NextItem
  <2>3. /\ c \in HookCall /\ c.of = hook[h].of /\ c.step = "start" /\ c.after = hook[h].after
        /\ c.pos = FirstPending
    BY <1>1, <2>1 DEF HookCall
  <2>4. hook' = [hook EXCEPT ![h] = c]
    BY <2>2 DEF TypeOK
  <2>5. Goes(h, c) /\ c # None
    BY <2>3, <2>4 DEF BatchConstants, Goes
  <2> HIDE DEF c
  <2> QED
    BY <1>1, <2>1, <2>2, <2>3, <2>5
<1> QED
    BY <1>2, <1>3

\* StartNext: one more job, of the position the call chose.
LEMMA StartNextEffect ==
    ASSUME BatchConstants, TypeOK, NEW h \in Slots, StartNext(h)
    PROVE  LET e == <<hook[h].pos>>
           IN  /\ hook[h] # None /\ hook[h].step = "start" /\ hook[h].pos \in Positions
               /\ jobs' = [jobs EXCEPT ![e] = @ + 1]
               /\ live' = live \cup {e} /\ started' = started \cup {e}
               /\ \E c : Goes(h, c) /\ c # None /\ c.step = "record" /\ c.after = hook[h].after
                         /\ c.pos = hook[h].pos
               /\ UNCHANGED <<rows, work, mishaps, announced, again, early, slipped>>
<1>1. /\ hook[h] # None /\ hook[h].step = "start" /\ hook[h] \in HookCall
      /\ hook[h].pos \in Positions
    BY DEF StartNext, TypeOK, HookCall
<1> DEFINE c == [hook[h] EXCEPT !.step = "record"]
<1>2. hook' = [hook EXCEPT ![h].step = "record"]
    BY DEF StartNext
<1>3. /\ c \in HookCall /\ c.of = hook[h].of /\ c.step = "record" /\ c.after = hook[h].after
      /\ c.pos = hook[h].pos
    BY <1>1 DEF HookCall
<1>4. hook' = [hook EXCEPT ![h] = c]
    BY <1>2
<1>5. Goes(h, c) /\ c # None
    BY <1>3, <1>4 DEF BatchConstants, Goes
<1> HIDE DEF c
<1> QED
    BY <1>1, <1>3, <1>5 DEF StartNext, StartJob

\* RecordNext: the element is entered at the position the call chose.
LEMMA RecordNextEffect ==
    ASSUME BatchConstants, TypeOK, NEW h \in Slots, RecordNext(h)
    PROVE  /\ hook[h] # None /\ hook[h].step = "record" /\ hook[h].pos \in Positions
           /\ item' = [item EXCEPT ![hook[h].pos].elem = <<hook[h].pos>>]
           /\ \E c : /\ Goes(h, c)
                     /\ c # None => hook[h].after /\ c.step = "mark" /\ ~c.after
           /\ UNCHANGED <<batch, document, work, jobs, live, mishaps, history>>
<1>1. /\ hook[h] # None /\ hook[h].step = "record" /\ hook[h] \in HookCall
      /\ hook[h].pos \in Positions
    BY DEF RecordNext, TypeOK, HookCall
<1> QED
    BY <1>1, ReturnEffect DEF RecordNext

\* GiveUp: the call returns, and nothing else changes.
LEMMA GiveUpEffect ==
    ASSUME BatchConstants, TypeOK, NEW h \in Slots, GiveUp(h)
    PROVE  /\ hook[h] # None
           /\ \E c : /\ Goes(h, c)
                     /\ c # None => hook[h].after /\ c.step = "mark" /\ ~c.after
           /\ mishaps' \in 0..MaxMishaps
           /\ UNCHANGED <<rows, work, jobs, live, history>>
    BY ReturnEffect DEF BatchConstants, GiveUp, Mishap, TypeOK

\* An end of a job that is announced: the row goes, and at most one hook call begins.
Ending(e, slots, after) ==
    /\ jobs[e] > 0 \/ e \in live
    /\ \/ jobs' = jobs
       \/ jobs[e] > 0 /\ jobs' = [jobs EXCEPT ![e] = @ - 1]
    /\ live' = live \ {e}
    /\ announced' = announced \cup {e}
    /\ again' = (again \/ after \/ e \in announced)
    /\ early' = (early \/ (step # "done" /\ slots = Handlers))
    /\ \/ hook' = hook
       \/ \E h \in slots, c \in HookCall :
              /\ hook[h] = None /\ hook' = [hook EXCEPT ![h] = c]
              /\ c.of = e /\ c.step = "mark" /\ c.after = after
    /\ slots = Handlers \/ (slots = {"startup"} /\ step = "stuck")
    /\ mishaps' \in 0..MaxMishaps
    /\ UNCHANGED <<rows, work, started>>

\* Announce: the row goes, and a hook call about the element may begin.
LEMMA AnnounceEffect ==
    ASSUME BatchConstants, NEW e \in ElementIds, NEW status \in Outcomes \cup {Stale},
           NEW after \in BOOLEAN, NEW slots, Announce(e, status, after, slots)
    PROVE  /\ live' = live \ {e}
           /\ announced' = announced \cup {e}
           /\ again' = (again \/ after \/ e \in announced)
           /\ early' = (early \/ (step # "done" /\ slots = Handlers))
           /\ \/ hook' = hook
              \/ \E h \in slots, c \in HookCall :
                     /\ hook[h] = None /\ hook' = [hook EXCEPT ![h] = c]
                     /\ c.of = e /\ c.step = "mark" /\ c.after = after
<1> DEFINE c == [of |-> e, status |-> status, after |-> after, step |-> "mark", pos |-> 0]
<1>1. c \in HookCall /\ c.of = e /\ c.step = "mark" /\ c.after = after
    BY PositionsFacts DEF HookCall
<1>2. \/ hook' = hook
      \/ \E h \in slots : hook[h] = None /\ hook' = [hook EXCEPT ![h] = c]
    BY DEF Announce, CallHook
<1> HIDE DEF c
<1> QED
    BY <1>1, <1>2 DEF Announce

\* Jobs that end, jobs that are cancelled and jobs left over by a stop all end alike.
LEMMA EndingCases ==
    ASSUME BatchConstants, TypeOK, NEW e \in ElementIds,
           \/ \E o \in Outcomes : JobEnds(e, o)
           \/ SaveFails(e) \/ CancelJob(e) \/ CancelStuck(e)
    PROVE  \E slots \in {Handlers, {"startup"}}, after \in BOOLEAN : Ending(e, slots, after)
<1> USE DEF BatchConstants, TypeOK
<1>1. CASE \E o \in Outcomes : JobEnds(e, o)
  <2>1. PICK o \in Outcomes : JobEnds(e, o)
    BY <1>1
  <2>2. Announce(e, o, FALSE, Handlers)
    BY <2>1 DEF JobEnds
  <2>3. Ending(e, Handlers, FALSE)
    BY <2>1, <2>2, AnnounceEffect DEF JobEnds, Ending
  <2> QED
    BY <2>3
<1>2. CASE SaveFails(e)
  <2>1. Announce(e, Stale, TRUE, Handlers)
    BY <1>2 DEF SaveFails
  <2>2. mishaps' \in 0..MaxMishaps
    BY <1>2 DEF SaveFails, Mishap
  <2>3. Ending(e, Handlers, TRUE)
    BY <1>2, <2>1, <2>2, AnnounceEffect DEF SaveFails, Ending
  <2> QED
    BY <2>3
<1>3. CASE CancelJob(e)
  <2>1. Announce(e, Stale, FALSE, Handlers)
    BY <1>3 DEF CancelJob
  <2>2. mishaps' \in 0..MaxMishaps
    BY <1>3 DEF CancelJob, Mishap
  <2>3. Ending(e, Handlers, FALSE)
    BY <1>3, <2>1, <2>2, AnnounceEffect DEF CancelJob, Ending
  <2> QED
    BY <2>3
<1>4. CASE CancelStuck(e)
  <2>1. Announce(e, Stale, FALSE, {"startup"})
    BY <1>4 DEF CancelStuck
  <2>2. /\ e \in live /\ step = "stuck" /\ jobs' = jobs /\ mishaps' \in 0..MaxMishaps
        /\ UNCHANGED <<rows, work, started>>
    BY <1>4 DEF CancelStuck, work
  <2>3. Ending(e, {"startup"}, FALSE)
    BY <2>2, <2>1, AnnounceEffect DEF Ending
  <2> QED
    BY <2>3
<1> QED
    BY <1>1, <1>2, <1>3, <1>4

\* One hook call goes on, and the others stay as they are.
LEMMA GoesFacts ==
    ASSUME TypeOK, NEW h \in Slots, NEW c, Goes(h, c)
    PROVE  /\ hook' \in [Slots -> {None} \cup HookCall]
           /\ hook'[h] = c
           /\ \A i \in Slots \ {h} : hook'[i] = hook[i]
    BY DEF Goes, TypeOK

\* A call that goes on stays about a job that was started.
LEMMA GoesInOrder ==
    ASSUME TypeOK, HooksInOrder, NEW h \in Slots, NEW c, hook[h] # None, Goes(h, c),
           c # None /\ c.after => hook[h].after,
           c # None /\ c.step \in {"start", "record"} =>
               /\ item'[c.pos] # None
               /\ c.pos # 0 => JobOf(c.pos - 1) \in started',
           started \subseteq started', again' = again,
           \A p \in Positions : item[p] # None => item'[p] # None
    PROVE  HooksInOrder'
<1>1. hook'[h] = c /\ \A i \in Slots \ {h} : hook'[i] = hook[i]
    BY GoesFacts
<1>2. c # None => c.of = hook[h].of
    BY DEF Goes
<1>3. \A i \in Slots : hook[i] # None => hook[i].pos \in Positions
    BY DEF TypeOK, HookCall
<1>4. ASSUME NEW i \in Slots, hook'[i] # None
      PROVE  /\ hook'[i].of \in started'
             /\ hook'[i].after => again'
             /\ hook'[i].step \in {"start", "record"} =>
                    /\ item'[hook'[i].pos] # None
                    /\ hook'[i].pos # 0 => JobOf(hook'[i].pos - 1) \in started'
  <2>1. CASE i = h
    BY <1>1, <1>2, <1>4, <2>1 DEF HooksInOrder
  <2>2. CASE i # h
    BY <1>1, <1>3, <1>4, <2>2 DEF HooksInOrder
  <2> QED
    BY <2>1, <2>2
<1> QED
    BY <1>4 DEF HooksInOrder, JobOf

\* A call that goes on is no later than it was.
LEMMA GoesInTime ==
    ASSUME TypeOK, HooksInTime, NEW h \in Slots, NEW c, hook[h] # None, Goes(h, c),
           early' = early, step' = step, batch' = batch \/ batch' = "completed"
    PROVE  HooksInTime'
<1>1. hook'[h] = c /\ \A i \in Slots \ {h} : hook'[i] = hook[i]
    BY GoesFacts
<1>2. h \in Handlers \/ h = "startup"
    BY DEF Slots
<1> QED
    BY <1>1, <1>2 DEF HooksInTime, Slots

\* A call that goes on and could start a job before, or no longer can, changes nothing.
LEMMA GoesAlone ==
    ASSUME TypeOK, OneAtATime, NEW h \in Slots, NEW c, Goes(h, c),
           again' = again, Runs' \subseteq Runs,
           c = None \/ c.step = "record" \/ h \in Acting \/ again
    PROVE  OneAtATime'
<1>1. hook'[h] = c /\ \A i \in Slots \ {h} : hook'[i] = hook[i]
    BY GoesFacts
<1>2. again \/ Acting' \subseteq Acting
    BY <1>1 DEF Acting
<1> QED
    BY <1>2 DEF OneAtATime

-----------------------------------------------------------------------------

\* The batch row is inserted: nothing has started.
LEMMA InsertBatchKeeps ==
    ASSUME BatchConstants, BatchInv, InsertBatch PROVE BatchInv'
<1>1. /\ step = "idle" /\ batch' = "running" /\ document' \in BOOLEAN /\ step' = "insert"
      /\ UNCHANGED <<item, at, jobs, live, hook, started, announced, again, early>>
    BY DEF InsertBatch, history
<1>a. mishaps' \in 0..MaxMishaps
    BY DEF BatchConstants, InsertBatch, Mishap, BatchInv, TypeOK
<1>2. TypeOK'
    BY <1>1, <1>a DEF BatchInv, TypeOK
<1>3. JobsStarted'
    BY <1>1 DEF BatchInv, JobsStarted
<1>4. OneAtATime'
    BY <1>1 DEF BatchInv, OneAtATime, Runs, Acting
<1>5. InsertedInOrder'
    BY <1>1 DEF BatchInv, InsertedInOrder
<1> QED
    BY <1>1, <1>2, <1>3, <1>4, <1>5 DEF BatchInv, ItemsStarted, HooksInOrder, StartedInOrder,
       HooksInTime, CompletedMeansNoneWaiting

\* One more item row is inserted, after the last.
LEMMA InsertItemKeeps ==
    ASSUME BatchConstants, BatchInv, InsertItem PROVE BatchInv'
<1> DEFINE new == [elem |-> None, status |-> "pending"]
<1>1. /\ step = "insert" /\ at \in Positions
      /\ UNCHANGED <<batch, document, jobs, live, hook, started, announced, again, early>>
    BY DEF BatchConstants, InsertItem, history, BatchInv, TypeOK, Positions
<1>2. mishaps' \in 0..MaxMishaps
    BY DEF BatchConstants, InsertItem, Mishap, BatchInv, TypeOK
<1>3. new \in Item /\ new.elem = None /\ new.status = "pending" /\ new # None
    BY DEF BatchConstants, Item
<1>4. \/ /\ item' = [item EXCEPT ![at] = new]
         /\ \/ at = 0 /\ step' = "start" /\ at' = 0
            \/ at > 0 /\ at' = at + 1 /\ at' \in 0..N /\ step' \in {"insert", "done"}
      \/ step' = "done" /\ item' = item /\ at' = at
    BY <1>1 DEF BatchConstants, InsertItem, Positions
<1> HIDE DEF new
<1>5. /\ item' \in [Positions -> {None} \cup Item]
      /\ \A p \in Positions : item[p] # None => item'[p] # None
      /\ \A p \in Positions : item'[p] = item[p] \/ item'[p] = new
    BY <1>1, <1>3, <1>4 DEF BatchInv, TypeOK
<1>6. TypeOK'
    BY <1>1, <1>2, <1>4, <1>5 DEF BatchInv, TypeOK
<1>7. JobsStarted'
    BY <1>1, <1>4, PositionsFacts DEF BatchInv, JobsStarted
<1>8. OneAtATime'
    BY <1>1 DEF BatchInv, OneAtATime, Runs, Acting
<1>9. InsertedInOrder'
  <2>1. CASE /\ item' = [item EXCEPT ![at] = new]
             /\ \/ at = 0 /\ step' = "start" /\ at' = 0
                \/ at > 0 /\ at' = at + 1 /\ at' \in 0..N /\ step' \in {"insert", "done"}
    <3>1. item'[at] # None /\ \A p \in Positions \ {at} : item'[p] = item[p]
      BY <1>1, <1>3, <2>1 DEF BatchInv, TypeOK
    <3>2. at > 0 => item[at - 1] # None
      BY <1>1 DEF BatchInv, InsertedInOrder
    <3>3. ASSUME NEW p \in Positions \ {0}, item'[p] # None PROVE item'[p - 1] # None
      <4>1. p - 1 \in Positions /\ p - 1 # p /\ p > 0
        BY PositionsFacts
      <4>2. CASE p = at
        BY <3>1, <3>2, <4>1, <4>2
      <4>3. CASE p # at
        <5>1. item[p] # None
          BY <3>1, <3>3, <4>3
        <5> QED
          BY <1>5, <4>1, <5>1 DEF BatchInv, InsertedInOrder
      <4> QED
        BY <4>2, <4>3
    <3>4. step' = "insert" /\ at' > 0 => at' - 1 = at
      BY <1>1, <2>1, PositionsFacts
    <3>5. step' \in {"idle", "start", "record"} => at' = 0 /\ item'[0] # None
      BY <2>1, <3>1
    <3> QED
      BY <1>1, <3>1, <3>3, <3>4, <3>5 DEF InsertedInOrder
  <2>2. CASE step' = "done" /\ item' = item /\ at' = at
    BY <2>2 DEF BatchInv, InsertedInOrder
  <2> QED
    BY <1>4, <2>1, <2>2
<1>10. ItemsStarted'
  <2>1. ASSUME NEW p \in Positions, item'[p] # None
        PROVE  /\ item'[p].elem \in {None, <<p>>, JobOf(p)}
               /\ item'[p].status # "pending" => JobOf(p) \in started'
    BY <1>1, <1>3, <1>5, <2>1 DEF BatchInv, ItemsStarted
  <2> QED
    BY <2>1 DEF ItemsStarted, JobOf
<1>11. HooksInOrder'
  <2>1. \A h \in Slots : hook[h] # None => hook[h].pos \in Positions
    BY DEF BatchInv, TypeOK, HookCall
  <2> QED
    BY <1>1, <1>5, <2>1 DEF BatchInv, HooksInOrder, JobOf
<1>12. StartedInOrder'
    BY <1>1 DEF BatchInv, StartedInOrder
<1>13. HooksInTime'
    BY <1>1, <1>4 DEF BatchInv, HooksInTime
<1>14. CompletedMeansNoneWaiting'
    BY <1>1 DEF BatchInv, HooksInTime, CompletedMeansNoneWaiting
<1> QED
    BY <1>6, <1>7, <1>8, <1>9, <1>10, <1>11, <1>12, <1>13, <1>14 DEF BatchInv

\* Before the first job is started nothing runs and no hook was called.
LEMMA NothingYet ==
    ASSUME TypeOK, JobsStarted, HooksInOrder, started = {}
    PROVE  /\ live = {} /\ Runs = {} /\ Acting = {}
           /\ \A h \in Slots : hook[h] = None
<1>1. live = {} /\ \A e \in ElementIds : ~(jobs[e] > 0)
    BY DEF JobsStarted
<1>2. \A h \in Slots : hook[h] = None
    BY DEF HooksInOrder
<1> QED
    BY <1>1, <1>2 DEF Runs, Acting

\* The request starts the first job: nothing ran, and no hook was called.
LEMMA StartFirstKeeps ==
    ASSUME BatchConstants, BatchInv, StartFirst PROVE BatchInv'
<1>1. step = "start" /\ started = {} /\ UNCHANGED <<rows, at, hook, announced, again, early>>
    BY DEF StartFirst, BatchInv, JobsStarted
<1>2. mishaps' \in 0..MaxMishaps
    BY DEF BatchConstants, StartFirst, Mishap, BatchInv, TypeOK
<1>3. \/ /\ jobs' = [jobs EXCEPT ![First] = @ + 1] /\ live' = live \cup {First}
         /\ started' = started \cup {First} /\ step' = "record"
      \/ step' = "done" /\ UNCHANGED <<jobs, live, started>>
    BY DEF StartFirst, StartJob
<1>4. live = {} /\ Runs = {} /\ Acting = {} /\ \A h \in Slots : hook[h] = None
    BY <1>1, NothingYet DEF BatchInv
<1>5. TypeOK'
    BY <1>1, <1>2, <1>3, ElementFacts DEF BatchInv, TypeOK, rows
<1>6. JobsStarted'
  <2>1. \A e \in ElementIds : jobs'[e] > 0 => e \in started'
    BY <1>3 DEF BatchInv, JobsStarted, TypeOK
  <2> QED
    BY <1>1, <1>3, <1>4, <2>1 DEF JobsStarted
<1>7. OneAtATime'
  <2>1. \A e \in Runs' : e = First
    <3>1. \A e \in ElementIds \ {First} : jobs'[e] = jobs[e]
      BY <1>3 DEF BatchInv, TypeOK
    <3>2. announced' = announced /\ live' \subseteq {First}
      BY <1>1, <1>3, <1>4
    <3> QED
      BY <1>4, <3>1, <3>2 DEF Runs
  <2>2. Acting' = {}
    BY <1>1, <1>4 DEF Acting
  <2> QED
    BY <2>1, <2>2 DEF OneAtATime
<1>8. InsertedInOrder'
    BY <1>1, <1>3 DEF BatchInv, InsertedInOrder, rows
<1>9. ItemsStarted'
    BY <1>1, <1>3 DEF BatchInv, ItemsStarted, rows, JobOf
<1>10. HooksInOrder'
    BY <1>1, <1>4 DEF HooksInOrder
<1>11. StartedInOrder'
    BY <1>1, <1>3, ElementFacts DEF BatchInv, StartedInOrder
<1>12. HooksInTime'
    BY <1>1, <1>3, <1>4 DEF BatchInv, HooksInTime, Slots, rows
<1>13. CompletedMeansNoneWaiting'
    BY <1>1 DEF BatchInv, CompletedMeansNoneWaiting, Pending, rows
<1> QED
    BY <1>5, <1>6, <1>7, <1>8, <1>9, <1>10, <1>11, <1>12, <1>13 DEF BatchInv

\* The first element is entered, or not.
LEMMA RecordFirstKeeps ==
    ASSUME BatchConstants, BatchInv, RecordFirst PROVE BatchInv'
<1>1. /\ step = "record" /\ at = 0 /\ item[0] # None /\ at' = 1 /\ step' \in {"done", "insert"}
      /\ UNCHANGED <<batch, document, jobs, live, hook, started, announced, again, early>>
    BY DEF RecordFirst, history, BatchInv, InsertedInOrder
<1>2. mishaps' \in 0..MaxMishaps /\ 1 \in 0..N
    BY DEF BatchConstants, RecordFirst, Mishap, BatchInv, TypeOK
<1>3. item' = [item EXCEPT ![0].elem = First] \/ item' = item
    BY DEF RecordFirst
<1>4. /\ item' \in [Positions -> {None} \cup Item]
      /\ \A p \in Positions \ {0} : item'[p] = item[p]
      /\ item'[0] # None /\ item'[0].elem \in {item[0].elem, First}
      /\ item'[0].status = item[0].status
  <2>1. item[0] \in Item /\ 0 \in Positions
    BY <1>1, PositionsFacts DEF BatchInv, TypeOK
  <2> DEFINE new == [item[0] EXCEPT !.elem = First]
  <2>2. new \in Item /\ new.elem = First /\ new.status = item[0].status
    BY <2>1, ElementFacts DEF Item
  <2>3. item' = [item EXCEPT ![0] = new] \/ item' = item
    BY <1>3
  <2> HIDE DEF new
  <2> QED
    BY <1>1, <2>1, <2>2, <2>3 DEF BatchConstants, BatchInv, TypeOK
<1>5. TypeOK'
    BY <1>1, <1>2, <1>4 DEF BatchInv, TypeOK
<1>6. JobsStarted'
    BY <1>1 DEF BatchInv, JobsStarted
<1>7. OneAtATime'
    BY <1>1 DEF BatchInv, OneAtATime, Runs, Acting
<1>8. InsertedInOrder'
  <2>1. \A p \in Positions : item'[p] # None <=> item[p] # None
    BY <1>1, <1>4
  <2>2. \A p \in Positions \ {0} : item'[p] # None => item'[p - 1] # None
    BY <2>1, PositionsFacts DEF BatchInv, InsertedInOrder
  <2> QED
    BY <1>1, <1>4, <2>2, PositionsFacts DEF InsertedInOrder
<1>9. ItemsStarted'
  <2>1. ASSUME NEW p \in Positions, item'[p] # None
        PROVE  /\ item'[p].elem \in {None, <<p>>, JobOf(p)}
               /\ item'[p].status # "pending" => JobOf(p) \in started'
    <3>1. CASE p = 0
      <4>1. JobOf(0) = First
        BY DEF JobOf
      <4>2. /\ item[0].elem \in {None, <<0>>, JobOf(0)}
            /\ item[0].status # "pending" => JobOf(0) \in started
        BY <1>1, PositionsFacts DEF BatchInv, ItemsStarted
      <4> QED
        BY <1>1, <1>4, <3>1, <4>1, <4>2
    <3>2. CASE p # 0
      BY <1>1, <1>4, <2>1, <3>2 DEF BatchInv, ItemsStarted
    <3> QED
      BY <3>1, <3>2
  <2> QED
    BY <2>1 DEF ItemsStarted, JobOf
<1>10. HooksInOrder'
  <2>1. \A h \in Slots : hook[h] # None => hook[h].pos \in Positions
    BY DEF BatchInv, TypeOK, HookCall
  <2>2. \A p \in Positions : item[p] # None => item'[p] # None
    BY <1>1, <1>4
  <2> QED
    BY <1>1, <2>1, <2>2 DEF BatchInv, HooksInOrder, JobOf
<1>11. StartedInOrder'
    BY <1>1 DEF BatchInv, StartedInOrder
<1>12. HooksInTime'
    BY <1>1 DEF BatchInv, HooksInTime
<1>13. CompletedMeansNoneWaiting'
    BY <1>1 DEF BatchInv, HooksInTime, CompletedMeansNoneWaiting
<1> QED
    BY <1>5, <1>6, <1>7, <1>8, <1>9, <1>10, <1>11, <1>12, <1>13 DEF BatchInv

\* The end of a job is announced: the batch's only run gives way to a hook call.
LEMMA EndingKeeps ==
    ASSUME BatchConstants, BatchInv, NEW e \in ElementIds, NEW slots, NEW after \in BOOLEAN,
           Ending(e, slots, after)
    PROVE  BatchInv'
<1>1. /\ UNCHANGED <<rows, work, started>> /\ mishaps' \in 0..MaxMishaps
      /\ live' = live \ {e} /\ announced' = announced \cup {e}
      /\ again' = (again \/ after \/ e \in announced)
      /\ early' = (early \/ (step # "done" /\ slots = Handlers))
      /\ jobs[e] > 0 \/ e \in live
    BY DEF Ending
<1>2. /\ jobs' \in [ElementIds -> Nat]
      /\ \A f \in ElementIds : jobs'[f] > 0 => jobs[f] > 0
    BY DEF Ending, BatchInv, TypeOK
<1>3. e \in started
    BY <1>1 DEF BatchInv, JobsStarted
<1>4. slots = Handlers \/ (slots = {"startup"} /\ step = "stuck" /\ slots # Handlers)
    BY DEF BatchConstants, Ending
<1>5. CASE hook' = hook
  <2>1. TypeOK'
    BY <1>1, <1>2, <1>5 DEF BatchInv, TypeOK, rows, work
  <2>2. HooksInOrder'
    BY <1>1, <1>5 DEF BatchInv, HooksInOrder, rows, JobOf
  <2>3. HooksInTime'
    BY <1>1, <1>5 DEF BatchInv, HooksInTime, rows, work
  <2>4. Acting' = Acting
    BY <1>5 DEF Acting
  <2> QED
    <3>1. OneAtATime'
      <4>1. Runs' \subseteq Runs
        BY <1>1, <1>2 DEF Runs
      <4> QED
        BY <1>1, <2>4, <4>1 DEF BatchInv, OneAtATime
    <3>2. JobsStarted'
      BY <1>1, <1>2 DEF BatchInv, JobsStarted, work
    <3>3. InsertedInOrder' /\ ItemsStarted' /\ StartedInOrder'
      BY <1>1 DEF BatchInv, InsertedInOrder, ItemsStarted, StartedInOrder, rows, work, JobOf
    <3>4. CompletedMeansNoneWaiting'
      BY <1>1 DEF BatchInv, CompletedMeansNoneWaiting, Pending, rows
    <3> QED
      BY <2>1, <2>2, <2>3, <3>1, <3>2, <3>3, <3>4 DEF BatchInv
<1>6. CASE hook' # hook
  <2>1. PICK h \in slots, c \in HookCall :
               /\ hook[h] = None /\ hook' = [hook EXCEPT ![h] = c]
               /\ c.of = e /\ c.step = "mark" /\ c.after = after
    BY <1>6 DEF Ending
  <2>2. h \in Slots
    BY <1>4 DEF Slots
  <2>3. /\ hook' \in [Slots -> {None} \cup HookCall] /\ hook'[h] = c /\ c # None
        /\ \A i \in Slots \ {h} : hook'[i] = hook[i]
    BY <2>1, <2>2 DEF BatchConstants, BatchInv, TypeOK
  <2>4. TypeOK'
    BY <1>1, <1>2, <2>3 DEF BatchInv, TypeOK, rows, work
  <2>5. HooksInOrder'
    <3>1. ASSUME NEW i \in Slots, hook'[i] # None
          PROVE  /\ hook'[i].of \in started'
                 /\ hook'[i].after => again'
                 /\ hook'[i].step \in {"start", "record"} =>
                        /\ item'[hook'[i].pos] # None
                        /\ hook'[i].pos # 0 => JobOf(hook'[i].pos - 1) \in started'
      <4>1. started' = started /\ item' = item /\ (again => again')
        BY <1>1 DEF rows
      <4>2. CASE i = h
        BY <1>1, <1>3, <2>1, <2>3, <4>1, <4>2
      <4>3. CASE i # h
        BY <2>3, <3>1, <4>1, <4>3 DEF BatchInv, HooksInOrder
      <4> QED
        BY <4>2, <4>3
    <3> QED
      BY <3>1 DEF HooksInOrder, JobOf
  <2>6. HooksInTime'
    <3>1. UNCHANGED <<batch, step>>
      BY <1>1 DEF rows, work
    <3>2. h \in Handlers => slots = Handlers
      BY <1>4 DEF BatchConstants
    <3>3. h = "startup" => step = "stuck"
      BY <1>4 DEF BatchConstants
    <3> QED
      BY <1>1, <2>2, <2>3, <3>1, <3>2, <3>3 DEF BatchInv, HooksInTime, Slots
  <2>7. OneAtATime'
    <3>1. SUFFICES ASSUME ~again' PROVE Runs' = {} /\ \A i, j \in Acting' : i = j
      BY DEF OneAtATime
    <3>2. ~again /\ e \in Runs
      BY <1>1, <3>1 DEF Runs
    <3>3. Acting = {} /\ \A f \in Runs : f = e
      BY <3>2 DEF BatchInv, OneAtATime
    <3>4. Runs' \subseteq Runs /\ e \notin Runs'
      BY <1>1, <1>2 DEF Runs
    <3>5. Acting' \subseteq {h}
      BY <2>3, <3>3 DEF Acting
    <3> QED
      BY <3>3, <3>4, <3>5
  <2> QED
    <3>2. JobsStarted'
      BY <1>1, <1>2 DEF BatchInv, JobsStarted, work
    <3>3. InsertedInOrder' /\ ItemsStarted' /\ StartedInOrder'
      BY <1>1 DEF BatchInv, InsertedInOrder, ItemsStarted, StartedInOrder, rows, work, JobOf
    <3>4. CompletedMeansNoneWaiting'
      BY <1>1 DEF BatchInv, CompletedMeansNoneWaiting, Pending, rows
    <3> QED
      BY <2>4, <2>5, <2>6, <2>7, <3>2, <3>3, <3>4 DEF BatchInv
<1> QED
    BY <1>5, <1>6

\* An element is deleted: its item refers to none, and its job row goes.
LEMMA DeleteElementKeeps ==
    ASSUME BatchConstants, BatchInv, NEW e \in ElementIds, DeleteElement(e) PROVE BatchInv'
<1>1. /\ UNCHANGED <<batch, document, step, at, jobs, hook, started, announced, again, early>>
      /\ live' \subseteq live
    BY DEF DeleteElement, work, history
<1>2. mishaps' \in 0..MaxMishaps
    BY DEF BatchConstants, DeleteElement, Mishap, BatchInv, TypeOK
<1>3. /\ item' \in [Positions -> {None} \cup Item]
      /\ \A p \in Positions :
             \/ item'[p] = item[p]
             \/ /\ item[p] # None /\ item'[p] # None
                /\ item'[p].elem = None /\ item'[p].status = item[p].status
  <2>1. item' = [p \in Positions |-> IF item[p] # None /\ item[p].elem = e
                                     THEN [item[p] EXCEPT !.elem = None] ELSE item[p]]
    BY DEF DeleteElement
  <2>2. ASSUME NEW p \in Positions
        PROVE  /\ item'[p] \in {None} \cup Item
               /\ \/ item'[p] = item[p]
                  \/ /\ item[p] # None /\ item'[p] # None
                     /\ item'[p].elem = None /\ item'[p].status = item[p].status
    <3>1. CASE item[p] # None /\ item[p].elem = e
      <4>1. item[p] \in Item /\ item'[p] = [item[p] EXCEPT !.elem = None]
        BY <2>1, <3>1 DEF BatchInv, TypeOK
      <4>2. item'[p] \in Item /\ item'[p].elem = None /\ item'[p].status = item[p].status
        BY <4>1 DEF Item
      <4> QED
        BY <3>1, <4>2 DEF BatchConstants
    <3>2. CASE ~(item[p] # None /\ item[p].elem = e)
      BY <2>1, <3>2 DEF BatchInv, TypeOK
    <3> QED
      BY <3>1, <3>2
  <2> QED
    BY <2>1, <2>2
<1>4. \A p \in Positions : item'[p] # None <=> item[p] # None
    BY <1>3
<1>5. TypeOK'
    BY <1>1, <1>2, <1>3 DEF BatchInv, TypeOK
<1>6. JobsStarted'
    BY <1>1 DEF BatchInv, JobsStarted
<1>7. OneAtATime'
  <2>1. Runs' \subseteq Runs /\ Acting' = Acting
    BY <1>1 DEF Runs, Acting
  <2> QED
    BY <1>1, <2>1 DEF BatchInv, OneAtATime
<1>8. InsertedInOrder'
    BY <1>1, <1>4, PositionsFacts DEF BatchInv, InsertedInOrder
<1>9. ItemsStarted'
  <2>1. ASSUME NEW p \in Positions, item'[p] # None
        PROVE  /\ item'[p].elem \in {None, <<p>>, JobOf(p)}
               /\ item'[p].status # "pending" => JobOf(p) \in started'
    BY <1>1, <1>3, <2>1 DEF BatchInv, ItemsStarted
  <2> QED
    BY <2>1 DEF ItemsStarted, JobOf
<1>10. HooksInOrder'
  <2>1. \A h \in Slots : hook[h] # None => hook[h].pos \in Positions
    BY DEF BatchInv, TypeOK, HookCall
  <2> QED
    BY <1>1, <1>4, <2>1 DEF BatchInv, HooksInOrder, JobOf
<1>11. StartedInOrder' /\ HooksInTime'
    BY <1>1 DEF BatchInv, StartedInOrder, HooksInTime
<1>12. CompletedMeansNoneWaiting'
  <2>1. Pending' \subseteq Pending
    BY <1>3 DEF Pending
  <2> QED
    BY <1>1, <2>1 DEF BatchInv, CompletedMeansNoneWaiting
<1> QED
    BY <1>5, <1>6, <1>7, <1>8, <1>9, <1>10, <1>11, <1>12 DEF BatchInv

-----------------------------------------------------------------------------

\* The process is started again, with or without its database.
LEMMA RestartKeeps ==
    ASSUME BatchConstants, BatchInv, NEW lost \in BOOLEAN, Restart(lost) PROVE BatchInv'
<1>1. /\ jobs' = [e \in ElementIds |-> 0] /\ hook' = [h \in Slots |-> None]
      /\ step' = "stuck" /\ step # "idle"
      /\ UNCHANGED <<document, at, started, announced, again, early>>
    BY DEF Restart, history
<1>2. mishaps' \in 0..MaxMishaps
    BY DEF BatchConstants, Restart, Mishap, BatchInv, TypeOK
<1>3. \/ batch' = None /\ item' = [p \in Positions |-> None] /\ live' = {}
      \/ UNCHANGED <<batch, item, live>>
    BY DEF Restart
<1>4. \A p \in Positions : item'[p] = None \/ item'[p] = item[p]
    BY <1>3
<1>5. TypeOK'
    BY <1>1, <1>2, <1>3 DEF BatchInv, TypeOK
<1>6. JobsStarted'
    BY <1>1, <1>3 DEF BatchInv, JobsStarted
<1>7. OneAtATime'
  <2>1. Runs' \subseteq Runs /\ Acting' = {}
    BY <1>1, <1>3 DEF Runs, Acting
  <2> QED
    BY <1>1, <2>1 DEF BatchInv, OneAtATime
<1>8. InsertedInOrder'
    BY <1>1, <1>3 DEF BatchInv, InsertedInOrder
<1>9. ItemsStarted'
  <2>1. ASSUME NEW p \in Positions, item'[p] # None
        PROVE  /\ item'[p].elem \in {None, <<p>>, JobOf(p)}
               /\ item'[p].status # "pending" => JobOf(p) \in started'
    BY <1>1, <1>4, <2>1 DEF BatchInv, ItemsStarted
  <2> QED
    BY <2>1 DEF ItemsStarted, JobOf
<1>10. HooksInOrder' /\ StartedInOrder'
    BY <1>1 DEF BatchInv, HooksInOrder, StartedInOrder
<1>11. HooksInTime'
    BY <1>1 DEF HooksInTime, Slots
<1>12. CompletedMeansNoneWaiting'
    BY <1>1, <1>3 DEF BatchConstants, BatchInv, CompletedMeansNoneWaiting, Pending
<1> QED
    BY <1>5, <1>6, <1>7, <1>8, <1>9, <1>10, <1>11, <1>12 DEF BatchInv

\* The hooks of the jobs left over have returned.
LEMMA CoreSyncedKeeps ==
    ASSUME BatchConstants, BatchInv, CoreSynced PROVE BatchInv'
<1>1. /\ step = "stuck" /\ step' = "sync" /\ hook["startup"] = None
      /\ UNCHANGED <<batch, document, item, at, jobs, live, hook, mishaps, started, announced,
                     again, early>>
    BY DEF CoreSynced, rows, history
<1>2. TypeOK' /\ JobsStarted' /\ OneAtATime'
    BY <1>1 DEF BatchInv, TypeOK, JobsStarted, OneAtATime, Runs, Acting
<1>3. InsertedInOrder' /\ ItemsStarted' /\ HooksInOrder' /\ StartedInOrder'
    BY <1>1 DEF BatchInv, InsertedInOrder, ItemsStarted, HooksInOrder, StartedInOrder, JobOf
<1>4. HooksInTime' /\ CompletedMeansNoneWaiting'
    BY <1>1 DEF BatchInv, HooksInTime, CompletedMeansNoneWaiting, Pending
<1> QED
    BY <1>2, <1>3, <1>4 DEF BatchInv

\* The items are put back to waiting: the jobs started so far stay started.
LEMMA SyncBatchKeeps ==
    ASSUME BatchConstants, BatchInv, SyncBatch PROVE BatchInv'
<1> DEFINE new == [elem |-> None, status |-> "pending"]
<1>1. /\ step = "sync" /\ step' = "done"
      /\ UNCHANGED <<document, at, jobs, live, hook, mishaps, started, announced, again, early>>
      /\ \/ batch' = "running" /\ item' = [p \in Positions |-> new]
         \/ UNCHANGED <<batch, item>>
    BY DEF SyncBatch, history
<1>2. new \in Item /\ new.elem = None /\ new.status = "pending" /\ new # None
    BY DEF BatchConstants, Item
<1> HIDE DEF new
<1>3. /\ item' \in [Positions -> {None} \cup Item] /\ batch' \in {None, "running", "completed"}
      /\ \A p \in Positions : item[p] # None => item'[p] # None
      /\ \A p \in Positions : item'[p] = item[p] \/ item'[p] = new
    BY <1>1, <1>2 DEF BatchInv, TypeOK
<1>4. TypeOK'
    BY <1>1, <1>3 DEF BatchInv, TypeOK
<1>5. JobsStarted' /\ OneAtATime'
    BY <1>1 DEF BatchInv, JobsStarted, OneAtATime, Runs, Acting
<1>6. InsertedInOrder'
    BY <1>1, <1>2, PositionsFacts DEF BatchInv, InsertedInOrder
<1>7. ItemsStarted'
  <2>1. ASSUME NEW p \in Positions, item'[p] # None
        PROVE  /\ item'[p].elem \in {None, <<p>>, JobOf(p)}
               /\ item'[p].status # "pending" => JobOf(p) \in started'
    BY <1>1, <1>2, <1>3, <2>1 DEF BatchInv, ItemsStarted
  <2> QED
    BY <2>1 DEF ItemsStarted, JobOf
<1>8. HooksInOrder'
  <2>1. \A h \in Slots : hook[h] # None => hook[h].pos \in Positions
    BY DEF BatchInv, TypeOK, HookCall
  <2> QED
    BY <1>1, <1>3, <2>1 DEF BatchInv, HooksInOrder, JobOf
<1>9. StartedInOrder' /\ HooksInTime'
    BY <1>1 DEF BatchInv, StartedInOrder, HooksInTime
<1>10. CompletedMeansNoneWaiting'
    BY <1>1 DEF BatchInv, CompletedMeansNoneWaiting, Pending
<1> QED
    BY <1>4, <1>5, <1>6, <1>7, <1>8, <1>9, <1>10 DEF BatchInv

\* Nothing happens.
LEMMA StutterKeeps ==
    ASSUME BatchInv, UNCHANGED vars PROVE BatchInv'
    BY DEF BatchInv, TypeOK, JobsStarted, OneAtATime, Runs, Acting, InsertedInOrder, ItemsStarted,
       JobOf, HooksInOrder, StartedInOrder, HooksInTime, CompletedMeansNoneWaiting, Pending,
       vars, rows, work, history

\* The item whose job ended is marked: its job was started.
LEMMA MarkItemKeeps ==
    ASSUME BatchConstants, BatchInv, NEW h \in Slots, MarkItem(h) PROVE BatchInv'
<1>1. /\ hook[h] # None /\ hook[h].step = "mark"
      /\ UNCHANGED <<batch, document, step, at, jobs, live, mishaps, started, announced, again,
                     early>>
    BY MarkEffect DEF BatchInv, work
<1>2. PICK c :
          /\ Goes(h, c)
          /\ \/ /\ c # None => hook[h].after /\ c.step = "mark" /\ ~c.after
                /\ item' = item
             \/ /\ c # None /\ c.step = "next" /\ c.after = hook[h].after
                /\ item' \in [Positions -> {None} \cup Item]
                /\ \A p \in Positions :
                       \/ item'[p] = item[p]
                       \/ /\ item[p] # None /\ item[p].elem = hook[h].of
                          /\ item'[p] # None /\ item'[p].elem = item[p].elem
                          /\ item'[p].status # "pending"
    BY MarkEffect DEF BatchInv
<1>3. /\ item' \in [Positions -> {None} \cup Item]
      /\ \A p \in Positions :
             \/ item'[p] = item[p]
             \/ /\ item[p] # None /\ item[p].elem = hook[h].of
                /\ item'[p] # None /\ item'[p].elem = item[p].elem
                /\ item'[p].status # "pending"
    BY <1>2 DEF BatchInv, TypeOK
<1>4. \A p \in Positions : item'[p] # None <=> item[p] # None
    BY <1>3
<1>5. TypeOK'
  <2>1. hook' \in [Slots -> {None} \cup HookCall]
    BY <1>2, GoesFacts DEF BatchInv
  <2> QED
    BY <1>1, <1>3, <2>1 DEF BatchInv, TypeOK
<1>6. JobsStarted'
    BY <1>1 DEF BatchInv, JobsStarted
<1>7. OneAtATime'
  <2>1. Runs' = Runs /\ h \in Acting
    BY <1>1 DEF Runs, Acting
  <2> QED
    BY <1>1, <1>2, <2>1, GoesAlone DEF BatchInv
<1>8. InsertedInOrder'
    BY <1>1, <1>4, PositionsFacts DEF BatchInv, InsertedInOrder
<1>9. ItemsStarted'
  <2>1. hook[h].of \in started /\ First \in started /\ hook[h].of # None
    <3>1. hook[h].of \in started
      BY <1>1 DEF BatchInv, HooksInOrder
    <3> QED
      BY <3>1 DEF BatchConstants, BatchInv, JobsStarted, TypeOK
  <2>2. ASSUME NEW p \in Positions, item'[p] # None
        PROVE  /\ item'[p].elem \in {None, <<p>>, JobOf(p)}
               /\ item'[p].status # "pending" => JobOf(p) \in started'
    <3>1. CASE item'[p] = item[p]
      BY <1>1, <2>2, <3>1 DEF BatchInv, ItemsStarted
    <3>2. CASE /\ item[p] # None /\ item[p].elem = hook[h].of
               /\ item'[p] # None /\ item'[p].elem = item[p].elem
      <4>1. item[p].elem \in {None, <<p>>, JobOf(p)}
        BY <3>2 DEF BatchInv, ItemsStarted
      <4>2. hook[h].of \in {<<p>>, JobOf(p)}
        BY <2>1, <3>2, <4>1
      <4>3. JobOf(p) \in started
        BY <2>1, <4>2 DEF JobOf
      <4> QED
        BY <1>1, <3>2, <4>1, <4>3
    <3> QED
      BY <1>3, <3>1, <3>2
  <2> QED
    BY <2>2 DEF ItemsStarted, JobOf
<1>10. HooksInOrder'
    BY <1>1, <1>2, <1>4, GoesInOrder DEF BatchInv
<1>11. StartedInOrder'
    BY <1>1 DEF BatchInv, StartedInOrder
<1>12. HooksInTime'
    BY <1>1, <1>2, GoesInTime DEF BatchInv
<1>13. CompletedMeansNoneWaiting'
  <2>1. Pending' \subseteq Pending
    BY <1>3 DEF Pending
  <2> QED
    BY <1>1, <2>1 DEF BatchInv, CompletedMeansNoneWaiting
<1> QED
    BY <1>5, <1>6, <1>7, <1>8, <1>9, <1>10, <1>11, <1>12, <1>13 DEF BatchInv

\* The first item that waits comes after one that was started.
LEMMA NextInTurn ==
    ASSUME BatchConstants, BatchInv, NEW p \in Pending, \A q \in Pending : p <= q, p # 0
    PROVE  JobOf(p - 1) \in started
<1>1. /\ p \in Positions /\ item[p] # None /\ p - 1 \in Positions /\ ~(p <= p - 1)
    BY PositionsFacts DEF Pending
<1>2. item[p - 1] # None
    BY <1>1 DEF BatchInv, InsertedInOrder
<1>3. item[p - 1].status # "pending"
    BY <1>1, <1>2 DEF Pending
<1> QED
    BY <1>1, <1>2, <1>3 DEF BatchInv, ItemsStarted

\* The call chooses the item it will start, or completes the batch.
LEMMA NextItemKeeps ==
    ASSUME BatchConstants, BatchInv, NEW h \in Slots, NextItem(h) PROVE BatchInv'
<1>1. /\ hook[h] # None /\ hook[h].step = "next"
      /\ UNCHANGED <<document, item, step, at, jobs, live, mishaps, started, announced, again,
                     early>>
    BY NextItemEffect DEF BatchInv, work, history
<1>2. PICK c :
          /\ Goes(h, c)
          /\ \/ /\ c # None => hook[h].after /\ c.step = "mark" /\ ~c.after
                /\ Pending = {} /\ batch' = "completed"
             \/ /\ c # None /\ c.step = "start" /\ c.after = hook[h].after
                /\ c.pos \in Pending /\ \A q \in Pending : c.pos <= q
                /\ batch' = batch
    BY NextItemEffect DEF BatchInv
<1>3. TypeOK'
  <2>1. hook' \in [Slots -> {None} \cup HookCall]
    BY <1>2, GoesFacts DEF BatchInv
  <2>2. batch' \in {None, "running", "completed"}
    BY <1>2 DEF BatchInv, TypeOK
  <2> QED
    BY <1>1, <2>1, <2>2 DEF BatchInv, TypeOK
<1>4. JobsStarted'
    BY <1>1 DEF BatchInv, JobsStarted
<1>5. OneAtATime'
  <2>1. Runs' = Runs /\ h \in Acting
    BY <1>1 DEF Runs, Acting
  <2> QED
    BY <1>1, <1>2, <2>1, GoesAlone DEF BatchInv
<1>6. InsertedInOrder' /\ ItemsStarted' /\ StartedInOrder'
    BY <1>1 DEF BatchInv, InsertedInOrder, ItemsStarted, StartedInOrder, JobOf
<1>7. HooksInOrder'
  <2>1. c # None /\ c.step \in {"start", "record"} =>
            /\ item[c.pos] # None
            /\ c.pos # 0 => JobOf(c.pos - 1) \in started
    BY <1>2, NextInTurn DEF Pending
  <2>2. c # None /\ c.after => hook[h].after
    BY <1>2
  <2> QED
    BY <1>1, <1>2, <2>1, <2>2, GoesInOrder DEF BatchInv
<1>8. HooksInTime'
    BY <1>1, <1>2, GoesInTime DEF BatchInv
<1>9. CompletedMeansNoneWaiting'
  <2>1. Pending' = Pending
    BY <1>1 DEF Pending
  <2> QED
    BY <1>1, <1>2, <2>1 DEF BatchInv, CompletedMeansNoneWaiting
<1> QED
    BY <1>3, <1>4, <1>5, <1>6, <1>7, <1>8, <1>9 DEF BatchInv

\* The call starts the next job: it was the only one to act, and nothing ran.
LEMMA StartNextKeeps ==
    ASSUME BatchConstants, BatchInv, NEW h \in Slots, StartNext(h) PROVE BatchInv'
<1> DEFINE e == <<hook[h].pos>>
<1>1. /\ hook[h] # None /\ hook[h].step = "start" /\ hook[h].pos \in Positions
      /\ jobs' = [jobs EXCEPT ![e] = @ + 1]
      /\ live' = live \cup {e} /\ started' = started \cup {e}
      /\ UNCHANGED <<batch, document, item, step, at, mishaps, announced, again, early>>
    BY StartNextEffect DEF BatchInv, work, rows
<1>2. PICK c : Goes(h, c) /\ c # None /\ c.step = "record" /\ c.after = hook[h].after
               /\ c.pos = hook[h].pos
    BY StartNextEffect DEF BatchInv
<1>3. /\ e \in ElementIds /\ e # First
      /\ \A p \in Positions : <<p>> = e => p = hook[h].pos
    BY <1>1, ElementFacts
<1>4. First \in started
  <2>1. hook[h].of \in started
    BY <1>1 DEF BatchInv, HooksInOrder
  <2> QED
    BY <2>1 DEF BatchInv, JobsStarted
<1> HIDE DEF e
<1>5. TypeOK'
  <2>1. hook' \in [Slots -> {None} \cup HookCall]
    BY <1>2, GoesFacts DEF BatchInv
  <2> QED
    BY <1>1, <1>3, <2>1 DEF BatchInv, TypeOK
<1>6. JobsStarted'
  <2>1. \A f \in ElementIds : jobs'[f] > 0 => f \in started'
    BY <1>1 DEF BatchInv, JobsStarted, TypeOK
  <2> QED
    BY <1>1, <1>4, <2>1 DEF BatchInv, JobsStarted
<1>7. OneAtATime'
  <2>1. SUFFICES ASSUME ~again' PROVE Acting' = {} /\ \A f \in Runs' : f = e
    BY DEF OneAtATime
  <2>2. h \in Acting
    BY <1>1 DEF Acting
  <2>3. Runs = {} /\ \A i \in Acting : i = h
    BY <1>1, <2>1, <2>2 DEF BatchInv, OneAtATime
  <2>4. Runs' \subseteq Runs \cup {e}
    <3>1. \A f \in ElementIds \ {e} : jobs'[f] = jobs[f]
      BY <1>1 DEF BatchInv, TypeOK
    <3> QED
      BY <1>1, <3>1 DEF Runs
  <2>5. Acting' = {}
    <3>1. hook'[h] = c /\ \A i \in Slots \ {h} : hook'[i] = hook[i]
      BY <1>2, GoesFacts DEF BatchInv
    <3> QED
      BY <1>2, <2>3, <3>1 DEF Acting
  <2> QED
    BY <2>3, <2>4, <2>5
<1>8. InsertedInOrder'
    BY <1>1 DEF BatchInv, InsertedInOrder
<1>9. ItemsStarted'
    BY <1>1 DEF BatchInv, ItemsStarted, JobOf
<1>10. HooksInOrder'
  <2>1. /\ item[c.pos] # None
        /\ c.pos # 0 => JobOf(c.pos - 1) \in started'
    BY <1>1, <1>2 DEF BatchInv, HooksInOrder
  <2>2. c.after => hook[h].after
    BY <1>2
  <2> QED
    BY <1>1, <1>2, <2>1, <2>2, GoesInOrder DEF BatchInv
<1>11. StartedInOrder'
  <2>1. ASSUME NEW q \in Positions \ {0}, <<q>> \in started'
        PROVE  (IF q = 1 THEN First ELSE <<q - 1>>) \in started'
    <3>1. CASE <<q>> = e
      <4>1. q = hook[h].pos
        BY <1>3, <3>1
      <4>2. JobOf(q - 1) \in started
        BY <1>1, <4>1 DEF BatchInv, HooksInOrder
      <4>3. q \in Nat
        BY PositionsFacts
      <4> QED
        BY <1>1, <4>2, <4>3 DEF JobOf
    <3>2. CASE <<q>> # e
      BY <1>1, <2>1, <3>2 DEF BatchInv, StartedInOrder
    <3> QED
      BY <3>1, <3>2
  <2> QED
    BY <2>1 DEF StartedInOrder
<1>12. HooksInTime'
    BY <1>1, <1>2, GoesInTime DEF BatchInv
<1>13. CompletedMeansNoneWaiting'
    BY <1>1 DEF BatchInv, CompletedMeansNoneWaiting, Pending
<1> QED
    BY <1>5, <1>6, <1>7, <1>8, <1>9, <1>10, <1>11, <1>12, <1>13 DEF BatchInv

\* The call enters the element of the job it started, and returns.
LEMMA RecordNextKeeps ==
    ASSUME BatchConstants, BatchInv, NEW h \in Slots, RecordNext(h) PROVE BatchInv'
<1>1. /\ hook[h] # None /\ hook[h].step = "record" /\ hook[h].pos \in Positions
      /\ item' = [item EXCEPT ![hook[h].pos].elem = <<hook[h].pos>>]
      /\ UNCHANGED <<batch, document, step, at, jobs, live, mishaps, started, announced, again,
                     early>>
    BY RecordNextEffect DEF BatchInv, work, history
<1>2. PICK c : /\ Goes(h, c)
               /\ c # None => hook[h].after /\ c.step = "mark" /\ ~c.after
    BY RecordNextEffect DEF BatchInv
<1>3. item[hook[h].pos] # None
    BY <1>1 DEF BatchInv, HooksInOrder
<1> DEFINE p == hook[h].pos
           new == [item[p] EXCEPT !.elem = <<p>>]
<1>4. /\ new \in Item /\ new.elem = <<p>> /\ new.status = item[p].status /\ new # None
  <2>1. item[p] \in Item /\ <<p>> \in ElementIds
    BY <1>1, <1>3, ElementFacts DEF BatchInv, TypeOK
  <2>2. new \in Item /\ new.elem = <<p>> /\ new.status = item[p].status
    BY <2>1 DEF Item
  <2> QED
    BY <2>2 DEF BatchConstants
<1>5. item' = [item EXCEPT ![p] = new]
    BY <1>1
<1> HIDE DEF p, new
<1>6. /\ item' \in [Positions -> {None} \cup Item]
      /\ \A q \in Positions :
             \/ item'[q] = item[q]
             \/ /\ item[q] # None /\ item'[q] # None
                /\ item'[q].elem = <<q>> /\ item'[q].status = item[q].status
    BY <1>1, <1>3, <1>4, <1>5 DEF BatchInv, TypeOK, p
<1>7. \A q \in Positions : item'[q] # None <=> item[q] # None
    BY <1>6
<1>8. TypeOK'
  <2>1. hook' \in [Slots -> {None} \cup HookCall]
    BY <1>2, GoesFacts DEF BatchInv
  <2> QED
    BY <1>1, <1>6, <2>1 DEF BatchInv, TypeOK
<1>9. JobsStarted'
    BY <1>1 DEF BatchInv, JobsStarted
<1>10. OneAtATime'
  <2>1. Runs' = Runs
    BY <1>1 DEF Runs
  <2>2. c = None \/ again
    BY <1>1, <1>2 DEF BatchInv, HooksInOrder
  <2> QED
    BY <1>1, <1>2, <2>1, <2>2, GoesAlone DEF BatchInv
<1>11. InsertedInOrder'
    BY <1>1, <1>7, PositionsFacts DEF BatchInv, InsertedInOrder
<1>12. ItemsStarted'
  <2>1. ASSUME NEW q \in Positions, item'[q] # None
        PROVE  /\ item'[q].elem \in {None, <<q>>, JobOf(q)}
               /\ item'[q].status # "pending" => JobOf(q) \in started'
    BY <1>1, <1>6, <2>1 DEF BatchInv, ItemsStarted
  <2> QED
    BY <2>1 DEF ItemsStarted, JobOf
<1>13. HooksInOrder'
    BY <1>1, <1>2, <1>7, GoesInOrder DEF BatchInv
<1>14. StartedInOrder'
    BY <1>1 DEF BatchInv, StartedInOrder
<1>15. HooksInTime'
    BY <1>1, <1>2, GoesInTime DEF BatchInv
<1>16. CompletedMeansNoneWaiting'
  <2>1. Pending' \subseteq Pending
    BY <1>6 DEF Pending
  <2> QED
    BY <1>1, <2>1 DEF BatchInv, CompletedMeansNoneWaiting
<1> QED
    BY <1>8, <1>9, <1>10, <1>11, <1>12, <1>13, <1>14, <1>15, <1>16 DEF BatchInv

\* The call fails, and returns.
LEMMA GiveUpKeeps ==
    ASSUME BatchConstants, BatchInv, NEW h \in Slots, GiveUp(h) PROVE BatchInv'
<1>1. /\ hook[h] # None /\ mishaps' \in 0..MaxMishaps
      /\ UNCHANGED <<batch, document, item, step, at, jobs, live, started, announced, again,
                     early>>
    BY GiveUpEffect DEF BatchInv, work, rows, history
<1>2. PICK c : /\ Goes(h, c)
               /\ c # None => hook[h].after /\ c.step = "mark" /\ ~c.after
    BY GiveUpEffect DEF BatchInv
<1>3. TypeOK'
  <2>1. hook' \in [Slots -> {None} \cup HookCall]
    BY <1>2, GoesFacts DEF BatchInv
  <2> QED
    BY <1>1, <2>1 DEF BatchInv, TypeOK
<1>4. OneAtATime'
  <2>1. Runs' = Runs
    BY <1>1 DEF Runs
  <2>2. c = None \/ again
    BY <1>1, <1>2 DEF BatchInv, HooksInOrder
  <2> QED
    BY <1>1, <1>2, <2>1, <2>2, GoesAlone DEF BatchInv
<1>5. JobsStarted' /\ InsertedInOrder' /\ ItemsStarted' /\ StartedInOrder'
    BY <1>1 DEF BatchInv, JobsStarted, InsertedInOrder, ItemsStarted, StartedInOrder, JobOf
<1>6. HooksInOrder'
    BY <1>1, <1>2, GoesInOrder DEF BatchInv
<1>7. HooksInTime'
    BY <1>1, <1>2, GoesInTime DEF BatchInv
<1>8. CompletedMeansNoneWaiting'
    BY <1>1 DEF BatchInv, CompletedMeansNoneWaiting, Pending
<1> QED
    BY <1>3, <1>4, <1>5, <1>6, <1>7, <1>8 DEF BatchInv

-----------------------------------------------------------------------------
(* The invariant, and what follows from it *)

\* Before anything happens.
LEMMA InitHolds ==
    ASSUME BatchConstants, Init PROVE BatchInv
<1> USE DEF Init
<1>1. TypeOK
  <2>1. 0 \in 0..N /\ 0 \in 0..MaxMishaps
    BY DEF BatchConstants
  <2>2. /\ item \in [Positions -> {None} \cup Item] /\ jobs \in [ElementIds -> Nat]
        /\ hook \in [Slots -> {None} \cup HookCall]
    OBVIOUS
  <2> QED
    BY <2>1, <2>2 DEF TypeOK
<1>2. JobsStarted /\ OneAtATime /\ InsertedInOrder
    BY DEF JobsStarted, OneAtATime, Runs, Acting, InsertedInOrder
<1>3. ItemsStarted /\ HooksInOrder /\ StartedInOrder
    BY DEF ItemsStarted, HooksInOrder, StartedInOrder
<1>4. HooksInTime /\ CompletedMeansNoneWaiting
    BY DEF BatchConstants, HooksInTime, CompletedMeansNoneWaiting, Slots
<1> QED
    BY <1>1, <1>2, <1>3, <1>4 DEF BatchInv

\* Every step keeps the invariant.
LEMMA NextKeeps ==
    ASSUME BatchConstants, BatchInv, [Next]_vars PROVE BatchInv'
<1>1. CASE Create
    BY <1>1, InsertBatchKeeps, InsertItemKeeps, StartFirstKeeps, RecordFirstKeeps DEF Create
<1>2. ASSUME NEW e \in ElementIds,
             \/ \E o \in Outcomes : JobEnds(e, o)
             \/ SaveFails(e) \/ CancelJob(e) \/ CancelStuck(e)
      PROVE  BatchInv'
  <2>1. TypeOK
    BY DEF BatchInv
  <2>2. PICK slots \in {Handlers, {"startup"}}, after \in BOOLEAN : Ending(e, slots, after)
    BY <1>2, <2>1, EndingCases
  <2> QED
    BY <2>2, EndingKeeps
<1>3. ASSUME NEW e \in ElementIds, DeleteElement(e) PROVE BatchInv'
    BY <1>3, DeleteElementKeeps
<1>4. ASSUME NEW h \in Slots, Handle(h) \/ GiveUp(h) PROVE BatchInv'
    BY <1>4, MarkItemKeeps, NextItemKeeps, StartNextKeeps, RecordNextKeeps, GiveUpKeeps DEF Handle
<1>5. ASSUME NEW lost \in BOOLEAN, Restart(lost) PROVE BatchInv'
    BY <1>5, RestartKeeps
<1>6. CASE CoreSynced \/ SyncBatch
    BY <1>6, CoreSyncedKeeps, SyncBatchKeeps
<1>7. CASE UNCHANGED vars
    BY <1>7, StutterKeeps
<1> QED
    BY <1>1, <1>2, <1>3, <1>4, <1>5, <1>6, <1>7 DEF Next

\* The inductive invariant holds in every reachable state, for any number of variants, hook
\* calls and mishaps (CreateBatchFromVariants, HandleJobTerminal, SyncAndCleanup).
THEOREM BatchInvariance == ASSUME BatchConstants PROVE Steps => []BatchInv
<1>1. Init => BatchInv
    BY InitHolds
<1>2. BatchInv /\ [Next]_vars => BatchInv'
    BY NextKeeps
<1> QED
    BY <1>1, <1>2, PTL DEF Steps

\* A batch has at most one job row at a time (CreateBatchFromVariants, HandleJobTerminal).
THEOREM OneJobAtATime == ASSUME BatchConstants PROVE Steps => []Sequential
<1>1. BatchInv => Sequential
  <2> SUFFICES ASSUME BatchInv, ~again PROVE Cardinality(live) <= 1
    BY DEF Sequential
  <2>1. \A e, f \in live : e = f
    BY DEF BatchInv, OneAtATime, Runs
  <2>2. CASE live = {}
    BY <2>2, FS_EmptySet
  <2>3. CASE live # {}
    <3>1. PICK e \in live : TRUE
      BY <2>3
    <3>2. live = {e}
      BY <2>1, <3>1
    <3>3. Cardinality({e}) = 1
      BY FS_Singleton
    <3> QED
      BY <3>2, <3>3
  <2> QED
    BY <2>2, <2>3
<1> QED
    BY <1>1, BatchInvariance, PTL

\* Items are started in the order of their positions (nextPendingItem).
THEOREM StartsInOrder == ASSUME BatchConstants PROVE Steps => []StartedInOrder
<1>1. BatchInv => StartedInOrder
    BY DEF BatchInv
<1> QED
    BY <1>1, BatchInvariance, PTL

\* A completed batch has no item waiting (HandleJobTerminal, CompleteBatch).
THEOREM CompletedIsOver == ASSUME BatchConstants PROVE Steps => []CompletedMeansNoneWaiting
<1>1. BatchInv => CompletedMeansNoneWaiting
    BY DEF BatchInv
<1> QED
    BY <1>1, BatchInvariance, PTL
=============================================================================
