---------------------------- MODULE FeedbackProofs ----------------------------
(***************************************************************************)
(* Proofs about the feedback ledger of UpdateLoop against the history of    *)
(* the rejections that reached main: what it counts, and how often the      *)
(* loop moves main.                                                        *)
(***************************************************************************)
EXTENDS UpdateLoopProofs, SequenceTheorems

-----------------------------------------------------------------------------
(* The ledger agrees with a history. *)

Filings == [source : Sources, tree : Contents, run : Nat \ {0}, override : BOOLEAN]

\* The ledger's entry of s is about the content of the latest rejection of s in
\* h, and counts those in a row.
Tallies(l, h, s) ==
    /\ l[s] = None => OfSource(h, s) = {}
    /\ l[s] # None =>
          /\ \E m \in OfSource(h, s) :
                /\ \A j \in OfSource(h, s) : j <= m
                /\ h[m].tree = l[s].report.tree
          /\ Cardinality(InARow(h, s)) = l[s].count

\* g is h with one more rejection e, the n-th.
Extends(g, n, h, e) == n = Len(h) + 1 /\ g = Append(h, e)

LEMMA OfSourceFacts ==
    ASSUME NEW h \in Seq(Filings), NEW s
    PROVE  /\ OfSource(h, s) \subseteq 1 .. Len(h) /\ InARow(h, s) \subseteq 1 .. Len(h)
           /\ IsFiniteSet(OfSource(h, s)) /\ IsFiniteSet(InARow(h, s))
           /\ Len(h) \in Nat
<1>1. Len(h) \in Nat /\ DOMAIN h = 1 .. Len(h)
    BY LenProperties
<1>2. OfSource(h, s) \subseteq 1 .. Len(h) /\ InARow(h, s) \subseteq 1 .. Len(h)
    BY <1>1 DEF OfSource, InARow
<1>3. IsFiniteSet(1 .. Len(h))
    BY <1>1, FS_Interval
<1> QED BY <1>1, <1>2, <1>3, FS_Subset

\* One more rejection, filed for source e.source.
LEMMA AppendOfSource ==
    ASSUME NEW h \in Seq(Filings), NEW e \in Filings, NEW s \in Sources,
           NEW g, NEW n, Extends(g, n, h, e)
    PROVE  /\ g \in Seq(Filings) /\ g[n] = e /\ n \notin OfSource(h, s) /\ n \in Nat
           /\ \A i \in OfSource(h, s) : g[i] = h[i] /\ i < n /\ i \in Nat
           /\ e.source = s => OfSource(g, s) = OfSource(h, s) \cup {n}
           /\ e.source # s => OfSource(g, s) = OfSource(h, s)
<1>1. /\ Len(h) \in Nat /\ DOMAIN h = 1 .. Len(h) /\ g \in Seq(Filings)
      /\ DOMAIN g = 1 .. n /\ g[n] = e /\ \A i \in 1 .. Len(h) : g[i] = h[i]
      /\ n = Len(h) + 1
    BY LenProperties DEF Extends
<1>2. OfSource(h, s) \subseteq 1 .. Len(h)
    BY OfSourceFacts
<1>3. n \notin OfSource(h, s) /\ \A i \in OfSource(h, s) : g[i] = h[i] /\ i < n /\ i \in Nat
    BY <1>1, <1>2
<1>4. n \in Nat /\ \A i : i \in 1 .. n <=> i \in 1 .. Len(h) \/ i = n
    BY <1>1
<1>5. ASSUME NEW i PROVE i \in OfSource(g, s) <=> i \in OfSource(h, s) \/ (i = n /\ e.source = s)
    BY <1>1, <1>4 DEF OfSource
<1>6. e.source = s => OfSource(g, s) = OfSource(h, s) \cup {n}
    BY <1>5
<1>7. e.source # s => OfSource(g, s) = OfSource(h, s)
    BY <1>5
<1> QED BY <1>1, <1>3, <1>4, <1>6, <1>7

\* Of another source, nothing changes.
LEMMA OthersTally ==
    ASSUME NEW h \in Seq(Filings), NEW e \in Filings, NEW s \in Sources, s # e.source,
           NEW l \in Ledgers, NEW k \in Ledgers, k[s] = l[s], Tallies(l, h, s),
           NEW g, NEW n, Extends(g, n, h, e)
    PROVE  Tallies(k, g, s)
<1>1. OfSource(g, s) = OfSource(h, s) /\ \A i \in OfSource(h, s) : g[i] = h[i]
    BY AppendOfSource
<1>2. InARow(g, s) = InARow(h, s)
    BY <1>1 DEF InARow
<1> QED BY <1>1, <1>2 DEF Tallies

\* The rejections in a row after one more: it alone after an explicit retry or about
\* a new content, and one more otherwise.
LEMMA StreakAfter ==
    ASSUME NEW h \in Seq(Filings), NEW e \in Filings, NEW s \in Sources, s = e.source,
           NEW g, NEW n, Extends(g, n, h, e)
    PROVE  InARow(g, s) = {n} \cup {i \in InARow(h, s) : h[i].tree = e.tree /\ ~e.override}
<1> DEFINE I == OfSource(h, s)
<1>1. /\ g[n] = e /\ n \notin I /\ OfSource(g, s) = I \cup {n} /\ n \in Nat
      /\ \A i \in I : g[i] = h[i] /\ i < n /\ i \in Nat
    BY AppendOfSource
<1>2. n \in InARow(g, s)
    BY <1>1 DEF InARow
<1>3. ASSUME NEW i \in I
      PROVE  i \in InARow(g, s) <=> i \in InARow(h, s) /\ e.tree = h[i].tree /\ ~e.override
    BY <1>1 DEF InARow
<1>4. InARow(g, s) \subseteq I \cup {n} /\ InARow(h, s) \subseteq I
    BY <1>1 DEF InARow
<1> QED BY <1>1, <1>2, <1>3, <1>4

\* Recording a report in the ledger and filing it in the history keep both in step.
LEMMA FiledTally ==
    ASSUME NEW h \in Seq(Filings), NEW l \in Ledgers, NEW report \in Reports,
           NEW override \in BOOLEAN, NEW s \in Sources, s = report.source,
           Advances(l, report, override), Tallies(l, h, s),
           NEW e \in Filings, e.source = s, e.tree = report.tree, e.override = override,
           NEW g, NEW n, Extends(g, n, h, e), NEW k, k = Recorded(l, report, override)
    PROVE  Tallies(k, g, s)
<1> DEFINE row == InARow(h, s)
<1>1. /\ g[n] = e /\ n \notin OfSource(h, s) /\ OfSource(g, s) = OfSource(h, s) \cup {n}
      /\ \A i \in OfSource(h, s) : g[i] = h[i] /\ i < n /\ i \in Nat
      /\ n \in Nat
    BY AppendOfSource
<1>2. /\ k[s].report = report /\ k[s] # None
      /\ override => k[s].count = 1
      /\ ~override => k[s].count = 1 + Spent(l, s, report.tree)
  <2>1. k \in Ledgers /\ k[s].report = report /\ k[s] # None
      BY RecordedFacts
  <2>2. l \in [Sources -> Entries \cup {None}]
      BY DEF Ledgers
  <2>3. k = [l EXCEPT ![s] =
                [count |-> 1 + IF override THEN 0 ELSE Spent(l, s, report.tree),
                 report |-> report]]
      BY DEF Recorded
  <2>4. k[s].count = 1 + IF override THEN 0 ELSE Spent(l, s, report.tree)
      BY <2>2, <2>3
  <2>5. override => k[s].count = 1 + 0
      BY <2>4, Zenon
  <2>6. ~override => k[s].count = 1 + Spent(l, s, report.tree)
      BY <2>4, Zenon
  <2> QED BY <2>1, <2>5, <2>6
<1>3. \E m \in OfSource(g, s) : (\A j \in OfSource(g, s) : j <= m) /\ g[m].tree = report.tree
    BY <1>1
<1>4. /\ InARow(g, s) = {n} \cup {i \in row : h[i].tree = report.tree /\ ~override}
      /\ IsFiniteSet(row) /\ n \notin row /\ row \subseteq OfSource(h, s)
  <2>1. InARow(g, s) = {n} \cup {i \in row : h[i].tree = e.tree /\ ~e.override}
      BY StreakAfter
  <2>2. {i \in row : h[i].tree = e.tree /\ ~e.override}
            = {i \in row : h[i].tree = report.tree /\ ~override}
      BY Zenon
  <2>3. IsFiniteSet(row) /\ row \subseteq OfSource(h, s)
      BY OfSourceFacts DEF InARow
  <2> HIDE DEF row
  <2> QED BY <1>1, <2>1, <2>2, <2>3
<1>5. Cardinality(InARow(g, s)) = k[s].count
  <2>1. CASE override
    <3>1. {i \in row : h[i].tree = report.tree /\ ~override} = {}
        BY <2>1, Zenon
    <3>2. InARow(g, s) = {n}
        BY <1>4, <3>1
    <3>3. Cardinality(InARow(g, s)) = 1
        BY <3>2, FS_Singleton
    <3> QED BY <1>2, <2>1, <3>3
  <2>2. CASE ~override /\ l[s] = None
    <3>1. row = {}
        BY <2>2 DEF Tallies, InARow
    <3>2. InARow(g, s) = {n} /\ Spent(l, s, report.tree) = 0
        BY <1>4, <2>2, <3>1 DEF Spent
    <3>3. Cardinality(InARow(g, s)) = 1
        BY <3>2, FS_Singleton
    <3> QED BY <1>2, <2>2, <3>2, <3>3
  <2>3. CASE ~override /\ l[s] # None
    <3>1. PICK m \in OfSource(h, s) : /\ \A j \in OfSource(h, s) : j <= m
                                      /\ h[m].tree = l[s].report.tree
        BY <2>3 DEF Tallies
    <3>2. ASSUME NEW i \in row PROVE h[i].tree = l[s].report.tree
      <4>1. i \in OfSource(h, s) /\ i <= m /\ i \in Nat /\ m \in Nat
          BY <1>1, <1>4, <3>1
      <4>2. CASE i = m
          BY <3>1, <4>2
      <4>3. CASE i < m
          BY <3>1, <4>3 DEF InARow
      <4> QED BY <4>1, <4>2, <4>3
    <3>3. CASE l[s].report.tree = report.tree
      <4>1. InARow(g, s) = row \cup {n}
          BY <1>4, <2>3, <3>2, <3>3
      <4>2. Cardinality(InARow(g, s)) = Cardinality(row) + 1
          BY <1>4, <4>1, FS_AddElement
      <4>3. Spent(l, s, report.tree) = l[s].count /\ Cardinality(row) = l[s].count
          BY <2>3, <3>3 DEF Spent, Tallies
      <4>4. l[s].count \in Nat
          BY <2>3, LedgerFacts, Limits
      <4> QED BY <1>2, <2>3, <4>2, <4>3, <4>4
    <3>4. CASE l[s].report.tree # report.tree
      <4>1. \A i \in row : h[i].tree # report.tree
          BY <3>2, <3>4
      <4>2. {i \in row : h[i].tree = report.tree /\ ~override} = {}
          BY <4>1, Zenon
      <4>3. InARow(g, s) = {n} /\ Spent(l, s, report.tree) = 0
          BY <1>4, <3>4, <4>2 DEF Spent
      <4>4. Cardinality(InARow(g, s)) = 1
          BY <4>3, FS_Singleton
      <4> QED BY <1>2, <2>3, <4>3, <4>4
    <3> QED BY <3>3, <3>4
  <2> QED BY <2>1, <2>2, <2>3
<1> QED BY <1>2, <1>3, <1>5 DEF Tallies

-----------------------------------------------------------------------------
(* What a step does to the rejections on main. *)

\* The head of main stays, or moves on by one commit.
LEMMA HeadMoves == ASSUME IInv, [Next]_vars PROVE MainMoves
<1>1. Forward(main.ledger, main'.ledger) /\ main \in Branches
    BY LedgerKeeps DEF IInv, Shape
<1>2. ASSUME NEW l, main' = Pushed(l) PROVE main'.sha = main.sha + 1
    BY <1>1, <1>2 DEF Pushed, Branches
<1>3. ASSUME HumanPush PROVE main'.sha = main.sha + 1
    BY <1>2, <1>3 DEF HumanPush
<1>4. ASSUME NEW r \in Runs, Merge(r) PROVE main'.sha = main.sha + 1
    BY <1>1, <1>4 DEF Merge, Branches
<1>5. ASSUME NEW r \in Runs, RecordWrite(r) PROVE main'.sha = main.sha + 1
    BY <1>2, <1>5 DEF RecordWrite
<1>6. ASSUME NEW r \in Runs, OperatorCloses(r), main' # main PROVE main'.sha = main.sha + 1
    BY <1>2, <1>6 DEF OperatorCloses
<1> QED BY <1>1, <1>3, <1>4, <1>5, <1>6, MainSteps DEF MainMoves

\* The rejection of r reaches main.
Files(r) ==
    /\ Proposed(r) /\ gate[r].id # 0
    /\ Advances(main.ledger, Report(r), run[r].override)
    /\ main'.ledger = Recorded(main.ledger, Report(r), run[r].override)
    /\ Remember(Report(r), run[r].override)

\* Only these steps file a rejection.
LEMMA HistorySteps ==
    ASSUME [Next]_vars, history' # history
    PROVE  \E r \in Runs : RecordWrite(r) \/ OperatorCloses(r)
<1>1. ASSUME NEW r \in Runs, Maintenance(r) PROVE FALSE
    BY <1>1 DEF Maintenance, Plan, PlanSkips, PlanFails, Decide, DecideNothing, DetectFails,
                MaintainEmpty, MaintainFails, Maintained, PublishCheck, PublishFails, Proposes,
                Publish, PublishLost, Fails, SucceedsWithoutCandidate
<1>2. ASSUME NEW r \in Runs, Gate(r) PROVE RecordWrite(r)
    BY <1>2 DEF Gate, Start, Resolve, Prepare, PrepareFails, Test, Review, JobsDone, Recheck,
                Merge, MergeRefused, DispatchCI, RecordRead, RecordFails, Cleanup,
                CleanupFails, OnlyGate
<1>3. ASSUME Environment PROVE \E r \in Runs : OperatorCloses(r)
    BY <1>3 DEF Environment, UpstreamMoves, HumanPush, OperatorRunsCI, BaseRefreshed, RerunRun,
                Rerun, OnlyGate
<1> QED BY <1>1, <1>2, <1>3 DEF Next, Dispatch, vars

\* The feedback job, and the operator who reconciles, file a rejection that is newer than
\* what the ledger holds.
LEMMA FilesBy ==
    ASSUME IInv, NEW r \in Runs, RecordWrite(r) \/ (OperatorCloses(r) /\ main' # main)
    PROVE  Files(r)
<1>1. Shape /\ main \in Branches /\ main.ledger \in Ledgers
    BY DEF IInv, Shape, Branches
<1>2. ASSUME Proposed(r), gate[r].id # 0, Advances(main.ledger, Report(r), run[r].override),
             main' = Pushed(Recorded(main.ledger, Report(r), run[r].override)),
             Remember(Report(r), run[r].override)
      PROVE  Files(r)
  <2>1. Report(r) \in Reports /\ run[r].override \in BOOLEAN
      BY <1>1, <1>2, ReportFacts DEF IInv, RunOK
  <2>2. main'.ledger = Recorded(main.ledger, Report(r), run[r].override)
      BY <1>1, <1>2, <2>1, RecordedFacts, PushedFacts
  <2> QED BY <1>2, <2>2 DEF Files
<1>3. CASE RecordWrite(r)
  <2>1. GateOK(r) /\ gate[r].pc = "record_write"
      BY <1>3 DEF IInv, RecordWrite
  <2>2. /\ Proposed(r) /\ Current(r) /\ gate[r].id # 0
        /\ Advances(gate[r].seen.ledger, Report(r), run[r].override)
      BY <2>1 DEF GateOK, Rejected, Unjudged
  <2>3. gate[r].seen = main
      BY <1>3, <2>2 DEF RecordWrite, CanUpdate, Current
  <2> QED BY <1>2, <1>3, <2>2, <2>3 DEF RecordWrite
<1>4. CASE OperatorCloses(r) /\ main' # main
    BY <1>2, <1>4 DEF OperatorCloses, Proposed, IInv, GateOK, Rejected, Unjudged
<1> QED BY <1>3, <1>4

\* A step files one rejection, or none.
LEMMA FilingSteps ==
    ASSUME IInv, [Next]_vars
    PROVE  \/ history' = history /\ main'.ledger = main.ledger
           \/ \E r \in Runs : Files(r) /\ (RecordWrite(r) \/ OperatorCloses(r))
<1>1. Shape /\ main \in Branches /\ main.ledger \in Ledgers
    BY DEF IInv, Shape, Branches
<1>2. ASSUME NEW r \in Runs, OperatorCloses(r), history' # history, main' = main
      PROVE  FALSE
  <2>1. main' = Pushed(Recorded(main.ledger, Report(r), run[r].override))
      BY <1>2 DEF OperatorCloses
  <2>2. main'.sha = main.sha + 1
      BY <1>1, <2>1 DEF Pushed, Branches
  <2> QED BY <1>1, <1>2, <2>2 DEF Branches
<1>3. CASE HumanPush
  <2>1. main'.ledger = main.ledger
      BY <1>1, <1>3, SameLedgerForward, PushedFacts DEF HumanPush
  <2> QED BY <1>3, <2>1 DEF HumanPush
<1>4. ASSUME NEW r \in Runs, Merge(r) PROVE history' = history /\ main'.ledger = main.ledger
    BY <1>1, <1>4 DEF Merge, Branches
<1> QED BY <1>2, <1>3, <1>4, FilesBy, MainSteps, HistorySteps

-----------------------------------------------------------------------------
(* What a step does to a gate, and what of main it may have seen. *)

\* A step of a maintenance run r: it is not over, and triggers or joins, or neither.
LEMMA MaintenanceFacts ==
    ASSUME IInv, NEW r \in Runs, Maintenance(r)
    PROVE  /\ run[r].pc # "succeeded" /\ gate[r].id = 0 /\ history' = history
           /\ gate' = gate \/ Trigger(r) \/ gate' = Joined(r)
<1>1. run[r].pc # "succeeded"
    BY DEF Maintenance, Plan, PlanSkips, PlanFails, Decide, DecideNothing, DetectFails,
           MaintainEmpty, MaintainFails, Maintained, PublishCheck, PublishFails, Publish,
           PublishLost, Proposes
<1>2. history' = history /\ (gate' = gate \/ Trigger(r) \/ gate' = Joined(r))
    BY DEF Maintenance, Plan, PlanSkips, PlanFails, Decide, DecideNothing, DetectFails,
           MaintainEmpty, MaintainFails, Maintained, PublishCheck, PublishFails, Publish,
           PublishLost, Proposes, Fails, SucceedsWithoutCandidate
<1> QED BY <1>1, <1>2, AtWork

\* Beside the runs, only its own steps and a rerun touch the gate of q.
LEMMA OtherGateSteps ==
    ASSUME IInv, [Next]_vars, NEW q \in Runs, \A r \in Runs : ~Maintenance(r)
    PROVE  gate'[q] = gate[q] \/ Gate(q) \/ \E all \in BOOLEAN : Rerun(q, all)
<1>1. gate \in [Runs -> GateRecords]
    BY DEF IInv, Shape
<1>2. ASSUME NEW r \in Runs, r # q, Gate(r) PROVE gate'[q] = gate[q]
  <2>1. ASSUME NEW label, GateTo(r, label) PROVE gate'[q] = gate[q]
      BY <1>1, <1>2, <2>1 DEF GateTo
  <2>2. CASE \E result \in {"success", "failure"} : Test(r, result)
      BY <1>1, <1>2, <2>2 DEF Test
  <2>3. CASE \E verdict \in {"approved", "rejected", "failure"} : Review(r, verdict)
      BY <1>1, <1>2, <2>3 DEF Review
  <2>4. CASE Merge(r)
      BY <1>1, <1>2, <2>4 DEF Merge
  <2>5. CASE RecordRead(r)
      BY <1>1, <1>2, <2>5 DEF RecordRead
  <2>6. CASE RecordWrite(r)
      BY <1>1, <1>2, <2>1, <2>6 DEF RecordWrite
  <2> QED BY <1>2, <2>1, <2>2, <2>3, <2>4, <2>5, <2>6 DEF Gate, Start, Resolve, Prepare,
          PrepareFails, JobsDone, Recheck, MergeRefused, DispatchCI, RecordFails, Cleanup,
          CleanupFails
<1>3. ASSUME NEW r \in Runs, r # q, NEW all \in BOOLEAN, Rerun(r, all) PROVE gate'[q] = gate[q]
  <2>1. PICK n, t, v, k :
            gate' = [gate EXCEPT ![r].pc = "pending", ![r].attempt = n, ![r].tests = t,
                                 ![r].review = v, ![r].recorded = k]
      BY <1>3, Zenon DEF Rerun
  <2>2. gate' = [gate EXCEPT ![r] = [gate[r] EXCEPT !.pc = "pending", !.attempt = n, !.tests = t,
                                                    !.review = v, !.recorded = k]]
      BY <1>1, <2>1, RerunOfOne
  <2> QED BY <1>1, <1>3, <2>2
<1>4. CASE Environment
    BY <1>3, <1>4 DEF Environment, UpstreamMoves, HumanPush, OperatorRunsCI, BaseRefreshed,
                      OperatorCloses, RerunRun
<1> QED BY <1>2, <1>4 DEF Next, Dispatch, vars

\* Only these steps touch the gate of q.
LEMMA GateSteps ==
    ASSUME IInv, [Next]_vars, NEW q \in Runs
    PROVE  \/ gate'[q] = gate[q]
           \/ Gate(q) \/ \E all \in BOOLEAN : Rerun(q, all)
           \/ gate[q].id = 0 /\ gate'[q] = [NewGate EXCEPT !.id = 1 + Cardinality(Gates)]
           \/ gate[q].pc = "pending" /\ gate'[q] = [gate[q] EXCEPT !.pc = "completed"]
<1>1. ASSUME NEW r \in Runs, Maintenance(r), gate'[q] # gate[q]
      PROVE  \/ gate[q].id = 0 /\ gate'[q] = [NewGate EXCEPT !.id = 1 + Cardinality(Gates)]
             \/ gate[q].pc = "pending" /\ gate'[q] = [gate[q] EXCEPT !.pc = "completed"]
  <2>1. gate[r].id = 0 /\ (Trigger(r) \/ gate' = Joined(r))
      BY <1>1, MaintenanceFacts
  <2>2. /\ DOMAIN Joined(r) = Runs /\ Joined(r)[r] = gate[r]
        /\ Joined(r)[q] = gate[q] \/ /\ gate[q].pc = "pending"
                                     /\ Joined(r)[q] = [gate[q] EXCEPT !.pc = "completed"]
      BY DEF Joined
  <2>3. CASE q = r
      BY <1>1, <2>1, <2>2, <2>3 DEF Trigger
  <2>4. CASE q # r
      BY <1>1, <2>1, <2>2, <2>4 DEF Trigger
  <2> QED BY <2>3, <2>4
<1> QED BY <1>1, OtherGateSteps

\* The steps of a gate that only give it another label.
Moves(r) ==
    \/ Start(r) \/ Resolve(r) \/ Prepare(r) \/ PrepareFails(r) \/ JobsDone(r) \/ Recheck(r)
    \/ MergeRefused(r) \/ DispatchCI(r) \/ RecordFails(r) \/ Cleanup(r) \/ CleanupFails(r)

LEMMA MovesFacts ==
    ASSUME Shape, NEW r \in Runs, Moves(r)
    PROVE  /\ gate'[r].tests = gate[r].tests /\ gate'[r].review = gate[r].review
           /\ gate'[r].seen = gate[r].seen /\ gate'[r].id = gate[r].id
           /\ gate'[r].pc = "prepare" => Resolve(r) /\ Open = {r}
           /\ gate'[r].pc = "jobs" => (Start(r) /\ ~Unjudged(r)) \/ gate[r].pc = "prepare"
           /\ gate'[r].pc = "merge" => main.sha = run[r].base.sha
<1>1. ASSUME NEW label \in GateLabels, GateTo(r, label)
      PROVE  /\ gate'[r].tests = gate[r].tests /\ gate'[r].review = gate[r].review
             /\ gate'[r].seen = gate[r].seen /\ gate'[r].pc = label /\ gate'[r].id = gate[r].id
    BY <1>1, GateToFacts
<1>2. CASE Start(r)
    BY <1>1, <1>2 DEF Start, GateLabels, Unjudged
<1>3. CASE Resolve(r)
    BY <1>1, <1>3 DEF Resolve, GateLabels
<1>4. CASE Recheck(r)
    BY <1>1, <1>4 DEF Recheck, GateLabels
<1>5. CASE Prepare(r)
    BY <1>1, <1>5 DEF Prepare, GateLabels
<1>6. CASE JobsDone(r)
    BY <1>1, <1>6 DEF JobsDone, GateLabels
<1>7. CASE PrepareFails(r) \/ MergeRefused(r) \/ DispatchCI(r) \/ RecordFails(r) \/ Cleanup(r)
           \/ CleanupFails(r)
    BY <1>1, <1>7 DEF PrepareFails, MergeRefused, DispatchCI, RecordFails, Cleanup,
                      CleanupFails, GateLabels
<1> QED BY <1>2, <1>3, <1>4, <1>5, <1>6, <1>7 DEF Moves

\* The others: a job reports, a merge, the feedback job, a rerun.
LEMMA TestFacts ==
    ASSUME Shape, NEW r \in Runs, NEW result, Test(r, result) \/ Review(r, result)
    PROVE  /\ gate[r].tests = "pending" \/ gate[r].review = "pending"
           /\ gate[r].pc = "jobs" /\ gate'[r].pc = "jobs" /\ gate'[r].seen = gate[r].seen
           /\ gate'[r].id = gate[r].id
<1>1. gate \in [Runs -> GateRecords] /\ gate[r] \in GateRecords
    BY DEF Shape
<1>2. CASE Test(r, result)
    BY <1>1, <1>2 DEF Test, GateRecords
<1>3. CASE Review(r, result)
    BY <1>1, <1>3 DEF Review, GateRecords
<1> QED BY <1>2, <1>3

LEMMA MergeFacts ==
    ASSUME Shape, NEW r \in Runs, Merge(r)
    PROVE  /\ gate'[r].pc = "dispatch" /\ gate'[r].seen = main' /\ gate'[r].id = gate[r].id
           /\ gate'[r].tests = gate[r].tests /\ gate'[r].review = gate[r].review
<1>1. gate \in [Runs -> GateRecords] /\ gate[r] \in GateRecords
    BY DEF Shape
<1>2. ASSUME NEW m
      PROVE  LET g == [gate EXCEPT ![r].pc = "dispatch", ![r].seen = m][r]
             IN  /\ g.pc = "dispatch" /\ g.seen = m /\ g.id = gate[r].id
                 /\ g.tests = gate[r].tests /\ g.review = gate[r].review
    BY <1>1 DEF GateRecords
<1> QED BY <1>2 DEF Merge

LEMMA RecordFacts ==
    ASSUME Shape, NEW r \in Runs, RecordRead(r) \/ RecordWrite(r)
    PROVE  /\ gate'[r].pc \in {"record_write", "cleanup", "completed"}
           /\ gate'[r].seen \in {gate[r].seen, main}
           /\ gate'[r].tests = gate[r].tests /\ gate'[r].review = gate[r].review
           /\ gate'[r].id = gate[r].id
<1>1. gate \in [Runs -> GateRecords] /\ gate[r] \in GateRecords
    BY DEF Shape
<1>2. ASSUME GateTo(r, "completed")
      PROVE  /\ gate'[r].pc = "completed" /\ gate'[r].seen = gate[r].seen
             /\ gate'[r].tests = gate[r].tests /\ gate'[r].review = gate[r].review
             /\ gate'[r].id = gate[r].id
    BY <1>2, GateToFacts DEF GateLabels
<1>3. ASSUME gate' = [gate EXCEPT ![r].pc = "cleanup", ![r].recorded = TRUE]
      PROVE  /\ gate'[r].pc = "cleanup" /\ gate'[r].seen = gate[r].seen
             /\ gate'[r].tests = gate[r].tests /\ gate'[r].review = gate[r].review
             /\ gate'[r].id = gate[r].id
    BY <1>1, <1>3 DEF GateRecords
<1>4. ASSUME gate' = [gate EXCEPT ![r].pc = "record_write", ![r].seen = main]
      PROVE  /\ gate'[r].pc = "record_write" /\ gate'[r].seen = main
             /\ gate'[r].tests = gate[r].tests /\ gate'[r].review = gate[r].review
             /\ gate'[r].id = gate[r].id
    BY <1>1, <1>4 DEF GateRecords
<1> QED BY <1>2, <1>3, <1>4 DEF RecordRead, RecordWrite

LEMMA RerunFacts ==
    ASSUME Shape, NEW r \in Runs, NEW all \in BOOLEAN, Rerun(r, all)
    PROVE  /\ gate[r].pc = "completed" /\ gate'[r].pc = "pending"
           /\ gate'[r].seen = gate[r].seen /\ gate'[r].id = gate[r].id
           /\ Approved(r) \/ Unjudged(r) => Approved(r)' \/ Unjudged(r)'
<1>1. gate \in [Runs -> GateRecords] /\ gate[r] \in GateRecords
    BY DEF Shape
<1> DEFINE tests  == IF ~all /\ gate[r].tests = "success" THEN gate[r].tests ELSE "pending"
           review == IF ~all /\ gate[r].review \in {"approved", "rejected"}
                     THEN gate[r].review ELSE "pending"
<1>3. /\ gate'[r].pc = "pending" /\ gate'[r].seen = gate[r].seen /\ gate'[r].id = gate[r].id
      /\ gate'[r].tests = tests /\ gate'[r].review = review
  <2>1. PICK n, k :
            gate' = [gate EXCEPT ![r].pc = "pending", ![r].attempt = n,
                             ![r].tests = tests, ![r].review = review, ![r].recorded = k]
      BY Zenon DEF Rerun
  <2> HIDE DEF tests, review
  <2>2. gate' = [gate EXCEPT ![r] = [gate[r] EXCEPT !.pc = "pending", !.attempt = n,
                             !.tests = tests, !.review = review, !.recorded = k]]
      BY <1>1, <2>1, RerunOfOne
  <2> QED BY <1>1, <2>2 DEF GateRecords
<1>4. CASE all
  <2>1. tests = "pending" /\ review = "pending"
      BY <1>4, Zenon
  <2> HIDE DEF tests, review
  <2> QED BY <1>3, <2>1 DEF Rerun, Unjudged
<1>5. CASE ~all
  <2>1. /\ tests = IF gate[r].tests = "success" THEN gate[r].tests ELSE "pending"
        /\ review = IF gate[r].review \in {"approved", "rejected"}
                    THEN gate[r].review ELSE "pending"
      BY <1>5, Zenon
  <2> HIDE DEF tests, review
  <2> QED BY <1>3, <2>1 DEF Rerun, Approved, Unjudged
<1> QED BY <1>4, <1>5

-----------------------------------------------------------------------------
(* What a step does to a pull request and to a run. *)

LEMMA PullSteps ==
    ASSUME IInv, [Next]_vars, NEW q \in Runs
    PROVE  \/ pull'[q] = pull[q]
           \/ /\ pull[q].state # "merged" /\ pull'[q].state \in {"open", "closed"}
              /\ pull'[q].base \in {pull[q].base, main.sha}
           \/ Merge(q) /\ pull'[q].state = "merged" /\ pull'[q].base = pull[q].base
<1>1. pull \in [Runs -> PullRecords] /\ pull[q] \in PullRecords
    BY DEF IInv, Shape
<1> DEFINE Closes == /\ pull[q].state = "open" /\ pull'[q].state = "closed"
                     /\ pull'[q].base = pull[q].base
<1>2. ASSUME NEW r \in Runs, Maintenance(r), pull'[q] # pull[q]
      PROVE  pull[q].state # "merged" /\ pull'[q].state = "open" /\ pull'[q].base = main.sha
  <2>1. Proposes(r)
      BY <1>2 DEF Maintenance, Plan, PlanSkips, PlanFails, Decide, DecideNothing, DetectFails,
             MaintainEmpty, MaintainFails, Maintained, PublishCheck, PublishFails, Publish,
             PublishLost, Fails, SucceedsWithoutCandidate
  <2>2. q = r
      BY <1>1, <1>2, <2>1 DEF Proposes
  <2>3. pull'[q] = [state |-> "open", base |-> main.sha] /\ pull[q].state = "none"
      BY <1>1, <2>1, <2>2 DEF Proposes
  <2> QED BY <2>3
<1>3. ASSUME NEW r \in Runs, pull[r].state = "open", NEW p, pull' = [pull EXCEPT ![r].state = p],
             pull'[q] # pull[q]
      PROVE  q = r /\ pull'[q].state = p /\ pull'[q].base = pull[q].base
  <2>1. pull' = [pull EXCEPT ![r] = [pull[r] EXCEPT !.state = p]]
      BY <1>1, <1>3
  <2>2. q = r
      BY <1>1, <1>3, <2>1
  <2> QED BY <1>1, <2>1, <2>2 DEF PullRecords
<1>4. ASSUME NEW r \in Runs, Gate(r), pull'[q] # pull[q]
      PROVE  \/ Merge(q) /\ pull'[q].state = "merged" /\ pull'[q].base = pull[q].base
             \/ Closes
  <2>1. Merge(r) \/ Cleanup(r)
      BY <1>4 DEF Gate, Start, Resolve, Prepare, PrepareFails, Test, Review, JobsDone, Recheck,
             MergeRefused, DispatchCI, RecordRead, RecordFails, RecordWrite, CleanupFails,
             OnlyGate
  <2>2. CASE Merge(r)
      BY <1>3, <1>4, <2>2 DEF Merge
  <2>3. CASE Cleanup(r)
    <3>1. q \in Open /\ pull'[q] = [pull[q] EXCEPT !.state = "closed"]
        BY <1>4, <2>3 DEF Cleanup
    <3> QED BY <1>1, <3>1 DEF Open, PullRecords
  <2> QED BY <2>1, <2>2, <2>3
<1>5. ASSUME NEW r \in Runs, BaseRefreshed(r), pull'[q] # pull[q]
      PROVE  pull[q].state = "open" /\ pull'[q].state = "open" /\ pull'[q].base = main.sha
  <2>1. pull' = [pull EXCEPT ![r] = [pull[r] EXCEPT !.base = main.sha]]
      BY <1>1, <1>5 DEF BaseRefreshed
  <2>2. q = r
      BY <1>1, <1>5, <2>1
  <2> QED BY <1>1, <1>5, <2>1, <2>2 DEF PullRecords, BaseRefreshed
<1>6. ASSUME NEW r \in Runs, OperatorCloses(r), pull'[q] # pull[q] PROVE Closes
    BY <1>3, <1>6 DEF OperatorCloses
<1>7. ASSUME Environment, pull'[q] # pull[q]
      PROVE  \E r \in Runs : BaseRefreshed(r) \/ OperatorCloses(r)
  <2>1. ASSUME NEW r \in Runs, NEW all \in BOOLEAN, RerunRun(r, all) \/ Rerun(r, all)
        PROVE  FALSE
      BY <1>7, <2>1 DEF RerunRun, Rerun, OnlyGate
  <2> QED BY <1>7, <2>1 DEF Environment, UpstreamMoves, HumanPush, OperatorRunsCI
<1> QED BY <1>2, <1>4, <1>5, <1>6, <1>7 DEF Next, Dispatch, vars

\* A pull request does not disappear.
LEMMA ProposedStays ==
    ASSUME IInv, [Next]_vars, NEW q \in Runs, Proposed(q) PROVE Proposed(q)'
    BY PullSteps DEF Proposed

\* A run changes only while it is not over well, and keeps its base once it has one.
LEMMA RunSteps ==
    ASSUME IInv, [Next]_vars, NEW q \in Runs
    PROVE  /\ run'[q] = run[q] \/ run[q].pc # "succeeded"
           /\ run'[q].base \in {run[q].base, main}
<1>1. run \in [Runs -> RunRecords] /\ run[q] \in RunRecords
    BY DEF IInv, Shape
<1> DEFINE Goes == /\ run'[q] = run[q] \/ run[q].pc # "succeeded"
                   /\ run'[q].base \in {run[q].base, main}
<1>2. ASSUME NEW r \in Runs, NEW retry, Dispatch(r, retry) PROVE Goes
  <2>1. CASE q = r
      BY <1>1, <1>2, <2>1 DEF Dispatch, RunRecords
  <2>2. CASE q # r
      BY <1>1, <1>2, <2>2 DEF Dispatch
  <2> QED BY <2>1, <2>2
<1>3. ASSUME NEW r \in Runs, Maintenance(r) PROVE Goes
  <2>1. run[r].pc # "succeeded"
      BY <1>3, MaintenanceFacts
  <2>2. PICK new : run' = [run EXCEPT ![r] = new] /\ new.base = run[r].base
    <3>1. ASSUME NEW label, RunTo(r, label)
          PROVE  \E new : run' = [run EXCEPT ![r] = new] /\ new.base = run[r].base
      <4>1. [run[r] EXCEPT !.pc = label].base = run[r].base
          BY <1>1 DEF RunRecords
      <4> QED BY <1>1, <3>1, <4>1 DEF RunTo
    <3>2. ASSUME NEW job, FailsIn(r, job)
          PROVE  \E new : run' = [run EXCEPT ![r] = new] /\ new.base = run[r].base
      <4>1. [run[r] EXCEPT !.pc = "failed", !.failed = job].base = run[r].base
          BY <1>1 DEF RunRecords
      <4>2. run' = [run EXCEPT ![r] = [run[r] EXCEPT !.pc = "failed", !.failed = job]]
          BY <1>1, <3>2 DEF FailsIn
      <4> QED BY <4>1, <4>2
    <3>3. CASE Decide(r)
      <4>1. PICK s, t, k : run' = [run EXCEPT ![r] = [run[r] EXCEPT !.pc = "maintain",
                                        !.source = s, !.tree = t, !.override = k]]
          BY <3>3, Zenon DEF Decide
      <4>2. [run[r] EXCEPT !.pc = "maintain", !.source = s, !.tree = t, !.override = k].base
                = run[r].base
          BY <1>1 DEF RunRecords
      <4> QED BY <4>1, <4>2
    <3> QED BY <1>3, <3>1, <3>2, <3>3 DEF Maintenance, Plan, PlanSkips, PlanFails, DecideNothing,
            DetectFails, MaintainEmpty, MaintainFails, Maintained, PublishCheck, PublishFails,
            Publish, PublishLost, Fails, SucceedsWithoutCandidate
  <2> QED BY <1>1, <2>1, <2>2
<1>4. ASSUME NEW r \in Runs, Gate(r) PROVE run' = run
    BY <1>4 DEF Gate, Start, Resolve, Prepare, PrepareFails, Test, Review, JobsDone, Recheck, Merge,
                MergeRefused, DispatchCI, RecordRead, RecordFails, RecordWrite, Cleanup,
                CleanupFails, OnlyGate
<1>5. ASSUME NEW r \in Runs, NEW all \in BOOLEAN, RerunRun(r, all) PROVE Goes
  <2>1. PICK label, n, job : run' = [run EXCEPT ![r] = [run[r] EXCEPT !.pc = label, !.failed = None,
                                                                !.attempt = n, !.from = job]]
    <3>1. PICK label, n, job : run' = [run EXCEPT ![r].pc = label, ![r].failed = None,
                                             ![r].attempt = n, ![r].from = job]
        BY <1>5, Zenon DEF RerunRun
    <3> QED BY <1>1, <3>1
  <2>2. [run[r] EXCEPT !.pc = label, !.failed = None, !.attempt = n,
                    !.from = job].base = run[r].base
      BY <1>1 DEF RunRecords
  <2>3. run[r].pc # "succeeded"
      BY <1>5 DEF RerunRun
  <2> QED BY <1>1, <2>1, <2>2, <2>3
<1>6. CASE Environment
    BY <1>5, <1>6 DEF Environment, UpstreamMoves, HumanPush, OperatorRunsCI, BaseRefreshed, Rerun,
                OperatorCloses, OnlyGate
<1> QED BY <1>2, <1>3, <1>4, <1>6 DEF Next, vars

LEMMA SeenSteps ==
    ASSUME IInv, [Next]_vars, NEW q \in Runs
    PROVE  gate'[q].seen \in {gate[q].seen, main, main'}
<1>1. Shape /\ gate[q] \in GateRecords
    BY DEF IInv, Shape
<1>2. ASSUME Gate(q) PROVE gate'[q].seen \in {gate[q].seen, main, main'}
    BY <1>1, <1>2, MovesFacts, TestFacts, MergeFacts, RecordFacts DEF Gate, Moves
<1>3. ASSUME NEW all \in BOOLEAN, Rerun(q, all) PROVE gate'[q].seen = gate[q].seen
    BY <1>1, <1>3, RerunFacts
<1>4. [NewGate EXCEPT !.id = 1 + Cardinality(Gates)].seen = main
    BY DEF NewGate
<1>5. [gate[q] EXCEPT !.pc = "completed"].seen = gate[q].seen
    BY <1>1 DEF GateRecords
<1> QED BY <1>2, <1>3, <1>4, <1>5, GateSteps

LEMMA GreenSteps ==
    ASSUME IInv, [Next]_vars
    PROVE  green' \subseteq green \cup {main.sha, main'.sha}
<1>1. ASSUME NEW r \in Runs, Maintenance(r) PROVE green' = green
    BY <1>1 DEF Maintenance, Plan, PlanSkips, PlanFails, Decide, DecideNothing, DetectFails,
                MaintainEmpty, MaintainFails, Maintained, PublishCheck, PublishFails, Proposes,
                Publish, PublishLost, Fails, SucceedsWithoutCandidate
<1>2. ASSUME NEW r \in Runs, Gate(r) PROVE green' \subseteq green \cup {main.sha}
    BY <1>2 DEF Gate, Start, Resolve, Prepare, PrepareFails, Test, Review, JobsDone, Recheck, Merge,
                MergeRefused, DispatchCI, RecordRead, RecordFails, RecordWrite, Cleanup,
                CleanupFails, OnlyGate
<1>3. CASE HumanPush
  <2>1. main'.sha = main.sha + 1
      BY <1>3 DEF HumanPush, Pushed, IInv, Shape, Branches
  <2> QED BY <1>3, <2>1 DEF HumanPush
<1>4. ASSUME NEW r \in Runs, NEW all \in BOOLEAN, RerunRun(r, all) \/ Rerun(r, all)
      PROVE  green' = green
    BY <1>4 DEF RerunRun, Rerun, OnlyGate
<1>5. CASE Environment
    BY <1>3, <1>4, <1>5 DEF Environment, UpstreamMoves, OperatorRunsCI, BaseRefreshed,
                            OperatorCloses
<1> QED BY <1>1, <1>2, <1>5 DEF Next, Dispatch, vars

-----------------------------------------------------------------------------
(* The identifiers of gates. *)

\* Identifiers are given in turn, and once.
Ids ==
    /\ \A r \in Gates : gate[r].id <= Cardinality(Gates)
    /\ \A q, r \in Gates : gate[q].id = gate[r].id => q = r

LEMMA IdTypes == ASSUME Shape PROVE \A r \in Runs : gate[r].id \in Nat
    BY DEF Shape, GateRecords

\* A run that has a gate is over, and the gate keeps its identifier.
LEMMA GateStays ==
    ASSUME IInv, [Next]_vars, NEW q \in Runs, gate[q].id # 0
    PROVE  run'[q] = run[q] /\ gate'[q].id = gate[q].id
<1>1. Shape /\ gate[q] \in GateRecords /\ run[q].pc = "succeeded"
    BY DEF IInv, Shape, RunOK
<1>2. ASSUME Gate(q) PROVE gate'[q].id = gate[q].id
    BY <1>1, <1>2, MovesFacts, TestFacts, MergeFacts, RecordFacts DEF Gate, Moves
<1>3. ASSUME NEW all \in BOOLEAN, Rerun(q, all) PROVE gate'[q].id = gate[q].id
    BY <1>1, <1>3, RerunFacts
<1>4. [gate[q] EXCEPT !.pc = "completed"].id = gate[q].id
    BY <1>1 DEF GateRecords
<1> QED BY <1>1, <1>2, <1>3, <1>4, RunSteps, GateSteps

\* A step creates one gate at most, and files nothing when it does.
LEMMA IdSteps ==
    ASSUME IInv, IInv', [Next]_vars
    PROVE  \/ \A q \in Runs : gate'[q].id = gate[q].id
           \/ /\ history' = history
              /\ \E r \in Runs : /\ gate[r].id = 0 /\ gate'[r].id = 1 + Cardinality(Gates)
                                 /\ \A q \in Runs \ {r} : gate'[q].id = gate[q].id
<1>1. Shape /\ gate \in [Runs -> GateRecords] /\ main \in Branches
    BY DEF IInv, Shape
<1>2. ASSUME NEW r \in Runs, NEW q \in Runs PROVE Joined(r)[q].id = gate[q].id
  <2>1. gate[q] \in GateRecords
      BY <1>1
  <2>2. Joined(r)[q] \in {gate[q], [gate[q] EXCEPT !.pc = "completed"]}
      BY DEF Joined
  <2> QED BY <2>1, <2>2 DEF GateRecords
<1>3. ASSUME NEW r \in Runs, Trigger(r), gate[r].id = 0
      PROVE  /\ gate'[r].id = 1 + Cardinality(Gates)
             /\ \A q \in Runs \ {r} : gate'[q].id = gate[q].id
  <2>1. DOMAIN Joined(r) = Runs
      BY DEF Joined
  <2>2. [NewGate EXCEPT !.id = 1 + Cardinality(Gates)].id = 1 + Cardinality(Gates)
      BY DEF NewGate
  <2> QED BY <1>2, <1>3, <2>1, <2>2 DEF Trigger
<1>4. ASSUME NEW r \in Runs, Maintenance(r), gate' # gate, gate' # Joined(r)
      PROVE  history' = history /\ Trigger(r) /\ gate[r].id = 0
    BY <1>4, MaintenanceFacts
<1>5. ASSUME \A r \in Runs : ~Maintenance(r), NEW q \in Runs PROVE gate'[q].id = gate[q].id
  <2>1. ASSUME Gate(q) PROVE gate'[q].id = gate[q].id
      BY <1>1, <2>1, MovesFacts, TestFacts, MergeFacts, RecordFacts DEF Gate, Moves
  <2>2. ASSUME NEW all \in BOOLEAN, Rerun(q, all) PROVE gate'[q].id = gate[q].id
      BY <1>1, <2>2, RerunFacts
  <2>3. gate'[q] = gate[q] \/ Gate(q) \/ \E all \in BOOLEAN : Rerun(q, all)
      BY <1>5, OtherGateSteps
  <2> QED BY <2>1, <2>2, <2>3
<1> QED BY <1>2, <1>3, <1>4, <1>5

LEMMA IdsInit == Init => Ids
<1> SUFFICES ASSUME Init PROVE Ids
    OBVIOUS
<1>1. \A r \in Runs : gate[r].id = 0
  <2> DEFINE none == [NewGate EXCEPT !.pc = "none"]
  <2>1. none.id = 0
      BY DEF NewGate
  <2>2. gate = [r \in Runs |-> none]
      BY DEF Init
  <2> HIDE DEF none
  <2> QED BY <2>1, <2>2
<1>2. Gates = {}
    BY <1>1 DEF Gates
<1> QED BY <1>2 DEF Ids

LEMMA IdsKeep == ASSUME IInv, IInv', Ids, [Next]_vars PROVE Ids'
<1>1. \A q \in Runs : gate[q].id \in Nat /\ gate'[q].id \in Nat
    BY DEF IInv, Shape, GateRecords
<1>2. CASE \A q \in Runs : gate'[q].id = gate[q].id
  <2>1. Gates' = Gates
      BY <1>2 DEF Gates
  <2>2. \A q \in Gates : q \in Runs
      BY DEF Gates
  <2> QED BY <1>2, <2>1, <2>2 DEF Ids
<1>3. ASSUME NEW r \in Runs, gate[r].id = 0, gate'[r].id = 1 + Cardinality(Gates),
             \A q \in Runs \ {r} : gate'[q].id = gate[q].id
      PROVE  Ids'
  <2>1. Cardinality(Gates) \in Nat /\ IsFiniteSet(Gates)
      BY GateCount
  <2>2. Gates' = Gates \cup {r} /\ r \notin Gates
      BY <1>3, <2>1 DEF Gates
  <2>3. Cardinality(Gates') = Cardinality(Gates) + 1
      BY <2>1, <2>2, FS_AddElement
  <2>4. ASSUME NEW q \in Gates
        PROVE  /\ q \in Runs /\ q # r /\ gate'[q].id = gate[q].id
               /\ gate[q].id \in Nat /\ gate[q].id <= Cardinality(Gates)
      BY <1>1, <1>3, <2>2 DEF Ids, Gates
  <2>5. ASSUME NEW q \in Gates' PROVE gate'[q].id <= Cardinality(Gates')
      BY <1>3, <2>1, <2>2, <2>3, <2>4
  <2>6. ASSUME NEW p \in Gates', NEW q \in Gates', gate'[p].id = gate'[q].id PROVE p = q
    <3>1. CASE p \in Gates /\ q \in Gates
        BY <2>4, <2>6, <3>1 DEF Ids
    <3>2. CASE p = r \/ q = r
        BY <1>3, <2>1, <2>2, <2>4, <2>6, <3>2
    <3> QED BY <2>2, <3>1, <3>2
  <2> QED BY <2>5, <2>6 DEF Ids
<1> QED BY <1>2, <1>3, IdSteps

-----------------------------------------------------------------------------
(* The history and the ledger stay in step. *)

\* What was filed belongs to a proposal whose rejection the ledger holds, or a newer one.
Filed(f) ==
    \E r \in Runs : gate[r].id = f.run /\ Proposed(r) /\ Kept(r) /\ run[r].source = f.source

HInv ==
    /\ history \in Seq(Filings)
    /\ \A i \in DOMAIN history : Filed(history[i])
    /\ \A s \in Sources : Tallies(main.ledger, history, s)

LEMMA HistoryInit == Init => HInv
<1> SUFFICES ASSUME Init PROVE HInv
    OBVIOUS
<1>1. history = <<>> /\ \A s \in Sources : main.ledger[s] = None
    BY DEF Init
<1>2. history \in Seq(Filings) /\ DOMAIN history = {}
    BY <1>1
<1>3. \A s \in Sources : OfSource(history, s) = {}
    BY <1>2 DEF OfSource
<1> QED BY <1>1, <1>2, <1>3 DEF HInv, Tallies

LEMMA FiledStays ==
    ASSUME IInv, IInv', [Next]_vars, NEW f \in Filings, Filed(f)
    PROVE  Filed(f)'
<1>1. Shape /\ Shape' /\ MainMoves
    BY HeadMoves DEF IInv
<1>2. PICK r \in Runs : gate[r].id = f.run /\ Proposed(r) /\ Kept(r) /\ run[r].source = f.source
    BY DEF Filed
<1>3. gate[r].id # 0
    BY <1>2 DEF Filings
<1>4. run'[r] = run[r] /\ gate'[r].id = gate[r].id /\ Proposed(r)'
    BY <1>2, <1>3, GateStays, ProposedStays
<1>5. Chosen(r)
    BY <1>2 DEF IInv, RunOK
<1>6. Kept(r)'
    BY <1>1, <1>2, <1>4, <1>5, KeptStays
<1> QED BY <1>2, <1>4, <1>6 DEF Filed

\* What a rejection that is newer than the ledger adds to the history.
LEMMA FilesFacts ==
    ASSUME IInv, HInv, Ids, NEW r \in Runs, Files(r)
    PROVE  \E e \in Filings, n \in Nat :
              /\ e.run = gate[r].id /\ e.source = run[r].source /\ e.tree = run[r].tree
              /\ e.override = run[r].override
              /\ Extends(history', n, history, e)
              /\ \A i \in DOMAIN history : history[i].run # gate[r].id
<1>1. /\ Chosen(r) /\ Shape /\ main.ledger \in Ledgers
      /\ gate[r].id \in Nat \ {0} /\ r \in Gates
    BY IdTypes DEF IInv, Shape, Branches, RunOK, Files, Gates
<1>2. Report(r) \in Reports /\ run[r].override \in BOOLEAN
    BY <1>1, ReportFacts
<1>3. Report(r).run = gate[r].id /\ Report(r).source = run[r].source /\ Report(r).tree = run[r].tree
    BY DEF Report
<1>4. ASSUME NEW i \in DOMAIN history PROVE history[i].run # gate[r].id
  <2> SUFFICES ASSUME history[i].run = gate[r].id PROVE FALSE
      OBVIOUS
  <2>1. PICK q \in Runs : gate[q].id = gate[r].id /\ Kept(q)
      BY DEF HInv, Filed
  <2>2. q = r
      BY <1>1, <2>1 DEF Ids, Gates
  <2>3. Kept(r) /\ run[r].source \in Sources
      BY <1>1, <2>1, <2>2 DEF Chosen
  <2>4. main.ledger[run[r].source].report.run \in Int
      BY <1>1, <2>3, LedgerFacts DEF Kept
  <2>5. main.ledger[run[r].source].report.run < gate[r].id
      BY <1>3, <2>3 DEF Files, Advances, Kept
  <2> QED BY <1>1, <2>3, <2>4, <2>5 DEF Kept
<1> DEFINE e == [source |-> Report(r).source, tree |-> Report(r).tree, run |-> Report(r).run,
                 override |-> run[r].override]
<1>5. history' = Append(history, e)
    BY <1>3, <1>4 DEF Files, Remember
<1>6. e \in Filings
    BY <1>1, <1>2, <1>3 DEF Filings, Chosen
<1>7. /\ e.run = gate[r].id /\ e.source = run[r].source /\ e.tree = run[r].tree
      /\ e.override = run[r].override
    BY <1>3
<1> HIDE DEF e
<1>8. Extends(history', Len(history) + 1, history, e)
    BY <1>5 DEF Extends
<1>9. Len(history) + 1 \in Nat
    BY LenProperties DEF HInv
<1> QED BY <1>4, <1>6, <1>7, <1>8, <1>9

LEMMA HistoryKeeps == ASSUME IInv, IInv', HInv, Ids, [Next]_vars PROVE HInv'
<1>1. /\ history \in Seq(Filings) /\ \A i \in DOMAIN history : history[i] \in Filings
      /\ main.ledger \in Ledgers /\ main'.ledger \in Ledgers
      /\ \A i \in DOMAIN history : Filed(history[i])
    BY LenProperties DEF HInv, IInv, Shape, Branches
<1>2. CASE history' = history /\ main'.ledger = main.ledger
  <2>1. ASSUME NEW i \in DOMAIN history PROVE Filed(history[i])'
      BY <1>1, <1>2, FiledStays
  <2>2. ASSUME NEW s \in Sources PROVE Tallies(main'.ledger, history', s)
      BY <1>2 DEF HInv
  <2> QED BY <1>1, <1>2, <2>1, <2>2 DEF HInv
<1>3. ASSUME NEW r \in Runs, Files(r) PROVE HInv'
  <2>1. PICK e \in Filings, n \in Nat :
              /\ e.run = gate[r].id /\ e.source = run[r].source /\ e.tree = run[r].tree
              /\ e.override = run[r].override
              /\ Extends(history', n, history, e)
      BY <1>3, FilesFacts
  <2>2. Chosen(r) /\ Shape /\ Proposed(r) /\ gate[r].id # 0
      BY <1>3 DEF IInv, RunOK, Files
  <2>3. /\ Report(r) \in Reports /\ run[r].override \in BOOLEAN
        /\ Report(r).source = run[r].source /\ Report(r).tree = run[r].tree
        /\ Report(r).run = gate[r].id
      BY <2>2, ReportFacts DEF Report
  <2>4. /\ history' \in Seq(Filings) /\ history'[n] = e
        /\ DOMAIN history' = DOMAIN history \cup {n}
        /\ \A i \in DOMAIN history : history'[i] = history[i]
      BY <1>1, <2>1, LenProperties DEF Extends
  <2>5. main'.ledger = Recorded(main.ledger, Report(r), run[r].override)
      BY <1>3 DEF Files
  <2>6. ASSUME NEW s \in Sources PROVE Tallies(main'.ledger, history', s)
    <3>1. Tallies(main.ledger, history, s)
        BY DEF HInv
    <3>2. CASE s = e.source
        BY <1>1, <1>3, <2>1, <2>3, <2>5, <3>1, <3>2, FiledTally DEF Files
    <3>3. CASE s # e.source
      <4>1. main'.ledger[s] = main.ledger[s]
          BY <1>1, <2>1, <2>3, <2>5, <3>3 DEF Recorded, Ledgers
      <4> QED BY <1>1, <2>1, <3>1, <3>3, <4>1, OthersTally
    <3> QED BY <3>2, <3>3
  <2>7. Filed(e)'
    <3>1. run'[r] = run[r] /\ gate'[r].id = gate[r].id /\ Proposed(r)'
        BY <2>2, GateStays, ProposedStays
    <3>2. /\ main'.ledger[run[r].source] # None
          /\ main'.ledger[run[r].source].report.run = gate[r].id
        BY <1>1, <1>3, <2>3, <2>5, RecordedFacts DEF Files
    <3>3. gate[r].id \in Nat
        BY <2>2, IdTypes
    <3> QED BY <2>1, <3>1, <3>2, <3>3 DEF Filed, Kept
  <2>8. ASSUME NEW i \in DOMAIN history' PROVE Filed(history[i])'
    <3>1. CASE i = n
        BY <2>4, <2>7, <3>1
    <3>2. CASE i \in DOMAIN history
      <4>1. PICK f \in Filings : f = history[i] /\ Filed(f)
          BY <1>1, <3>2
      <4>2. Filed(f)' /\ history'[i] = f
          BY <2>4, <3>2, <4>1, FiledStays
      <4> QED BY <4>2
    <3> QED BY <2>4, <3>1, <3>2
  <2> QED BY <2>4, <2>6, <2>8 DEF HInv
<1> QED BY <1>2, <1>3, FilingSteps

-----------------------------------------------------------------------------
(* A run makes main move once at most. *)

FiledRuns == {r \in Gates : \E i \in DOMAIN history : history[i].run = gate[r].id}
Landed == {r \in Runs : pull[r].state = "merged"}
Moved == Landed \cup FiledRuns

\* Nobody has seen more of main than there is.
Behind(r) == run[r].base.sha <= main.sha /\ pull[r].base <= main.sha /\ gate[r].seen.sha <= main.sha

\* A filed rejection has left the base of its run behind, which no merge of that run
\* survives; and a merged run comes to no rejection.
Once(r) ==
    /\ r \in FiledRuns => run[r].base.sha < main.sha
    /\ gate[r].pc = "merge" => r \notin FiledRuns
    /\ r \in Landed => /\ Approved(r) \/ Unjudged(r)
                       /\ gate[r].pc # "prepare"
                       /\ gate[r].pc = "jobs" => Approved(r)

MInv ==
    /\ main.sha <= MaxSha + Cardinality(Moved)
    /\ green \subseteq 0 .. main.sha
    /\ \A r \in Runs : Behind(r) /\ Once(r)

LEMMA SomeRuns ==
    ASSUME NEW R, R \subseteq Runs
    PROVE  IsFiniteSet(R) /\ Cardinality(R) \in Nat /\ Cardinality(R) <= MaxRuns
<1>1. IsFiniteSet(Runs) /\ Cardinality(Runs) = MaxRuns
    BY Limits, FS_Interval DEF Runs
<1> QED BY <1>1, FS_Subset, FS_CardinalityType

LEMMA MovedRuns == Moved \subseteq Runs
    BY DEF Moved, Landed, FiledRuns, Gates

\* A new gate has the identifier of no filed rejection.
LEMMA FiledBefore ==
    ASSUME IInv, IInv', HInv, Ids, [Next]_vars, NEW q \in Runs, NEW i \in DOMAIN history,
           history[i].run = gate'[q].id
    PROVE  q \in Gates /\ gate'[q].id = gate[q].id
<1>1. PICK r \in Runs : gate[r].id = history[i].run
    BY DEF HInv, Filed
<1>2. history[i].run \in Nat \ {0} /\ r \in Gates
  <2>1. history[i] \in Filings
      BY LenProperties DEF HInv
  <2> QED BY <1>1, <2>1 DEF Filings, Gates
<1>3. gate[r].id <= Cardinality(Gates) /\ Cardinality(Gates) \in Nat
    BY <1>2, GateCount DEF Ids
<1>4. gate'[q].id = gate[q].id
    BY <1>1, <1>2, <1>3, IdSteps
<1> QED BY <1>2, <1>4 DEF Gates

\* What is filed is the first rejection of its run, and moves main.
LEMMA FilesMoves ==
    ASSUME IInv, IInv', HInv, Ids, [Next]_vars, NEW r \in Runs, Files(r)
    PROVE  /\ r \notin FiledRuns /\ FiledRuns' = FiledRuns \cup {r}
           /\ main'.sha = main.sha + 1
<1>1. PICK e \in Filings, n \in Nat :
            /\ e.run = gate[r].id /\ Extends(history', n, history, e)
            /\ \A i \in DOMAIN history : history[i].run # gate[r].id
    BY FilesFacts
<1>2. /\ history'[n] = e /\ DOMAIN history' = DOMAIN history \cup {n}
      /\ \A i \in DOMAIN history : history'[i] = history[i]
      /\ n \notin DOMAIN history
  <2>1. history \in Seq(Filings)
      BY DEF HInv
  <2> QED BY <1>1, <2>1, LenProperties DEF Extends
<1>3. \A q \in Runs : gate'[q].id = gate[q].id
    BY <1>2, IdSteps
<1>4. Gates' = Gates /\ r \in Gates
    BY <1>3 DEF Gates, Files
<1>5. \A q \in Gates : q \in Runs /\ (gate[q].id = gate[r].id => q = r)
    BY <1>4 DEF Ids, Gates
<1>6. ASSUME NEW q \in Gates PROVE q \in FiledRuns' <=> q \in FiledRuns \/ q = r
    BY <1>1, <1>2, <1>3, <1>4, <1>5 DEF FiledRuns
<1>7. FiledRuns' = FiledRuns \cup {r}
    BY <1>4, <1>6 DEF FiledRuns
<1>8. main' # main
  <2>1. Chosen(r) /\ Shape /\ gate[r].id \in Nat \ {0} /\ main.ledger \in Ledgers
      BY IdTypes DEF IInv, Shape, Branches, RunOK, Files
  <2>2. /\ Report(r) \in Reports /\ run[r].override \in BOOLEAN
        /\ Report(r).run = gate[r].id /\ Report(r).source = run[r].source
      BY <2>1, ReportFacts DEF Report
  <2>3. /\ main'.ledger[run[r].source] # None
        /\ main'.ledger[run[r].source].report.run = gate[r].id
      BY <2>1, <2>2, RecordedFacts DEF Files
  <2>4. main.ledger[run[r].source] # None => main.ledger[run[r].source].report.run < gate[r].id
      BY <2>2 DEF Files, Advances
  <2> QED BY <2>1, <2>3, <2>4
<1>9. main'.sha = main.sha + 1
    BY <1>8, HeadMoves DEF MainMoves
<1> QED BY <1>1, <1>7, <1>9 DEF FiledRuns

LEMMA FiledSteps ==
    ASSUME IInv, IInv', HInv, Ids, [Next]_vars
    PROVE  \/ FiledRuns' = FiledRuns
           \/ \E r \in Runs : /\ RecordWrite(r) \/ OperatorCloses(r)
                              /\ FiledRuns' = FiledRuns \cup {r}
                              /\ main'.sha = main.sha + 1
<1>1. CASE history' = history
  <2>1. ASSUME NEW q \in FiledRuns PROVE q \in FiledRuns'
    <3>1. q \in Runs /\ gate[q].id # 0
        BY DEF FiledRuns, Gates
    <3> QED BY <1>1, <3>1, GateStays DEF FiledRuns, Gates
  <2>2. ASSUME NEW q \in FiledRuns' PROVE q \in FiledRuns
    <3>1. q \in Runs /\ \E i \in DOMAIN history : history[i].run = gate'[q].id
        BY <1>1 DEF FiledRuns, Gates
    <3> QED BY <3>1, FiledBefore DEF FiledRuns
  <2> QED BY <2>1, <2>2
<1> QED BY <1>1, FilingSteps, FilesMoves

\* Main moves for a person, or for a run that moves it for the first time.
LEMMA BoundKeeps ==
    ASSUME IInv, IInv', HInv, Ids, MInv, [Next]_vars
    PROVE  main'.sha <= MaxSha + Cardinality(Moved')
<1>1. /\ main.sha \in Nat /\ main'.sha \in Nat /\ MaxSha \in Nat
      /\ IsFiniteSet(Moved) /\ IsFiniteSet(Moved')
      /\ Cardinality(Moved) \in Nat /\ Cardinality(Moved') \in Nat
      /\ main.sha <= MaxSha + Cardinality(Moved)
  <2>1. /\ main.sha \in Nat /\ main'.sha \in Nat /\ MaxSha \in Nat
        /\ main.sha <= MaxSha + Cardinality(Moved)
      BY LoopBoundsAssumption DEF IInv, Shape, Branches, MInv
  <2>2. Moved \subseteq Runs /\ Moved' \subseteq Runs
      BY DEF Moved, Landed, FiledRuns, Gates
  <2>3. /\ IsFiniteSet(Moved) /\ Cardinality(Moved) \in Nat
        /\ IsFiniteSet(Moved') /\ Cardinality(Moved') \in Nat
      BY <2>2, SomeRuns
  <2> QED BY <2>1, <2>3
<1>2. Landed \subseteq Landed'
    BY PullSteps DEF Landed
<1>3. FiledRuns \subseteq FiledRuns'
    BY FiledSteps
<1>4. Moved \subseteq Moved'
    BY <1>2, <1>3 DEF Moved
<1>5. Cardinality(Moved) <= Cardinality(Moved')
    BY <1>1, <1>4, FS_Subset
<1>6. ASSUME NEW r \in Runs, r \notin Moved, r \in Moved', main'.sha = main.sha + 1
      PROVE  main'.sha <= MaxSha + Cardinality(Moved')
  <2>1. Moved \cup {r} \subseteq Moved'
      BY <1>4, <1>6
  <2>2. Cardinality(Moved \cup {r}) = Cardinality(Moved) + 1
      BY <1>1, <1>6, FS_AddElement
  <2>3. Cardinality(Moved \cup {r}) <= Cardinality(Moved')
      BY <1>1, <2>1, FS_Subset
  <2> QED BY <1>1, <1>6, <2>2, <2>3
<1>7. CASE main' = main
    BY <1>1, <1>5, <1>7
<1>8. CASE HumanPush
  <2>1. main.sha < MaxSha /\ main'.sha = main.sha + 1
      BY <1>8 DEF HumanPush, Pushed, IInv, Shape, Branches
  <2> QED BY <1>1, <2>1
<1>9. ASSUME NEW r \in Runs, Merge(r) PROVE main'.sha <= MaxSha + Cardinality(Moved')
  <2>1. main'.sha = main.sha + 1
      BY <1>9 DEF Merge, IInv, Shape, Branches
  <2>2. pull[r].state = "open" /\ gate[r].pc = "merge" /\ pull \in [Runs -> PullRecords]
      BY <1>9 DEF Merge, IInv, Shape
  <2>3. r \notin Moved
      BY <2>2 DEF Moved, Landed, MInv, Once
  <2>4. pull'[r].state = "merged"
      BY <1>9, <2>2 DEF Merge, PullRecords
  <2> QED BY <1>6, <2>1, <2>3, <2>4 DEF Moved, Landed
<1>10. ASSUME NEW r \in Runs, Files(r), RecordWrite(r) \/ OperatorCloses(r)
       PROVE  main'.sha <= MaxSha + Cardinality(Moved')
  <2>1. pull[r].state # "merged"
    <3>1. CASE OperatorCloses(r)
        BY <3>1 DEF OperatorCloses
    <3>2. CASE RecordWrite(r)
      <4>1. Rejected(r)
          BY <3>2 DEF RecordWrite, IInv, GateOK
      <4> QED BY <4>1 DEF MInv, Once, Landed, Rejected, Approved, Unjudged
    <3> QED BY <1>10, <3>1, <3>2
  <2>2. r \notin FiledRuns /\ FiledRuns' = FiledRuns \cup {r} /\ main'.sha = main.sha + 1
      BY <1>10, FilesMoves
  <2> QED BY <1>6, <2>1, <2>2 DEF Moved, Landed
<1> QED BY <1>7, <1>8, <1>9, <1>10, FilesBy, MainSteps

\* What anybody has seen of main stays behind it.
LEMMA BehindKeeps ==
    ASSUME IInv, IInv', MInv, [Next]_vars
    PROVE  /\ green' \subseteq 0 .. main'.sha
           /\ \A r \in Runs : Behind(r)'
<1>1. main.sha \in Nat /\ main'.sha \in Nat /\ main.sha <= main'.sha
  <2>1. main.sha \in Nat /\ main'.sha \in Nat
      BY DEF IInv, Shape, Branches
  <2> QED BY <2>1, HeadMoves DEF MainMoves
<1>2. green' \subseteq 0 .. main'.sha
  <2>1. green \subseteq 0 .. main.sha /\ green' \subseteq green \cup {main.sha, main'.sha}
      BY GreenSteps DEF MInv
  <2>2. 0 .. main.sha \subseteq 0 .. main'.sha /\ {main.sha, main'.sha} \subseteq 0 .. main'.sha
      BY <1>1
  <2> QED BY <2>1, <2>2
<1>3. ASSUME NEW r \in Runs PROVE Behind(r)'
  <2>1. Behind(r)
      BY DEF MInv
  <2>2. /\ run[r].base.sha \in Nat /\ pull[r].base \in Nat /\ gate[r].seen.sha \in Nat
        /\ pull'[r].base \in Nat
      BY DEF IInv, Shape, RunRecords, PullRecords, GateRecords, Branches
  <2>3. run'[r].base.sha \in {run[r].base.sha, main.sha}
      BY RunSteps
  <2>4. pull'[r].base \in {pull[r].base, main.sha}
      BY PullSteps
  <2>5. gate'[r].seen.sha \in {gate[r].seen.sha, main.sha, main'.sha}
      BY SeenSteps
  <2> QED BY <1>1, <2>1, <2>2, <2>3, <2>4, <2>5 DEF Behind
<1> QED BY <1>2, <1>3

\* A run that landed comes to nothing else.
LEMMA LandedKeeps ==
    ASSUME IInv, MInv, [Next]_vars, NEW r \in Runs, pull'[r].state = "merged"
    PROVE  /\ Approved(r)' \/ Unjudged(r)'
           /\ gate'[r].pc # "prepare"
           /\ gate'[r].pc = "jobs" => Approved(r)'
<1>1. Shape /\ gate[r] \in GateRecords /\ GateOK(r)
    BY DEF IInv, Shape
<1>2. CASE Merge(r)
  <2>1. Approved(r)
      BY <1>1, <1>2 DEF Merge, GateOK
  <2> QED BY <1>1, <1>2, <2>1, MergeFacts DEF Approved
<1>3. CASE pull[r].state = "merged" /\ ~Merge(r)
  <2>1. /\ Approved(r) \/ Unjudged(r)
        /\ gate[r].pc # "prepare" /\ (gate[r].pc = "jobs" => Approved(r))
        /\ Proposed(r) /\ Open # {r} /\ ~Rejected(r)
      BY <1>3 DEF MInv, Once, Landed, Proposed, Open, Approved, Unjudged, Rejected
  <2>2. CASE gate'[r] = gate[r]
      BY <2>1, <2>2 DEF Approved, Unjudged
  <2>3. CASE Moves(r)
      BY <1>1, <2>1, <2>3, MovesFacts DEF Approved, Unjudged
  <2>4. ASSUME NEW result, Test(r, result) \/ Review(r, result) PROVE FALSE
      BY <1>1, <2>1, <2>4, TestFacts DEF Approved
  <2>5. CASE RecordRead(r) \/ RecordWrite(r)
      BY <1>1, <2>1, <2>5 DEF RecordRead, RecordWrite, GateOK
  <2>6. ASSUME NEW all \in BOOLEAN, Rerun(r, all)
        PROVE  (Approved(r)' \/ Unjudged(r)') /\ gate'[r].pc = "pending"
      BY <1>1, <2>1, <2>6, RerunFacts
  <2>7. CASE gate'[r] = [gate[r] EXCEPT !.pc = "completed"]
      BY <1>1, <2>1, <2>7 DEF GateRecords, Approved, Unjudged
  <2>8. ASSUME NEW n, gate'[r] = [NewGate EXCEPT !.id = n]
        PROVE  Unjudged(r)' /\ gate'[r].pc = "pending"
      BY <2>8 DEF NewGate, Unjudged
  <2>9. CASE Gate(r)
      BY <1>3, <2>3, <2>4, <2>5, <2>9 DEF Gate, Moves
  <2> QED BY <2>1, <2>2, <2>6, <2>7, <2>8, <2>9, GateSteps
<1> QED BY <1>2, <1>3, PullSteps

\* Nor does a run whose rejection is filed.
LEMMA FiledKeeps ==
    ASSUME IInv, IInv', HInv, Ids, MInv, [Next]_vars, NEW r \in Runs, r \in FiledRuns'
    PROVE  run'[r].base.sha < main'.sha /\ gate'[r].pc # "merge"
<1>1. /\ Shape /\ gate[r] \in GateRecords /\ run[r].base.sha \in Nat
      /\ main.sha \in Nat /\ main'.sha \in Nat /\ main.sha <= main'.sha
  <2>1. main.sha \in Nat /\ main'.sha \in Nat
      BY DEF IInv, Shape, Branches
  <2>2. main.sha <= main'.sha
      BY <2>1, HeadMoves DEF MainMoves
  <2> QED BY <2>1, <2>2 DEF IInv, Shape, RunRecords, Branches
<1>2. CASE RecordWrite(r) \/ OperatorCloses(r)
  <2>1. run'[r] = run[r] /\ gate'[r].pc # "merge"
    <3>1. CASE RecordWrite(r)
        BY <1>1, <3>1, RecordFacts DEF RecordWrite
    <3>2. CASE OperatorCloses(r)
        BY <3>2 DEF OperatorCloses, Active
    <3> QED BY <1>2, <3>1, <3>2
  <2>2. run[r].base.sha <= main.sha /\ (r \in FiledRuns => run[r].base.sha < main.sha)
      BY DEF MInv, Behind, Once
  <2>3. r \in FiledRuns \/ main'.sha = main.sha + 1
      BY FiledSteps
  <2> QED BY <1>1, <2>1, <2>2, <2>3
<1>3. CASE r \in FiledRuns /\ ~RecordWrite(r)
  <2>1. run[r].base.sha < main.sha /\ gate[r].pc # "merge"
      BY <1>3 DEF MInv, Once
  <2>2. gate[r].id # 0
      BY <1>3 DEF FiledRuns, Gates
  <2>3. run'[r] = run[r]
      BY <2>2, GateStays
  <2>4. gate'[r].pc # "merge"
    <3>1. CASE Moves(r)
        BY <1>1, <2>1, <3>1, MovesFacts
    <3>2. ASSUME NEW result, Test(r, result) \/ Review(r, result) PROVE gate'[r].pc = "jobs"
        BY <1>1, <3>2, TestFacts
    <3>3. ~Merge(r)
        BY <2>1 DEF Merge
    <3>4. CASE RecordRead(r)
        BY <1>1, <3>4, RecordFacts
    <3>5. ASSUME NEW all \in BOOLEAN, Rerun(r, all) PROVE gate'[r].pc = "pending"
        BY <1>1, <3>5, RerunFacts
    <3>6. CASE gate'[r] = [gate[r] EXCEPT !.pc = "completed"]
        BY <1>1, <3>6 DEF GateRecords
    <3>7. CASE Gate(r)
        BY <1>3, <3>1, <3>2, <3>3, <3>4, <3>7 DEF Gate, Moves
    <3> QED BY <2>1, <2>2, <3>5, <3>6, <3>7, GateSteps
  <2> QED BY <1>1, <2>1, <2>3, <2>4
<1>4. r \in FiledRuns \/ RecordWrite(r) \/ OperatorCloses(r)
    BY FiledSteps
<1> QED BY <1>2, <1>3, <1>4

LEMMA MovesInit == Init => MInv
<1> SUFFICES ASSUME Init PROVE MInv
    OBVIOUS
<1>1. main.sha = 0 /\ green = {0} /\ history = <<>> /\ main.sha \in Nat
    BY DEF Init
<1>2. ASSUME NEW r \in Runs
      PROVE  /\ run[r].base = main /\ pull[r].base = 0 /\ pull[r].state = "none"
             /\ gate[r].seen = main /\ gate[r].pc = "none"
    BY DEF Init, NoRun, NewGate
<1>3. FiledRuns = {} /\ Landed = {}
    BY <1>1, <1>2 DEF FiledRuns, Landed
<1>4. Cardinality(Moved) = 0
    BY <1>3, FS_EmptySet DEF Moved
<1> QED BY <1>1, <1>2, <1>3, <1>4, LoopBoundsAssumption DEF MInv, Behind, Once

LEMMA MovesKeep == ASSUME IInv, IInv', HInv, Ids, MInv, [Next]_vars PROVE MInv'
<1>1. ASSUME NEW r \in Runs PROVE Once(r)'
    BY LandedKeeps, FiledKeeps DEF Once, Landed
<1> QED BY <1>1, BoundKeeps, BehindKeeps DEF MInv

-----------------------------------------------------------------------------
(* The theorems. *)

LEMMA IdInvariance == Spec => []Ids
<1>1. IInv /\ IInv' /\ Ids /\ [Next]_vars => Ids'
    BY IdsKeep
<1> QED BY IdsInit, Invariance, <1>1, PTL DEF Spec

LEMMA HistoryInvariance == Spec => []HInv
<1>1. IInv /\ IInv' /\ HInv /\ Ids /\ [Next]_vars => HInv'
    BY HistoryKeeps
<1> QED BY HistoryInit, Invariance, IdInvariance, <1>1, PTL DEF Spec

\* For any number of sources, runs, reruns and reconciliations the ledger counts exactly
\* the rejections in a row that reached main (record_rejection, publish_review_feedback).
THEOREM LedgerCounts == Spec => []CountIsHonest
<1>1. HInv => CountIsHonest
  <2> SUFFICES ASSUME HInv, NEW s \in Sources
               PROVE  Budget(s) = IF main.ledger[s] = None THEN 0 ELSE main.ledger[s].count
      BY DEF CountIsHonest
  <2>1. Tallies(main.ledger, history, s)
      BY DEF HInv
  <2>2. CASE main.ledger[s] = None
    <3>1. InARow(history, s) = {}
        BY <2>1, <2>2 DEF Tallies, InARow
    <3> QED BY <2>2, <3>1, FS_EmptySet DEF Budget
  <2>3. CASE main.ledger[s] # None
      BY <2>1, <2>3 DEF Tallies, Budget
  <2> QED BY <2>2, <2>3
<1> QED BY <1>1, HistoryInvariance, PTL

LEMMA MoveInvariance == Spec => []MInv
<1>1. IInv /\ IInv' /\ HInv /\ Ids /\ MInv /\ [Next]_vars => MInv'
    BY MovesKeep
<1> QED BY MovesInit, Invariance, IdInvariance, HistoryInvariance, <1>1, PTL DEF Spec

\* Every state is well typed and main moves at most once for each run, on top of what
\* people push: a run that merged never files a rejection, and the other way around
\* (merge, publish_review_feedback, the operator's reconciliation).
THEOREM TypesAndMoves == Spec => []TypeOK
<1>1. IInv /\ HInv /\ MInv => TypeOK
  <2> SUFFICES ASSUME IInv, HInv, MInv PROVE TypeOK
      OBVIOUS
  <2> DEFINE Last == MaxSha + MaxRuns
  <2>1. main.sha <= Last /\ Last \in Nat /\ main.sha \in Nat /\ main \in Branches
    <3>1. Cardinality(Moved) \in Nat /\ Cardinality(Moved) <= MaxRuns
        BY MovedRuns, SomeRuns
    <3> QED BY <3>1, LoopBoundsAssumption DEF MInv, IInv, Shape, Branches
  <2>2. ASSUME NEW m \in Branches, m.sha <= main.sha PROVE m \in Mains
    <3>1. m.sha \in 0 .. Last
        BY <2>1, <2>2 DEF Branches
    <3> QED BY <3>1 DEF Branches, Mains
  <2>3. ASSUME NEW r \in Runs
        PROVE  /\ run[r].base \in Mains /\ gate[r].seen \in Mains /\ pull[r].base \in 0 .. Last
               /\ run[r] \in RunRecords /\ gate[r] \in GateRecords /\ pull[r] \in PullRecords
    <3>1. run[r] \in RunRecords /\ gate[r] \in GateRecords /\ pull[r] \in PullRecords
        BY DEF IInv, Shape
    <3>2. Behind(r)
        BY DEF MInv
    <3>3. run[r].base \in Branches /\ gate[r].seen \in Branches /\ pull[r].base \in Nat
        BY <3>1 DEF RunRecords, GateRecords, PullRecords
    <3>4. run[r].base \in Mains /\ gate[r].seen \in Mains
        BY <2>2, <3>2, <3>3 DEF Behind
    <3> QED BY <2>1, <3>1, <3>2, <3>3, <3>4 DEF Behind
  <2>4. run \in [Runs -> [pc : RunLabels, failed : Jobs \cup {None}, attempt : Attempts,
                         from : Origins, base : Mains, retry : Retries, source : Sources \cup {None},
                         tree : Contents \cup {None}, override : BOOLEAN]]
      BY <2>3 DEF RunRecords, IInv, Shape
  <2>5. pull \in [Runs -> [state : {"none", "open", "merged", "closed"}, base : 0 .. Last]]
      BY <2>3 DEF PullRecords, IInv, Shape
  <2>6. gate \in [Runs -> [pc : GateLabels, tests : {"pending", "success", "failure"},
                          review : {"pending", "approved", "rejected", "failure"},
                          reviewed : Attempts, recorded : BOOLEAN,
                          seen : Mains, attempt : Attempts, id : Nat]]
      BY <2>3 DEF GateRecords, IInv, Shape
  <2>7. main \in Mains /\ green \subseteq 0 .. Last /\ content \in [Sources -> Contents]
      BY <2>1, <2>2 DEF MInv, IInv, Shape
  <2> QED BY <2>4, <2>5, <2>6, <2>7 DEF TypeOK
<1> QED BY <1>1, Invariance, HistoryInvariance, MoveInvariance, PTL
=============================================================================
