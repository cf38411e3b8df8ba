-------------------------- MODULE UpdateLoopProofs --------------------------
(***************************************************************************)
(* Proofs about UpdateLoop for any sources, contents, budgets and numbers  *)
(* of runs.                                                                *)
(***************************************************************************)
EXTENDS UpdateLoop, FiniteSetTheorems, WellFoundedInduction, TLAPS

-----------------------------------------------------------------------------
(* The inductive invariant. *)

\* The types, without the bounds on the number of commits.
Branches == [sha : Nat, pin : [Sources -> Contents], ledger : Ledgers]

RunRecords == [pc : RunLabels, failed : Jobs \cup {None}, attempt : Attempts, from : Origins, base : Branches,
               retry : Retries, source : Sources \cup {None}, tree : Contents \cup {None},
               override : BOOLEAN]
PullRecords == [state : {"none", "open", "merged", "closed"}, base : Nat]
GateRecords == [pc : GateLabels, tests : {"pending", "success", "failure"},
                review : {"pending", "approved", "rejected", "failure"},
                reviewed : Attempts, recorded : BOOLEAN, seen : Branches, attempt : Attempts,
                id : Nat]

Shape ==
    /\ main \in Branches
    /\ content \in [Sources -> Contents]
    /\ run \in [Runs -> RunRecords]
    /\ pull \in [Runs -> PullRecords]
    /\ gate \in [Runs -> GateRecords]

\* Runs proceed one at a time.
Serial == \A q, r \in Runs : ~Idle(q) /\ ~Idle(r) => q = r

Single == \A q, r \in Open : q # r => run[q].from # "plan" \/ run[r].from # "plan"

Chosen(r) == run[r].source \in Sources /\ run[r].tree \in Contents

Proposed(r) == pull[r].state # "none"

\* A run beyond its plan, and never rerun without it, has seen no candidate open, and
\* nobody else opens one; a run that failed late has chosen what it is for; only a run
\* that succeeded, which is never rerun, has a gate.
RunOK(r) ==
    /\ run[r].pc \in {"detect", "maintain", "publish", "create"} /\ run[r].from = "plan"
          => Open = {}
    /\ run[r].pc \in {"maintain", "publish", "create"} => Chosen(r)
    /\ run[r].pc = "failed" => run[r].failed \in Jobs
    /\ run[r].pc = "failed" /\ run[r].failed \in {"maintain", "publish"} => Chosen(r)
    /\ Proposed(r) => Chosen(r)
    /\ gate[r].id # 0 => run[r].pc = "succeeded"

Unjudged(r) == gate[r].tests = "pending" /\ gate[r].review = "pending"

\* The rejection of this gate, or a later one, is in the ledger.
Kept(r) ==
    /\ main.ledger[run[r].source] # None
    /\ main.ledger[run[r].source].report.run >= gate[r].id

\* What a gate read of main is still the head, or main has moved past it.
Current(r) == gate[r].seen.sha <= main.sha /\ (gate[r].seen.sha = main.sha => gate[r].seen = main)

GateOK(r) ==
    /\ gate[r].id = 0 => gate[r].pc = "none" /\ Unjudged(r) /\ ~gate[r].recorded
    /\ ~Unjudged(r) \/ gate[r].recorded => Proposed(r)
    /\ gate[r].pc \in {"prepare", "jobs"} => Proposed(r)
    /\ gate[r].pc \in {"resolve", "prepare"} => Unjudged(r)
    /\ gate[r].pc \in {"recheck", "merge", "dispatch"} => Approved(r)
    /\ gate[r].pc \in {"record", "record_write"} => Rejected(r)
    /\ gate[r].pc = "record_write" =>
          Current(r) /\ Advances(gate[r].seen.ledger, Report(r), run[r].override)
    /\ gate[r].pc = "cleanup" => Unjudged(r) \/ JobsEnd(r)
    /\ gate[r].pc = "cleanup" /\ Rejected(r) => gate[r].recorded
    /\ gate[r].recorded => Kept(r)

IInv ==
    /\ Shape
    /\ Serial /\ Single
    /\ \A r \in Runs : RunOK(r) /\ GateOK(r)

-----------------------------------------------------------------------------
(* The ledger. *)

LEMMA Limits == MaxRejections \in Nat \ {0} /\ MaxRuns \in Nat /\ Sources \subseteq Nat
    BY LimitsAssumption, LoopBoundsAssumption, SourcesAssumption

\* What a ledger knows is still there in a later one, or something newer.
Forward(before, after) ==
    \A s \in Sources : before[s] # None =>
        /\ after[s] # None
        /\ after[s].report.run >= before[s].report.run
        /\ after[s].report.run = before[s].report.run => after[s] = before[s]

LEMMA LedgerFacts ==
    ASSUME NEW l \in Ledgers, NEW s \in Sources, l[s] # None
    PROVE  /\ l[s] \in Entries /\ l[s].report \in Reports
           /\ l[s].report.run \in Int /\ l[s].count \in 1 .. MaxRejections
    BY Limits DEF Ledgers, Entries, Reports

LEMMA SpentFacts ==
    ASSUME NEW l \in Ledgers, NEW s \in Sources, NEW t
    PROVE  Spent(l, s, t) \in 0 .. MaxRejections
    BY LedgerFacts, Limits DEF Spent

\* Recording keeps the ledger well formed, keeps what others recorded, and enters a
\* report that is newer than the entry of its source.
LEMMA RecordedFacts ==
    ASSUME NEW l \in Ledgers, NEW report \in Reports, NEW override \in BOOLEAN
    PROVE  /\ Recorded(l, report, override) \in Ledgers
           /\ Forward(l, Recorded(l, report, override))
           /\ Advances(l, report, override) =>
                Recorded(l, report, override)[report.source] # None /\
                Recorded(l, report, override)[report.source].report = report
<1> DEFINE s == report.source
           entry == [count |-> 1 + IF override THEN 0 ELSE Spent(l, s, report.tree),
                     report |-> report]
<1>1. s \in Sources /\ report.run \in Int
    BY Limits DEF Reports
<1>2. l \in [Sources -> Entries \cup {None}]
    BY DEF Ledgers
<1>3. CASE ~Advances(l, report, override)
  <2>1. Recorded(l, report, override) = l
      BY <1>3 DEF Recorded
  <2>2. Forward(l, l)
      BY LedgerFacts DEF Forward
  <2> QED BY <1>3, <2>1, <2>2
<1>4. CASE Advances(l, report, override)
  <2>1. Recorded(l, report, override) = [l EXCEPT ![s] = entry]
      BY <1>4 DEF Recorded
  <2>2. entry \in Entries
    <3>1. CASE override
        BY <3>1, Limits DEF Entries
    <3>2. CASE ~override
      <4>1. Spent(l, s, report.tree) \in 0 .. (MaxRejections - 1)
        <5>1. Spent(l, s, report.tree) \in 0 .. MaxRejections
            BY <1>1, SpentFacts
        <5>2. Spent(l, s, report.tree) < MaxRejections
            BY <1>4, <3>2 DEF Advances
        <5> QED BY <5>1, <5>2, Limits
      <4> QED BY <3>2, <4>1, Limits DEF Entries
    <3> QED BY <3>1, <3>2
  <2>3. entry # None /\ entry.report = report
      BY <2>2, NoneAssumption
  <2> HIDE DEF entry
  <2>4. [l EXCEPT ![s] = entry] \in Ledgers
      BY <1>1, <1>2, <2>2 DEF Ledgers
  <2>5. ASSUME NEW q \in Sources
        PROVE  [l EXCEPT ![s] = entry][q] = IF q = s THEN entry ELSE l[q]
      BY <1>1, <1>2, <2>5
  <2>6. l[s] # None => l[s].report.run \in Int /\ l[s].report.run < report.run
      BY <1>1, <1>4, LedgerFacts DEF Advances
  <2>7. Forward(l, [l EXCEPT ![s] = entry])
      BY <1>1, <2>3, <2>5, <2>6, LedgerFacts DEF Forward
  <2> QED BY <1>1, <2>1, <2>3, <2>4, <2>5, <2>7
<1> QED BY <1>3, <1>4

-----------------------------------------------------------------------------
(* What keeps the parts of the invariant. *)

\* The head of main stays, or moves on with the ledger it has or a later one.
MainMoves ==
    \/ UNCHANGED main
    \/ main'.sha = main.sha + 1 /\ Forward(main.ledger, main'.ledger)

LEMMA KeptStays ==
    ASSUME Shape, Shape', NEW r \in Runs, Kept(r), Chosen(r), MainMoves, run'[r] = run[r],
           gate'[r].id = gate[r].id
    PROVE  Kept(r)'
<1>1. /\ main.ledger \in Ledgers /\ main'.ledger \in Ledgers /\ run[r].source \in Sources
      /\ gate[r].id \in Int
    BY DEF Shape, Branches, Chosen, GateRecords
<1>2. CASE UNCHANGED main
    BY <1>2 DEF Kept
<1>3. CASE Forward(main.ledger, main'.ledger)
  <2>1. /\ main.ledger[run[r].source].report.run \in Int
        /\ main'.ledger[run[r].source] # None
        /\ main'.ledger[run[r].source].report.run >= main.ledger[run[r].source].report.run
      BY <1>1, <1>3, LedgerFacts DEF Kept, Forward
  <2>2. main'.ledger[run[r].source].report.run \in Int
      BY <1>1, <2>1, LedgerFacts
  <2> QED BY <1>1, <2>1, <2>2 DEF Kept
<1> QED BY <1>2, <1>3 DEF MainMoves

LEMMA CurrentStays ==
    ASSUME Shape, Shape', NEW r \in Runs, Current(r), MainMoves, gate'[r].seen = gate[r].seen
    PROVE  Current(r)'
<1>1. main.sha \in Nat /\ main'.sha \in Nat /\ gate[r].seen.sha \in Nat
    BY DEF Shape, Branches, GateRecords
<1>2. CASE UNCHANGED main
    BY <1>2 DEF Current
<1>3. CASE main'.sha = main.sha + 1
    BY <1>1, <1>3 DEF Current
<1> QED BY <1>2, <1>3 DEF MainMoves

\* A gate nobody touches, whatever others do to main, runs and pull requests.
LEMMA GateFrame ==
    ASSUME Shape, Shape', NEW r \in Runs, RunOK(r), GateOK(r), MainMoves,
           Proposed(r) => Proposed(r)', gate[r].id # 0 => run'[r] = run[r],
           gate'[r] = gate[r]
    PROVE  GateOK(r)'
<1>1. CASE gate[r].id # 0
  <2>1. run'[r] = run[r] /\ (Proposed(r) => Chosen(r))
      BY <1>1 DEF RunOK
  <2>2. gate[r].recorded => Kept(r)'
      BY <2>1, KeptStays DEF GateOK
  <2>3. gate[r].pc = "record_write" => Current(r)'
      BY CurrentStays DEF GateOK
  <2> QED BY <1>1, <2>1, <2>2, <2>3 DEF GateOK, Unjudged, Approved, Rejected, JobsEnd, Report
<1>2. CASE gate[r].id = 0
    BY <1>2 DEF GateOK, Unjudged
<1> QED BY <1>1, <1>2

\* A gate is left alone, or takes a step.
GateMoves(r) ==
    \/ gate'[r] = gate[r]
    \/ gate[r].pc # "none" /\ gate'[r].id = gate[r].id /\ GateOK(r)'

\* Steps after the runs: gates, people and GitHub open no pull request.
LEMMA LaterKeeps ==
    ASSUME IInv, Shape', run' = run, MainMoves,
           \A r \in Runs : Proposed(r)' <=> Proposed(r),
           Open' \subseteq Open,
           \A r \in Runs : GateMoves(r)
    PROVE  IInv'
<1>1. Serial' /\ Single'
    BY DEF IInv, Serial, Single, Idle
<1>2. ASSUME NEW r \in Runs PROVE RunOK(r)'
  <2>1. RunOK(r) /\ gate'[r].id = gate[r].id
      BY DEF IInv, GateMoves
  <2> QED BY <2>1 DEF RunOK, Chosen
<1>3. ASSUME NEW r \in Runs PROVE GateOK(r)'
    BY GateFrame DEF IInv, GateMoves
<1> QED BY <1>1, <1>2, <1>3 DEF IInv
-----------------------------------------------------------------------------
(* The steps of a gate. *)

LEMMA ShapeFacts ==
    ASSUME Shape, NEW r \in Runs
    PROVE  /\ gate[r] \in GateRecords /\ run[r] \in RunRecords /\ pull[r] \in PullRecords
           /\ gate \in [Runs -> GateRecords] /\ run \in [Runs -> RunRecords]
           /\ pull \in [Runs -> PullRecords]
           /\ main \in Branches /\ r \in Nat
    BY Limits DEF Shape, Runs

\* A step that changes the record of one gate only.
LEMMA OneGateKeeps ==
    ASSUME IInv, OnlyGate, UNCHANGED content, NEW r \in Runs, gate[r].pc # "none",
           NEW g \in GateRecords, g.id = gate[r].id,
           gate' = [gate EXCEPT ![r] = g], GateOK(r)'
    PROVE  IInv'
<1>1. gate' \in [Runs -> GateRecords] /\ \A q \in Runs : GateMoves(q)
    BY DEF IInv, Shape, GateMoves
<1>2. Shape'
    BY <1>1 DEF IInv, Shape, OnlyGate
<1>3. /\ MainMoves /\ run' = run /\ Open' \subseteq Open
      /\ \A q \in Runs : Proposed(q)' <=> Proposed(q)
    BY DEF OnlyGate, MainMoves, Open, Proposed
<1> QED BY <1>1, <1>2, <1>3, LaterKeeps

LEMMA GateToFacts ==
    ASSUME Shape, NEW r \in Runs, NEW label \in GateLabels, GateTo(r, label)
    PROVE  /\ [gate[r] EXCEPT !.pc = label] \in GateRecords
           /\ gate' = [gate EXCEPT ![r] = [gate[r] EXCEPT !.pc = label]]
           /\ gate'[r] = [gate[r] EXCEPT !.pc = label]
           /\ gate'[r].pc = label /\ gate'[r].tests = gate[r].tests
           /\ gate'[r].review = gate[r].review /\ gate'[r].recorded = gate[r].recorded
           /\ gate'[r].seen = gate[r].seen /\ gate'[r].reviewed = gate[r].reviewed
           /\ gate'[r].id = gate[r].id /\ [gate[r] EXCEPT !.pc = label].id = gate[r].id
<1>1. gate[r] \in GateRecords /\ gate \in [Runs -> GateRecords]
    BY ShapeFacts
<1>2. gate' = [gate EXCEPT ![r] = [gate[r] EXCEPT !.pc = label]]
    BY <1>1 DEF GateTo
<1> QED BY <1>1, <1>2 DEF GateRecords

\* Where a gate may go.
LEMMA LabelKeeps ==
    ASSUME IInv, NEW r \in Runs, gate[r].pc # "none",
           NEW label \in GateLabels \ {"record_write"}, GateTo(r, label),
           OnlyGate, UNCHANGED content,
           label \in {"prepare", "jobs"} => Proposed(r),
           label \in {"resolve", "prepare"} => Unjudged(r),
           label \in {"recheck", "merge", "dispatch"} => Approved(r),
           label = "record" => Rejected(r),
           label = "cleanup" => Unjudged(r) \/ JobsEnd(r),
           label = "cleanup" /\ Rejected(r) => gate[r].recorded
    PROVE  IInv'
<1>1. Shape
    BY DEF IInv
<1>2. GateOK(r)'
  <2>1. /\ gate'[r].pc = label /\ gate'[r].tests = gate[r].tests
        /\ gate'[r].review = gate[r].review /\ gate'[r].recorded = gate[r].recorded
        /\ gate'[r].id = gate[r].id
      BY <1>1, GateToFacts
  <2>2. Kept(r)' <=> Kept(r)
      BY <2>1 DEF OnlyGate, Kept
  <2>3. GateOK(r) /\ gate'[r].id # 0 /\ (Proposed(r)' <=> Proposed(r))
      BY <2>1 DEF IInv, GateOK, OnlyGate, Proposed
  <2> QED BY <2>1, <2>2, <2>3 DEF GateOK, Unjudged, Approved, Rejected, JobsEnd
<1>3. /\ [gate[r] EXCEPT !.pc = label] \in GateRecords
      /\ gate' = [gate EXCEPT ![r] = [gate[r] EXCEPT !.pc = label]]
      /\ [gate[r] EXCEPT !.pc = label].id = gate[r].id
    BY <1>1, GateToFacts
<1> QED BY <1>2, <1>3, OneGateKeeps

\* Steps of a gate that only take it further.
LEMMA AdvanceKeeps ==
    ASSUME IInv, UNCHANGED content, NEW r \in Runs,
           \/ Start(r) \/ Resolve(r) \/ Prepare(r) \/ PrepareFails(r) \/ JobsDone(r)
           \/ Recheck(r) \/ MergeRefused(r) \/ RecordFails(r) \/ CleanupFails(r)
    PROVE  IInv'
<1>1. gate[r].pc \in GateLabels /\ GateOK(r)
    BY ShapeFacts DEF IInv, GateRecords
<1>2. CASE Start(r)
  <2>1. CASE Unjudged(r)
      BY <1>1, <1>2, <2>1, LabelKeeps DEF Start, Unjudged, GateLabels
  <2>2. CASE ~Unjudged(r)
      BY <1>1, <1>2, <2>2, LabelKeeps DEF Start, Unjudged, GateLabels, GateOK
  <2> QED BY <2>1, <2>2
<1>3. CASE Resolve(r)
  <2>1. Unjudged(r) /\ ~Rejected(r)
      BY <1>1, <1>3 DEF Resolve, GateOK, Unjudged, Rejected
  <2>2. CASE Open = {r}
    <3>1. Proposed(r)
        BY <2>2 DEF Open, Proposed
    <3> QED BY <1>3, <2>1, <2>2, <3>1, LabelKeeps DEF Resolve, GateLabels
  <2>3. CASE Open # {r}
      BY <1>3, <2>1, <2>3, LabelKeeps DEF Resolve, GateLabels
  <2> QED BY <2>2, <2>3
<1>4. CASE Prepare(r)
    BY <1>1, <1>4, LabelKeeps DEF Prepare, GateLabels, GateOK
<1>5. CASE PrepareFails(r)
    BY <1>1, <1>5, LabelKeeps DEF PrepareFails, GateLabels, GateOK, Unjudged, Rejected
<1>6. CASE JobsDone(r)
    BY <1>1, <1>6, LabelKeeps DEF JobsDone, GateLabels, GateOK
<1>7. CASE Recheck(r)
    BY <1>1, <1>7, LabelKeeps DEF Recheck, GateLabels, GateOK, Approved, Rejected, JobsEnd
<1>8. CASE MergeRefused(r)
    BY <1>1, <1>8, LabelKeeps DEF MergeRefused, GateLabels, GateOK, Approved, Rejected, JobsEnd
<1>9. CASE RecordFails(r)
    BY <1>1, <1>9, LabelKeeps DEF RecordFails, GateLabels
<1>10. CASE CleanupFails(r)
    BY <1>1, <1>10, LabelKeeps DEF CleanupFails, GateLabels
<1> QED BY <1>2, <1>3, <1>4, <1>5, <1>6, <1>7, <1>8, <1>9, <1>10

\* A job of the gate reports.
LEMMA JobKeeps ==
    ASSUME IInv, UNCHANGED content, NEW r \in Runs,
           \/ \E result \in {"success", "failure"} : Test(r, result)
           \/ \E verdict \in {"approved", "rejected", "failure"} : Review(r, verdict)
    PROVE  IInv'
<1> DEFINE Works(g) == /\ gate' = [gate EXCEPT ![r] = g]
                       /\ g.pc = "jobs" /\ g.recorded = gate[r].recorded
                       /\ g.id = gate[r].id
<1>1. gate[r] \in GateRecords /\ gate \in [Runs -> GateRecords] /\ GateOK(r)
    BY ShapeFacts DEF IInv
<1>2. /\ gate[r].pc = "jobs" /\ OnlyGate
      /\ \/ \E result \in {"success", "failure"} :
                gate' = [gate EXCEPT ![r] = [gate[r] EXCEPT !.tests = result]]
         \/ \E verdict \in {"approved", "rejected", "failure"} :
                gate' = [gate EXCEPT ![r] = [gate[r] EXCEPT !.review = verdict,
                                                            !.reviewed = gate[r].attempt]]
    BY <1>1 DEF Test, Review
<1>3. PICK g \in GateRecords : Works(g)
  <2>1. ASSUME NEW result \in {"success", "failure"},
               gate' = [gate EXCEPT ![r] = [gate[r] EXCEPT !.tests = result]]
        PROVE  \E g \in GateRecords : Works(g)
    <3>1. [gate[r] EXCEPT !.tests = result] \in GateRecords
        BY <1>1 DEF GateRecords
    <3>2. Works([gate[r] EXCEPT !.tests = result])
        BY <1>1, <1>2, <2>1 DEF GateRecords
    <3> QED BY <3>1, <3>2
  <2>2. ASSUME NEW verdict \in {"approved", "rejected", "failure"},
               gate' = [gate EXCEPT ![r] = [gate[r] EXCEPT !.review = verdict,
                                                           !.reviewed = gate[r].attempt]]
        PROVE  \E g \in GateRecords : Works(g)
    <3> DEFINE done == [gate[r] EXCEPT !.review = verdict, !.reviewed = gate[r].attempt]
    <3>1. done \in GateRecords
        BY <1>1 DEF GateRecords
    <3>2. done.pc = "jobs" /\ done.recorded = gate[r].recorded /\ done.id = gate[r].id
        BY <1>1, <1>2 DEF GateRecords
    <3>3. Works(done)
        BY <2>2, <3>2
    <3> QED BY <3>1, <3>3
  <2> QED BY <1>2, <2>1, <2>2
<1>4. GateOK(r)'
  <2>1. gate'[r].pc = "jobs" /\ gate'[r].recorded = gate[r].recorded
        /\ gate'[r].id = gate[r].id
      BY <1>1, <1>3
  <2>2. Proposed(r)' /\ (Kept(r)' <=> Kept(r))
      BY <1>1, <1>2, <2>1 DEF OnlyGate, Proposed, Kept, GateOK
  <2>3. gate'[r].id # 0
      BY <1>1, <1>2, <2>1 DEF GateOK
  <2> QED BY <1>1, <2>1, <2>2, <2>3 DEF GateOK
<1> QED BY <1>2, <1>3, <1>4, OneGateKeeps

LEMMA ReportFacts ==
    ASSUME Shape, NEW r \in Runs, Chosen(r), gate[r].id # 0
    PROVE  Report(r) \in Reports /\ run[r].override \in BOOLEAN
<1>1. /\ run[r].override \in BOOLEAN /\ gate[r].reviewed \in Attempts
      /\ gate[r].id \in Nat \ {0}
    BY ShapeFacts DEF RunRecords, GateRecords
<1> QED BY <1>1 DEF Report, Reports, Chosen

LEMMA SameLedgerForward == ASSUME NEW l \in Ledgers PROVE Forward(l, l)
    BY LedgerFacts DEF Forward

LEMMA PushedFacts ==
    ASSUME Shape, NEW ledger \in Ledgers, Forward(main.ledger, ledger), main' = Pushed(ledger)
    PROVE  main' \in Branches /\ MainMoves /\ main'.ledger = ledger
<1>1. main \in Branches /\ main' = [main EXCEPT !.sha = main.sha + 1, !.ledger = ledger]
    BY DEF Shape, Pushed
<1>2. main.sha + 1 \in Nat
    BY <1>1 DEF Branches
<1>3. main' \in Branches
    BY <1>1, <1>2 DEF Branches
<1>4. main'.sha = main.sha + 1 /\ main'.ledger = ledger
    BY <1>1 DEF Branches
<1> QED BY <1>3, <1>4 DEF MainMoves

\* The merge of r.
LEMMA MergeKeeps == ASSUME IInv, UNCHANGED content, NEW r \in Runs, Merge(r) PROVE IInv'
<1>1. /\ gate[r] \in GateRecords /\ gate \in [Runs -> GateRecords] /\ pull[r] \in PullRecords
      /\ pull \in [Runs -> PullRecords] /\ main \in Branches /\ run' = run
      /\ gate[r].pc = "merge" /\ GateOK(r) /\ RunOK(r) /\ pull[r].state = "open" /\ Shape
    BY ShapeFacts DEF IInv, Merge
<1>2. Chosen(r) /\ Approved(r)
    BY <1>1 DEF GateOK, RunOK, Proposed
<1>3. main' \in Branches /\ MainMoves
  <2>1. main' = [main EXCEPT !.sha = main.sha + 1,
                             !.pin = [main.pin EXCEPT ![run[r].source] = run[r].tree]]
      BY DEF Merge
  <2>2. [main.pin EXCEPT ![run[r].source] = run[r].tree] \in [Sources -> Contents]
      BY <1>1, <1>2 DEF Branches, Chosen
  <2>5. main.sha + 1 \in Nat
      BY <1>1 DEF Branches
  <2>3. main' \in Branches /\ main'.sha = main.sha + 1 /\ main'.ledger = main.ledger
    <3>1. main' \in Branches
        BY <1>1, <2>1, <2>2, <2>5 DEF Branches
    <3> QED BY <1>1, <2>1, <3>1 DEF Branches
  <2>4. Forward(main.ledger, main'.ledger)
      BY <1>1, <2>3, SameLedgerForward DEF Branches
  <2> QED BY <2>3, <2>4 DEF MainMoves
<1>4. /\ gate' \in [Runs -> GateRecords] /\ \A q \in Runs \ {r} : gate'[q] = gate[q]
      /\ gate'[r].pc = "dispatch" /\ gate'[r].tests = gate[r].tests
      /\ gate'[r].review = gate[r].review /\ gate'[r].recorded = gate[r].recorded
      /\ gate'[r].id = gate[r].id
  <2>7. gate \in [Runs -> GateRecords]
      BY <1>1
  <2>8. ASSUME NEW m
        PROVE  [gate EXCEPT ![r].pc = "dispatch", ![r].seen = m]
                   = [gate EXCEPT ![r] = [gate[r] EXCEPT !.pc = "dispatch", !.seen = m]]
      BY <2>7
  <2>9. gate' = [gate EXCEPT ![r].pc = "dispatch", ![r].seen = main']
      BY DEF Merge
  <2>1. gate' = [gate EXCEPT ![r] = [gate[r] EXCEPT !.pc = "dispatch", !.seen = main']]
      BY <2>8, <2>9
  <2>2. [gate[r] EXCEPT !.pc = "dispatch", !.seen = main'] \in GateRecords
      BY <1>1, <1>3 DEF GateRecords, GateLabels
  <2>3. gate'[r] = [gate[r] EXCEPT !.pc = "dispatch", !.seen = main']
      BY <1>1, <2>1
  <2>4. gate' \in [Runs -> GateRecords] /\ \A q \in Runs \ {r} : gate'[q] = gate[q]
      BY <1>1, <2>1, <2>2
  <2>5. gate[r] \in GateRecords
      BY <1>1
  <2>6. /\ gate'[r].pc = "dispatch" /\ gate'[r].tests = gate[r].tests
        /\ gate'[r].review = gate[r].review /\ gate'[r].recorded = gate[r].recorded
        /\ gate'[r].id = gate[r].id
      BY <2>3, <2>5 DEF GateRecords
  <2> QED BY <2>4, <2>6
<1>5. /\ pull' \in [Runs -> PullRecords] /\ Open' \subseteq Open
      /\ \A q \in Runs : Proposed(q)' <=> Proposed(q)
  <2>1. pull' = [pull EXCEPT ![r] = [pull[r] EXCEPT !.state = "merged"]]
      BY <1>1 DEF Merge
  <2>2. /\ [pull[r] EXCEPT !.state = "merged"] \in PullRecords
        /\ [pull[r] EXCEPT !.state = "merged"].state = "merged"
      BY <1>1 DEF PullRecords
  <2> QED BY <1>1, <2>1, <2>2 DEF Open, Proposed
<1>6. Shape'
    BY <1>1, <1>3, <1>4, <1>5 DEF Shape
<1>7. GateOK(r)'
  <2>1. gate[r].recorded => Kept(r)'
      BY <1>1, <1>2, <1>3, <1>4, <1>6, KeptStays DEF GateOK
  <2> QED BY <1>1, <1>2, <1>4, <1>5, <2>1 DEF GateOK, Approved, Unjudged, JobsEnd, Proposed
<1>8. \A q \in Runs : GateMoves(q)
    BY <1>1, <1>4, <1>7 DEF GateMoves
<1> QED BY <1>1, <1>3, <1>5, <1>6, <1>8, LaterKeeps

\* Main CI for the merge.
LEMMA DispatchKeeps == ASSUME IInv, UNCHANGED content, NEW r \in Runs, DispatchCI(r) PROVE IInv'
<1>1. Shape /\ gate[r].pc = "dispatch" /\ GateTo(r, "completed") /\ GateOK(r)
      /\ UNCHANGED <<main, run, pull, content>> /\ "completed" \in GateLabels
    BY DEF IInv, DispatchCI, GateLabels
<1>2. /\ gate' \in [Runs -> GateRecords] /\ \A q \in Runs \ {r} : gate'[q] = gate[q]
      /\ gate'[r].pc = "completed" /\ gate'[r].tests = gate[r].tests
      /\ gate'[r].review = gate[r].review /\ gate'[r].recorded = gate[r].recorded
      /\ gate'[r].id = gate[r].id
  <2>1. gate \in [Runs -> GateRecords]
      BY <1>1, ShapeFacts
  <2>2. /\ gate' = [gate EXCEPT ![r] = [gate[r] EXCEPT !.pc = "completed"]]
        /\ [gate[r] EXCEPT !.pc = "completed"] \in GateRecords
      BY <1>1, GateToFacts
  <2>3. gate' \in [Runs -> GateRecords] /\ \A q \in Runs \ {r} : gate'[q] = gate[q]
      BY <2>1, <2>2
  <2>4. /\ gate'[r].pc = "completed" /\ gate'[r].tests = gate[r].tests
        /\ gate'[r].review = gate[r].review /\ gate'[r].recorded = gate[r].recorded
        /\ gate'[r].id = gate[r].id
      BY <1>1, GateToFacts
  <2> QED BY <2>3, <2>4
<1>3. Shape' /\ MainMoves /\ Open' \subseteq Open
    BY <1>1, <1>2 DEF Shape, MainMoves, Open
<1>4. GateOK(r)'
    BY <1>1, <1>2 DEF GateOK, Unjudged, Kept, Proposed
<1>5. \A q \in Runs : Proposed(q)' <=> Proposed(q)
    BY <1>1 DEF Proposed
<1>6. \A q \in Runs : GateMoves(q)
    BY <1>1, <1>2, <1>4 DEF GateMoves
<1> QED BY <1>1, <1>3, <1>5, <1>6, LaterKeeps

\* The feedback job reads main.
LEMMA RecordReadKeeps ==
    ASSUME IInv, UNCHANGED content, NEW r \in Runs, RecordRead(r) PROVE IInv'
<1>1. /\ gate[r] \in GateRecords /\ gate \in [Runs -> GateRecords] /\ main \in Branches
      /\ gate[r].pc = "record" /\ GateOK(r) /\ RunOK(r) /\ Shape
      /\ OnlyGate
    BY ShapeFacts DEF IInv, RecordRead
<1>2. Rejected(r) /\ Proposed(r) /\ Chosen(r)
    BY <1>1 DEF GateOK, RunOK, Rejected, Unjudged
<1>3. CASE Advances(main.ledger, Report(r), run[r].override)
  <2> DEFINE g == [gate[r] EXCEPT !.pc = "record_write", !.seen = main]
  <2>1. gate' = [gate EXCEPT ![r] = g]
      BY <1>1, <1>3 DEF RecordRead
  <2>2. /\ g \in GateRecords /\ g.pc = "record_write" /\ g.seen = main
        /\ g.tests = gate[r].tests /\ g.review = gate[r].review
        /\ g.recorded = gate[r].recorded /\ g.reviewed = gate[r].reviewed
        /\ g.id = gate[r].id
      BY <1>1 DEF GateRecords, GateLabels
  <2> HIDE DEF g
  <2>3. gate'[r] = g
      BY <1>1, <2>1
  <2>4. Report(r)' = Report(r) /\ Current(r)' /\ (Kept(r)' <=> Kept(r))
      BY <1>1, <2>2, <2>3 DEF Report, Current, Kept, OnlyGate, Branches
  <2>5. Advances(gate[r].seen.ledger, Report(r), run[r].override)'
      BY <1>1, <1>3, <2>2, <2>3, <2>4 DEF Advances, Spent, OnlyGate
  <2>6. GateOK(r)'
      BY <1>1, <1>2, <2>2, <2>3, <2>4, <2>5
         DEF GateOK, Unjudged, Proposed, Rejected, OnlyGate
  <2> QED BY <1>1, <2>1, <2>2, <2>6, OneGateKeeps
<1>4. CASE ~Advances(main.ledger, Report(r), run[r].override)
  <2> DEFINE g == [gate[r] EXCEPT !.pc = "cleanup", !.recorded = TRUE]
  <2>1. gate' = [gate EXCEPT ![r] = g]
      BY <1>1, <1>4 DEF RecordRead
  <2>2. TRUE \in BOOLEAN
      BY Zenon
  <2>3. /\ g \in GateRecords /\ g.pc = "cleanup" /\ g.recorded = TRUE
        /\ g.tests = gate[r].tests /\ g.review = gate[r].review /\ g.id = gate[r].id
      BY <1>1, <2>2 DEF GateRecords, GateLabels
  <2> HIDE DEF g
  <2>4. gate'[r] = g
      BY <1>1, <2>1
  <2>5. Kept(r)
    <3>1. /\ main.ledger[Report(r).source] # None
          /\ main.ledger[Report(r).source].report.run = Report(r).run
        BY <1>4 DEF RecordRead, Records, Known
    <3>2. gate[r].id \in Nat
        BY <1>1 DEF GateRecords
    <3> QED BY <3>1, <3>2 DEF Kept, Report
  <2>6. GateOK(r)'
    <3>1. Kept(r)' /\ Proposed(r)' /\ Rejected(r)'
        BY <1>1, <1>2, <2>3, <2>4, <2>5 DEF Kept, Proposed, Rejected, OnlyGate
    <3> QED BY <1>1, <2>3, <2>4, <3>1 DEF GateOK, JobsEnd, Rejected
  <2> QED BY <1>1, <2>1, <2>3, <2>6, OneGateKeeps
<1> QED BY <1>3, <1>4
\* The rejection reaches main through r's feedback job.
LEMMA RecordWriteKeeps ==
    ASSUME IInv, UNCHANGED content, NEW r \in Runs, RecordWrite(r) PROVE IInv'
<1>1. /\ gate[r] \in GateRecords /\ gate \in [Runs -> GateRecords] /\ main \in Branches
      /\ gate[r].pc = "record_write" /\ GateOK(r) /\ RunOK(r) /\ Shape
      /\ UNCHANGED <<run, pull>>
    BY ShapeFacts DEF IInv, RecordWrite
<1>2. Rejected(r) /\ Proposed(r) /\ Chosen(r) /\ Current(r)
    BY <1>1 DEF GateOK, RunOK, Rejected, Unjudged
<1>3. gate[r].seen = main
    BY <1>2 DEF RecordWrite, CanUpdate, Current
<1> DEFINE after == Recorded(main.ledger, Report(r), run[r].override)
<1>4. /\ after \in Ledgers /\ Forward(main.ledger, after)
      /\ after[run[r].source] # None /\ after[run[r].source].report.run = gate[r].id
  <2>1. /\ Report(r) \in Reports /\ run[r].override \in BOOLEAN
        /\ main.ledger \in Ledgers
      BY <1>1, <1>2, ReportFacts DEF Branches, GateOK
  <2>2. Advances(main.ledger, Report(r), run[r].override)
      BY <1>1, <1>3 DEF GateOK
  <2>3. Report(r).source = run[r].source /\ Report(r).run = gate[r].id
      BY DEF Report
  <2> QED BY <2>1, <2>2, <2>3, RecordedFacts
<1>5. main' \in Branches /\ MainMoves /\ main'.ledger = after
  <2>1. main' = Pushed(after)
      BY <1>3 DEF RecordWrite
  <2> QED BY <1>1, <1>4, <2>1, PushedFacts
<1>6. /\ gate' \in [Runs -> GateRecords] /\ \A q \in Runs \ {r} : gate'[q] = gate[q]
      /\ gate'[r].pc \in {"cleanup", "completed"} /\ gate'[r].tests = gate[r].tests
      /\ gate'[r].review = gate[r].review
      /\ gate'[r].id = gate[r].id
      /\ gate'[r].pc = "cleanup" => gate'[r].recorded = TRUE
  <2>1. CASE GateTo(r, "completed")
    <3>1. "completed" \in GateLabels
        BY DEF GateLabels
    <3>2. /\ gate' = [gate EXCEPT ![r] = [gate[r] EXCEPT !.pc = "completed"]]
          /\ [gate[r] EXCEPT !.pc = "completed"] \in GateRecords
          /\ gate'[r].pc = "completed" /\ gate'[r].tests = gate[r].tests
          /\ gate'[r].review = gate[r].review /\ gate'[r].id = gate[r].id
        BY <1>1, <2>1, <3>1, GateToFacts
    <3> QED BY <1>1, <3>2
  <2>2. CASE gate' = [gate EXCEPT ![r].pc = "cleanup", ![r].recorded = TRUE]
    <3> DEFINE g == [gate[r] EXCEPT !.pc = "cleanup", !.recorded = TRUE]
    <3>1. TRUE \in BOOLEAN
        BY Zenon
    <3>2. gate' = [gate EXCEPT ![r] = g]
        BY <1>1, <2>2
    <3>3. g \in GateRecords /\ g.pc = "cleanup" /\ g.recorded = TRUE
          /\ g.tests = gate[r].tests /\ g.review = gate[r].review /\ g.id = gate[r].id
        BY <1>1, <3>1 DEF GateRecords, GateLabels
    <3> HIDE DEF g
    <3> QED BY <1>1, <3>2, <3>3
  <2> QED BY <2>1, <2>2 DEF RecordWrite
<1>7. Kept(r)'
  <2>1. gate[r].id \in Nat
      BY <1>1 DEF GateRecords
  <2> QED BY <1>1, <1>4, <1>5, <1>6, <2>1 DEF Kept
<1>8. Shape'
    BY <1>1, <1>5, <1>6 DEF Shape
<1>9. GateOK(r)'
  <2>1. Rejected(r)' /\ Proposed(r)'
      BY <1>1, <1>2, <1>6 DEF Rejected, Proposed
  <2>2. gate'[r].id # 0
      BY <1>1, <1>6 DEF GateOK
  <2> QED BY <1>6, <1>7, <2>1, <2>2 DEF GateOK, Rejected, Unjudged, JobsEnd
<1>10. \A q \in Runs : Proposed(q)' <=> Proposed(q)
    BY <1>1 DEF Proposed
<1>11. Open' \subseteq Open /\ run' = run
    BY <1>1 DEF Open
<1>12. \A q \in Runs : GateMoves(q)
    BY <1>1, <1>6, <1>9 DEF GateMoves
<1> QED BY <1>5, <1>8, <1>10, <1>11, <1>12, LaterKeeps

\* The last job closes what it may.
LEMMA CleanupKeeps == ASSUME IInv, UNCHANGED content, NEW r \in Runs, Cleanup(r) PROVE IInv'
<1>1. /\ gate \in [Runs -> GateRecords] /\ pull \in [Runs -> PullRecords] /\ Shape
      /\ gate[r].pc = "cleanup" /\ GateTo(r, "completed") /\ GateOK(r)
      /\ UNCHANGED <<main, run, content>> /\ "completed" \in GateLabels
    BY ShapeFacts DEF IInv, Cleanup, GateLabels
<1>2. /\ gate' \in [Runs -> GateRecords] /\ \A q \in Runs \ {r} : gate'[q] = gate[q]
      /\ gate'[r].pc = "completed" /\ gate'[r].tests = gate[r].tests
      /\ gate'[r].review = gate[r].review /\ gate'[r].recorded = gate[r].recorded
      /\ gate'[r].id = gate[r].id
  <2>1. /\ gate' = [gate EXCEPT ![r] = [gate[r] EXCEPT !.pc = "completed"]]
        /\ [gate[r] EXCEPT !.pc = "completed"] \in GateRecords
      BY <1>1, GateToFacts
  <2>2. gate' \in [Runs -> GateRecords] /\ \A q \in Runs \ {r} : gate'[q] = gate[q]
      BY <1>1, <2>1
  <2>3. /\ gate'[r].pc = "completed" /\ gate'[r].tests = gate[r].tests
        /\ gate'[r].review = gate[r].review /\ gate'[r].recorded = gate[r].recorded
        /\ gate'[r].id = gate[r].id
      BY <1>1, GateToFacts
  <2> QED BY <2>2, <2>3
<1>3. ASSUME NEW q \in Runs
      PROVE  /\ pull'[q] \in PullRecords
             /\ pull'[q] = pull[q] \/ (pull[q].state = "open" /\ pull'[q].state = "closed")
  <2>1. pull[q] \in PullRecords
      BY <1>1
  <2>2. /\ [pull[q] EXCEPT !.state = "closed"] \in PullRecords
        /\ [pull[q] EXCEPT !.state = "closed"].state = "closed"
      BY <2>1 DEF PullRecords
  <2>3. pull'[q] = IF q \in Open /\ MayClose(r, q)
                   THEN [pull[q] EXCEPT !.state = "closed"] ELSE pull[q]
      BY DEF Cleanup
  <2>4. q \in Open => pull[q].state = "open"
      BY DEF Open
  <2> QED BY <2>1, <2>2, <2>3, <2>4
<1>4. pull' \in [Runs -> PullRecords]
    BY <1>3 DEF Cleanup
<1>5. Shape' /\ MainMoves
    BY <1>1, <1>2, <1>4 DEF Shape, MainMoves
<1>6. Open' \subseteq Open /\ \A q \in Runs : Proposed(q)' <=> Proposed(q)
    BY <1>3 DEF Open, Proposed
<1>7. GateOK(r)'
    BY <1>1, <1>2, <1>6 DEF GateOK, Unjudged, Kept
<1>8. \A q \in Runs : GateMoves(q)
    BY <1>1, <1>2, <1>7 DEF GateMoves
<1> QED BY <1>1, <1>5, <1>6, <1>8, LaterKeeps

\* The gate of r.
LEMMA GateKeeps == ASSUME IInv, NEW r \in Runs, Gate(r) PROVE IInv'
<1>1. UNCHANGED content
    BY DEF Gate, Start, Resolve, Prepare, PrepareFails, Test, Review, JobsDone, Recheck, Merge,
           MergeRefused, DispatchCI, RecordRead, RecordFails, RecordWrite, Cleanup,
           CleanupFails, OnlyGate
<1> QED BY <1>1, AdvanceKeeps, JobKeeps, MergeKeeps, DispatchKeeps, RecordReadKeeps,
           RecordWriteKeeps, CleanupKeeps DEF Gate
-----------------------------------------------------------------------------
(* People and GitHub. *)

\* The fields a rerun sets are all of one gate.
LEMMA RerunOfOne ==
    ASSUME NEW r \in Runs, gate \in [Runs -> GateRecords], NEW n, NEW t, NEW v, NEW k
    PROVE  [gate EXCEPT ![r].pc = "pending", ![r].attempt = n, ![r].tests = t,
                        ![r].review = v, ![r].recorded = k]
           = [gate EXCEPT ![r] = [gate[r] EXCEPT !.pc = "pending", !.attempt = n,
                                    !.tests = t, !.review = v, !.recorded = k]]
<1> DEFINE f1 == [gate EXCEPT ![r] = [gate[r] EXCEPT !.pc = "pending", !.attempt = n]]
           f2 == [f1 EXCEPT ![r] = [f1[r] EXCEPT !.tests = t, !.review = v]]
<1>1. f1 = [gate EXCEPT ![r].pc = "pending", ![r].attempt = n]
    OBVIOUS
<1>2. /\ DOMAIN f1 = Runs /\ f1 = [q \in Runs |-> f1[q]]
      /\ f1[r] = [gate[r] EXCEPT !.pc = "pending", !.attempt = n]
    OBVIOUS
<1> HIDE DEF f1
<1>3. f2 = [f1 EXCEPT ![r].tests = t, ![r].review = v]
    BY <1>2
<1>4. /\ DOMAIN f2 = Runs /\ f2 = [q \in Runs |-> f2[q]]
      /\ f2[r] = [f1[r] EXCEPT !.tests = t, !.review = v]
    BY <1>2
<1> HIDE DEF f2
<1>5. [f2 EXCEPT ![r].recorded = k] = [f2 EXCEPT ![r] = [f2[r] EXCEPT !.recorded = k]]
    BY <1>4
<1>6. [f2 EXCEPT ![r] = [f2[r] EXCEPT !.recorded = k]]
          = [gate EXCEPT ![r] = [f2[r] EXCEPT !.recorded = k]]
    BY <1>2, <1>4 DEF f1, f2
<1> QED BY <1>1, <1>2, <1>3, <1>4, <1>5, <1>6

\* A rerun of r.
LEMMA RerunKeeps ==
    ASSUME IInv, UNCHANGED content, NEW r \in Runs, NEW all \in BOOLEAN, Rerun(r, all)
    PROVE  IInv'
<1>1. /\ gate[r] \in GateRecords /\ gate \in [Runs -> GateRecords] /\ GateOK(r)
      /\ gate[r].pc = "completed" /\ OnlyGate
    BY ShapeFacts DEF IInv, Rerun
<1> DEFINE tests  == IF ~all /\ gate[r].tests = "success" THEN gate[r].tests ELSE "pending"
           review == IF ~all /\ gate[r].review \in {"approved", "rejected"}
                     THEN gate[r].review ELSE "pending"
           kept   == IF all THEN FALSE ELSE gate[r].recorded
<1>2. gate' = [gate EXCEPT ![r] = [gate[r] EXCEPT !.pc = "pending", !.attempt = gate[r].attempt + 1,
                                        !.tests = tests, !.review = review, !.recorded = kept]]
  <2>1. ASSUME NEW n, NEW t, NEW v, NEW k
        PROVE  [gate EXCEPT ![r].pc = "pending", ![r].attempt = n, ![r].tests = t,
                            ![r].review = v, ![r].recorded = k]
               = [gate EXCEPT ![r] = [gate[r] EXCEPT !.pc = "pending", !.attempt = n,
                                        !.tests = t, !.review = v, !.recorded = k]]
      BY <1>1, RerunOfOne
  <2>2. gate' = [gate EXCEPT ![r].pc = "pending", ![r].attempt = gate[r].attempt + 1,
                             ![r].tests = tests, ![r].review = review, ![r].recorded = kept]
      BY Zenon DEF Rerun
  <2> HIDE DEF tests, review, kept
  <2> QED BY <2>1, <2>2, Zenon
<1>3. /\ tests \in {"pending", "success", "failure"}
      /\ review \in {"pending", "approved", "rejected", "failure"}
      /\ tests # "pending" => gate[r].tests # "pending"
      /\ review # "pending" => gate[r].review # "pending"
    BY <1>1 DEF GateRecords
<1>4. kept = FALSE \/ kept = gate[r].recorded
    BY Zenon
<1> HIDE DEF tests, review, kept
<1>5. PICK k \in BOOLEAN : k = kept /\ (k = FALSE \/ k = gate[r].recorded)
  <2>1. FALSE \in BOOLEAN
      BY Zenon
  <2>2. gate[r].recorded \in BOOLEAN
      BY <1>1 DEF GateRecords
  <2> QED BY <1>4, <2>1, <2>2
<1> DEFINE g == [gate[r] EXCEPT !.pc = "pending", !.attempt = gate[r].attempt + 1,
                                !.tests = tests, !.review = review, !.recorded = k]
<1>6. /\ g \in GateRecords
      /\ g.pc = "pending" /\ g.tests = tests /\ g.review = review /\ g.recorded = k
      /\ g.id = gate[r].id
  <2>1. gate[r].attempt + 1 \in Attempts
      BY <1>1 DEF GateRecords, Attempts
  <2> QED BY <1>1, <1>3, <2>1 DEF GateRecords, GateLabels
<1>7. gate' = [gate EXCEPT ![r] = g]
    BY <1>2, <1>5
<1> HIDE DEF g
<1>8. GateOK(r)'
  <2>1. gate'[r] = g
      BY <1>1, <1>7
  <2>2. k => gate[r].recorded
      BY <1>5, Zenon
  <2>3. gate'[r].recorded => gate[r].recorded
      BY <1>6, <2>1, <2>2
  <2>4. Proposed(r)' <=> Proposed(r)
      BY <1>1 DEF Proposed, OnlyGate
  <2>5. Kept(r)' <=> Kept(r)
      BY <1>1, <1>6, <2>1 DEF Kept, OnlyGate
  <2> QED BY <1>1, <1>3, <1>6, <2>1, <2>3, <2>4, <2>5 DEF GateOK, Unjudged
<1> QED BY <1>1, <1>6, <1>7, <1>8, OneGateKeeps

\* Steps that leave runs and gates alone.
LEMMA OutsideKeeps ==
    ASSUME IInv, UNCHANGED <<run, gate>>, main' \in Branches, MainMoves,
           content' \in [Sources -> Contents], pull' \in [Runs -> PullRecords],
           \A r \in Runs : pull'[r].state = pull[r].state
                           \/ (pull[r].state = "open" /\ pull'[r].state = "closed")
    PROVE  IInv'
<1>1. Shape'
    BY DEF IInv, Shape
<1>2. Open' \subseteq Open /\ \A r \in Runs : Proposed(r)' <=> Proposed(r)
    BY DEF Open, Proposed
<1> QED BY <1>1, <1>2, LaterKeeps DEF GateMoves

\* An upstream source changes, people push, CI runs, a base is refreshed.
LEMMA WeatherKeeps ==
    ASSUME IInv,
           \/ \E s \in Sources, t \in Contents : UpstreamMoves(s, t)
           \/ HumanPush \/ OperatorRunsCI
           \/ \E r \in Runs : BaseRefreshed(r)
    PROVE  IInv'
<1>1. /\ main \in Branches /\ content \in [Sources -> Contents]
      /\ pull \in [Runs -> PullRecords] /\ Shape
    BY DEF IInv, Shape
<1>2. CASE \E s \in Sources, t \in Contents : UpstreamMoves(s, t)
  <2>1. content' \in [Sources -> Contents] /\ UNCHANGED <<main, run, gate, pull>>
      BY <1>1, <1>2 DEF UpstreamMoves
  <2> QED BY <1>1, <2>1, OutsideKeeps DEF MainMoves
<1>3. CASE HumanPush
  <2>1. main.ledger \in Ledgers
      BY <1>1 DEF Branches
  <2>2. main' \in Branches /\ MainMoves
      BY <1>1, <1>3, <2>1, SameLedgerForward, PushedFacts DEF HumanPush
  <2> QED BY <1>1, <1>3, <2>2, OutsideKeeps DEF HumanPush
<1>4. CASE OperatorRunsCI
    BY <1>1, <1>4, OutsideKeeps DEF OperatorRunsCI, MainMoves
<1>5. ASSUME NEW r \in Runs, BaseRefreshed(r) PROVE IInv'
  <2>1. pull' = [pull EXCEPT ![r] = [pull[r] EXCEPT !.base = main.sha]]
      BY <1>1, <1>5 DEF BaseRefreshed
  <2>2. /\ [pull[r] EXCEPT !.base = main.sha] \in PullRecords
        /\ [pull[r] EXCEPT !.base = main.sha].state = pull[r].state
      BY <1>1 DEF PullRecords, Branches
  <2>3. /\ pull' \in [Runs -> PullRecords]
        /\ \A q \in Runs : pull'[q].state = pull[q].state
      BY <1>1, <2>1, <2>2
  <2> QED BY <1>1, <1>5, <2>3, OutsideKeeps DEF BaseRefreshed, MainMoves
<1> QED BY <1>2, <1>3, <1>4, <1>5

\* The operator settles what a gate left open.
LEMMA OperatorKeeps == ASSUME IInv, NEW r \in Runs, OperatorCloses(r) PROVE IInv'
<1>1. /\ main \in Branches /\ content \in [Sources -> Contents]
      /\ pull \in [Runs -> PullRecords] /\ pull[r] \in PullRecords /\ Shape
      /\ pull[r].state = "open" /\ UNCHANGED <<content, run, gate>> /\ RunOK(r)
      /\ GateOK(r)
    BY ShapeFacts DEF IInv, Shape, OperatorCloses
<1>2. /\ pull' \in [Runs -> PullRecords]
      /\ \A q \in Runs : pull'[q].state = pull[q].state
                         \/ (pull[q].state = "open" /\ pull'[q].state = "closed")
  <2>1. pull' = [pull EXCEPT ![r] = [pull[r] EXCEPT !.state = "closed"]]
      BY <1>1 DEF OperatorCloses
  <2>2. /\ [pull[r] EXCEPT !.state = "closed"] \in PullRecords
        /\ [pull[r] EXCEPT !.state = "closed"].state = "closed"
      BY <1>1 DEF PullRecords
  <2> QED BY <1>1, <2>1, <2>2
<1>3. main' \in Branches /\ MainMoves
  <2>1. CASE UNCHANGED main
      BY <1>1, <2>1 DEF MainMoves
  <2>2. CASE Rejected(r) /\ main' = Pushed(Recorded(main.ledger, Report(r), run[r].override))
    <3>1. Chosen(r) /\ gate[r].id # 0
        BY <1>1, <2>2 DEF RunOK, Proposed, GateOK, Unjudged, Rejected
    <3>2. Report(r) \in Reports /\ run[r].override \in BOOLEAN /\ main.ledger \in Ledgers
        BY <1>1, <3>1, ReportFacts DEF Branches
    <3> QED BY <1>1, <2>2, <3>2, RecordedFacts, PushedFacts
  <2> QED BY <2>1, <2>2 DEF OperatorCloses
<1> QED BY <1>1, <1>2, <1>3, OutsideKeeps
-----------------------------------------------------------------------------
(* The steps of a maintenance run. *)

\* A step of the run that is at work, or of any while none is.
LEMMA RunKeeps ==
    ASSUME IInv, Shape', UNCHANGED main, NEW r \in Runs,
           ~Idle(r) \/ \A q \in Runs : Idle(q),
           run[r].from # "plan" => run'[r].from # "plan",
           \A q \in Runs \ {r} : run'[q] = run[q] /\ pull'[q] = pull[q] /\ GateMoves(q),
           Open' \subseteq Open \/ (Open' \subseteq Open \cup {r}
                                      /\ (Open = {} \/ run'[r].from # "plan")),
           RunOK(r)', GateOK(r)'
    PROVE  IInv'
<1>1. ASSUME NEW q \in Runs, q # r PROVE Idle(q) /\ run'[q] = run[q] /\ Idle(q)'
    BY <1>1 DEF IInv, Serial, Idle
<1>2. Serial'
    BY <1>1 DEF Serial
<1>3. Single'
  <2> SUFFICES ASSUME NEW p \in Open', NEW q \in Open', p # q
               PROVE  run'[p].from # "plan" \/ run'[q].from # "plan"
      BY DEF Single
  <2>1. p \in Runs /\ q \in Runs
      BY DEF Open
  <2>2. \A s \in Runs : run[s].from # "plan" => run'[s].from # "plan"
      BY <1>1
  <2>3. CASE p \in Open /\ q \in Open
    <3>1. run[p].from # "plan" \/ run[q].from # "plan"
        BY <2>3 DEF IInv, Single
    <3> QED BY <2>1, <2>2, <3>1
  <2>4. CASE ~(p \in Open /\ q \in Open)
      BY <2>4
  <2> QED BY <2>3, <2>4
<1>4. ASSUME NEW q \in Runs, q # r PROVE RunOK(q)' /\ GateOK(q)'
  <2>1. RunOK(q) /\ GateOK(q) /\ run'[q] = run[q] /\ pull'[q] = pull[q] /\ GateMoves(q)
      BY <1>4 DEF IInv
  <2>2. (Proposed(q)' <=> Proposed(q)) /\ gate'[q].id = gate[q].id
      BY <2>1 DEF Proposed, GateMoves
  <2>3. GateOK(q)'
      BY <1>4, <2>1, <2>2, GateFrame DEF IInv, MainMoves, GateMoves
  <2>4. run[q].pc \notin {"detect", "maintain", "publish", "create"}
      BY <1>1, <1>4 DEF Idle, Ended
  <2>5. RunOK(q)'
      BY <2>1, <2>2, <2>4 DEF RunOK, Chosen
  <2> QED BY <2>3, <2>5
<1> QED BY <1>2, <1>3, <1>4 DEF IInv

\* A run that has not succeeded has no gate.
LEMMA AtWork ==
    ASSUME IInv, NEW r \in Runs, run[r].pc # "succeeded"
    PROVE  /\ gate[r].id = 0 /\ gate[r].pc = "none" /\ Unjudged(r) /\ ~gate[r].recorded
           /\ GateOK(r)
    BY DEF IInv, RunOK, GateOK

\* It has none either when its gate is left alone.
LEMMA NoGateYet ==
    ASSUME IInv, NEW r \in Runs, run[r].pc # "succeeded", gate'[r] = gate[r]
    PROVE  GateOK(r)' /\ gate'[r].id = 0
    BY AtWork DEF GateOK, Unjudged

\* Older gates are cancelled before they began.
LEMMA JoinedFacts ==
    ASSUME IInv, NEW r \in Runs, UNCHANGED main,
           \A q \in Runs \ {r} : run'[q] = run[q] /\ pull'[q] = pull[q] /\ gate'[q] = Joined(r)[q]
    PROVE  /\ Joined(r) \in [Runs -> GateRecords] /\ Joined(r)[r] = gate[r]
           /\ \A q \in Runs \ {r} : GateMoves(q)
<1>1. gate \in [Runs -> GateRecords]
    BY DEF IInv, Shape
<1>2. /\ Joined(r)[r] = gate[r]
      /\ \A q \in Runs \ {r} :
            \/ Joined(r)[q] = gate[q]
            \/ gate[q].pc = "pending" /\ Joined(r)[q] = [gate[q] EXCEPT !.pc = "completed"]
      /\ Joined(r) = [q \in Runs |-> Joined(r)[q]]
    BY DEF Joined
<1>3. ASSUME NEW q \in Runs, q # r, gate[q].pc = "pending",
             Joined(r)[q] = [gate[q] EXCEPT !.pc = "completed"]
      PROVE  Joined(r)[q] \in GateRecords /\ GateMoves(q)
  <2>1. gate[q] \in GateRecords /\ GateOK(q) /\ gate'[q] = [gate[q] EXCEPT !.pc = "completed"]
      BY <1>1, <1>3 DEF IInv
  <2>2. /\ gate'[q] \in GateRecords
        /\ gate'[q].pc = "completed" /\ gate'[q].tests = gate[q].tests
        /\ gate'[q].review = gate[q].review /\ gate'[q].recorded = gate[q].recorded
        /\ gate'[q].id = gate[q].id
      BY <2>1 DEF GateRecords, GateLabels
  <2>3. (Proposed(q)' <=> Proposed(q)) /\ (Kept(q)' <=> Kept(q))
      BY <1>3, <2>2 DEF Proposed, Kept
  <2>4. GateOK(q)'
      BY <1>3, <2>1, <2>2, <2>3 DEF GateOK, Unjudged
  <2> QED BY <1>3, <2>1, <2>2, <2>4 DEF GateMoves
<1>4. Joined(r) \in [Runs -> GateRecords]
    BY <1>1, <1>2, <1>3
<1>5. ASSUME NEW q \in Runs \ {r} PROVE GateMoves(q)
    BY <1>2, <1>3 DEF GateMoves
<1> QED BY <1>2, <1>4, <1>5

\* There are finitely many gates.
LEMMA GateCount == IsFiniteSet(Gates) /\ Cardinality(Gates) \in Nat
<1>1. IsFiniteSet(Runs)
    BY Limits, FS_Interval DEF Runs
<1>2. Gates \subseteq Runs
    BY DEF Gates
<1> QED BY <1>1, <1>2, FS_Subset, FS_CardinalityType

\* The new gate.
LEMMA TriggerFacts ==
    ASSUME IInv, NEW r \in Runs, Trigger(r), UNCHANGED main,
           \A q \in Runs \ {r} : run'[q] = run[q] /\ pull'[q] = pull[q]
    PROVE  /\ gate' \in [Runs -> GateRecords]
           /\ \A q \in Runs \ {r} : GateMoves(q)
           /\ GateOK(r)'
           /\ gate'[r].id = 1 + Cardinality(Gates) /\ gate'[r].pc = "pending"
           /\ Unjudged(r)' /\ ~gate'[r].recorded
<1> DEFINE n == 1 + Cardinality(Gates)
           new == [NewGate EXCEPT !.id = n]
<1>1. main \in Branches /\ n \in Nat \ {0}
    BY GateCount DEF IInv, Shape
<1> HIDE DEF n
<1>2. /\ new \in GateRecords /\ new.pc = "pending" /\ new.id = n
      /\ new.tests = "pending" /\ new.review = "pending" /\ new.recorded = FALSE
  <2>1. FALSE \in BOOLEAN
      BY Zenon
  <2>2. /\ NewGate \in GateRecords /\ NewGate.pc = "pending"
        /\ NewGate.tests = "pending" /\ NewGate.review = "pending" /\ NewGate.recorded = FALSE
      BY <1>1, <2>1 DEF NewGate, GateRecords, GateLabels, Attempts
  <2> QED BY <1>1, <2>2 DEF GateRecords
<1> HIDE DEF new
<1>3. gate' = [Joined(r) EXCEPT ![r] = new]
    BY DEF Trigger, new, n
<1>4. DOMAIN Joined(r) = Runs
    BY DEF Joined
<1>5. gate'[r] = new /\ \A q \in Runs \ {r} : gate'[q] = Joined(r)[q]
    BY <1>3, <1>4
<1>6. Joined(r) \in [Runs -> GateRecords] /\ \A q \in Runs \ {r} : GateMoves(q)
    BY <1>5, JoinedFacts
<1>7. gate' \in [Runs -> GateRecords]
    BY <1>2, <1>3, <1>6
<1>8. gate'[r].id = n /\ gate'[r].id # 0 /\ gate'[r].pc = "pending" /\ ~gate'[r].recorded
    BY <1>1, <1>2, <1>5, Zenon
<1>9. Unjudged(r)'
    BY <1>2, <1>5 DEF Unjudged
<1>10. GateOK(r)'
    BY <1>8, <1>9, Zenon DEF GateOK
<1> QED BY <1>6, <1>7, <1>8, <1>9, <1>10 DEF n

\* A step that changes the record of one run only.
LEMMA RunTypes ==
    ASSUME Shape, NEW r \in Runs, NEW new \in RunRecords, run' = [run EXCEPT ![r] = new]
    PROVE  /\ run' \in [Runs -> RunRecords] /\ \A q \in Runs \ {r} : run'[q] = run[q]
           /\ run'[r] = new
    BY DEF Shape

LEMMA RunToFacts ==
    ASSUME Shape, NEW r \in Runs, NEW label \in RunLabels, RunTo(r, label)
    PROVE  /\ run' \in [Runs -> RunRecords] /\ \A q \in Runs \ {r} : run'[q] = run[q]
           /\ run'[r].pc = label /\ run'[r].source = run[r].source /\ run'[r].tree = run[r].tree
           /\ run'[r].failed = run[r].failed /\ run'[r].from = run[r].from
<1> DEFINE new == [run[r] EXCEPT !.pc = label]
<1>1. run[r] \in RunRecords /\ run \in [Runs -> RunRecords]
    BY ShapeFacts
<1>2. run' = [run EXCEPT ![r] = new]
    BY <1>1 DEF RunTo
<1>3. /\ new \in RunRecords /\ new.pc = label /\ new.source = run[r].source
      /\ new.tree = run[r].tree /\ new.failed = run[r].failed
      /\ new.from = run[r].from
    BY <1>1 DEF RunRecords, Attempts
<1> HIDE DEF new
<1> QED BY <1>2, <1>3, RunTypes

\* A run goes on.
LEMMA LabelRunKeeps ==
    ASSUME IInv, NEW r \in Runs, run[r].pc \in {"plan", "maintain", "publish"},
           NEW label \in {"detect", "publish", "create"}, RunTo(r, label),
           UNCHANGED <<main, content, pull, gate>>,
           run[r].from = "plan" => Open = {},
           label \in {"publish", "create"} => Chosen(r)
    PROVE  IInv'
<1>1. Shape /\ label \in RunLabels
    BY DEF IInv, RunLabels, Jobs, Ended
<1>2. /\ run' \in [Runs -> RunRecords] /\ \A q \in Runs \ {r} : run'[q] = run[q]
      /\ run'[r].pc = label /\ run'[r].source = run[r].source /\ run'[r].tree = run[r].tree
      /\ run'[r].from = run[r].from
    BY <1>1, RunToFacts
<1>3. Shape' /\ Open' = Open
    BY <1>1, <1>2 DEF Shape, Open
<1>4. RunOK(r) /\ GateOK(r)' /\ gate'[r].id = 0
    BY NoGateYet DEF IInv
<1>5. RunOK(r)'
    BY <1>2, <1>3, <1>4 DEF RunOK, Chosen, Proposed
<1>6. ~Idle(r) /\ \A q \in Runs : GateMoves(q)
    BY DEF Idle, Ended, GateMoves
<1> QED BY <1>2, <1>3, <1>4, <1>5, <1>6, RunKeeps

\* A job of a run fails, whether or not it has created the pull request.
LEMMA FailsInKeeps ==
    ASSUME IInv, NEW r \in Runs, run[r].pc \in RunLabels \ ({"none"} \cup Ended),
           NEW job \in Jobs, FailsIn(r, job), gate' = Joined(r),
           UNCHANGED <<main, content>>, pull' \in [Runs -> PullRecords],
           \A q \in Runs \ {r} : pull'[q] = pull[q],
           job \in {"maintain", "publish"} \/ Proposed(r)' => Chosen(r),
           Open' \subseteq Open \/ (Open' \subseteq Open \cup {r}
                                      /\ (Open = {} \/ run[r].from # "plan"))
    PROVE  IInv'
<1> DEFINE new == [run[r] EXCEPT !.pc = "failed", !.failed = job]
<1>1. Shape /\ run[r] \in RunRecords /\ run \in [Runs -> RunRecords] /\ RunOK(r)
    BY ShapeFacts DEF IInv
<1>2. run' = [run EXCEPT ![r] = new]
    BY <1>1 DEF FailsIn
<1>3. /\ new \in RunRecords /\ new.pc = "failed" /\ new.failed = job
      /\ new.source = run[r].source /\ new.tree = run[r].tree
      /\ new.from = run[r].from
    BY <1>1 DEF RunRecords, RunLabels, Ended, Attempts
<1> HIDE DEF new
<1>4. /\ run' \in [Runs -> RunRecords] /\ \A q \in Runs \ {r} : run'[q] = run[q]
      /\ run'[r] = new
    BY <1>1, <1>2, <1>3, RunTypes
<1>5. /\ gate' \in [Runs -> GateRecords] /\ gate'[r] = gate[r]
      /\ \A q \in Runs \ {r} : GateMoves(q)
    BY <1>4, JoinedFacts
<1>6. Shape'
    BY <1>1, <1>4, <1>5 DEF Shape
<1>7. ~Idle(r) /\ run[r].pc # "succeeded"
    BY DEF Idle, Ended
<1>8. GateOK(r)' /\ gate'[r].id = 0
    BY <1>5, <1>7, NoGateYet
<1>9. RunOK(r)'
    BY <1>3, <1>4, <1>8 DEF RunOK, Chosen
<1> QED BY <1>3, <1>4, <1>5, <1>6, <1>7, <1>8, <1>9, RunKeeps

LEMMA FailsKeeps ==
    ASSUME IInv, NEW r \in Runs, run[r].pc \in RunLabels \ ({"none"} \cup Ended),
           NEW job \in Jobs, Fails(r, job), job \in {"maintain", "publish"} => Chosen(r)
    PROVE  IInv'
<1>1. Shape /\ RunOK(r) /\ UNCHANGED <<main, content, pull>>
    BY DEF IInv, Fails
<1>2. pull' \in [Runs -> PullRecords] /\ Open' \subseteq Open /\ (Proposed(r)' => Chosen(r))
    BY <1>1 DEF Shape, Open, RunOK, Proposed
<1> QED BY <1>1, <1>2, FailsInKeeps DEF Fails

\* A run ends well without a candidate; its gate is triggered.
LEMMA SucceedsKeeps ==
    ASSUME IInv, NEW r \in Runs, run[r].pc \in {"plan", "detect", "maintain"},
           SucceedsWithoutCandidate(r)
    PROVE  IInv'
<1>1. Shape /\ "succeeded" \in RunLabels /\ RunOK(r) /\ ~Idle(r)
    BY DEF IInv, RunLabels, Ended, Idle
<1>2. /\ run' \in [Runs -> RunRecords] /\ \A q \in Runs \ {r} : run'[q] = run[q]
      /\ run'[r].pc = "succeeded" /\ run'[r].source = run[r].source
      /\ run'[r].tree = run[r].tree
      /\ run'[r].from = run[r].from
    BY <1>1, RunToFacts DEF SucceedsWithoutCandidate
<1>3. UNCHANGED <<main, pull, content>>
    BY DEF SucceedsWithoutCandidate
<1>4. /\ gate' \in [Runs -> GateRecords]
      /\ \A q \in Runs \ {r} : GateMoves(q)
      /\ GateOK(r)'
    BY <1>2, <1>3, TriggerFacts DEF SucceedsWithoutCandidate
<1>5. Shape' /\ Open' = Open
    BY <1>1, <1>2, <1>3, <1>4 DEF Shape, Open
<1>6. RunOK(r)'
    BY <1>1, <1>2, <1>3 DEF RunOK, Proposed, Chosen
<1> QED BY <1>1, <1>2, <1>3, <1>4, <1>5, <1>6, RunKeeps

\* The pull request is created, while no candidate is open unless the plan was skipped.
LEMMA ProposesFacts ==
    ASSUME IInv, NEW r \in Runs, Proposes(r)
    PROVE  /\ pull' \in [Runs -> PullRecords] /\ \A q \in Runs \ {r} : pull'[q] = pull[q]
           /\ pull'[r].state = "open" /\ Chosen(r) /\ UNCHANGED <<main, content>>
           /\ Open' \subseteq Open \cup {r} /\ (Open = {} \/ run[r].from # "plan")
           /\ run[r].pc = "create"
<1>1. Shape /\ RunOK(r) /\ run[r].pc = "create" /\ UNCHANGED <<main, content>>
    BY DEF IInv, Proposes
<1> DEFINE new == [state |-> "open", base |-> main.sha]
<1>2. /\ pull' \in [Runs -> PullRecords] /\ \A q \in Runs \ {r} : pull'[q] = pull[q]
      /\ pull'[r].state = "open"
  <2>1. pull' = [pull EXCEPT ![r] = new] /\ pull \in [Runs -> PullRecords]
      BY <1>1 DEF Proposes, Shape
  <2>2. new \in PullRecords
      BY <1>1 DEF PullRecords, Shape, Branches
  <2> QED BY <2>1, <2>2
<1>3. Chosen(r) /\ (run[r].from = "plan" => Open = {})
    BY <1>1 DEF RunOK
<1> QED BY <1>1, <1>2, <1>3 DEF Open

LEMMA PublishKeeps == ASSUME IInv, NEW r \in Runs, Publish(r) PROVE IInv'
<1>1. Shape /\ "succeeded" \in RunLabels
    BY DEF IInv, RunLabels, Ended
<1>2. /\ run' \in [Runs -> RunRecords] /\ \A q \in Runs \ {r} : run'[q] = run[q]
      /\ run'[r].pc = "succeeded" /\ run'[r].source = run[r].source
      /\ run'[r].tree = run[r].tree
      /\ run'[r].from = run[r].from
    BY <1>1, RunToFacts DEF Publish
<1>3. /\ pull' \in [Runs -> PullRecords] /\ \A q \in Runs \ {r} : pull'[q] = pull[q]
      /\ Chosen(r) /\ UNCHANGED <<main, content>>
      /\ Open' \subseteq Open \cup {r} /\ (Open = {} \/ run[r].from # "plan")
      /\ run[r].pc = "create"
    BY ProposesFacts DEF Publish
<1>4. ~Idle(r)
    BY <1>3 DEF Idle, Ended
<1>5. /\ gate' \in [Runs -> GateRecords]
      /\ \A q \in Runs \ {r} : GateMoves(q)
      /\ GateOK(r)'
    BY <1>2, <1>3, TriggerFacts DEF Publish
<1>6. Shape'
    BY <1>1, <1>2, <1>3, <1>5 DEF Shape
<1>7. RunOK(r)'
    BY <1>2, <1>3 DEF RunOK, Chosen
<1> QED BY <1>2, <1>3, <1>4, <1>5, <1>6, <1>7, RunKeeps

LEMMA PublishLostKeeps == ASSUME IInv, NEW r \in Runs, PublishLost(r) PROVE IInv'
<1>1. /\ pull' \in [Runs -> PullRecords] /\ \A q \in Runs \ {r} : pull'[q] = pull[q]
      /\ Chosen(r) /\ UNCHANGED <<main, content>>
      /\ Open' \subseteq Open \cup {r} /\ (Open = {} \/ run[r].from # "plan")
      /\ run[r].pc = "create"
    BY ProposesFacts DEF PublishLost
<1>2. run[r].pc \in RunLabels \ ({"none"} \cup Ended) /\ "publish" \in Jobs
    BY <1>1 DEF RunLabels, Ended, Jobs
<1> QED BY <1>1, <1>2, FailsInKeeps DEF PublishLost

LEMMA Smallest ==
    ASSUME NEW S, S \subseteq Nat, S # {}
    PROVE  \E s \in S : \A t \in S : s <= t
<1> DEFINE R == {p \in Nat \X Nat : p[1] < p[2]}
<1>1. IsWellFoundedOn(R, Nat)
    BY NatLessThanWellFounded DEF OpToRel
<1>2. PICK s \in S : \A t \in S : ~(<<t, s>> \in R)
    BY <1>1, WFMin
<1>3. ASSUME NEW t \in S PROVE s <= t
  <2>1. s \in Nat /\ t \in Nat /\ <<t, s>> \in Nat \X Nat
      OBVIOUS
  <2>2. ~(<<t, s>>[1] < <<t, s>>[2])
      BY <1>2, <2>1
  <2> QED BY <2>1, <2>2
<1> QED BY <1>3

\* What a run selects is a registered source and content.
LEMMA SelectedFacts ==
    ASSUME IInv, NEW r \in Runs, Decides(r), Eligible(r) # {}
    PROVE  Selected(r) \in Sources /\ content[Selected(r)] \in Contents
<1>1. content \in [Sources -> Contents]
    BY DEF IInv, Shape
<1>2. CASE run[r].retry # None
    BY <1>1, <1>2 DEF Decides, RetryGranted, Drifting, Selected
<1>3. CASE run[r].retry = None
  <2>1. Eligible(r) \subseteq Sources /\ Eligible(r) \subseteq Nat
      BY Limits DEF Eligible, Drifting
  <2>2. \E s \in Eligible(r) : \A t \in Eligible(r) : s <= t
      BY <2>1, Smallest
  <2>3. First(Eligible(r)) \in Eligible(r)
      BY <2>2 DEF First
  <2> QED BY <1>1, <1>3, <2>1, <2>3 DEF Selected
<1> QED BY <1>2, <1>3

\* A run decides what it is for.
LEMMA DecideKeeps == ASSUME IInv, NEW r \in Runs, Decide(r) PROVE IInv'
<1>1. /\ Shape /\ run[r] \in RunRecords /\ run \in [Runs -> RunRecords]
      /\ run[r].pc = "detect" /\ RunOK(r) /\ UNCHANGED <<main, content, pull, gate>>
    BY ShapeFacts DEF IInv, Decide
<1>2. Selected(r) \in Sources /\ content[Selected(r)] \in Contents
    BY SelectedFacts DEF Decide
<1> DEFINE s == Selected(r)
           t == content[Selected(r)]
           o == (run[r].retry # None)
<1>3. PICK k \in BOOLEAN : run' = [run EXCEPT ![r] = [run[r] EXCEPT !.pc = "maintain",
                                        !.source = s, !.tree = t, !.override = k]]
  <2>1. o \in BOOLEAN
      BY Zenon
  <2>2. run' = [run EXCEPT ![r] = [run[r] EXCEPT !.pc = "maintain",
                                        !.source = s, !.tree = t, !.override = o]]
      BY Zenon DEF Decide
  <2> HIDE DEF o
  <2> QED BY <2>1, <2>2
<1> DEFINE new == [run[r] EXCEPT !.pc = "maintain", !.source = s, !.tree = t, !.override = k]
<1> HIDE DEF s, t
<1>4. s \in Sources /\ t \in Contents
    BY <1>2 DEF s, t
<1>5. /\ new \in RunRecords /\ new.pc = "maintain" /\ new.source = s /\ new.tree = t
      /\ new.from = run[r].from
    BY <1>1, <1>4 DEF RunRecords, RunLabels, Jobs, Attempts
<1> HIDE DEF new
<1>6. run' = [run EXCEPT ![r] = new]
    BY <1>3 DEF new
<1>7. /\ run' \in [Runs -> RunRecords] /\ \A q \in Runs \ {r} : run'[q] = run[q]
      /\ run'[r] = new
    BY <1>1, <1>5, <1>6, RunTypes
<1>8. Shape' /\ Open' = Open
    BY <1>1, <1>7 DEF Shape, Open
<1>9. GateOK(r)' /\ gate'[r].id = 0
    BY <1>1, NoGateYet
<1>10. RunOK(r)'
    BY <1>1, <1>4, <1>5, <1>7, <1>8, <1>9 DEF RunOK, Chosen
<1>11. ~Idle(r) /\ \A q \in Runs : GateMoves(q)
    BY <1>1 DEF Idle, Ended, GateMoves
<1> QED BY <1>1, <1>5, <1>7, <1>8, <1>9, <1>10, <1>11, RunKeeps

LEMMA MaintenanceKeeps == ASSUME IInv, NEW r \in Runs, Maintenance(r) PROVE IInv'
<1>1. RunOK(r) /\ {"plan", "detect", "maintain", "publish", "create"}
                      = RunLabels \ ({"none"} \cup Ended)
    BY DEF IInv, RunLabels, Jobs, Ended
<1>2. CASE Plan(r)
    BY <1>2, LabelRunKeeps DEF Plan, PlanFree
<1>3. CASE PlanSkips(r) \/ DecideNothing(r) \/ MaintainEmpty(r)
    BY <1>3, SucceedsKeeps DEF PlanSkips, DecideNothing, MaintainEmpty
<1>4. CASE PlanFails(r)
    BY <1>1, <1>4, FailsKeeps DEF PlanFails, Jobs
<1>5. CASE DetectFails(r)
    BY <1>1, <1>5, FailsKeeps DEF DetectFails, Jobs
<1>6. CASE MaintainFails(r)
    BY <1>1, <1>6, FailsKeeps DEF MaintainFails, Jobs, RunOK
<1>7. CASE PublishFails(r)
    BY <1>1, <1>7, FailsKeeps DEF PublishFails, Jobs, RunOK
<1>8. CASE Maintained(r) \/ PublishCheck(r)
    BY <1>1, <1>8, LabelRunKeeps DEF Maintained, PublishCheck, RunOK
<1> QED BY <1>2, <1>3, <1>4, <1>5, <1>6, <1>7, <1>8, DecideKeeps, PublishKeeps,
           PublishLostKeeps DEF Maintenance

LEMMA DispatchRunKeeps ==
    ASSUME IInv, NEW r \in Runs, NEW retry \in Retries, Dispatch(r, retry) PROVE IInv'
<1>1. /\ Shape /\ run[r] \in RunRecords /\ main \in Branches
      /\ run[r].pc = "none" /\ UNCHANGED <<main, content, pull, gate>>
      /\ \A q \in Runs : Idle(q)
    BY ShapeFacts DEF IInv, Dispatch
<1> DEFINE new == [run[r] EXCEPT !.pc = "plan", !.base = main, !.retry = retry]
<1>2. /\ new \in RunRecords /\ new.pc = "plan" /\ new.source = run[r].source
      /\ new.tree = run[r].tree /\ new.from = run[r].from
    BY <1>1 DEF RunRecords, RunLabels, Jobs, Attempts
<1>3. run' = [run EXCEPT ![r] = new]
    BY <1>1 DEF Dispatch
<1> HIDE DEF new
<1>4. /\ run' \in [Runs -> RunRecords] /\ \A q \in Runs \ {r} : run'[q] = run[q]
      /\ run'[r] = new
    BY <1>1, <1>2, <1>3, RunTypes
<1>5. Shape' /\ Open' = Open
    BY <1>1, <1>4 DEF Shape, Open
<1>6. GateOK(r)' /\ gate'[r].id = 0 /\ RunOK(r)
    BY <1>1, NoGateYet DEF IInv
<1>7. RunOK(r)'
    BY <1>1, <1>2, <1>4, <1>6 DEF RunOK, Proposed, Chosen
<1>8. \A q \in Runs : GateMoves(q)
    BY <1>1 DEF GateMoves
<1> QED BY <1>1, <1>2, <1>4, <1>5, <1>6, <1>7, <1>8, RunKeeps

\* A failed run is rerun.
LEMMA RerunRunKeeps ==
    ASSUME IInv, NEW r \in Runs, NEW all \in BOOLEAN, RerunRun(r, all) PROVE IInv'
<1>1. /\ Shape /\ run[r] \in RunRecords /\ RunOK(r) /\ run \in [Runs -> RunRecords]
      /\ run[r].pc = "failed" /\ UNCHANGED <<main, content, pull, gate>>
      /\ \A q \in Runs : Idle(q)
    BY ShapeFacts DEF IInv, RerunRun
<1>2. PICK label \in Jobs :
        /\ label = "plan" \/ label = run[r].failed
        /\ run' = [run EXCEPT ![r].pc = label, ![r].failed = None, ![r].attempt = @ + 1,
                              ![r].from = IF label = "plan" THEN @ ELSE "failed"]
  <2>1. CASE all
      BY <2>1 DEF RerunRun, Restart, Jobs
  <2>2. CASE ~all
      BY <1>1, <2>2 DEF RerunRun, Restart, RunOK
  <2> QED BY <2>1, <2>2
<1> DEFINE from == IF label = "plan" THEN run[r].from ELSE "failed"
           new == [run[r] EXCEPT !.pc = label, !.failed = None,
                                 !.attempt = run[r].attempt + 1, !.from = from]
<1>3. run' = [run EXCEPT ![r] = new]
    BY <1>1, <1>2
<1>4. /\ new \in RunRecords /\ new.pc = label /\ new.source = run[r].source
      /\ new.tree = run[r].tree /\ new.from = from
  <2>1. label \in RunLabels /\ None \in Jobs \cup {None}
      BY DEF RunLabels
  <2>2. run[r].attempt \in Nat \ {0} /\ run[r].attempt + 1 \in Attempts
      BY <1>1 DEF RunRecords, Attempts
  <2>3. from \in Origins
      BY <1>1 DEF RunRecords, Origins
  <2> HIDE DEF from
  <2> QED BY <1>1, <2>1, <2>2, <2>3 DEF RunRecords
<1> HIDE DEF new
<1>5. /\ run' \in [Runs -> RunRecords] /\ \A q \in Runs \ {r} : run'[q] = run[q]
      /\ run'[r] = new
    BY <1>1, <1>3, <1>4, RunTypes
<1>6. Shape' /\ Open' = Open
    BY <1>1, <1>5 DEF Shape, Open
<1>7. GateOK(r)' /\ gate'[r].id = 0
    BY <1>1, NoGateYet
<1>8. RunOK(r)'
    BY <1>1, <1>2, <1>4, <1>5, <1>7 DEF RunOK, Proposed, Chosen, Jobs
<1>9. \A q \in Runs : GateMoves(q)
    BY <1>1 DEF GateMoves
<1> QED BY <1>1, <1>4, <1>5, <1>6, <1>7, <1>8, <1>9, RunKeeps

LEMMA EnvironmentKeeps == ASSUME IInv, Environment PROVE IInv'
<1>1. ASSUME NEW r \in Runs, NEW all \in BOOLEAN, Rerun(r, all) PROVE IInv'
    BY <1>1, RerunKeeps DEF Rerun, OnlyGate
<1> QED BY <1>1, WeatherKeeps, OperatorKeeps, RerunRunKeeps DEF Environment

LEMMA NextKeeps == ASSUME IInv, [Next]_vars PROVE IInv'
<1>1. CASE Next
  <2>1. Requests \subseteq Retries
      BY RequestsAssumption DEF Retries
  <2> QED BY <1>1, <2>1, DispatchRunKeeps, MaintenanceKeeps, GateKeeps, EnvironmentKeeps DEF Next
<1>2. CASE UNCHANGED vars
  <2>1. Shape' /\ MainMoves /\ Open' = Open
      BY <1>2 DEF IInv, Shape, vars, MainMoves, Open
  <2>2. \A q \in Runs : (Proposed(q)' <=> Proposed(q)) /\ GateMoves(q)
      BY <1>2 DEF vars, Proposed, GateMoves
  <2> QED BY <1>2, <2>1, <2>2, LaterKeeps DEF vars
<1> QED BY <1>1, <1>2

LEMMA InitHolds == Init => IInv
<1> SUFFICES ASSUME Init PROVE IInv
    OBVIOUS
<1>1. 0 \in Contents /\ 0 \in Nat
    BY ContentsAssumption
<1>2. main \in Branches
  <2>1. [s \in Sources |-> 0] \in [Sources -> Contents]
        /\ [s \in Sources |-> None] \in Ledgers
      BY <1>1 DEF Ledgers
  <2> QED BY <1>1, <2>1 DEF Init, Branches
<1>3. FALSE \in BOOLEAN
    BY Zenon
<1>4. NoRun \in RunRecords /\ NoRun.pc = "none"
    BY <1>2, <1>3 DEF NoRun, RunRecords, RunLabels, Jobs, Origins, Attempts, Retries
<1> DEFINE none == [NewGate EXCEPT !.pc = "none"]
<1>5. /\ none \in GateRecords /\ none.pc = "none" /\ none.tests = "pending"
      /\ none.review = "pending" /\ none.recorded = FALSE /\ none.id = 0
  <2>1. NewGate \in GateRecords /\ NewGate.tests = "pending" /\ NewGate.review = "pending"
        /\ NewGate.recorded = FALSE /\ NewGate.id = 0
      BY <1>2, <1>3 DEF NewGate, GateRecords, GateLabels, Attempts
  <2> QED BY <2>1 DEF GateRecords, GateLabels
<1> HIDE DEF none
<1>6. \A r \in Runs : /\ run[r] = NoRun /\ gate[r] = none
                      /\ pull[r] = [state |-> "none", base |-> 0]
    BY DEF Init, none
<1>7. Shape
  <2>1. run = [r \in Runs |-> NoRun] /\ gate = [r \in Runs |-> none]
        /\ pull = [r \in Runs |-> [state |-> "none", base |-> 0]]
        /\ content = [s \in Sources |-> 0]
      BY DEF Init, none
  <2>2. [state |-> "none", base |-> 0] \in PullRecords
      BY DEF PullRecords
  <2> QED BY <1>1, <1>2, <1>4, <1>5, <2>1, <2>2 DEF Shape
<1>8. Open = {} /\ Serial /\ Single
    BY <1>4, <1>6 DEF Open, Serial, Single, Idle
<1>9. ASSUME NEW r \in Runs PROVE RunOK(r) /\ GateOK(r)
  <2>1. RunOK(r)
      BY <1>4, <1>5, <1>6 DEF RunOK, Proposed
  <2>2. GateOK(r)
      BY <1>5, <1>6, Zenon DEF GateOK, Unjudged
  <2> QED BY <2>1, <2>2
<1> QED BY <1>7, <1>8, <1>9 DEF IInv

-----------------------------------------------------------------------------
(* The theorems. *)

\* The invariant holds throughout.
THEOREM Invariance == Spec => []IInv
<1>1. IInv /\ [Next]_vars => IInv'
    BY NextKeeps
<1> QED BY InitHolds, <1>1, PTL DEF Spec

\* Two candidates are open at once only after a rerun of the run of one of them, for
\* any number of runs, gates, reruns and lost replies (classifyOpenCandidate sees the
\* candidates of others; the publish job does not).
THEOREM OneCandidateOpen == Spec => []OneCandidate
<1>1. IInv => OneCandidate
    BY DEF IInv, Single, OneCandidate
<1> QED BY <1>1, Invariance, PTL

\* Only these steps change main.
LEMMA MainSteps ==
    ASSUME [Next]_vars, main' # main
    PROVE  HumanPush \/ \E r \in Runs : Merge(r) \/ RecordWrite(r) \/ OperatorCloses(r)
<1>1. ASSUME NEW r \in Runs, Maintenance(r) PROVE FALSE
    BY <1>1 DEF Maintenance, Plan, PlanSkips, PlanFails, Decide, DecideNothing, DetectFails,
                MaintainEmpty, MaintainFails, Maintained, PublishCheck, PublishFails, Proposes,
                Publish, PublishLost, Fails, SucceedsWithoutCandidate
<1>2. ASSUME NEW r \in Runs, Gate(r) PROVE Merge(r) \/ RecordWrite(r)
    BY <1>2 DEF Gate, Start, Resolve, Prepare, PrepareFails, Test, Review, JobsDone, Recheck,
                MergeRefused, DispatchCI, RecordRead, RecordFails, Cleanup, CleanupFails, OnlyGate
<1>3. ASSUME Environment PROVE HumanPush \/ \E r \in Runs : OperatorCloses(r)
  <2>1. ASSUME NEW r \in Runs,
               BaseRefreshed(r) \/ \E all \in BOOLEAN : RerunRun(r, all) \/ Rerun(r, all)
        PROVE  FALSE
      BY <2>1 DEF BaseRefreshed, RerunRun, Rerun, OnlyGate
  <2> QED BY <1>3, <2>1 DEF Environment, UpstreamMoves, OperatorRunsCI
<1> QED BY <1>1, <1>2, <1>3 DEF Next, Dispatch, vars

LEMMA LedgerKeeps == ASSUME IInv, [Next]_vars PROVE Forward(main.ledger, main'.ledger)
<1>1. Shape /\ main \in Branches /\ main.ledger \in Ledgers
    BY DEF IInv, Shape, Branches
<1>2. CASE main' = main
    BY <1>1, <1>2, SameLedgerForward
<1>3. CASE HumanPush
    BY <1>1, <1>3, SameLedgerForward, PushedFacts DEF HumanPush
<1>4. ASSUME NEW r \in Runs, Merge(r) PROVE Forward(main.ledger, main'.ledger)
  <2>1. main'.ledger = main.ledger
      BY <1>1, <1>4 DEF Merge, Branches
  <2> QED BY <1>1, <2>1, SameLedgerForward
<1>5. ASSUME NEW r \in Runs, Chosen(r), gate[r].id # 0,
             main' = Pushed(Recorded(main.ledger, Report(r), run[r].override))
      PROVE  Forward(main.ledger, main'.ledger)
  <2>1. Report(r) \in Reports /\ run[r].override \in BOOLEAN
      BY <1>1, <1>5, ReportFacts
  <2> QED BY <1>1, <1>5, <2>1, RecordedFacts, PushedFacts
<1>6. ASSUME NEW r \in Runs, RecordWrite(r) PROVE Forward(main.ledger, main'.ledger)
  <2>1. gate[r].pc = "record_write" /\ RunOK(r) /\ GateOK(r)
      BY <1>6 DEF RecordWrite, IInv
  <2>2. Chosen(r) /\ gate[r].seen = main /\ gate[r].id # 0
      BY <1>6, <2>1 DEF RecordWrite, CanUpdate, Current, GateOK, RunOK, Rejected, Unjudged
  <2> QED BY <1>5, <1>6, <2>2 DEF RecordWrite
<1>7. ASSUME NEW r \in Runs, OperatorCloses(r) PROVE Forward(main.ledger, main'.ledger)
  <2>1. Chosen(r) /\ (Rejected(r) => gate[r].id # 0)
      BY <1>7 DEF OperatorCloses, IInv, RunOK, Proposed, GateOK, Unjudged, Rejected
  <2> QED BY <1>2, <1>5, <1>7, <2>1 DEF OperatorCloses
<1> QED BY <1>2, <1>3, <1>4, <1>6, <1>7, MainSteps

\* The feedback of a source never disappears from main and never goes back
\* (record_rejection, updateRef without force).
THEOREM LedgerGrows == Spec => LedgerForward
<1> DEFINE Grows ==
    \A s \in Sources : main.ledger[s] # None =>
          /\ main'.ledger[s] # None
          /\ main'.ledger[s].report.run >= main.ledger[s].report.run
          /\ main'.ledger[s].report.run = main.ledger[s].report.run
                => main'.ledger[s] = main.ledger[s]
<1>1. IInv /\ [Next]_vars => [Grows]_vars
    BY LedgerKeeps DEF Forward
<1> QED BY <1>1, Invariance, PTL DEF Spec, LedgerForward

\* Only its own gate and the operator close a candidate.
LEMMA ClosedBy ==
    ASSUME IInv, [Next]_vars, NEW r \in Runs, pull[r].state = "open", pull'[r].state = "closed"
    PROVE  Cleanup(r) \/ OperatorCloses(r)
<1>1. pull \in [Runs -> PullRecords] /\ pull' # pull
    BY DEF IInv, Shape
<1>2. ASSUME NEW q \in Runs, Maintenance(q) PROVE FALSE
  <2>1. Publish(q) \/ PublishLost(q)
      BY <1>1, <1>2 DEF Maintenance, Plan, PlanSkips, PlanFails, Decide, DecideNothing,
             DetectFails, MaintainEmpty, MaintainFails, Maintained, PublishCheck,
             PublishFails, Fails, SucceedsWithoutCandidate
  <2> QED BY <1>1, <2>1 DEF Publish, PublishLost, Proposes
<1>3. ASSUME NEW q \in Runs, Gate(q) PROVE Cleanup(r)
  <2>1. Merge(q) \/ Cleanup(q)
      BY <1>1, <1>3 DEF Gate, Start, Resolve, Prepare, PrepareFails, Test, Review, JobsDone,
             Recheck, MergeRefused, DispatchCI, RecordRead, RecordFails, RecordWrite,
             CleanupFails, OnlyGate
  <2>2. ~Merge(q)
    <3> SUFFICES ASSUME Merge(q) PROVE FALSE
        OBVIOUS
    <3>1. pull' = [pull EXCEPT ![q] = [pull[q] EXCEPT !.state = "merged"]]
        BY <1>1 DEF Merge
    <3>2. [pull[q] EXCEPT !.state = "merged"].state = "merged"
        BY <1>1 DEF PullRecords
    <3> QED BY <1>1, <3>1, <3>2
  <2>3. MayClose(q, r)
      BY <2>1, <2>2 DEF Cleanup
  <2> QED BY <2>1, <2>2, <2>3 DEF MayClose
<1>4. ASSUME Environment PROVE OperatorCloses(r)
  <2>1. PICK q \in Runs : BaseRefreshed(q) \/ OperatorCloses(q)
      BY <1>1, <1>4 DEF Environment, UpstreamMoves, HumanPush, OperatorRunsCI, RerunRun, Rerun,
             OnlyGate
  <2>2. ~BaseRefreshed(q)
    <3> SUFFICES ASSUME BaseRefreshed(q) PROVE FALSE
        OBVIOUS
    <3>1. pull' = [pull EXCEPT ![q] = [pull[q] EXCEPT !.base = main.sha]]
        BY <1>1 DEF BaseRefreshed
    <3>2. [pull[q] EXCEPT !.base = main.sha].state = pull[q].state
        BY <1>1 DEF PullRecords
    <3> QED BY <1>1, <3>1, <3>2
  <2>3. q = r
      BY <1>1, <2>1, <2>2 DEF OperatorCloses
  <2> QED BY <2>1, <2>2, <2>3
<1> QED BY <1>1, <1>2, <1>3, <1>4 DEF Next, Dispatch, vars

\* A rejected candidate is closed by automation only after main holds its rejection
\* or a newer one of the source (publish_review_feedback, cleanup_failed_candidate).
THEOREM RejectionsReachMain == Spec => RejectionsKept
<1> DEFINE Held == \A r \in Runs :
          (pull[r].state = "open" /\ pull'[r].state = "closed" /\ Rejected(r)
             /\ ~OperatorCloses(r))
          => /\ main.ledger[run[r].source] # None
             /\ main.ledger[run[r].source].report.run >= gate[r].id
<1>1. IInv /\ [Next]_vars => [Held]_vars
  <2> SUFFICES ASSUME IInv, [Next]_vars, NEW r \in Runs, pull[r].state = "open",
                      pull'[r].state = "closed", Rejected(r), ~OperatorCloses(r)
               PROVE  Kept(r)
      BY DEF Kept
  <2>1. gate[r].pc = "cleanup"
      BY ClosedBy DEF Cleanup
  <2> QED BY <2>1 DEF IInv, GateOK
<1> QED BY <1>1, Invariance, PTL DEF Spec, RejectionsKept

\* While the gate of a candidate is at work nobody but its last job closes it
\* (authorizeTerminalCandidateClose).
THEOREM OnlyItsGateCloses == Spec => ActiveNotClosed
<1> DEFINE Own == \A r \in Runs :
          (pull[r].state = "open" /\ pull'[r].state = "closed" /\ Active(r))
          => /\ gate[r].pc = "cleanup" /\ gate'[r].pc = "completed"
             /\ (gate[r].tests = "pending") = (gate[r].review = "pending")
<1>1. IInv /\ [Next]_vars => [Own]_vars
  <2> SUFFICES ASSUME IInv, [Next]_vars, NEW r \in Runs, pull[r].state = "open",
                      pull'[r].state = "closed", Active(r)
               PROVE  /\ gate[r].pc = "cleanup" /\ gate'[r].pc = "completed"
                      /\ (gate[r].tests = "pending") = (gate[r].review = "pending")
      BY Zenon
  <2>1. Cleanup(r)
      BY ClosedBy DEF OperatorCloses, Active
  <2>2. gate[r].pc = "cleanup" /\ GateTo(r, "completed") /\ "completed" \in GateLabels
      BY <2>1 DEF Cleanup, GateLabels
  <2>3. gate'[r].pc = "completed"
      BY <2>2, GateToFacts DEF IInv
  <2>4. Unjudged(r) \/ JobsEnd(r)
      BY <2>2 DEF IInv, GateOK
  <2>5. (gate[r].tests = "pending") = (gate[r].review = "pending")
      BY <2>4, Zenon DEF Unjudged, JobsEnd
  <2> QED BY <2>2, <2>3, <2>5
<1> QED BY <1>1, Invariance, PTL DEF Spec, ActiveNotClosed
=============================================================================
