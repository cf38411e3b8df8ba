----------------------------- MODULE UpdateLoop -----------------------------
(***************************************************************************)
(* The upstream update loop: maintenance runs that open one candidate pull *)
(* request (pk-stack-upstream-maintenance-kiro.yml), candidate gates that  *)
(* test, review, merge or close it (pk-stack-upstream-candidate.yml), and  *)
(* the durable feedback ledger on the main branch that bounds how often a  *)
(* changed source is tried (pkstack_review_feedback.py).                   *)
(*                                                                         *)
(* A maintenance run, its candidate and the gate it triggers share a       *)
(* number; gates also have an identifier, in the order of their creation,  *)
(* which is another order once failed runs are rerun.  A gate's jobs run   *)
(* beside other gates, people push to main, GitHub cancels and loses       *)
(* replies, and an operator reruns runs and gates and closes what is stuck.*)
(***************************************************************************)
EXTENDS Integers, Sequences, FiniteSets

LOCAL INSTANCE FiniteSetsExt

CONSTANTS
    Sources,        \* registered upstream sources, in manifest order
    Contents,       \* subtrees an upstream source may have
    None,           \* no entry, no retry request
    MaxRejections,  \* rejections that exhaust a source's content
    Capacity,       \* sources load_ledger accepts
    Requests,       \* bound: what operators and the schedule start runs with
    MaxRuns,        \* bound: maintenance runs
    MaxSha,         \* bound: people push to main only below this commit number
    MaxReruns       \* bound: reruns of runs and gates

ASSUME SourcesAssumption == Sources \subseteq Nat /\ IsFiniteSet(Sources)
ASSUME ContentsAssumption == Contents \subseteq Nat /\ 0 \in Contents
ASSUME RequestsAssumption == Requests \subseteq (Sources \X Contents) \cup {None}
ASSUME LimitsAssumption == MaxRejections \in Nat \ {0} /\ Capacity \in Nat
ASSUME LoopBoundsAssumption == MaxRuns \in Nat /\ MaxSha \in Nat /\ MaxReruns \in Nat

VARIABLES
    main,     \* the default branch: commit number, pins, feedback ledger
    green,    \* commits of main for which main CI ran
    content,  \* the subtree each upstream source has
    run,      \* the maintenance runs
    pull,     \* the candidate pull request of each run
    gate,     \* the candidate gate of each run
    history   \* every rejection that reached main, in order (never read by the loop)

vars == <<main, green, content, run, pull, gate, history>>

Runs == 1 .. MaxRuns

-----------------------------------------------------------------------------
(* The feedback ledger. *)

\* An attempt of a gate stands for the findings and the summary its reviewer wrote.
Attempts == Nat \ {0}

\* validate_report; run is the candidate run, the identifier of the gate.
Reports == [source : Sources, tree : Contents, run : Nat \ {0}, attempt : Attempts]
Entries == [count : 1 .. MaxRejections, report : Reports]
ASSUME NoneAssumption == None \notin (Sources \X Contents) \cup Entries

Ledgers == [Sources -> Entries \cup {None}]

\* load_ledger refuses a ledger with more records.
Loads(ledger) == Cardinality({s \in Sources : ledger[s] # None}) <= Capacity

\* source_feedback: the rejections spent on exactly this content.
Spent(ledger, s, t) ==
    IF ledger[s] # None /\ ledger[s].report.tree = t THEN ledger[s].count ELSE 0

\* This gate's rejection is in the ledger already.
Known(ledger, report) ==
    ledger[report.source] # None /\ ledger[report.source].report.run = report.run

\* Mutant: one rejection more than the budget is recorded.
AdvancesOverBudget(ledger, report, override) ==
    /\ ledger[report.source] # None => ledger[report.source].report.run < report.run
    /\ override => Spent(ledger, report.source, report.tree) = MaxRejections
    /\ override \/ Spent(ledger, report.source, report.tree) <= MaxRejections

\* Mutant: a rerun is counted again.
AdvancesTwice(ledger, report, override) ==
    /\ ledger[report.source] # None => ledger[report.source].report.run <= report.run
    /\ override => Spent(ledger, report.source, report.tree) = MaxRejections
    /\ override \/ Spent(ledger, report.source, report.tree) < MaxRejections

\* record_rejection stores the report and one more rejection.
Advances(ledger, report, override) ==
    /\ ledger[report.source] # None => ledger[report.source].report.run < report.run
    /\ override => Spent(ledger, report.source, report.tree) = MaxRejections
    /\ override \/ Spent(ledger, report.source, report.tree) < MaxRejections

\* record_rejection returns the ledger as it is, or the ledger with the report.
Records(ledger, report, override) ==
    /\ Loads(ledger)
    /\ \/ Known(ledger, report) /\ ledger[report.source].report = report
       \/ Advances(ledger, report, override)

\* A retried rejection becomes count one.
Recorded(ledger, report, override) ==
    IF ~Advances(ledger, report, override) THEN ledger
    ELSE [ledger EXCEPT ![report.source] =
            [count |-> 1 + IF override THEN 0 ELSE Spent(ledger, report.source, report.tree),
             report |-> report]]

-----------------------------------------------------------------------------
(* The main branch. *)

Pushed(ledger) == [main EXCEPT !.sha = @ + 1, !.ledger = ledger]

\* A rejection reaches main, one way or another.
Remember(report, override) ==
    history' = IF \E i \in DOMAIN history : history[i].run = report.run THEN history
               ELSE Append(history, [source |-> report.source, tree |-> report.tree,
                                     run |-> report.run, override |-> override])

Open == {r \in Runs : pull[r].state = "open"}

-----------------------------------------------------------------------------
(* Maintenance runs: plan, detect and decide, publish. *)

Retries == (Sources \X Contents) \cup {None}

\* The jobs of a run.  A run that failed remembers which of them did, and any run
\* whether it was ever rerun without its plan, from a later job that had failed.
Jobs == {"plan", "detect", "maintain", "publish"}
Origins == {"plan", "failed"}

NoRun == [pc |-> "none", failed |-> None, attempt |-> 1, from |-> "plan", base |-> main,
          retry |-> None, source |-> None, tree |-> None, override |-> FALSE]

Ended == {"succeeded", "failed"}

Idle(q) == run[q].pc \in {"none"} \cup Ended

RunTo(r, label) == run' = [run EXCEPT ![r].pc = label]

\* A schedule or an operator starts a run at the head of main; the concurrency
\* group lets one run proceed at a time.
Dispatch(r, retry) ==
    /\ run[r].pc = "none"
    /\ \A q \in Runs : Idle(q) /\ (q < r => run[q].pc # "none")
    /\ run' = [run EXCEPT ![r] = [@ EXCEPT !.pc = "plan", !.base = main, !.retry = retry]]
    /\ UNCHANGED <<main, green, content, pull, gate, history>>

Active(q) == gate[q].pc \notin {"none", "completed"}

NewGate == [pc |-> "pending", tests |-> "pending", review |-> "pending", reviewed |-> 1,
            recorded |-> FALSE, seen |-> main, attempt |-> 1, id |-> 0]

Gates == {q \in Runs : gate[q].id # 0}

\* Every end of a run creates a gate run.  In its concurrency group one gate
\* waits at most: an older waiting one is cancelled.
Joined(r) ==
    LET group == {q \in Runs \ {r} : run[q].base.sha = run[r].base.sha}
        busy == \E q \in group : Active(q) /\ gate[q].pc # "pending"
    IN  [q \in Runs |-> IF busy /\ q \in group /\ gate[q].pc = "pending"
                        THEN [gate[q] EXCEPT !.pc = "completed"]
                        ELSE gate[q]]

\* The gate of a run that succeeded has jobs to do.
Trigger(r) ==
    gate' = [Joined(r) EXCEPT ![r] = [NewGate EXCEPT !.id = 1 + Cardinality(Gates)]]

SucceedsWithoutCandidate(r) ==
    /\ RunTo(r, "succeeded")
    /\ Trigger(r)
    /\ UNCHANGED <<main, green, content, pull, history>>

FailsIn(r, job) == run' = [run EXCEPT ![r].pc = "failed", ![r].failed = job]

\* The gate run of a run that failed skips every job.
Fails(r, job) ==
    /\ FailsIn(r, job)
    /\ gate' = Joined(r)
    /\ UNCHANGED <<main, green, content, pull, history>>

\* Mutant: a candidate whose gate has ended does not stop the next run.
PlanFreeBlindly(r) == \A q \in Open : ~Active(q)

PlanFree(r) == Open = {}

\* classifyOpenCandidate: without an open candidate the run goes on.
Plan(r) ==
    /\ run[r].pc = "plan" /\ PlanFree(r)
    /\ RunTo(r, "detect")
    /\ UNCHANGED <<main, green, content, pull, gate, history>>

\* A candidate of this base whose one gate run is active suppresses the run; a
\* rerun of the candidate's run has left two gate runs of one title.
PlanSkips(r) ==
    /\ run[r].pc = "plan"
    /\ \E q \in Runs : /\ Open = {q} /\ Active(q) /\ run[q].attempt = 1
                       /\ {run[q].base.sha, pull[q].base} = {run[r].base.sha}
    /\ SucceedsWithoutCandidate(r)

\* Two candidates, one of another base or of a run that has not succeeded, or a
\* gate that ended or is too old block the run, as does an API failure.
PlanFails(r) == run[r].pc = "plan" /\ Fails(r, "plan")

\* decide() works on the checkout of the base and on the upstream as it is now.
Drifting(r) == {s \in Sources : content[s] # run[r].base.pin[s]}

Exhausted(r, s) == Spent(run[r].base.ledger, s, content[s]) >= MaxRejections

RetryGranted(r) ==
    run[r].retry # None =>
        LET s == run[r].retry[1]
        IN  s \in Drifting(r) /\ content[s] = run[r].retry[2] /\ Exhausted(r, s)

Decides(r) == Loads(run[r].base.ledger) /\ RetryGranted(r)

Eligible(r) ==
    {s \in Drifting(r) : ~Exhausted(r, s) \/ run[r].retry = <<s, content[s]>>}

First(S) == CHOOSE s \in S : \A t \in S : s <= t

Selected(r) == IF run[r].retry # None THEN run[r].retry[1] ELSE First(Eligible(r))

Decide(r) ==
    /\ run[r].pc = "detect" /\ Decides(r) /\ Eligible(r) # {}
    /\ run' = [run EXCEPT ![r] = [@ EXCEPT !.pc = "maintain", !.source = Selected(r),
                                           !.tree = content[Selected(r)],
                                           !.override = run[r].retry # None]]
    /\ UNCHANGED <<main, green, content, pull, gate, history>>

\* Nothing drifts, or every drifting source is exhausted.
DecideNothing(r) ==
    /\ run[r].pc = "detect" /\ Decides(r) /\ Eligible(r) = {}
    /\ SucceedsWithoutCandidate(r)

\* An unreadable ledger, a retry that names something else, or a failed proof.
DetectFails(r) == run[r].pc = "detect" /\ Fails(r, "detect")

\* The repair turns end without changes, fail, or leave a verified package.
MaintainEmpty(r) == run[r].pc = "maintain" /\ SucceedsWithoutCandidate(r)
MaintainFails(r) == run[r].pc = "maintain" /\ Fails(r, "maintain")

Maintained(r) ==
    /\ run[r].pc = "maintain"
    /\ RunTo(r, "publish")
    /\ UNCHANGED <<main, green, content, pull, gate, history>>

PublishCheck(r) ==
    /\ run[r].pc = "publish" /\ main.sha = run[r].base.sha
    /\ RunTo(r, "create")
    /\ UNCHANGED <<main, green, content, pull, gate, history>>

\* "default branch moved during maintenance; refusing stale PR", or a call fails:
\* createRef does whenever an earlier attempt left the branch.
PublishFails(r) == run[r].pc \in {"publish", "create"} /\ Fails(r, "publish")

\* The commit, its branch and the pull request are created.
Proposes(r) ==
    /\ run[r].pc = "create" /\ pull[r].state = "none"
    /\ pull' = [pull EXCEPT ![r] = [state |-> "open", base |-> main.sha]]
    /\ UNCHANGED <<main, green, content, history>>

Publish(r) == Proposes(r) /\ RunTo(r, "succeeded") /\ Trigger(r)

\* The pull request is created and its reply lost: the job fails.
PublishLost(r) == Proposes(r) /\ FailsIn(r, "publish") /\ gate' = Joined(r)

Maintenance(r) ==
    \/ Plan(r) \/ PlanSkips(r) \/ PlanFails(r)
    \/ Decide(r) \/ DecideNothing(r) \/ DetectFails(r)
    \/ MaintainEmpty(r) \/ MaintainFails(r) \/ Maintained(r)
    \/ PublishCheck(r) \/ PublishFails(r) \/ Publish(r) \/ PublishLost(r)

-----------------------------------------------------------------------------
(* Candidate gates. *)

GateTo(r, label) == gate' = [gate EXCEPT ![r].pc = label]

OnlyGate == UNCHANGED <<main, green, content, run, pull, history>>

\* The concurrency group of a base runs one gate at a time; a rerun of failed
\* jobs keeps the results of the others.
Start(r) ==
    /\ gate[r].pc = "pending"
    /\ \A q \in Runs \ {r} :
          run[q].base.sha = run[r].base.sha => ~Active(q) \/ gate[q].pc = "pending"
    /\ GateTo(r, IF gate[r].tests = "pending" /\ gate[r].review = "pending"
                 THEN "resolve" ELSE "jobs")
    /\ OnlyGate

\* resolveCandidateForSource finds the open candidate of exactly this run.
Resolve(r) ==
    /\ gate[r].pc = "resolve"
    /\ GateTo(r, IF Open = {r} /\ pull[r].base = run[r].base.sha THEN "prepare" ELSE "cleanup")
    /\ OnlyGate

\* base_ci finds main CI for the base, the candidate's bundle is built.
Prepare(r) ==
    /\ gate[r].pc = "prepare" /\ run[r].base.sha \in green
    /\ GateTo(r, "jobs")
    /\ OnlyGate

\* Mutant: a gate waits until main CI of its base has passed.
PrepareWaits(r) ==
    /\ gate[r].pc = "prepare" /\ run[r].base.sha \in green
    /\ GateTo(r, "cleanup")
    /\ OnlyGate

\* Main CI of the base is missing, unfinished or red, or the bundle fails.
PrepareFails(r) ==
    /\ gate[r].pc = "prepare"
    /\ GateTo(r, "cleanup")
    /\ OnlyGate

\* candidate_tests and kiro_peer_review run at the same time.
Test(r, result) ==
    /\ gate[r].pc = "jobs" /\ gate[r].tests = "pending"
    /\ gate' = [gate EXCEPT ![r].tests = result]
    /\ OnlyGate

Review(r, verdict) ==
    /\ gate[r].pc = "jobs" /\ gate[r].review = "pending"
    /\ gate' = [gate EXCEPT ![r].review = verdict, ![r].reviewed = gate[r].attempt]
    /\ OnlyGate

Approved(r) == gate[r].tests = "success" /\ gate[r].review = "approved"
Rejected(r) == gate[r].tests = "success" /\ gate[r].review = "rejected"

JobsEnd(r) == gate[r].tests # "pending" /\ gate[r].review # "pending"

JobsDone(r) ==
    /\ gate[r].pc = "jobs" /\ JobsEnd(r)
    /\ GateTo(r, IF Approved(r) THEN "recheck"
                 ELSE IF Rejected(r) /\ ~gate[r].recorded THEN "record" ELSE "cleanup")
    /\ OnlyGate

\* The merge job looks at the pull request and at main again.
Recheck(r) ==
    /\ gate[r].pc = "recheck"
    /\ GateTo(r, IF /\ Open = {r} /\ pull[r].base = run[r].base.sha
                    /\ main.sha = run[r].base.sha
                 THEN "merge" ELSE "cleanup")
    /\ OnlyGate

\* pulls.merge pins the tested head, not the base it lands on.
Merge(r) ==
    /\ gate[r].pc = "merge" /\ pull[r].state = "open"
    /\ main' = [main EXCEPT !.sha = @ + 1, !.pin[run[r].source] = run[r].tree]
    /\ pull' = [pull EXCEPT ![r].state = "merged"]
    /\ gate' = [gate EXCEPT ![r].pc = "dispatch", ![r].seen = main']
    /\ UNCHANGED <<green, content, run, history>>

MergeRefused(r) ==
    /\ gate[r].pc = "merge"
    /\ GateTo(r, "cleanup")
    /\ OnlyGate

\* dispatchMergedMainCI starts main CI unless main moved since.
DispatchCI(r) ==
    /\ gate[r].pc = "dispatch"
    /\ green' = IF main.sha = gate[r].seen.sha THEN green \cup {main.sha} ELSE green
    /\ GateTo(r, "completed")
    /\ UNCHANGED <<main, content, run, pull, history>>

Report(r) == [source |-> run[r].source, tree |-> run[r].tree, run |-> gate[r].id,
              attempt |-> gate[r].reviewed]

\* record_rejection reads the ledger at the head of main.
RecordRead(r) ==
    /\ gate[r].pc = "record"
    /\ Records(main.ledger, Report(r), run[r].override)
    /\ gate' = IF Advances(main.ledger, Report(r), run[r].override)
               THEN [gate EXCEPT ![r].pc = "record_write", ![r].seen = main]
               ELSE [gate EXCEPT ![r].pc = "cleanup", ![r].recorded = TRUE]
    /\ OnlyGate

\* Mutant: a refused report ends in cleanup as well.
RecordFailsIntoCleanup(r) ==
    /\ gate[r].pc \in {"record", "record_write"}
    /\ GateTo(r, "cleanup")
    /\ OnlyGate

\* The job fails: the ledger refuses the report, or the runner or GitHub does.
\* The pull request stays open for the operator.
RecordFails(r) ==
    /\ gate[r].pc \in {"record", "record_write"}
    /\ GateTo(r, "completed")
    /\ OnlyGate

\* Mutant: the branch update is forced.
CanUpdateForced(r) == TRUE

\* updateRef without force accepts only a child of the head of main.
CanUpdate(r) == main.sha = gate[r].seen.sha

\* The reply may be lost after main moved; then the job fails all the same.
RecordWrite(r) ==
    /\ gate[r].pc = "record_write" /\ CanUpdate(r)
    /\ main' = Pushed(Recorded(gate[r].seen.ledger, Report(r), run[r].override))
    /\ Remember(Report(r), run[r].override)
    /\ \/ gate' = [gate EXCEPT ![r].pc = "cleanup", ![r].recorded = TRUE]
       \/ GateTo(r, "completed")
    /\ UNCHANGED <<green, content, run, pull>>

\* Mutant: the open candidate need not belong to this source run.
MayCloseAny(r, q) == pull[q].base = run[r].base.sha \/ gate[r].recorded

\* authorizeTerminalCandidateClose
MayClose(r, q) ==
    /\ q = r /\ Open = {q}
    /\ pull[q].base = run[r].base.sha \/ gate[r].recorded

\* cleanup_failed_candidate, the last job of the gate.
Cleanup(r) ==
    /\ gate[r].pc = "cleanup"
    /\ pull' = [q \in Runs |-> IF q \in Open /\ MayClose(r, q)
                               THEN [pull[q] EXCEPT !.state = "closed"] ELSE pull[q]]
    /\ GateTo(r, "completed")
    /\ UNCHANGED <<main, green, content, run, history>>

\* A call of the job fails, or its time is over.
CleanupFails(r) ==
    /\ gate[r].pc = "cleanup"
    /\ GateTo(r, "completed")
    /\ OnlyGate

Gate(r) ==
    \/ Start(r) \/ Resolve(r) \/ Prepare(r) \/ PrepareFails(r)
    \/ \E result \in {"success", "failure"} : Test(r, result)
    \/ \E verdict \in {"approved", "rejected", "failure"} : Review(r, verdict)
    \/ JobsDone(r) \/ Recheck(r) \/ Merge(r) \/ MergeRefused(r) \/ DispatchCI(r)
    \/ RecordRead(r) \/ RecordFails(r) \/ RecordWrite(r)
    \/ Cleanup(r) \/ CleanupFails(r)

-----------------------------------------------------------------------------
(* The environment. *)

UpstreamMoves(s, t) ==
    /\ t # content[s]
    /\ content' = [content EXCEPT ![s] = t]
    /\ UNCHANGED <<main, green, run, pull, gate, history>>

\* A person's push to main triggers main CI; it does not touch the ledger.
HumanPush ==
    /\ main.sha < MaxSha
    /\ main' = Pushed(main.ledger)
    /\ green' = green \cup {main.sha + 1}
    /\ UNCHANGED <<content, run, pull, gate, history>>

\* GitHub may refresh the base of an open pull request when main moves.
BaseRefreshed(r) ==
    /\ pull[r].state = "open" /\ pull[r].base # main.sha
    /\ pull' = [pull EXCEPT ![r].base = main.sha]
    /\ UNCHANGED <<main, green, content, run, gate, history>>

OperatorRunsCI ==
    /\ main.sha \notin green
    /\ green' = green \cup {main.sha}
    /\ UNCHANGED <<main, content, run, pull, gate, history>>

Reruns == MapThenSumSet(LAMBDA q : run[q].attempt + gate[q].attempt - 2, Runs)

Restart(r, all) == IF all THEN "plan" ELSE run[r].failed

\* Rerun all jobs of a failed run, or the failed job and what depends on it; the
\* commit it works on, its retry request and earlier results stay.
RerunRun(r, all) ==
    /\ run[r].pc = "failed" /\ \A q \in Runs : Idle(q)
    /\ Reruns < MaxReruns
    /\ run' = [run EXCEPT ![r].pc = Restart(r, all), ![r].failed = None, ![r].attempt = @ + 1,
                          ![r].from = IF Restart(r, all) = "plan" THEN @ ELSE "failed"]
    /\ UNCHANGED <<main, green, content, pull, gate, history>>

\* Rerun all jobs of a gate, or only the failed ones and what depends on them.
Rerun(r, all) ==
    /\ gate[r].pc = "completed"
    /\ Reruns < MaxReruns
    /\ gate' = [gate EXCEPT
                   ![r].pc = "pending", ![r].attempt = @ + 1,
                   ![r].tests = IF ~all /\ @ = "success" THEN @ ELSE "pending",
                   ![r].review = IF ~all /\ @ \in {"approved", "rejected"} THEN @ ELSE "pending",
                   ![r].recorded = IF all THEN FALSE ELSE @]
    /\ OnlyGate

\* The operator reconciles a validated rejection into the ledger if it still
\* belongs there, then closes the candidate.
OperatorCloses(r) ==
    /\ pull[r].state = "open" /\ ~Active(r)
    /\ pull' = [pull EXCEPT ![r].state = "closed"]
    /\ IF /\ Rejected(r) /\ Loads(main.ledger)
          /\ Advances(main.ledger, Report(r), run[r].override)
       THEN /\ main' = Pushed(Recorded(main.ledger, Report(r), run[r].override))
            /\ green' = green \cup {main'.sha}
            /\ Remember(Report(r), run[r].override)
       ELSE UNCHANGED <<main, green, history>>
    /\ UNCHANGED <<content, run, gate>>

Environment ==
    \/ \E s \in Sources, t \in Contents : UpstreamMoves(s, t)
    \/ HumanPush \/ OperatorRunsCI
    \/ \E r \in Runs : BaseRefreshed(r) \/ OperatorCloses(r)
                       \/ \E all \in BOOLEAN : RerunRun(r, all) \/ Rerun(r, all)

-----------------------------------------------------------------------------

Init ==
    /\ main = [sha |-> 0, pin |-> [s \in Sources |-> 0], ledger |-> [s \in Sources |-> None]]
    /\ green = {0}
    /\ content = [s \in Sources |-> 0]
    /\ run = [r \in Runs |-> NoRun]
    /\ pull = [r \in Runs |-> [state |-> "none", base |-> 0]]
    /\ gate = [r \in Runs |-> [NewGate EXCEPT !.pc = "none"]]
    /\ history = <<>>

Next ==
    \/ \E r \in Runs : \E retry \in Requests : Dispatch(r, retry)
    \/ \E r \in Runs : Maintenance(r) \/ Gate(r)
    \/ Environment

Spec == Init /\ [][Next]_vars

\* The jobs of runs and gates end, by themselves or at their timeout.
Fairness ==
    \A r \in Runs : WF_vars(Maintenance(r)) /\ WF_vars(Gate(r))

FairSpec == Spec /\ Fairness

-----------------------------------------------------------------------------
(* Properties. *)

Mains == [sha : 0 .. (MaxSha + MaxRuns), pin : [Sources -> Contents], ledger : Ledgers]

RunLabels == {"none", "create"} \cup Jobs \cup Ended
GateLabels == {"none", "pending", "resolve", "prepare", "jobs", "recheck", "merge",
               "dispatch", "record", "record_write", "cleanup", "completed"}

\* Type correctness; every count is within its budget, and a run makes main
\* move at most once.
TypeOK ==
    /\ main \in Mains
    /\ green \subseteq 0 .. (MaxSha + MaxRuns)
    /\ content \in [Sources -> Contents]
    /\ run \in [Runs -> [pc : RunLabels, failed : Jobs \cup {None}, attempt : Attempts,
                         from : Origins, base : Mains, retry : Retries, source : Sources \cup {None},
                         tree : Contents \cup {None}, override : BOOLEAN]]
    /\ pull \in [Runs -> [state : {"none", "open", "merged", "closed"},
                          base : 0 .. (MaxSha + MaxRuns)]]
    /\ gate \in [Runs -> [pc : GateLabels, tests : {"pending", "success", "failure"},
                          review : {"pending", "approved", "rejected", "failure"},
                          reviewed : Attempts, recorded : BOOLEAN,
                          seen : Mains, attempt : Attempts, id : Nat]]

\* Two candidates are open at once only if the run of one of them was rerun from
\* a job behind its plan: the plan sees every candidate that the run could meet,
\* and nothing behind it looks at the open pull requests again.
OneCandidate ==
    \A q, r \in Open : q # r => run[q].from # "plan" \/ run[r].from # "plan"

\* The rejections of source s in h, and those of them that are about the latest
\* content of s, in a row, since the last explicit retry.
OfSource(h, s) == {i \in DOMAIN h : h[i].source = s}
InARow(h, s) ==
    {i \in OfSource(h, s) :
        \A j \in OfSource(h, s) : j > i => h[j].tree = h[i].tree /\ ~h[j].override}

Budget(s) == Cardinality(InARow(history, s))

\* The ledger counts exactly those: no rerun, lost reply or reconciliation by
\* the operator counts a rejection twice, and no rejection is dropped.
CountIsHonest ==
    \A s \in Sources :
        Budget(s) = IF main.ledger[s] = None THEN 0 ELSE main.ledger[s].count

\* Whatever lands on main, a source's feedback never disappears and never goes
\* back to an older candidate.
LedgerForward ==
    [][\A s \in Sources : main.ledger[s] # None =>
          /\ main'.ledger[s] # None
          /\ main'.ledger[s].report.run >= main.ledger[s].report.run
          /\ main'.ledger[s].report.run = main.ledger[s].report.run
                => main'.ledger[s] = main.ledger[s]]_vars

\* A candidate with passing tests and a rejecting review is closed by automation
\* only when main holds that rejection, or a newer one of the same source.
RejectionsKept ==
    [][\A r \in Runs :
          (pull[r].state = "open" /\ pull'[r].state = "closed" /\ Rejected(r)
             /\ ~OperatorCloses(r))
          => /\ main.ledger[run[r].source] # None
             /\ main.ledger[run[r].source].report.run >= gate[r].id]_vars

\* A candidate whose gate is still at work is closed by that gate only, after
\* its tests and its review have ended; no other gate and no operator touches it.
ActiveNotClosed ==
    [][\A r \in Runs :
          (pull[r].state = "open" /\ pull'[r].state = "closed" /\ Active(r))
          => /\ gate[r].pc = "cleanup" /\ gate'[r].pc = "completed"
             /\ (gate[r].tests = "pending") = (gate[r].review = "pending")]_vars

\* Every open candidate is eventually merged, closed or left to the operator with
\* nothing at work on it: no run or gate waits for a push, for CI, for another
\* gate or for a person.
AtRest(r) == Idle(r) /\ ~Active(r)
CandidatesSettle == \A r \in Runs : []<>(pull[r].state = "open" => AtRest(r))
=============================================================================
