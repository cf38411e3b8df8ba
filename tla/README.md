# TLA+ models of pkstack

This directory models the parts of pkstack whose behaviour depends on the order
of steps: concurrent `projectctl` processes, files replaced one after the other,
kills between two writes, GitHub workflows that run beside each other, and in the
vendored diagram tool archify a live preview, commands that publish files and a
browser driven through promises and timers. Each part has a module, instances for
TLC, where it pays an abstract specification that it is shown to implement, and proofs
with TLAPS for every size.

All source paths are relative to `src/`. `PROJECT.json` lists components, runs,
mutants, hazards, findings and theorems, and maps each definition to the lines
it models. `archify/` below stands for
`powers/pkstack/skills/archify/upstream/`.

## Inventory

| Component | State it keeps | Operations | What is hard | Module |
|---|---|---|---|---|
| Verified goal store: `goal.py`, `models.py` | `.pkstack/state/goal.json`, its archive, two `flock` files, the spec bridge | start, verify, resume, clear, spec bind, status | a verdict computed without the state lock; kills; unreadable stores | `Goal`, `GoalLifecycle`, `GoalProofs` |
| Verifier runner: `runner.py` | a child in its own session, captured output, deadline | policy check, run, kill of the group | pipes kept open by descendants, timeouts | outcomes only, in `Goal` |
| Upstream acceptance: `upstreams.py` | manifest, review ledger, journal, proposal, lock | accept, recover, roll back, clean up, `--dry-run` | two documents replaced one after the other, kills, failed writes | `AcceptTransaction`, `ReviewHistory`, `AcceptProofs` |
| Upstream reproof: `upstreams.py`, `upstream_catalog.py` | none | compare, reconstruct patches, walk reviewed chains | network budget, rewritten histories | pass or fail, in `AcceptTransaction` |
| Update loop: `pk-stack-upstream-maintenance-kiro.yml`, `pk-stack-upstream-candidate.yml`, `pkstack_update_controller.py`, `pkstack_pr_policy.js`, `pkstack_review_feedback.py` | main, its feedback ledger, pull requests, runs, gates | plan, decide, publish, test, review, merge, record, close | concurrent gates and pushes, failed jobs, reruns of runs and gates, lost replies, compare-and-swap on main | `UpdateLoop`, `UpdateLoopProofs`, `FeedbackProofs` |
| CI and release packages: `pkstack_ci_package.py`, `pkstack_checks.py`, release workflow | packages, evidence | build, validate, publish | stale evidence | whether main CI ran, in `UpdateLoop` |
| Feature maps: `features.py`, `cli.py` | one contract per feature, lock | generate, generate-map, publish | documents change during the proof; a batch fails half way | `FeatureMaps`, `FeatureProofs` |
| Archify live preview: `archify/bin/preview.mjs` | hashes, epochs, a debounce timer, one child, the served buffer, event streams | observe, launch, deliver, commit, broadcast, stop | the source changes while its delivery runs or fails; streams break; hung children and signals | `LiveView`, `Preview`, `PreviewProofs` |
| Archify publishing commands: `archify/bin/archify.mjs` | a page, a receipt, a migrated source, a staging directory | deliver, compare, migrate; render, validate, check and others | two files renamed one after the other, a rollback that fails, overlapping commands, edits | `Publish`, `PublishProofs` |
| Archify visual check: `archify/bin/visual-check.mjs` | Chrome and its pipe, screenshots, a sheet, a receipt | one check over several viewports | two promises with a timer each, a page that is replaced meanwhile | `VisualCheck`, `PublishProofs` |
| Archify workflow compiler: `archify/renderers/workflow/workflow-compiler.mjs` | the feedback of earlier rounds | place, route, ask for room, start again | rounds that go on for ever, or take back what they gave | `WorkflowLayout`, `WorkflowLayoutProofs` |
| Archify architecture delta, output paths | none | compare documents, resolve outputs | aliases | how their results are published, in `Publish` |
| Archify renderers, checks, migrations, generated data | none | one document to one text | geometry | not modelled |
| Evidence trail: `evidence.py` | one trail per goal, lock | append | numbering, clock against lock order | not modelled |
| Bootstrap: `bootstrap.py` | installed files, receipt | plan, apply | files first, receipt last | not modelled |
| Knowledge worker client: `knowledge_acp.py` | worker process, session, prompts | prompt, cancel, deny, close | late answers of a cancelled prompt | not modelled |
| Maintenance supervisor: `supervise_kiro_maintenance.py` | child, pipes, deadline | relay, TERM, KILL | child, cancel and deadline race | not modelled |
| Guard, stream validators, static checks, knowledge payloads, doctor, CLI | none | pure checks of one input | no interleaving | not modelled |
| Skills, templates, Wiki, installed copies | none | none | none | not modelled |

How they interact. `projectctl` commands are separate processes that share only
files: the goal store calls the runner between its two locked sections and reads
the spec bridge that `spec bind` writes. The update loop's jobs call
`projectctl upstream` commands in their checkouts; a merged candidate is an
accepted transaction committed to main. The feedback ledger on main is read by
the next maintenance run and written by the gates. Archify's preview starts
`deliver` on a snapshot of its source in a private directory and renames the
result itself; `deliver`, `compare` and `migrate` replace the page that a visual
check may be photographing, so `VisualCheck` extends `Publish` and the two run
together. The compiler is called by the renderer inside those commands.

What makes each correct, in one sentence each:

- goal store: what is stored as evidence comes from a verifier run started for
  exactly that state, is never removed, and supports the stored status;
- acceptance: the two documents and the journal together never lose or invent a
  reviewed revision, whatever fails or is killed;
- feature maps: nothing that was not read is overwritten, what is ready was
  proved, and a batch is installed whole or undone;
- update loop: one candidate at a time unless a run was rerun without its plan, a
  budget of rejections that is neither overrun nor dropped, and no candidate with
  something at work on it for ever;
- live preview: what is served was verified for a content the source still had,
  and when the preview comes to rest its verdict is about the source as it is;
- publishing: a page and its receipt belong together, and a command that fails
  leaves what was there;
- visual check: screenshots beside a passing receipt show the page it names;
- workflow compiler: no room once granted is taken back, and it ends.

## Modules

### Goal

A step is what one process does between two points at which another can
interfere: the unlocked read before a lock (`Preflight`), the grant of a lock
(`AcquireState`, `AcquireVerify`), one whole locked section (`Start`, `Resume`,
`Clear`, `Begin`, `Record` and their refusals), the launch and the end of the
verifier.

| Code | Model |
|---|---|
| `goal.json` as read by `GoalStore.load` | `file`: absent, of another schema, corrupt, or a `GoalStates` record |
| `_validate_state`, as called by `load` and by `save` | `Valid` for the evidence, `Admitted` for the command policy; `Objections` of `Save` is both |
| `.goal.lock`, `.goal.verify.lock` | `stateLock`, `verifyLock` |
| `start_goal` | `RequestStart`, `Resolve*`, `Preflight`, `AcquireState`, `Start` |
| `verify_goal` | `RequestVerify`, the two acquisitions, `Begin`, `Launch`, `RunEnds`, then `Record` or `Discard` |
| `resume_goal`, `clear_goal` | `Resume`, `Clear`, `Archive` and `UnlinkArchived` |
| `bind_spec_contract` | `RequestBind`, `BindCheck`, `BindWrite`; no lock, the final link or replace decides |
| intent, design and bridge files | `native`, `bridge` |
| `enforce_verification_policy` | `Admitted`: a command can become rejected at any time, as the policy reads the workspace |
| a process killed with SIGKILL, with SIGTERM | `Crash` (child lives on), `Terminate` (child is killed) |

Time stamps and random ids are one counter, `clock`; two saves within one second
are thus told apart, as their random ids are for different goals. Captured
output, exit codes and argument lists are left out: a result is its run and its
verdict. The history variables `ranFor` (the state each run was launched for)
and `saveRefused` (which commands' saves were refused, and why) are never read by
an action's guard, `ranFor` only for its length, which is the number of the next
run.

`save` asks the command policy once more. A start has asked it before it waited
for the lock, so a command that is rejected meanwhile is refused by `save` and
nothing is stored; `StoredStateValid` says that this is the only refusal. The
policy reads the workspace, and a change of the workspace within one locked
section, between its load and its save, is left out.

Outside writers of `goal.json` take no lock. The model lets them write while
the state lock is free; a hand edit that falls inside a locked section of a few
milliseconds is left out. A spec's two native artifacts are one value, so a
torn read of the two is left out too.

`GoalLifecycle` is the state diagram of `docs/architecture.md`: one slot, no
processes. `Goal` is shown to implement it, by TLC and by proof.

### AcceptTransaction

A step is one atomic replacement or unlink of a file, or one network proof. A
process may be killed between any two steps, and within the journal write.

| Code | Model |
|---|---|
| `maintenance/upstreams.json` | `manifest`: one pin per source, and `edits` for the rest of the document |
| `maintenance/upstream-reviews.json` | `ledger`: a chain of reviewed revisions per source, and `edits` |
| `load_upstream_manifest`, `load_upstream_review_ledger` | `Agree`: each chain ends at its pin |
| `accept-transaction.json`, `proposal.json` | `journal` (head, both documents before and after), `proposal` |
| `_recover_accept_transaction`, `_rollback_accept_transaction` | `StartRecovery`, `Forward*`, `Reproved` or `ReproofFails`, `Back*` |
| `_write_accept_transaction` | `WriteJournal`, `WriteLedger`, `WriteManifest`; `WriteFails` and `Undo*` |
| `_cleanup_acceptance_inputs` | `UnlinkProposal`, then `UnlinkJournal`, where success is reported |

Digests are compared in the code, documents in the model. Edits by people who
take no lock are allowed wherever the code waits for the network or for the
lock (`NoWrite`), not between a comparison and the replacement that follows it
at once. `upstream` may move to any revision, also back, as after a forced push.

The command line names the expected head and no source. Sources that track one
repository share its commits (`RepoOf`, `HeadOf`; fourteen of the registered
sources track `mattpocock/skills`), so a command meant for one of them also
recovers the pending journal of another. `JournalBound` says what remains true: only a command for the journal's
head touches it, and the journal's own source alone moves.

Three behaviours worth knowing that no property forbids: a recovery whose reproof
fails for any reason, a network failure included, withdraws the acceptance and
deletes the proposal; that rollback compares nothing, so it can overwrite an
edit made during the reproof, which `EditsKept` names as its one exception; and a
recovery by a command that was meant for another source deletes that source's
proposal, which has to be written again.

`ReviewHistory` is what a reader may rely on: one history per source, advanced by
whole acceptances, seen whole or not at all, whose reported revisions stay.

### FeatureMaps

A step is one locked read of the targets, one proof with the validation that
follows it, one comparison, or the installation or restoration of one document.

| Code | Model |
|---|---|
| `Wiki/features/*.md` | `docs`: a text and whether it is a draft |
| the feature plan of `generate-map` | `plan` |
| `_feature_map_lock` | `lock`; taken and released within `Snapshot`, held from `Compare` to the end |
| `snapshot_feature_target`, `snapshot_existing_feature`, `snapshot_prepared_feature_map` | `Snapshot`, `SnapshotRefused` |
| the verifier run and the second `prepare_*` | `Prove`, `ProofFails` |
| `write_prepared_feature_if_unchanged` | `Compare`, `Install`, `InstallFails` on one target |
| `write_prepared_feature_map` | the same on several, and `RollBack`, `RollBackFails`, `RolledBack` |

The three commands share their steps and differ in targets, in what they expect
of them and in what they write. Staged files are left out: the code removes them
on every path. People edit at any time, except that a hand edit of an existing
document between its comparison and its replacement, a few milliseconds, is left
out; a file that newly appears there is not, because the code's create-only link
is about it. Left out as well is a hand edit of a document that a batch has
installed, before the batch fails: the rollback restores the previous bytes without a
look at the file (`features.py:1283-1289`). Which contracts are well-formed is left out.

Two behaviours that no property forbids. The rollback knows of a replaced
document only after its path is noted, so a signal between the two leaves it
installed while the command reports a rollback (`InstallInterrupted`). Readers
take no lock and may see half of a batch. Besides, the limit
`MAX_FEATURE_ROLLBACK_BYTES` cannot be reached: five documents of the largest
accepted size fit in it.

### UpdateLoop

| Code | Model |
|---|---|
| the default branch | `main`: commit number, pins, feedback ledger; `green`: commits with main CI |
| one maintenance run (plan, detect, maintain, publish) | `run[r]`; `Dispatch`, `Plan*`, `Decide*`, `DetectFails`, `Maintain*`, `Publish*` |
| its end | `Trigger`, `SucceedsWithoutCandidate`, `Fails`: every end creates a gate run, and that of a failed run skips its jobs |
| its rerun | `RerunRun`: all jobs, or the failed one and those behind it |
| `decide()` of the controller | `Drifting`, `Exhausted`, `Eligible`, `RetryGranted`, `Selected` |
| `record_rejection`, `source_feedback`, `load_ledger` | `Records`, `Advances`, `Recorded`, `Spent`, `Loads` |
| one candidate gate | `gate[r]`; `Start`, `Resolve`, `Prepare`, `Test` beside `Review`, `JobsDone`, then merge, record or clean up |
| the gates' concurrency group | `Start`, and `Joined`, which cancels an older waiting gate |
| compare-and-swap of the ledger commit | `RecordRead`, then `RecordWrite` if main has not moved |
| `authorizeTerminalCandidateClose` | `MayClose` |

A run and its gate share a number. The ledger orders candidates by the gate's own
identifier (`id`, by creation), which is another order when a failed run is rerun
after a later one. The job `base_ci` is part of `Prepare`; the check and the
close of the cleanup job are one step, which may also fail (`CleanupFails`);
people's pushes always get CI. GitHub (base refresh, cancelled waiting gates, lost
replies, reruns) and the operator of `docs/upstream-control-loop.md` are the
environment. The model that writes a candidate, and which paths a candidate may
change, are outside.

The publish job may fail at every call (`PublishFails`) or after the pull request
exists (`PublishLost`); then the candidate has a gate run that skips every job, its
branch makes a rerun of the job fail, and every later plan is blocked until the
operator closes it. Left out are reruns of a maintenance run that succeeded, a run
that waited in the group with an older commit of main than its successors,
operators who delete branches, and the end of the package's retention of one day,
after which a rerun of the publish job fails.

Four things the model shows that no property forbids. A failed run that is rerun
from a later job than its plan looks at main again, not at the open pull
requests, and may open a second candidate; `OneCandidate` names this as its one
exception, and from then on plans and gates refuse to go on until the operator
has closed one. The merge job's recheck
of main and its merge are two calls, and the merge pins only the head, so a push
in between puts the candidate on a commit it was not tested on. Rerunning all
jobs after a failed recording can lose the first attempt's report, if the second
attempt ends otherwise. A source whose content goes from A to B and back to A
has a fresh budget for A, because the ledger keeps one record per source;
`CountIsHonest` therefore counts the latest rejections of one content in a row.

### LiveView and Preview

`LiveView` is what somebody who watches a preview may rely on: the view shows a
verified rendering or nothing, is replaced only by the rendering of a content the
source still had when it was judged, and its revision counts different views.
`Preview` is `preview.mjs`: one JavaScript thread, so a step is one callback, with
the commit split between its look at the source and output files and the rename,
which it skips for an artifact that it found in place.

| Code | Model |
|---|---|
| `queuedHash`, `activeHash`, `lastGoodSourceHash`, the two epochs, `debounceTimer`, `pendingBuild` | variables of like names |
| `observeSource` by watcher or poll, `queueStableBuild`, `launch` | `Observe`, `Queue`, `Launch*` |
| `beginBuild` and the child `deliver` | `Begin`, `BeginFails`, `ChildEnds` |
| its close callback, `commitCandidate`, `publishFailure` | `CloseForCommit` then `Commit` or `CommitFails`; `CloseSuperseded`, `CloseFailed`, `CloseStale` |
| `broadcast`, `/events`, `/artifact.html`, the page's script | `Broadcast`, `Connect`, `Disconnect`, `Receive`, `Load` |
| signals, `startBoundedChildDrain`, `server.close`, `finishStop` | `Stop`, `ForceStop`, `GraceExpires`, `KillExpires`, `ServerCloses`, `CloseStopping` |

A content stands for its hash and an artifact for its bytes; two contents of the
instance render alike, as identical bytes are not a new revision. HTTP headers,
the port and the text of a failure are left out. The history variable `recent`
holds what the source was since the last decision and is read by no guard.

### Publish and VisualCheck

A step of `Publish` is one operation on a file that is shared; what a command does
in its own staging directory belongs to the step before. A file is what its bytes
were made from.

| Code | Model |
|---|---|
| the source, the page, its receipt, the migrated document | `base`, `target.html`, `target.receipt`, `target.migrated` |
| `commandDeliver`, `commandCompare`, `commandMigrate` | `Start`, then `ReadTo*`, `RawValidation`, `Render*`, `Recheck`, `Commit*` |
| `commitComparePair` and its rollback | `BackupHtml`, `BackupReceipt`, `CommitHtml`, `CommitReceipt`; `PairFails`, `Undo`, `RestoreReceipt`, `RestoreHtml`, `RollbackFails` |
| the `finally` clauses, a signal | `Cleanup`, `Kill` |
| `runVisualCheck` | `Begin`, `NoPage`, `NoChrome`, `Reread`, `WriteSheet`, `WriteReceipt`, `GiveUp`, `FailReceipt` |
| `ChromeVisualBrowser.inspect`, `PipeCdp` | `Navigate`, `Answer`, `LoadEvent`, `NavigationError`, `LoadTimeout`, `AnswerTimeout`, `Shoot`, `InspectFails` |
| `close`, an unhandled rejection | `Close`, `Ended("died")` |

Contents are accepted as authored, accepted in their canonical form only, or
refused, because `compare` validates the authored files and publishes what it made
of their canonical form. Its second source is fixed. `overlap`, `before` and
`swaps` are history variables: the properties about a pair speak of commands that
do not overlap, since nothing in the code excludes two commands on one target.
The measurements of a viewport are one verdict, and every viewport is
photographed.

### WorkflowLayout

The feedback loop of `compileWorkflowWithFeedback` and `createReadableLayout`: columns are placed from minimum
distances, edges are routed in turn, an edge without a route may ask for a wider
gap between two columns or the lanes, and the compilation starts again with the
request merged into what earlier rounds were granted. `Place` is the placement as
a recursive function. Whether some candidate route is feasible is free; what an
edge that has none may ask for follows from the layout, with the code's lengths in
pixels. Pins, vertical offsets, the geometry of routes, labels and their repairs
are left out.

## Runs

| Run | Instance | Shows |
|---|---|---|
| `goal_core` | 2 processes, 1 command, 4 saves, 2 runs, 1 policy change or outside write, cap 2 | types, `StoredStateValid`, `Exclusion`, `EvidenceIsOwn`, `EvidenceGrows`, `NoStaleVerdict`, `UnreadablePreserved`, `ImplementsLifecycle` |
| `goal_spec` | 2 processes, 2 commands, artifacts present or missing, bind, 3 saves, 2 runs, cap 1, with fairness | `RecordedOnSnapshot`, `BridgeCreateOnly`, `CommandsEnd` |
| `accept_core` | 2 commands, 2 sources of one repository, 1 new revision each, 1 edit of each document, 2 kills | types, `MixedIsJournaled`, `JournalBound`, `EditsKept`, `ImplementsHistory` |
| `accept_live` | 2 commands, 1 source, 2 new revisions, 2 kills, no edit beside the lock, with fairness | `RecoveryCompletes` |
| `accept_preview` | 1 source, 1 kill | violates `DryRunsPreview` |
| `features_core` | 2 commands, 2 features, 2 texts, 1 edit by hand or kill | types, `NothingLost`, `ReadyIsProven`, `BatchWhole` |
| `loop_core` | 2 sources, 2 contents, 2 runs, budget 2, no retry request, 1 push, 1 rerun of a run or a gate | `OneCandidate`, `CountIsHonest`, `LedgerForward`, `RejectionsKept`, `ActiveNotClosed` |
| `loop_live` | 1 source, 2 runs, budget 1, explicit retries, 1 push, 1 rerun of a run or a gate, with fairness | types, `CandidatesSettle` |
| `preview` | 4 contents, of which 2 render alike and 1 is bad; 2 edits, 1 fault, 2 signals, with fairness | types, `QuietIsSettled`, `ImplementsLiveView`, `Settles`, `StopEnds` |
| `publish` | 2 commands, 1 content of each kind, 1 edit, 3 faults, 2 viewports | types, `PairConsistent`, `SidecarsBelong`, `EndsClean` |
| `visual_sidecars` | 1 command, 1 fault, 2 viewports | violates `BrokenRunLeavesNoShots` |
| `workflow_layout` | documents of 4 nodes in 2 lanes with 3 edges, labels of three widths, 3 rounds, with fairness | `RequestsAreNew`, `GrantsLast`, `CompileEnds` |

Why the bounds are enough. The goal bounds reach every status, and a goal that
is exhausted, resumed and verified again (four saves, two runs); a stale verdict
needs two processes and one save in between; the hard cap of 20 attempts appears
only in comparisons, so 2 shows both sides of it. In `goal_spec` the third save
admits a second verify or start while a verifier runs, which waits for the
verification lock, meets the first at the state lock when it comes back to record,
or finds it gone; clears and binds need no save and come at any time. A resume
waits on the same lock along the same path as a clear and is in `goal_core`. Acceptance needs two commands
to meet at one journal, one kill to leave it and a second to interrupt the
recovery; two sources of one repository make a command meant for one meet the
journal of the other, three revisions let a second acceptance build on the first. The loop needs two runs
for two gates to meet at the ledger, a push or a rerun to make a branch update
stale, one rerun to publish a failed run's candidate after a later one or to record
twice, a budget of two to count twice and of one to exhaust within two runs.
Two features make a batch that can fail half way, and with two texts and two
commands each can find the other's document, or an edited one, where it read its
own; no command waits for a third party, so one edit or kill disturbs it once.

For the preview two edits make the content that is on screen come back, or a
second content supersede a delivery that supersedes a first; one fault breaks a
delivery, a commit or the stream at any of its steps. `publish` needs two commands
to overlap, one after the other to leave a pair behind, and three faults for a
rename that fails, a rollback that fails and a kill; two viewports make a check
that has taken a screenshot when it fails. The constraint `OneUpset` of `goal_core` keeps the policy
change and the outside write apart. The constraint `OneBeside` of `publish` lets the
check run only while the commands do not overlap each other. The documents of
`workflow_layout` have edges within a lane, across lanes and over several columns,
labels short, long and longer than a detour, so that ranks and lanes are both asked
for and the three rounds of the code are used up.

`goal_core`, `accept_core`, `features_core` and `publish` use the symmetry of
processes, commands, sources, features and texts, which no definition orders; the
liveness runs and the update loop, whose sources are ordered, use none.

Deadlock is checked where the system does not stop. `publish`, `visual_sidecars`
and `workflow_layout` end when their commands, the check or the compilation have
ended. `Quiet` in `Goal` is the state in which nobody asks for a command any more,
and `Stopped` in `Preview` is a preview that has exited.

## Fairness

- `Goal`: a process takes its steps, and a blocked `flock` is granted if the lock
  keeps becoming free, since the kernel queues waiters; both are one strong fairness
  per process, as a process that waits has nothing else to do. A verifier ends because
  its timeout is finite. Nothing is assumed of crashes, requests or editors.
- `AcceptTransaction`: the same for running commands; network proofs have a
  timeout. Strong fairness of `Rerun` is the operator who runs again the command
  that the refusal names.
- `UpdateLoop`: the jobs of runs and gates run and end, at their `timeout-minutes` at
  the latest. Nothing is assumed of people: neither that the operator closes what a
  gate left open, nor that anybody pushes, runs CI or reruns anything; and nothing of
  the success of any job. `CandidatesSettle` accordingly says that a candidate is
  again and again merged, closed or at rest, with nothing at work that waits for
  somebody else.
- `Preview`: timers fire, polls come and callbacks run (`Build`, `Shutdown`), and
  a page reads what is sent and reconnects (`PageStep`). Nothing is assumed of
  editors, signals or faults, and not that a delivery ends by itself: `Settles`
  excepts one that hangs, `StopEnds` does not.
- `WorkflowLayout`: the compiler is one function, so it goes on (weak fairness of
  `Next`).

## Findings

Each violation run checks what a document or comment of the repository says.

- `accept_preview`: `--dry-run` is looked at only after the recovery branch, so a
  preview that meets a pending journal changes both documents (`upstreams.py:907`).
- `visual_sidecars`: `inspect` creates the wait for the load event before it awaits
  the navigation, and the timer of the wait fires first. Its rejection has no
  handler yet, node ends before the clause that removes the screenshots of a broken
  run, and they stay (`archify/bin/visual-check.mjs:364`), which
  `archify/references/delivery-contract.md:59-60` rules out.

Without a run, met while modelling:

- A kill between the creation of the journal's temporary file and its rename leaves
  a file that every later acceptance refuses until somebody deletes it, although the
  comment at `upstreams.py:3841` promises that a rerun completes (`CrashInJournal`).
- The lock that makes verifiers exclusive (`docs/architecture.md:229`) dies with
  `projectctl`; after SIGKILL its verifier lives on beside the next
  (`runner.py:1203`, `Crash`).
- `load_ledger` refuses more than 16 sources (`pkstack_review_feedback.py:102`),
  `record_rejection` does not, and `docs/upstream-control-loop.md:84-85` bounds the
  sources at 32, of which 26 are registered (`Loads`).
- The commit that records a rejection starts no CI (`pk-stack-upstream-candidate.yml:1035`),
  so the base of the next candidate fails `base_ci` until a person runs it (`Prepare`).
- `docs/architecture.md` calls the goal store schema 2, the code writes schema 3;
  `docs/upstream-control-loop.md:26` speaks of up to four repair turns, the workflow
  makes two; and a bound artifact that is changed and changed back while the verifier
  runs is not noticed, as only its digests before and after are compared.
- `Wiki/knowledge/upstream-maintenance/operations.md:26` says that the daily updater
  keeps one open candidate. A failed run that is rerun from its detect, maintain or
  publish job opens a second one beside that of a later run: only the plan job looks
  at the open pull requests (`pk-stack-upstream-maintenance-kiro.yml:642`,
  `RerunRun`, `OneCandidate`).
- A maintenance run whose pull request was created and whose publish job failed all
  the same leaves a candidate that no gate looks at
  (`pk-stack-upstream-maintenance-kiro.yml:697`, `pk-stack-upstream-candidate.yml:21`);
  every later run is blocked until a person closes it (`PublishLost`).
- An acceptance that was run for one source completes or withdraws the pending
  acceptance of another source of the same repository, and deletes its own proposal
  (`upstreams.py:3871`, `upstreams.py:941`, `Recoverable`).
- A preview page that connects while the status is `needs-fix` says "showing rev N"
  though it has loaded no artifact (`archify/bin/preview.mjs:113`): artifacts are
  loaded on `verified` only (`Receive`).
- `compare` validates the authored files by reading them a second time
  (`archify.mjs:588`), and publishes the canonical form of what it read first
  (`RawValidation`, `Accepted`).
- Two `compare` commands on one target: the rollback of one puts its backup over
  what the other has reported as published. And when a step of a rollback fails, the
  cleanup removes the staging directory with the only copy of the file that could not
  be restored (`RollbackFails`, `Cleanup`).
- The receipt of `compare` says `completeness: 'complete'`
  (`archify/delta/architecture-delta.mjs:290`), but the compared fields of a component
  leave out its `brand` (:159-163) and those of the presentation the `locale`
  (:207-233).
- A check's Chrome profile directory, and files whose removal fails, are left without
  a report by the visual check.

## Proofs

Each proof module states an inductive invariant, `IInv` in most, shows that it holds
at `Init` and that `[Next]_vars` preserves it with one lemma per kind of step, and
takes the listed theorems from it. What is assumed are the named assumptions of the
models' constants: null values lie outside their sets, bounds are numbers, sets are
finite where they are counted, and documents are what validation accepts
(`DiagramsAssumption`). All sets and bounds are arbitrary, so the theorems hold for
every number of processes, sources, features, runs, viewports and layout rounds.

**GoalProofs** proves `TypeOK`, `StoredStateValid`, `Exclusion`, `EvidenceIsOwn`,
`EvidenceGrows`, `NoStaleVerdict`, `RecordedOnSnapshot`, `UnreadablePreserved`,
`BridgeCreateOnly`, and that `Goal` implements `GoalLifecycle`. The invariant adds two
parts:

- `LocksHeld`: a process in a locked section holds its lock. Exclusion follows,
  and nothing else says why a second process cannot be there;
- `LocalOK`: what each process carries fits the place it is at. A process
  between launch and record carries the state its run was launched for, that
  state is valid and active, its evidence is older than the run, and `ranFor`
  remembers exactly that state for that run. Without it nothing would relate a
  verdict to the state it is later recorded on.

With these, `Record` preserves `EvidenceIsOwn` because the stored goal equals the
captured one, and `StoredStateValid` because one more result on a valid active
goal gives a valid goal (`AttemptValid`). For `UnreadablePreserved`, what a forced
clear is about to unlink has been archived and stays as it was until then, as the
process holds the lock (`ArchivedKept`); every other writer has read a goal in that
place (`FileWriters`).

**AcceptProofs** proves `TypeOK`, `MixedIsJournaled`, `JournalBound`, `EditsKept`, and
that two documents with a journal implement `ReviewHistory`. The invariant says that a
journal holds the two sides of one reviewed step (`JournalSound`), that each document
is on one of them while a journal exists and that they agree otherwise
(`DocumentsFollow`), what a command in the middle of its writes knows (`CommandsKnow`),
and that only settled acceptances were reported (`ReportedSettled`). The abstract
history is what the documents say, or, while they disagree, what the journal can still
restore.

**FeatureProofs** proves `TypeOK`, `NothingLost`, `ReadyIsProven` and `BatchWhole`.
`Prepared` says what a command knows before it takes the lock: at most one of its
contracts is ready, without `--overwrite` it expects nothing where it writes, and from
the proof on the ready text is the one that passed. `Placing` says how far a command
under the lock has come: its noted documents are installed and distinct, and unless it
is torn every other target is as it was compared, or newly appeared by hand where
there was nothing. Both properties about lost and half-installed documents are read
off `Placing`.

**UpdateLoopProofs** proves `OneCandidate`, `LedgerForward`, `RejectionsKept` and
`ActiveNotClosed`. Runs are serial and two candidates are open only beside a run that
went on without its plan (`Serial`, `Single`); any other run past its plan has seen no
open candidate, and a run that has a gate has succeeded and is never rerun (`RunOK`); a
gate that stands before its ledger write either still sees main's head or main has moved past
it, and a gate that noted its rejection finds it, or a later one, on main (`GateOK`).

**FeedbackProofs** builds on that invariant and proves `CountIsHonest` and `UpdateLoop`'s
`TypeOK`. Gates have different identifiers, none beyond their number (`Ids`), so what
the history holds of a candidate belongs to one gate. For the first, `HInv` says that the ledger's entry of every source tallies with
the rejections filed so far: it is about the content of the last one and counts those in
a row. One more either continues the row or begins a new one (`StreakAfter`), and it is
filed only if it is newer than what the ledger holds (`FilesBy`), so a rerun or the
operator's reconciliation counts nothing twice. For the second, `MInv` bounds main's head
by what people push plus the runs that moved it. A run moves it once: its filed rejection
leaves its own base behind, which no merge of that run survives, and a run that merged
was approved, or never judged, and comes to no rejection (`Once`).

**PreviewProofs** proves `TypeOK`, `QuietIsSettled` and that `Preview` implements
`LiveView`. The invariant relates the served buffer to `lastGood`
(`ServesLastGood`), a running delivery to its epoch and content (`DeliveryFits`,
`CurrentDelivery`) and the resting preview to its verdict (`RestIsSettled`). The
fairness of the specification is not used.

**PublishProofs** proves `TypeOK`, `PairConsistent`, `SidecarsBelong` and `EndsClean`.
For a command that runs alone `Stage` says step by step where the previous files and
the new ones are; the sidecars are tied to the page the check has seen, and to whether
the page was replaced since.

**WorkflowLayoutProofs** proves `RequestsAreNew` and `GrantsLast`, and two more facts
about the loop and its placement. The recursive function in `Place` exists because
pushing the six columns six times changes nothing any more (`PlaceIsPushed`), and a
finite set of integers has the largest element that it takes (`LargestNumber`).
`PlacementIsTightest` says what it computes: every constraint has its room, and no
placement within the same constraints is narrower. The invariant `LInv` says that the
layout of a round honours everything asked for earlier (`Honours`); what an edge asks
for is more than the layout has, hence more than was granted. `RoundsRunOut` gives the
measure behind `CompileEnds`: every step lowers a natural number, `StepsLeft`, that is
zero only when the compilation has ended. What is left to TLC of that property is that
a step is always possible until then, and taken.

Only model-checked: liveness (`CommandsEnd`, `RecoveryCompletes`, `CandidatesSettle`,
`Settles`, `StopEnds`, `CompileEnds`), which is out of the prover's reach, as is
`ENABLED`. The two properties that the code violates are refuted by TLC. Every other
property that a run checks is a theorem.

## Not modelled

The map names about 6,200 lines of the repository, of which about 2,600 are
JavaScript, 6 % of it. The repository's measured implementation is its 74 `*.js` and
`*.mjs` files, and all but a few hundred of their lines are archify, twice:
`.kiro/skills/archify` is a byte-identical copy, which the models describe without
mapping it, so at most half of the lines can ever be named. Of the original, most are
geometry, markup and generated tables. `projectctl` itself is Python.

- Archify's renderers, checks, migrations, the delta's comparison and output paths:
  functions from one document to one text, with no state that outlives a call. Their
  correctness is about floating-point geometry, wording and markup; the commands see
  accepted and refused contents.
- The geometry of the workflow compiler: candidate routes, ports, labels, pins and
  repairs. `WorkflowLayout` leaves free which edge finds a route.
- Archify's generated brand marks and validators, example documents, and commands that
  publish nothing by rename (render, validate, check, inspect, guide and others).
- The verifier runner's policy parsing, output capture and process groups: the goal
  store sees their outcomes.
- The remote proof of an acceptance: its comparison is a pure function of what the
  network returns; it passes or fails.
- The content of CI and release packages, and the release workflow.
- The evidence trail: an append reads, checks and replaces one file under its lock. The
  time stamp taken before the lock may put two appends out of order.
- Bootstrap: one sequential installation by one person; a kill leaves new files under
  an old receipt, which the next run reports as changed by hand.
- The worker client: the order of messages is that of a protocol defined outside this
  repository.
- The maintenance supervisor: one child with one deadline within a job, of which the
  update loop allows every outcome.
- The maintenance guard, stream validators, canary, static checks, knowledge payloads
  and links, doctor: stateless checks of one input.
- Skills, templates, the Wiki and installed copies: text and copies.

## Running

    tlc -workers 2 -config MCGoal.cfg MCGoal
    tlapm GoalProofs.tla

The longest runs, `goal_core`, `goal_spec`, `features_core`, `preview`, `publish`,
`loop_core` and `loop_live`, take one to three minutes; each proof module less than four.
