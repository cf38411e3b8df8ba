------------------------------ MODULE Preview ------------------------------
(***************************************************************************)
(* The live preview of archify (bin/preview.mjs): one process that watches *)
(* a source file, renders each stable content of it with a child process,  *)
(* publishes what was verified to a file and to the pages that watch it,   *)
(* and stops on signals.                                                   *)
(*                                                                         *)
(* The program is one JavaScript thread: a callback is one step, except    *)
(* where it looks at the file system twice and somebody else may write in  *)
(* between (the commit).  Beside it run the editor of the source, whoever  *)
(* else writes the output file, the child, and one page.  A file content   *)
(* stands for its own hash, an artifact for its bytes.                     *)
(***************************************************************************)
EXTENDS Naturals, Sequences

CONSTANTS
    Good,      \* source contents that the delivery renders
    Bad,       \* source contents that it refuses, and the missing file
    Rendering, \* the artifact of each good content; two may share one
    Foreign,   \* output bytes that are not ours
    None,      \* no content, no artifact
    MaxEdits,  \* bound: writes of the source
    MaxFaults  \* bound: failures, lost connections, foreign writes

Contents == Good \cup Bad
Artifacts == {Rendering[c] : c \in Good}

ASSUME PreviewAssumption ==
    /\ None \notin Contents \cup Artifacts
    /\ Good \cap Bad = {}
    /\ Foreign \notin Artifacts
    /\ MaxEdits \in Nat /\ MaxFaults \in Nat

VARIABLES
    source,      \* the source file
    output,      \* the output file
    queued,      \* queuedHash
    active,      \* activeHash
    lastGood,    \* lastGoodSourceHash
    sourceEpoch, \* sourceEpoch
    activeEpoch, \* activeEpoch
    timer,       \* debounceTimer is armed
    pending,     \* pendingBuild
    child,       \* the delivery: "none", "running", "ok", "failed"
    committing,  \* the close callback stands between its look at the source
                 \* and the rename
    buffer,      \* artifactBuffer, and the digest in state.lastVerified
    status,      \* state.status
    revision,    \* state.revision
    stage,       \* "up", "stopping", "stopped"
    serverOpen,  \* the server has not reported that it is closed
    drain,       \* "none", "grace" or "kill": the timer of the child's drain
    signals,     \* signals received
    page,        \* the page: its connection and what it shows
    edits,       \* writes of the source so far
    faults,      \* failures so far
    recent       \* history: contents of the source since the last decision

buildVars == <<queued, active, lastGood, sourceEpoch, activeEpoch, timer, pending, child>>
viewState == <<buffer, status, revision>>
stopVars  == <<stage, serverOpen, drain, signals>>
vars == <<source, output, buildVars, committing, viewState, stopVars, page,
          edits, faults, recent>>

Message == [status : {"checking", "verified", "needs-fix"}, revision : Nat]

\* The page keeps the last revision it loaded, and EventSource reconnects it.
Page == [connected : BOOLEAN, channel : Seq(Message), last : Nat,
         label : {"checking", "verified", "needs-fix"},
         loading : BOOLEAN, shown : Artifacts \cup {None}]

TypeOK ==
    /\ source \in Contents
    /\ output \in Artifacts \cup {Foreign, None}
    /\ queued \in Contents
    /\ active \in Contents \cup {None}
    /\ lastGood \in Good \cup {None}
    /\ sourceEpoch \in Nat /\ activeEpoch \in Nat
    /\ timer \in BOOLEAN /\ pending \in BOOLEAN
    /\ child \in {"none", "running", "ok", "failed"}
    /\ committing \in {"no", "install", "keep"}
    /\ buffer \in Artifacts \cup {None}
    /\ status \in {"checking", "verified", "needs-fix"}
    /\ revision \in Nat
    /\ stage \in {"up", "stopping", "stopped"}
    /\ serverOpen \in BOOLEAN
    /\ drain \in {"none", "grace", "kill"}
    /\ signals \in 0..2
    /\ page \in Page
    /\ edits \in 0..MaxEdits /\ faults \in 0..MaxFaults
    /\ recent \subseteq Contents

\* startPreview has opened its server and looked at the source once.
Init ==
    /\ source \in Contents
    /\ output = None
    /\ queued = source /\ active = None /\ lastGood = None
    /\ sourceEpoch = 1 /\ activeEpoch = 0
    /\ timer = TRUE /\ pending = FALSE
    /\ child = "none" /\ committing = "no"
    /\ buffer = None /\ status = "checking" /\ revision = 0
    /\ stage = "up" /\ serverOpen = TRUE /\ drain = "none" /\ signals = 0
    /\ page = [connected |-> FALSE, channel |-> <<>>, last |-> 0,
               label |-> "checking", loading |-> FALSE, shown |-> None]
    /\ edits = 0 /\ faults = 0
    /\ recent = {source}

(***************************************************************************)
(* Helpers                                                                 *)
(***************************************************************************)
\* No callback is half done: the thread can take the next event.
Idle == committing = "no"

Fault == faults < MaxFaults /\ faults' = faults + 1

\* broadcast: the new state goes to the page if it is connected.
Broadcast(st, rev) ==
    page' = IF page.connected
            THEN [page EXCEPT !.channel =
                     Append(@, [status |-> st, revision |-> rev])]
            ELSE page

\* queueStableBuild: remember the content, restart the debounce timer.
Queue(c) == queued' = c /\ timer' = TRUE

\* publishFailure: the view and the output stay as they are.
PublishFailure ==
    /\ status' = "needs-fix"
    /\ Broadcast("needs-fix", revision)
    /\ UNCHANGED <<buffer, revision>>

(***************************************************************************)
(* The source, the output and the child are not ours                       *)
(***************************************************************************)
Edit(c) ==
    /\ edits < MaxEdits
    /\ c # source
    /\ source' = c
    /\ recent' = recent \cup {c}
    /\ edits' = edits + 1
    /\ UNCHANGED <<output, buildVars, committing, viewState, stopVars, page, faults>>

\* Somebody else overwrites or removes the published file.
Disturb ==
    /\ Fault
    /\ output' \in {Foreign, None} \ {output}
    /\ UNCHANGED <<source, buildVars, committing, viewState, stopVars, page,
                   edits, recent>>

\* `deliver` reads the snapshot, never the source: a good content renders
\* unless the delivery breaks, a bad one is refused.
ChildEnds ==
    /\ child = "running"
    /\ \/ active \in Good /\ child' = "ok" /\ UNCHANGED faults
       \/ active \in Good /\ child' = "failed" /\ Fault
       \/ active \in Bad /\ child' = "failed" /\ UNCHANGED faults
       \/ drain = "kill" /\ child' = "failed" /\ UNCHANGED faults  \* SIGTERM
    /\ UNCHANGED <<source, output, queued, active, lastGood, sourceEpoch,
                   activeEpoch, timer, pending, committing, viewState,
                   stopVars, page, edits, recent>>

(***************************************************************************)
(* The build loop                                                          *)
(***************************************************************************)
\* observeSource, from the watcher or the poll: a content that is not the
\* queued one starts a new epoch and restarts the debounce.
Observe ==
    /\ Idle /\ stage = "up"
    /\ source # queued
    /\ sourceEpoch' = sourceEpoch + 1
    /\ Queue(source)
    /\ UNCHANGED <<source, output, active, lastGood, activeEpoch, pending, child,
                   committing, viewState, stopVars, page, edits, faults, recent>>

\* launch finds that the content moved during the debounce.
LaunchUnstable ==
    /\ Idle /\ stage = "up" /\ timer
    /\ source # queued
    /\ Queue(source)
    /\ UNCHANGED <<source, output, active, lastGood, sourceEpoch, activeEpoch,
                   pending, child, committing, viewState, stopVars, page,
                   edits, faults, recent>>

\* Mutant: the published content is back and the view keeps the verdict on another.
LaunchKnownSilently ==
    /\ Idle /\ stage = "up" /\ timer
    /\ source = queued /\ source = lastGood
    /\ timer' = FALSE
    /\ UNCHANGED <<source, output, queued, active, lastGood, sourceEpoch, activeEpoch,
                   pending, child, committing, viewState, stopVars, page, edits, faults,
                   recent>>

\* launch finds the content that is already published: nothing is built, and a
\* view that was being checked or had failed is verified again.
LaunchKnown ==
    /\ Idle /\ stage = "up" /\ timer
    /\ source = queued /\ source = lastGood
    /\ timer' = FALSE
    /\ IF status # "verified" /\ buffer # None
       THEN /\ status' = "verified"
            /\ Broadcast("verified", revision)
       ELSE UNCHANGED <<status, page>>
    /\ UNCHANGED <<source, output, queued, active, lastGood, sourceEpoch, activeEpoch,
                   pending, child, committing, buffer, revision, stopVars,
                   edits, faults, recent>>

\* launch finds a delivery in progress.
LaunchBusy ==
    /\ Idle /\ stage = "up" /\ timer
    /\ source = queued /\ source # lastGood /\ child # "none"
    /\ timer' = FALSE
    /\ pending' = TRUE
    /\ UNCHANGED <<source, output, queued, active, lastGood, sourceEpoch, activeEpoch,
                   child, committing, viewState, stopVars, page, edits, faults, recent>>

\* beginBuild: snapshot the bytes that were read and start the delivery.
Begin ==
    /\ Idle /\ stage = "up" /\ timer
    /\ source = queued /\ source # lastGood /\ child = "none"
    /\ timer' = FALSE
    /\ active' = source
    /\ activeEpoch' = sourceEpoch
    /\ child' = "running"
    /\ status' = "checking"
    /\ Broadcast("checking", revision)
    /\ UNCHANGED <<source, output, queued, lastGood, sourceEpoch, pending,
                   committing, buffer, revision, stopVars, edits, faults, recent>>

\* beginBuild, when the snapshot cannot be written: no delivery starts.
BeginFails ==
    /\ Idle /\ stage = "up" /\ timer
    /\ source = queued /\ source # lastGood /\ child = "none"
    /\ Fault
    /\ timer' = FALSE
    /\ active' = source
    /\ activeEpoch' = sourceEpoch
    /\ PublishFailure
    /\ UNCHANGED <<source, output, queued, lastGood, sourceEpoch, pending, child,
                   committing, stopVars, edits, recent>>

(***************************************************************************)
(* The end of a delivery                                                   *)
(***************************************************************************)
Stale == activeEpoch # sourceEpoch

\* What every close callback does with the child and its timers.
Reaped == child' = "none" /\ drain' = "none"

\* Mutant: the tail queues the published content in place of the current one.
RequeuePublished ==
    IF pending \/ Stale
    THEN pending' = FALSE /\ Queue(lastGood)
    ELSE UNCHANGED <<pending, queued, timer>>

\* The tail of the close callback when nothing superseded the generation.
Requeue ==
    IF pending \/ Stale
    THEN pending' = FALSE /\ Queue(source)
    ELSE UNCHANGED <<pending, queued, timer>>

\* The artifact is on screen and in the output file already.
Placed(artifact) == artifact = buffer /\ artifact = output

\* Mutant: the candidate is committed without a look at the source.
CloseForCommitBlindly ==
    /\ Idle /\ stage = "up" /\ child = "ok" /\ ~Stale
    /\ committing' = IF Placed(Rendering[active]) THEN "keep" ELSE "install"
    /\ recent' = {source}
    /\ UNCHANGED <<source, output, buildVars, viewState, stopVars, page, edits, faults>>

\* commitCandidate up to its look at the source, which still has the content
\* of the generation.
CloseForCommit ==
    /\ Idle /\ stage = "up" /\ child = "ok" /\ ~Stale
    /\ source = active
    /\ committing' = IF Placed(Rendering[active]) THEN "keep" ELSE "install"
    /\ recent' = {source}
    /\ UNCHANGED <<source, output, buildVars, viewState, stopVars, page, edits, faults>>

\* commitCandidate: rename unless the output was found to hold the bytes, then
\* publish.  The tail of the callback follows in the same step.
Commit ==
    LET artifact == Rendering[active] IN
    /\ ~Idle
    /\ committing' = "no"
    /\ output' = IF committing = "keep" THEN output ELSE artifact
    /\ buffer' = artifact
    /\ lastGood' = active
    /\ status' = "verified"
    /\ revision' = IF artifact = buffer THEN revision ELSE revision + 1
    /\ Broadcast("verified", revision')
    /\ Reaped /\ Requeue
    /\ UNCHANGED <<source, active, sourceEpoch, activeEpoch, stage, serverOpen,
                   signals, edits, faults, recent>>

\* commitCandidate throws: the digest does not match the receipt, the output
\* has become an alias of the source, or the rename fails.
CommitFails ==
    /\ ~Idle
    /\ Fault
    /\ committing' = "no"
    /\ PublishFailure
    /\ Reaped /\ Requeue
    /\ UNCHANGED <<source, output, active, lastGood, sourceEpoch, activeEpoch, stage,
                   serverOpen, signals, edits, recent>>

\* commitCandidate finds another content: nothing is published, the epoch moves
\* on and the new content is queued.
CloseSuperseded ==
    /\ Idle /\ stage = "up" /\ child = "ok" /\ ~Stale
    /\ source # active
    /\ sourceEpoch' = sourceEpoch + 1
    /\ pending' = FALSE
    /\ Queue(source)
    /\ Reaped
    /\ UNCHANGED <<source, output, active, lastGood, activeEpoch, committing, viewState,
                   stage, serverOpen, signals, page, edits, faults, recent>>

\* A delivery that failed is reported unless its epoch has passed.
CloseFailed ==
    /\ Idle /\ stage = "up" /\ child = "failed" /\ ~Stale
    /\ PublishFailure
    /\ Reaped /\ Requeue
    /\ UNCHANGED <<source, output, active, lastGood, sourceEpoch, activeEpoch,
                   committing, stage, serverOpen, signals, edits, faults, recent>>

\* A delivery whose epoch has passed is dropped, whatever it says.
CloseStale ==
    /\ Idle /\ stage = "up" /\ child \in {"ok", "failed"} /\ Stale
    /\ Reaped /\ Requeue
    /\ UNCHANGED <<source, output, active, lastGood, sourceEpoch, activeEpoch, committing,
                   viewState, stage, serverOpen, signals, page, edits, faults, recent>>

(***************************************************************************)
(* Stopping                                                                *)
(***************************************************************************)
\* finishStop: the staging directory goes once child and server are gone.
FinishStop(noChild, noServer) ==
    stage' = IF noChild /\ noServer THEN "stopped" ELSE "stopping"

\* The first signal: no more builds, the server closes, its event streams end
\* and the child gets its grace.
Stop ==
    /\ Idle /\ signals = 0
    /\ signals' = 1
    /\ timer' = FALSE
    /\ page' = [page EXCEPT !.connected = FALSE]
    /\ drain' = IF child # "none" THEN "grace" ELSE "none"
    /\ FinishStop(child = "none", ~serverOpen)
    /\ UNCHANGED <<source, output, queued, active, lastGood, sourceEpoch, activeEpoch,
                   pending, child, committing, viewState, serverOpen, edits, faults, recent>>

\* A further signal: the child is killed at once.
ForceStop ==
    /\ Idle /\ signals = 1 /\ stage = "stopping"
    /\ signals' = 2
    /\ IF child # "none"
       THEN /\ drain' = "none"
            /\ child' = IF child = "running" THEN "failed" ELSE child
       ELSE UNCHANGED <<drain, child>>
    /\ FinishStop(child = "none", ~serverOpen)
    /\ UNCHANGED <<source, output, queued, active, lastGood, sourceEpoch, activeEpoch,
                   timer, pending, committing, viewState, serverOpen, page,
                   edits, faults, recent>>

\* The callback of server.close: the requests under way have ended.
ServerCloses ==
    /\ stage = "stopping" /\ serverOpen
    /\ serverOpen' = FALSE
    /\ FinishStop(child = "none", TRUE)
    /\ UNCHANGED <<source, output, buildVars, committing, viewState, drain, signals,
                   page, edits, faults, recent>>

\* The grace is over: SIGTERM, and the kill timer starts.
GraceExpires ==
    /\ drain = "grace"
    /\ drain' = "kill"
    /\ UNCHANGED <<source, output, buildVars, committing, viewState, stage, serverOpen,
                   signals, page, edits, faults, recent>>

\* SIGKILL to the child's process group.
KillExpires ==
    /\ drain = "kill"
    /\ drain' = "none"
    /\ child' = IF child = "running" THEN "failed" ELSE child
    /\ UNCHANGED <<source, output, queued, active, lastGood, sourceEpoch, activeEpoch,
                   timer, pending, committing, viewState, stage, serverOpen, signals,
                   page, edits, faults, recent>>

\* Mutant: the close callback forgets that the preview waits for it to stop.
CloseStoppingForgets ==
    /\ stage = "stopping" /\ child \in {"ok", "failed"}
    /\ Reaped
    /\ UNCHANGED <<source, output, queued, active, lastGood, sourceEpoch, activeEpoch,
                   timer, pending, committing, viewState, stage, serverOpen, signals,
                   page, edits, faults, recent>>

\* The close callback while stopping: nothing is published.
CloseStopping ==
    /\ stage = "stopping" /\ child \in {"ok", "failed"}
    /\ Reaped
    /\ FinishStop(TRUE, ~serverOpen)
    /\ UNCHANGED <<source, output, queued, active, lastGood, sourceEpoch, activeEpoch,
                   timer, pending, committing, viewState, serverOpen, signals, page,
                   edits, faults, recent>>

(***************************************************************************)
(* The page                                                                *)
(***************************************************************************)
\* Mutant: a new client gets no state before the next broadcast.
ConnectSilently ==
    /\ Idle /\ stage = "up" /\ ~page.connected
    /\ page' = [page EXCEPT !.connected = TRUE, !.channel = <<>>]
    /\ UNCHANGED <<source, output, buildVars, committing, viewState, stopVars,
                   edits, faults, recent>>

\* GET /events: the client is registered and gets the current state.
Connect ==
    /\ Idle /\ stage = "up" /\ ~page.connected
    /\ page' = [page EXCEPT !.connected = TRUE,
                            !.channel = <<[status |-> status, revision |-> revision]>>]
    /\ UNCHANGED <<source, output, buildVars, committing, viewState, stopVars,
                   edits, faults, recent>>

\* The event stream breaks: what was under way is lost, EventSource retries.
Disconnect ==
    /\ Idle /\ page.connected
    /\ Fault
    /\ page' = [page EXCEPT !.connected = FALSE, !.channel = <<>>]
    /\ UNCHANGED <<source, output, buildVars, committing, viewState, stopVars,
                   edits, recent>>

\* render(state): the page loads the artifact of a revision it does not have.
Receive ==
    /\ page.channel # <<>>
    /\ LET m == Head(page.channel)
           new == m.status = "verified" /\ m.revision # page.last IN
       page' = [page EXCEPT !.channel = Tail(@),
                            !.label = m.status,
                            !.last = IF new THEN m.revision ELSE @,
                            !.loading = @ \/ new]
    /\ UNCHANGED <<source, output, buildVars, committing, viewState, stopVars,
                   edits, faults, recent>>

\* GET /artifact.html: the answer is the buffer of the moment, whatever revision
\* the page asked for.
Load ==
    /\ Idle /\ page.loading /\ serverOpen
    /\ page' = [page EXCEPT !.loading = FALSE, !.shown = buffer]
    /\ UNCHANGED <<source, output, buildVars, committing, viewState, stopVars,
                   edits, faults, recent>>

Build ==
    \/ Observe \/ LaunchUnstable \/ LaunchKnown \/ LaunchBusy \/ Begin \/ BeginFails
    \/ CloseForCommit \/ Commit \/ CommitFails \/ CloseSuperseded \/ CloseFailed
    \/ CloseStale

Shutdown ==
    \/ ServerCloses \/ GraceExpires \/ KillExpires \/ CloseStopping

PageStep == Connect \/ Receive \/ Load

Stopped == stage = "stopped" /\ UNCHANGED vars

Next ==
    \/ \E c \in Contents : Edit(c)
    \/ Disturb
    \/ ChildEnds
    \/ Build
    \/ Stop
    \/ ForceStop
    \/ Shutdown
    \/ PageStep
    \/ Disconnect
    \/ Stopped

\* Timers fire, polls come, callbacks run, a page reads and reconnects.  Nothing
\* says that a delivery ends by itself, that anyone edits or that nothing fails.
Fairness ==
    /\ WF_vars(Build)
    /\ WF_vars(Shutdown)
    /\ WF_vars(PageStep)

Spec == Init /\ [][Next]_vars /\ Fairness

(***************************************************************************)
(* Properties                                                              *)
(***************************************************************************)
Hung == child = "running" /\ stage = "up"

\* Nothing is left to do: no timer, no delivery, and the next poll sees
\* nothing new.
Quiet ==
    /\ stage = "up" /\ ~timer /\ child = "none" /\ Idle
    /\ source = queued

\* The verdict is about the content the source has now.
Settled ==
    \/ status = "verified" /\ lastGood = source
    \/ status = "needs-fix" /\ active = source /\ lastGood # source

\* When the preview has come to rest its verdict is about the source as it is,
\* not about a content that a build, a failure or a revert left behind; and
\* what it serves is the rendering of the last content it verified, whatever
\* broke since (queueStableBuild, the close callback, commitCandidate).
QuietIsSettled ==
    /\ Quiet => Settled
    /\ buffer = IF lastGood = None THEN None ELSE Rendering[lastGood]

\* The preview promises what LiveView says: invalid, deleted or superseded
\* input and broken builds leave the view alone, what is shown was still in the
\* source when its finished rendering was judged, and identical bytes are not a
\* new revision; so on screen and so on disk (references/delivery-contract.md:79).
View == INSTANCE LiveView WITH view <- buffer, disk <- output
ImplementsLiveView == View!Init /\ [][View!Next]_(View!viewVars)

\* Once the edits cease the preview comes to rest with a verdict on the source,
\* and the page shows that verdict, and the artifact when it is verified -
\* unless the preview is stopped or a delivery never ends.
UpToDate ==
    /\ Quiet /\ Settled
    /\ page.connected /\ ~page.loading
    /\ page.label = status
    /\ status = "verified" => page.shown = buffer
Settles == <>[](stage # "up" \/ Hung \/ UpToDate)

\* After the first signal the process ends, even if its delivery never would,
\* and leaves no delivery behind (stop, startBoundedChildDrain, finishStop).
StopEnds == stage = "stopping" ~> [](stage = "stopped" /\ child = "none")

=============================================================================
