---------------------------- MODULE PreviewProofs ----------------------------
(***************************************************************************)
(* Proofs about Preview for any contents, renderings and bounds.           *)
(***************************************************************************)
EXTENDS Preview, TLAPS

-----------------------------------------------------------------------------
(* The inductive invariant. *)

\* What is served is the rendering of the last content that was verified.
ServesLastGood == buffer = IF lastGood = None THEN None ELSE Rendering[lastGood]

\* A delivery is of a content that is not the published one, and ends well only
\* for a content that can be rendered.
DeliveryFits ==
    /\ child # "none" => active \in Contents /\ active # lastGood
    /\ child = "ok" => active \in Good
    /\ ~Idle => child = "ok" /\ stage = "up" /\ active \in recent
    /\ committing = "keep" => buffer = Rendering[active]

\* A delivery of the current epoch is of the queued content, and nothing else
\* waits for it to end.
CurrentDelivery ==
    /\ activeEpoch <= sourceEpoch
    /\ stage = "up" /\ child = "none" => ~pending
    /\ stage = "up" /\ child # "none" /\ ~Stale => ~timer /\ ~pending /\ queued = active

\* At rest the verdict is about the queued content.
RestIsSettled ==
    stage = "up" /\ ~timer /\ child = "none" =>
        \/ status = "verified" /\ lastGood = queued
        \/ status = "needs-fix" /\ active = queued /\ lastGood # queued

IInv ==
    /\ TypeOK
    /\ ServesLastGood
    /\ DeliveryFits
    /\ CurrentDelivery
    /\ RestIsSettled

-----------------------------------------------------------------------------
(* Lemmas. *)

Statuses == {"checking", "verified", "needs-fix"}

\* A broadcast leaves the page well formed.
LEMMA BroadcastType ==
    ASSUME TypeOK, NEW st \in Statuses, NEW rev \in Nat, Broadcast(st, rev)
    PROVE  page' \in Page
<1> DEFINE m == [status |-> st, revision |-> rev]
<1>1. m \in Message
    BY DEF Message, Statuses
<1>2. page \in Page /\ page.channel \in Seq(Message)
    BY DEF TypeOK, Page
<1> HIDE DEF m
<1>3. Append(page.channel, m) \in Seq(Message)
    BY <1>1, <1>2
<1>4. CASE page.connected
  <2>1. page' = [page EXCEPT !.channel = Append(page.channel, m)]
      BY <1>4 DEF Broadcast, m
  <2> QED BY <1>2, <1>3, <2>1 DEF Page
<1>5. CASE ~page.connected
    BY <1>2, <1>5 DEF Broadcast
<1> QED BY <1>4, <1>5

LEMMA ArtifactsExist ==
    /\ \A c \in Good : Rendering[c] \in Artifacts /\ Rendering[c] # None
    /\ \A c \in Contents : c # None
    /\ Good \subseteq Contents
    BY PreviewAssumption DEF Artifacts, Contents

\* The steps that leave what is queued, built and published as it is.
LEMMA BuildStays ==
    ASSUME IInv, TypeOK', UNCHANGED <<buildVars, committing, viewState, stage>>,
           recent \subseteq recent'
    PROVE  IInv'
    BY DEF IInv, Idle, ServesLastGood, DeliveryFits, CurrentDelivery, RestIsSettled, Stale,
           buildVars, viewState

LEMMA SourceKeeps ==
    ASSUME IInv, (\E c \in Contents : Edit(c)) \/ Disturb
    PROVE  IInv'
<1>1. TypeOK'
    BY PreviewAssumption DEF IInv, TypeOK, Edit, Disturb, Fault, buildVars, viewState, stopVars
<1> QED BY <1>1, BuildStays DEF Edit, Disturb, buildVars, viewState, stopVars

LEMMA ChildEndsKeeps == ASSUME IInv, ChildEnds PROVE IInv'
<1>1. TypeOK'
    BY PreviewAssumption DEF IInv, TypeOK, ChildEnds, Fault, viewState, stopVars
<1> QED BY <1>1 DEF IInv, ChildEnds, Idle, ServesLastGood, DeliveryFits, CurrentDelivery,
                    RestIsSettled, Stale, viewState, stopVars

-----------------------------------------------------------------------------
(* The build loop. *)

LEMMA ObserveKeeps == ASSUME IInv, Observe \/ LaunchUnstable PROVE IInv'
<1>1. CASE Observe
  <2>1. /\ UNCHANGED <<source, output, active, lastGood, activeEpoch, pending, child,
                      committing, buffer, status, revision, stage, serverOpen, drain,
                      signals, page, edits, faults, recent>>
        /\ queued' = source /\ timer' = TRUE /\ sourceEpoch' = sourceEpoch + 1
      BY <1>1 DEF Observe, Queue, viewState, stopVars
  <2>2. TypeOK'
      BY <2>1 DEF IInv, TypeOK
  <2> QED BY <1>1, <2>1, <2>2 DEF IInv, TypeOK, Observe, Idle, ServesLastGood,
                    DeliveryFits, CurrentDelivery, RestIsSettled, Stale
<1>2. CASE LaunchUnstable
  <2>1. TypeOK'
    <3>1. /\ queued' = source /\ timer' = TRUE
          /\ UNCHANGED <<source, output, active, lastGood, sourceEpoch, activeEpoch, pending,
                         child, committing, buffer, status, revision, stage, serverOpen,
                         drain, signals, page, edits, faults, recent>>
        BY <1>2 DEF LaunchUnstable, Queue, viewState, stopVars
    <3> QED BY <3>1 DEF IInv, TypeOK
  <2> QED BY <1>2, <2>1 DEF IInv, TypeOK, LaunchUnstable, Queue, Idle, ServesLastGood,
                    DeliveryFits, CurrentDelivery, RestIsSettled, Stale, viewState, stopVars
<1> QED BY <1>1, <1>2

LEMMA LaunchKnownKeeps == ASSUME IInv, LaunchKnown PROVE IInv'
<1>1. page' \in Page /\ status' \in Statuses
  <2>1. page \in Page /\ status \in Statuses /\ revision \in Nat
      BY DEF IInv, TypeOK, Statuses
  <2> QED BY <2>1, BroadcastType DEF IInv, LaunchKnown, Statuses
<1>2. TypeOK'
  <2>1. /\ timer' = FALSE
        /\ UNCHANGED <<source, output, queued, active, lastGood, sourceEpoch, activeEpoch,
                       pending, child, committing, buffer, revision, stage, serverOpen,
                       drain, signals, edits, faults, recent>>
      BY DEF LaunchKnown, stopVars
  <2>2. timer' \in BOOLEAN
      BY <2>1, Zenon
  <2> QED BY <1>1, <2>1, <2>2 DEF IInv, TypeOK, Statuses
<1>3. status' = "verified"
    BY ArtifactsExist, PreviewAssumption DEF IInv, TypeOK, LaunchKnown, ServesLastGood
<1> QED BY <1>2, <1>3 DEF IInv, LaunchKnown, Idle, ServesLastGood, DeliveryFits,
                          CurrentDelivery, RestIsSettled, Stale, stopVars

LEMMA LaunchBusyKeeps == ASSUME IInv, LaunchBusy PROVE IInv'
<1>1. TypeOK'
  <2>1. /\ timer' = FALSE /\ pending' = TRUE
        /\ UNCHANGED <<source, output, queued, active, lastGood, sourceEpoch, activeEpoch,
                       child, committing, buffer, status, revision, stage, serverOpen,
                       drain, signals, page, edits, faults, recent>>
      BY DEF LaunchBusy, viewState, stopVars
  <2>2. timer' \in BOOLEAN /\ pending' \in BOOLEAN
      BY <2>1, Zenon
  <2> QED BY <2>1, <2>2 DEF IInv, TypeOK
<1> QED BY <1>1 DEF IInv, LaunchBusy, Idle, ServesLastGood, DeliveryFits,
                    CurrentDelivery, RestIsSettled, Stale, viewState, stopVars

LEMMA BeginKeeps == ASSUME IInv, Begin PROVE IInv'
<1>1. page' \in Page
    BY BroadcastType DEF IInv, TypeOK, Begin, Statuses
<1>2. TypeOK'
    BY <1>1 DEF IInv, TypeOK, Begin, stopVars
<1> QED BY <1>2 DEF IInv, TypeOK, Begin, Idle, ServesLastGood, DeliveryFits,
                    CurrentDelivery, RestIsSettled, Stale, stopVars

\* A failure is reported with the revision that is served.
LEMMA FailureType ==
    ASSUME IInv, PublishFailure PROVE page' \in Page /\ status' = "needs-fix"
    BY BroadcastType DEF IInv, TypeOK, PublishFailure, Statuses

LEMMA BeginFailsKeeps == ASSUME IInv, BeginFails PROVE IInv'
<1>1. page' \in Page /\ status' = "needs-fix"
    BY FailureType DEF BeginFails
<1>2. TypeOK'
  <2>1. faults' \in 0..MaxFaults
      BY PreviewAssumption DEF IInv, TypeOK, BeginFails, Fault
  <2>2. UNCHANGED <<buffer, revision>>
      BY DEF BeginFails, PublishFailure
  <2> QED BY <1>1, <2>1, <2>2 DEF IInv, TypeOK, BeginFails, stopVars
<1> QED BY <1>1, <1>2 DEF IInv, TypeOK, BeginFails, Idle, PublishFailure, ServesLastGood,
                    DeliveryFits, CurrentDelivery, RestIsSettled, Stale, stopVars

-----------------------------------------------------------------------------
(* The end of a delivery. *)

LEMMA CloseForCommitKeeps == ASSUME IInv, CloseForCommit PROVE IInv'
<1>1. TypeOK'
    BY DEF IInv, TypeOK, CloseForCommit, buildVars, viewState, stopVars
<1> QED BY <1>1 DEF IInv, CloseForCommit, Placed, Idle, ServesLastGood, DeliveryFits,
                    CurrentDelivery, RestIsSettled, Stale, buildVars, viewState, stopVars

\* After the tail of the close callback either something is queued again or the
\* delivery was of the content that is queued.
LEMMA RequeueRests ==
    ASSUME IInv, Requeue, stage = "up", child # "none"
    PROVE  /\ queued' \in Contents /\ timer' \in BOOLEAN /\ pending' = FALSE
           /\ ~timer' => queued' = active /\ queued' = queued
<1>1. CASE pending \/ Stale
    BY <1>1 DEF IInv, TypeOK, Requeue, Queue
<1>2. CASE ~(pending \/ Stale)
    BY <1>2 DEF IInv, TypeOK, Requeue, CurrentDelivery
<1> QED BY <1>1, <1>2

\* What a commit publishes.
LEMMA CommitFacts ==
    ASSUME IInv, Commit
    PROVE  /\ active \in Good \cap recent /\ stage = "up" /\ child = "ok"
           /\ buffer' = Rendering[active]
           /\ output' = Rendering[active] \/ (buffer' = buffer /\ output' = output)
           /\ lastGood' = active /\ status' = "verified" /\ child' = "none" /\ Idle'
           /\ revision' = IF buffer' = buffer THEN revision ELSE revision + 1
           /\ page' \in Page /\ revision' \in Nat
           /\ UNCHANGED <<source, recent, active, stage>>
<1>1. revision' \in Nat
    BY DEF IInv, TypeOK, Commit
<1>2. page' \in Page
    BY <1>1, BroadcastType DEF IInv, Commit, Statuses
<1> QED BY <1>1, <1>2 DEF IInv, Commit, Idle, DeliveryFits, Reaped

LEMMA CommitKeeps == ASSUME IInv, Commit PROVE IInv'
<1>1. /\ queued' \in Contents /\ timer' \in BOOLEAN /\ pending' = FALSE
      /\ ~timer' => queued' = active
    BY CommitFacts, RequeueRests DEF Commit
<1>2. TypeOK'
    BY <1>1, CommitFacts, ArtifactsExist DEF IInv, TypeOK, Commit, Reaped
<1>3. ServesLastGood'
    BY CommitFacts, ArtifactsExist DEF ServesLastGood
<1> QED BY <1>1, <1>2, <1>3, CommitFacts DEF IInv, Commit, Idle, DeliveryFits,
                                             CurrentDelivery, RestIsSettled

LEMMA CommitFailsKeeps == ASSUME IInv, CommitFails PROVE IInv'
<1>1. page' \in Page /\ status' = "needs-fix" /\ UNCHANGED <<buffer, revision>>
    BY FailureType DEF CommitFails, PublishFailure
<1>2. stage = "up" /\ child = "ok" /\ active # lastGood
    BY DEF CommitFails, IInv, DeliveryFits
<1>3. /\ queued' \in Contents /\ timer' \in BOOLEAN /\ pending' = FALSE
      /\ ~timer' => queued' = active
    BY <1>2, RequeueRests DEF CommitFails
<1>4. faults' \in 0..MaxFaults
    BY PreviewAssumption DEF IInv, TypeOK, CommitFails, Fault
<1>5. TypeOK'
    BY <1>1, <1>3, <1>4 DEF IInv, TypeOK, CommitFails, Reaped
<1> QED BY <1>1, <1>2, <1>3, <1>5 DEF IInv, CommitFails, Idle, Reaped, ServesLastGood,
                                      DeliveryFits, CurrentDelivery, RestIsSettled

LEMMA CloseSupersededKeeps == ASSUME IInv, CloseSuperseded PROVE IInv'
<1>1. /\ queued' = source /\ timer' = TRUE /\ pending' = FALSE /\ child' = "none"
      /\ drain' = "none" /\ sourceEpoch' = sourceEpoch + 1
      /\ UNCHANGED <<source, output, active, lastGood, activeEpoch, committing, buffer,
                     status, revision, stage, serverOpen, signals, page, edits, faults,
                     recent>>
    BY DEF CloseSuperseded, Queue, Reaped, viewState
<1>2. TypeOK'
  <2>1. sourceEpoch' \in Nat /\ queued' \in Contents
      BY <1>1 DEF IInv, TypeOK
  <2>2. timer' \in BOOLEAN /\ pending' \in BOOLEAN
      BY <1>1, Zenon
  <2> QED BY <1>1, <2>1, <2>2 DEF IInv, TypeOK
<1> QED BY <1>1, <1>2 DEF IInv, TypeOK, CloseSuperseded, Idle, ServesLastGood, DeliveryFits,
                          CurrentDelivery, RestIsSettled

LEMMA CloseFailedKeeps == ASSUME IInv, CloseFailed PROVE IInv'
<1>1. page' \in Page /\ status' = "needs-fix" /\ UNCHANGED <<buffer, revision>>
    BY FailureType DEF CloseFailed, PublishFailure
<1>2. stage = "up" /\ child = "failed" /\ active # lastGood
    BY DEF CloseFailed, IInv, DeliveryFits
<1>3. /\ queued' \in Contents /\ timer' \in BOOLEAN /\ pending' = FALSE
      /\ ~timer' => queued' = active
    BY <1>2, RequeueRests DEF CloseFailed
<1>4. TypeOK'
    BY <1>1, <1>3 DEF IInv, TypeOK, CloseFailed, Reaped
<1> QED BY <1>1, <1>2, <1>3, <1>4 DEF IInv, CloseFailed, Reaped, Idle, ServesLastGood,
                                      DeliveryFits, CurrentDelivery, RestIsSettled

LEMMA CloseStaleKeeps == ASSUME IInv, CloseStale PROVE IInv'
<1>1. /\ queued' = source /\ timer' = TRUE /\ pending' = FALSE /\ child' = "none"
      /\ drain' = "none"
      /\ UNCHANGED <<source, output, active, lastGood, sourceEpoch, activeEpoch, committing,
                     buffer, status, revision, stage, serverOpen, signals, page, edits,
                     faults, recent>>
    BY DEF CloseStale, Requeue, Queue, Reaped, viewState
<1>2. TypeOK'
  <2>1. timer' \in BOOLEAN /\ pending' \in BOOLEAN
      BY <1>1, Zenon
  <2> QED BY <1>1, <2>1 DEF IInv, TypeOK
<1> QED BY <1>1, <1>2 DEF IInv, TypeOK, CloseStale, Idle, ServesLastGood, DeliveryFits,
                          CurrentDelivery, RestIsSettled

-----------------------------------------------------------------------------
(* Stopping, and the page. *)

\* Once the preview is stopping only what it serves and built is left to keep.
LEMMA StoppingKeeps ==
    ASSUME IInv, TypeOK', stage' # "up", Idle',
           UNCHANGED <<source, active, lastGood, sourceEpoch, activeEpoch, buffer, recent>>,
           child' \in {child, "none", "failed"}, child = "none" => child' = "none"
    PROVE  IInv'
    BY DEF IInv, Idle, ServesLastGood, DeliveryFits, CurrentDelivery, RestIsSettled, Stale

LEMMA StopKeeps == ASSUME IInv, Stop PROVE IInv'
<1>1. stage' # "up" /\ stage' \in {"up", "stopping", "stopped"}
    BY DEF Stop, FinishStop
<1>2. page' \in Page
    BY DEF IInv, TypeOK, Stop, Page
<1>3. /\ timer' \in BOOLEAN /\ drain' \in {"none", "grace", "kill"} /\ signals' \in 0..2
      /\ UNCHANGED <<source, output, queued, active, lastGood, sourceEpoch, activeEpoch,
                     pending, child, committing, buffer, status, revision, serverOpen,
                     edits, faults, recent>>
  <2>1. timer' \in BOOLEAN
      BY Zenon DEF Stop
  <2>2. drain' \in {"none", "grace", "kill"} /\ signals' \in 0..2
      BY DEF Stop
  <2>3. UNCHANGED <<source, output, queued, active, lastGood, sourceEpoch, activeEpoch,
                    pending, child, committing, buffer, status, revision, serverOpen,
                    edits, faults, recent>>
      BY DEF Stop, viewState
  <2> QED BY <2>1, <2>2, <2>3
<1>4. TypeOK'
    BY <1>1, <1>2, <1>3 DEF IInv, TypeOK
<1> QED BY <1>1, <1>3, <1>4, StoppingKeeps DEF Stop, Idle

LEMMA ForceStopKeeps == ASSUME IInv, ForceStop PROVE IInv'
<1>1. stage' \in {"stopping", "stopped"}
    BY DEF ForceStop, FinishStop
<1>2. /\ child' \in {child, "failed"} /\ (child = "none" => child' = "none")
      /\ drain' \in {drain, "none"}
    BY DEF ForceStop
<1>3. TypeOK'
    BY <1>1, <1>2 DEF IInv, TypeOK, ForceStop, viewState
<1> QED BY <1>1, <1>2, <1>3, StoppingKeeps DEF ForceStop, Idle, viewState

LEMMA ServerClosesKeeps == ASSUME IInv, ServerCloses PROVE IInv'
<1>1. stage' # "up" /\ stage' \in {"up", "stopping", "stopped"} /\ Idle
    BY DEF ServerCloses, FinishStop, IInv, DeliveryFits
<1>2. /\ serverOpen' \in BOOLEAN
      /\ UNCHANGED <<source, output, queued, active, lastGood, sourceEpoch, activeEpoch,
                     timer, pending, child, committing, buffer, status, revision, drain,
                     signals, page, edits, faults, recent>>
    BY DEF ServerCloses, buildVars, viewState
<1>3. TypeOK'
    BY <1>1, <1>2 DEF IInv, TypeOK
<1>4. Idle'
    BY <1>1, <1>2 DEF Idle
<1> QED BY <1>1, <1>2, <1>3, <1>4, StoppingKeeps

LEMMA CloseStoppingKeeps == ASSUME IInv, CloseStopping PROVE IInv'
<1>1. stage' \in {"stopping", "stopped"} /\ Idle
    BY DEF CloseStopping, FinishStop, IInv, DeliveryFits
<1>2. TypeOK'
    BY <1>1 DEF IInv, TypeOK, CloseStopping, Reaped, viewState
<1> QED BY <1>1, <1>2, StoppingKeeps DEF CloseStopping, Idle, Reaped, viewState

LEMMA DrainKeeps == ASSUME IInv, GraceExpires \/ KillExpires PROVE IInv'
<1>1. CASE GraceExpires
  <2>1. TypeOK'
      BY <1>1 DEF IInv, TypeOK, GraceExpires, buildVars, viewState
  <2> QED BY <1>1, <2>1, BuildStays DEF GraceExpires
<1>2. CASE KillExpires
  <2>1. TypeOK'
      BY <1>2 DEF IInv, TypeOK, KillExpires, viewState
  <2> QED BY <1>2, <2>1 DEF IInv, KillExpires, Idle, ServesLastGood, DeliveryFits,
                            CurrentDelivery, RestIsSettled, Stale, viewState
<1> QED BY <1>1, <1>2

LEMMA PageType == ASSUME IInv, PageStep \/ Disconnect PROVE page' \in Page
<1>1. page \in Page /\ buffer \in Artifacts \cup {None} /\ status \in Statuses
      /\ revision \in Nat
    BY DEF IInv, TypeOK, Statuses
<1>2. CASE Connect
  <2> DEFINE m == [status |-> status, revision |-> revision]
  <2>1. m \in Message
      BY <1>1 DEF Message, Statuses
  <2>2. page' = [page EXCEPT !.connected = TRUE, !.channel = <<m>>]
      BY <1>2 DEF Connect
  <2> HIDE DEF m
  <2>3. <<m>> \in Seq(Message)
      BY <2>1
  <2>4. ASSUME NEW k, k = <<m>> PROVE [page EXCEPT !.connected = TRUE, !.channel = k] \in Page
      BY <1>1, <2>3, <2>4 DEF Page
  <2> QED BY <2>2, <2>4
<1>3. CASE Disconnect
  <2>1. page' = [page EXCEPT !.connected = FALSE, !.channel = <<>>]
      BY <1>3 DEF Disconnect
  <2>2. ASSUME NEW k, k = <<>> PROVE k \in Seq(Message)
      BY <2>2
  <2>3. ASSUME NEW k, k = <<>> PROVE [page EXCEPT !.connected = FALSE, !.channel = k] \in Page
      BY <1>1, <2>2, <2>3 DEF Page
  <2> QED BY <2>1, <2>3
<1>4. CASE Receive
  <2>1. /\ Head(page.channel) \in Message /\ Tail(page.channel) \in Seq(Message)
      BY <1>1, <1>4 DEF Receive, Page
  <2> QED BY <1>1, <1>4, <2>1 DEF Receive, Page, Message
<1>5. CASE Load
    BY <1>1, <1>5 DEF Load, Page
<1> QED BY <1>2, <1>3, <1>4, <1>5 DEF PageStep

LEMMA PageKeeps == ASSUME IInv, PageStep \/ Disconnect PROVE IInv'
<1>1. /\ UNCHANGED <<source, output, buildVars, committing, viewState, stopVars, edits,
                     recent>>
      /\ faults' \in 0..MaxFaults
    BY PreviewAssumption DEF IInv, TypeOK, PageStep, Connect, Receive, Load, Disconnect, Fault
<1>2. TypeOK'
    BY <1>1, PageType DEF IInv, TypeOK, buildVars, viewState, stopVars
<1> QED BY <1>1, <1>2, BuildStays DEF stopVars

-----------------------------------------------------------------------------
(* The invariant holds. *)

LEMMA InitHolds == Init => IInv
<1> SUFFICES ASSUME Init PROVE IInv
    OBVIOUS
<1>1. page \in Page
  <2>1. <<>> \in Seq(Message)
      OBVIOUS
  <2> QED BY <2>1 DEF Init, Page
<1>2. edits \in 0..MaxEdits /\ faults \in 0..MaxFaults /\ recent \subseteq Contents
    BY PreviewAssumption DEF Init
<1>3. /\ source \in Contents /\ queued \in Contents /\ output = None /\ active = None
      /\ lastGood = None /\ buffer = None /\ sourceEpoch \in Nat /\ activeEpoch \in Nat
      /\ revision \in Nat /\ signals \in 0..2
    BY DEF Init
<1>4. /\ timer \in BOOLEAN /\ pending \in BOOLEAN /\ Idle
      /\ serverOpen \in BOOLEAN
    BY Zenon DEF Init, Idle
<1>5. child = "none" /\ status = "checking" /\ stage = "up" /\ drain = "none"
    BY DEF Init
<1>6. TypeOK
    BY <1>1, <1>2, <1>3, <1>4, <1>5 DEF TypeOK, Idle
<1> QED BY <1>6 DEF Init, IInv, Idle, ServesLastGood, DeliveryFits, CurrentDelivery, RestIsSettled

LEMMA NextKeeps == IInv /\ [Next]_vars => IInv'
<1> SUFFICES ASSUME IInv, [Next]_vars PROVE IInv'
    OBVIOUS
<1>1. CASE Build
    BY <1>1, ObserveKeeps, LaunchKnownKeeps, LaunchBusyKeeps, BeginKeeps, BeginFailsKeeps,
       CloseForCommitKeeps, CommitKeeps, CommitFailsKeeps, CloseSupersededKeeps,
       CloseFailedKeeps, CloseStaleKeeps DEF Build
<1>2. CASE Shutdown
    BY <1>2, ServerClosesKeeps, DrainKeeps, CloseStoppingKeeps DEF Shutdown
<1>3. CASE UNCHANGED vars
  <2>1. TypeOK' /\ UNCHANGED <<buildVars, committing, viewState, stage, recent>>
      BY <1>3 DEF IInv, TypeOK, vars, buildVars, viewState, stopVars
  <2> QED BY <2>1, BuildStays
<1> QED BY <1>1, <1>2, <1>3, SourceKeeps, ChildEndsKeeps, StopKeeps, ForceStopKeeps, PageKeeps
        DEF Next, Stopped

THEOREM Invariance == Spec => []IInv
<1> QED BY InitHolds, NextKeeps, PTL DEF Spec

\* The state of the preview and of its page stays well formed.
THEOREM Types == Spec => []TypeOK
<1>1. IInv => TypeOK
    BY DEF IInv
<1> QED BY <1>1, Invariance, PTL

\* At rest the verdict is about the source as it is, and what is served is the
\* last content that was verified.
THEOREM QuietMeansSettled == Spec => []QuietIsSettled
<1>1. IInv => QuietIsSettled
    BY DEF IInv, RestIsSettled, ServesLastGood, QuietIsSettled, Quiet, Settled
<1> QED BY <1>1, Invariance, PTL

-----------------------------------------------------------------------------
(* The preview implements the view it promises. *)

LEMMA ViewInitMaps == Init => View!Init
    BY DEF Init, View!Init

LEMMA ViewStepMaps == IInv /\ [Next]_vars => [View!Next]_(View!viewVars)
<1> SUFFICES ASSUME IInv, [Next]_vars PROVE [View!Next]_(View!viewVars)
    OBVIOUS
<1>1. ASSUME NEW c \in Contents, Edit(c) PROVE View!Edit
    BY <1>1 DEF Edit, View!Edit, viewState
<1>2. CASE Disturb
    BY <1>2, PreviewAssumption DEF Disturb, View!Disturb, View!Next, viewState,
                                   Artifacts
<1>3. CASE Begin
    BY <1>3 DEF Begin, View!Check, View!Next
<1>4. CASE BeginFails \/ CommitFails \/ CloseFailed
    BY <1>4 DEF BeginFails, CommitFails, CloseFailed, PublishFailure, View!Reject,
                View!Next
<1>5. CASE CloseForCommit
    BY <1>5 DEF CloseForCommit, View!Look, View!Next, viewState
<1>6. CASE Commit
  <2>1. View!Show(active)
      BY <1>6, CommitFacts DEF View!Show
  <2> QED BY <1>6, <2>1, CommitFacts DEF View!Next
<1>7. CASE LaunchKnown
  <2>1. CASE status # "verified" /\ buffer # None
    <3>1. source \in Good /\ buffer = Rendering[source]
        BY <1>7, <2>1, ArtifactsExist DEF LaunchKnown, IInv, TypeOK, ServesLastGood
    <3> QED BY <1>7, <2>1, <3>1 DEF LaunchKnown, View!Restore, View!Next
  <2>2. CASE ~(status # "verified" /\ buffer # None)
      BY <1>7, <2>2 DEF LaunchKnown, View!viewVars
  <2> QED BY <2>1, <2>2
<1>8. CASE Observe \/ LaunchUnstable \/ LaunchBusy \/ CloseSuperseded \/ CloseStale
    BY <1>8 DEF Observe, LaunchUnstable, LaunchBusy, CloseSuperseded, CloseStale, viewState,
                View!viewVars
<1>9. CASE ChildEnds \/ Stop \/ ForceStop \/ Shutdown
    BY <1>9 DEF ChildEnds, Stop, ForceStop, Shutdown, ServerCloses, GraceExpires, KillExpires,
                CloseStopping, viewState, View!viewVars
<1>10. CASE PageStep \/ Disconnect
    BY <1>10 DEF PageStep, Connect, Receive, Load, Disconnect, viewState, View!viewVars
<1>11. CASE UNCHANGED vars
    BY <1>11 DEF vars, viewState, View!viewVars
<1> QED BY <1>1, <1>2, <1>3, <1>4, <1>5, <1>6, <1>7, <1>8, <1>9, <1>10, <1>11
        DEF Next, Build, Stopped, View!Next

\* Whatever is edited, built, broken or stopped, and in whatever order, the view
\* changes only as promised.
THEOREM ImplementsView == Spec => ImplementsLiveView
<1> QED BY ViewInitMaps, ViewStepMaps, Invariance, PTL DEF Spec, ImplementsLiveView
=============================================================================
