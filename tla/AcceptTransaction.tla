-------------------------- MODULE AcceptTransaction --------------------------
(***************************************************************************)
(* Transactional acceptance of one reviewed upstream revision              *)
(* (accept_upstream in powers/pkstack/src/pkstack/upstreams.py).  Two      *)
(* documents, the manifest with its pins and the review ledger, must       *)
(* advance together although they are replaced one after the other.  A     *)
(* journal written first lets a rerun of the same command complete, or     *)
(* withdraw, what a crash or a failed write left half done.                *)
(*                                                                         *)
(* One step is one atomic replacement or unlink of a file, or one network  *)
(* proof; a process may be killed between any two of them.                 *)
(***************************************************************************)
EXTENDS Integers, Sequences, FiniteSets

CONSTANTS
    Procs,         \* accept commands that may run at the same time
    Sources,       \* registered upstream sources
    Repositories,  \* the repositories whose main branches they track
    RepoOf,        \* the repository of each source; several sources may share one
    NoFile,        \* a file that does not exist; also no lock holder
    Closed,        \* what a reader gets from documents that disagree
    MaxRev,        \* bound: latest revision of a tracked branch
    MaxEdits,      \* bound: edits of either document by somebody else
    MaxCrashes     \* bound: commands that are killed

ASSUME SourcesAssumption == Sources # {} /\ IsFiniteSet(Sources)
ASSUME RepoOfAssumption == RepoOf \in [Sources -> Repositories]
ASSUME BoundsAssumption == MaxRev \in Nat /\ MaxEdits \in Nat /\ MaxCrashes \in Nat

VARIABLES
    manifest,   \* maintenance/upstreams.json: pins, and an edit count for the rest
    ledger,     \* maintenance/upstream-reviews.json: reviewed revisions, edit count
    journal,    \* .pkstack-maintenance/accept-transaction.json
    proposal,   \* .pkstack-maintenance/proposal.json
    stray,      \* a temporary file of a killed journal write is left beside them
    lock,       \* holder of .pkstack/state/upstream-accept.lock
    proc,       \* what each accept command is doing
    upstream,   \* the revision the tracked branch of each repository is at
    reported,   \* acceptances reported as done
    crashes     \* commands killed so far

vars == <<manifest, ledger, journal, proposal, stray, lock, proc, upstream, reported,
          crashes>>

-----------------------------------------------------------------------------
(* The documents. *)

Revs == 0 .. MaxRev

\* A commit of a tracked branch: what a full SHA, such as --expected-head, names.
Heads == [repo : Repositories, rev : Revs]

\* The reviewed move of one source to a revision, and the commit it moves to,
\* which says nothing of the source when others track the same repository.
Transitions == [source : Sources, rev : Revs]
HeadOf(to) == [repo |-> RepoOf[to.source], rev |-> to.rev]

Tip(chain) == chain[Len(chain)]

\* A reviewed chain starts at the genesis revision and only moves forward.
Chains == {c \in Seq(Revs) :
              Len(c) > 0 /\ c[1] = 0 /\ \A i, j \in 1 .. Len(c) : i < j => c[i] < c[j]}

Manifests == [pin : [Sources -> Revs], edits : 0 .. MaxEdits]
Ledgers == [chain : [Sources -> Chains], edits : 0 .. MaxEdits]
Snapshots == [manifest : Manifests, ledger : Ledgers]
Proposals == [to : Transitions, prior : Revs]
Journals == [to : Transitions, before : Snapshots, after : Snapshots]

ASSUME NoFileAssumption == NoFile \notin Procs /\ NoFile \notin Journals

\* load_upstream_manifest and load_upstream_review_ledger accept the documents:
\* every source's reviewed tip is its pin.
Agree(m, l) == \A s \in Sources : Tip(l.chain[s]) = m.pin[s]

Consistent == Agree(manifest, ledger)

\* The documents with the reviewed transition applied.
Applied(to, m, l) ==
    [manifest |-> [m EXCEPT !.pin[to.source] = to.rev],
     ledger |-> [l EXCEPT !.chain[to.source] = Append(@, to.rev)]]

Journal(to) ==
    [to |-> to, before |-> [manifest |-> manifest, ledger |-> ledger],
     after |-> Applied(to, manifest, ledger)]

-----------------------------------------------------------------------------
(* The processes. *)

\* head: --expected-head; to: the transition found in the journal or the proposal.
Idle == [pc |-> "idle", head |-> NoFile, dry |-> FALSE, to |-> NoFile,
         prior |-> NoFile, accepted |-> FALSE]

Goto(p, label) == proc' = [proc EXCEPT ![p].pc = label]

At(p, label) == proc[p].pc = label

Exit(p) == proc' = [proc EXCEPT ![p] = Idle] /\ lock' = IF lock = p THEN NoFile ELSE lock

\* A command is run with --expected-head, and maybe with --dry-run.
Request(p, head, dry) ==
    /\ At(p, "idle")
    /\ proc' = [proc EXCEPT ![p].pc = "wait", ![p].head = head, ![p].dry = dry]
    /\ UNCHANGED <<manifest, ledger, journal, proposal, stray, lock, upstream, reported,
                   crashes>>

Acquire(p) ==
    /\ At(p, "wait")
    /\ lock = NoFile
    /\ lock' = p
    /\ Goto(p, "enter")
    /\ UNCHANGED <<manifest, ledger, journal, proposal, stray, upstream, reported,
                   crashes>>

\* A refusal or an error that leaves the files as they are.
Stop(p) ==
    /\ Exit(p)
    /\ UNCHANGED <<manifest, ledger, journal, proposal, stray, upstream, reported,
                   crashes>>

-----------------------------------------------------------------------------
(* A pending journal is rolled forward by a command for its expected head,   *)
(* whatever source that command was meant for.                                *)

\* Mutant: a journal of another head is rolled forward as well.
RecoverableByAnyone(p) ==
    /\ manifest \in {journal.before.manifest, journal.after.manifest}
    /\ ledger \in {journal.before.ledger, journal.after.ledger}

\* Mutant: the documents are not compared with the journal.
RecoverableBlindly(p) == HeadOf(journal.to) = proc[p].head

\* Mutant: only documents that agree with each other are recovered.
RecoverableWhole(p) ==
    /\ HeadOf(journal.to) = proc[p].head
    /\ [manifest |-> manifest, ledger |-> ledger] \in {journal.before, journal.after}

\* The journal is for the expected head, and each document is the one before or
\* the one after it.
Recoverable(p) ==
    /\ HeadOf(journal.to) = proc[p].head
    /\ manifest \in {journal.before.manifest, journal.after.manifest}
    /\ ledger \in {journal.before.ledger, journal.after.ledger}

StartRecovery(p) ==
    /\ At(p, "enter") /\ ~stray
    /\ journal # NoFile /\ Recoverable(p)
    /\ proc' = [proc EXCEPT ![p].pc = "fwd_ledger", ![p].to = journal.to]
    /\ UNCHANGED <<manifest, ledger, journal, proposal, stray, lock, upstream, reported,
                   crashes>>

ForwardLedger(p) ==
    /\ At(p, "fwd_ledger")
    /\ ledger' = journal.after.ledger
    /\ Goto(p, "fwd_manifest")
    /\ UNCHANGED <<manifest, journal, proposal, stray, lock, upstream, reported,
                   crashes>>

ForwardManifest(p) ==
    /\ At(p, "fwd_manifest")
    /\ manifest' = journal.after.manifest
    /\ Goto(p, "reprove")
    /\ UNCHANGED <<ledger, journal, proposal, stray, lock, upstream, reported,
                   crashes>>

\* The final reproof may fail for reasons outside the repository (the network,
\* a rewritten upstream history); it passes only if the pin is the expected head.
Reproved(p) ==
    /\ At(p, "reprove")
    /\ Consistent /\ manifest.pin[proc[p].to.source] = proc[p].to.rev
    /\ proc' = [proc EXCEPT ![p].pc = "unlink_proposal", ![p].accepted = TRUE]
    /\ UNCHANGED <<manifest, ledger, journal, proposal, stray, lock, upstream, reported,
                   crashes>>

ReproofFails(p) ==
    /\ At(p, "reprove")
    /\ Goto(p, "back_ledger")
    /\ UNCHANGED <<manifest, ledger, journal, proposal, stray, lock, upstream, reported,
                   crashes>>

\* Mutant: the journal goes before both documents are back.
BackLedgerDropsJournal(p) ==
    /\ At(p, "back_ledger")
    /\ ledger' = journal.before.ledger
    /\ journal' = NoFile
    /\ Goto(p, "back_manifest")
    /\ UNCHANGED <<manifest, proposal, stray, lock, upstream, reported, crashes>>

\* _rollback_accept_transaction does not look at the documents it replaces.
BackLedger(p) ==
    /\ At(p, "back_ledger")
    /\ ledger' = journal.before.ledger
    /\ Goto(p, "back_manifest")
    /\ UNCHANGED <<manifest, journal, proposal, stray, lock, upstream, reported,
                   crashes>>

BackManifest(p) ==
    /\ At(p, "back_manifest")
    /\ manifest' = journal.before.manifest
    /\ Goto(p, "unlink_proposal")
    /\ UNCHANGED <<ledger, journal, proposal, stray, lock, upstream, reported,
                   crashes>>

-----------------------------------------------------------------------------
(* A fresh acceptance: prove, journal, ledger, manifest. *)

\* The proposal is read, and is not stale against readable documents.
CanPropose ==
    /\ proposal # NoFile
    /\ Consistent
    /\ proposal.prior = manifest.pin[proposal.to.source]

StartAcceptance(p) ==
    /\ At(p, "enter") /\ ~stray
    /\ journal = NoFile /\ CanPropose
    /\ proc' = [proc EXCEPT ![p].pc = "prove", ![p].to = proposal.to,
                            ![p].prior = proposal.prior]
    /\ UNCHANGED <<manifest, ledger, journal, proposal, stray, lock, upstream, reported,
                   crashes>>

Refused(p) ==
    /\ At(p, "enter")
    /\ \/ stray
       \/ journal # NoFile /\ ~Recoverable(p)
       \/ journal = NoFile /\ ~CanPropose
    /\ Stop(p)

\* Mutant: the comparison need not be a fast-forward.
ProvenAnyhow(p) ==
    LET to == proc[p].to IN
    /\ Consistent
    /\ HeadOf(to) = proc[p].head
    /\ upstream[RepoOf[to.source]] = to.rev
    /\ manifest.pin[to.source] = proc[p].prior

\* The upstream is at the expected head, which the proposal moves its source to,
\* a fast-forward of the pin, and the documents that are loaded again after the
\* network proof still allow it.
Proven(p) ==
    LET to == proc[p].to IN
    /\ Consistent
    /\ HeadOf(to) = proc[p].head
    /\ upstream[RepoOf[to.source]] = to.rev
    /\ manifest.pin[to.source] = proc[p].prior
    /\ proc[p].prior < to.rev

\* The snapshots are taken and, with nothing in between, the journal is written.
WriteJournal(p) ==
    /\ At(p, "prove") /\ ~proc[p].dry
    /\ Proven(p)
    /\ journal' = Journal(proc[p].to)
    /\ Goto(p, "ledger")
    /\ UNCHANGED <<manifest, ledger, proposal, stray, lock, upstream, reported,
                   crashes>>

\* The proof fails, or it was all a dry run is for.
ProofFails(p) == At(p, "prove") /\ Stop(p)

WriteLedger(p) ==
    /\ At(p, "ledger")
    /\ ledger' = journal.after.ledger
    /\ Goto(p, "manifest")
    /\ UNCHANGED <<manifest, journal, proposal, stray, lock, upstream, reported,
                   crashes>>

WriteManifest(p) ==
    /\ At(p, "manifest")
    /\ manifest' = journal.after.manifest
    /\ proc' = [proc EXCEPT ![p].pc = "unlink_proposal", ![p].accepted = TRUE]
    /\ UNCHANGED <<ledger, journal, proposal, stray, lock, upstream, reported,
                   crashes>>

\* A write raises; the documents are put back and the journal is removed.
WriteFails(p) ==
    /\ At(p, "ledger") \/ At(p, "manifest")
    /\ Goto(p, "undo_ledger")
    /\ UNCHANGED <<manifest, ledger, journal, proposal, stray, lock, upstream, reported,
                   crashes>>

UndoLedger(p) ==
    /\ At(p, "undo_ledger")
    /\ ledger' = journal.before.ledger
    /\ Goto(p, "undo_manifest")
    /\ UNCHANGED <<manifest, journal, proposal, stray, lock, upstream, reported,
                   crashes>>

UndoManifest(p) ==
    /\ At(p, "undo_manifest")
    /\ manifest' = journal.before.manifest
    /\ Goto(p, "undo_journal")
    /\ UNCHANGED <<ledger, journal, proposal, stray, lock, upstream, reported,
                   crashes>>

UndoJournal(p) ==
    /\ At(p, "undo_journal")
    /\ journal' = NoFile
    /\ Exit(p)
    /\ UNCHANGED <<manifest, ledger, proposal, stray, upstream, reported,
                   crashes>>

-----------------------------------------------------------------------------
(* _cleanup_acceptance_inputs: proposal, then journal, then the report. *)

UnlinkProposal(p) ==
    /\ At(p, "unlink_proposal")
    /\ proposal' = NoFile
    /\ Goto(p, "unlink_journal")
    /\ UNCHANGED <<manifest, ledger, journal, stray, lock, upstream, reported,
                   crashes>>

Outcome(p) == IF proc[p].accepted THEN {proc[p].to} ELSE {}

\* Mutant: success is reported although the journal is still there.
UnlinkJournalLater(p) ==
    /\ At(p, "unlink_journal")
    /\ reported' = reported \cup Outcome(p)
    /\ Exit(p)
    /\ UNCHANGED <<manifest, ledger, journal, proposal, stray, upstream, crashes>>

UnlinkJournal(p) ==
    /\ At(p, "unlink_journal")
    /\ journal' = NoFile
    /\ reported' = reported \cup Outcome(p)
    /\ Exit(p)
    /\ UNCHANGED <<manifest, ledger, proposal, stray, upstream, crashes>>

-----------------------------------------------------------------------------
(* The environment. *)

\* The process is killed, or an error it does not handle ends it.
Crash(p) ==
    /\ proc[p].pc # "idle"
    /\ crashes < MaxCrashes
    /\ crashes' = crashes + 1
    /\ Exit(p)
    /\ UNCHANGED <<manifest, ledger, journal, proposal, stray, upstream, reported>>

\* Killed between creating the journal's temporary file and renaming it.
CrashInJournal(p) ==
    /\ At(p, "prove") /\ ~proc[p].dry
    /\ Proven(p)
    /\ crashes < MaxCrashes
    /\ crashes' = crashes + 1
    /\ stray' = TRUE
    /\ Exit(p)
    /\ UNCHANGED <<manifest, ledger, journal, proposal, upstream, reported>>

\* A push to the tracked branch; a forced one may go back to an older revision.
UpstreamMoves(r, rev) ==
    /\ rev # upstream[r]
    /\ upstream' = [upstream EXCEPT ![r] = rev]
    /\ UNCHANGED <<manifest, ledger, journal, proposal, stray, lock, proc, reported,
                   crashes>>

\* The maintainer writes a proposal for the drift it reviewed.
Propose(s) ==
    LET rev == upstream[RepoOf[s]] IN
    /\ rev # manifest.pin[s]
    /\ proposal' = [to |-> [source |-> s, rev |-> rev], prior |-> manifest.pin[s]]
    /\ proposal' # proposal
    /\ UNCHANGED <<manifest, ledger, journal, stray, lock, proc, upstream, reported,
                   crashes>>

\* Nobody is between reading a document and replacing it: the network proofs
\* are the only long waits under the lock.
NoWrite == \A p \in Procs : proc[p].pc \in {"idle", "wait", "enter", "prove", "reprove"}

\* Somebody who does not take the lock edits another part of a document.
EditManifest ==
    /\ NoWrite
    /\ manifest.edits < MaxEdits
    /\ manifest' = [manifest EXCEPT !.edits = @ + 1]
    /\ UNCHANGED <<ledger, journal, proposal, stray, lock, proc, upstream, reported,
                   crashes>>

EditLedger ==
    /\ NoWrite
    /\ ledger.edits < MaxEdits
    /\ ledger' = [ledger EXCEPT !.edits = @ + 1]
    /\ UNCHANGED <<manifest, journal, proposal, stray, lock, proc, upstream, reported,
                   crashes>>

-----------------------------------------------------------------------------

Init ==
    /\ manifest = [pin |-> [s \in Sources |-> 0], edits |-> 0]
    /\ ledger = [chain |-> [s \in Sources |-> <<0>>], edits |-> 0]
    /\ journal = NoFile
    /\ proposal = NoFile
    /\ stray = FALSE
    /\ lock = NoFile
    /\ proc = [p \in Procs |-> Idle]
    /\ upstream = [r \in Repositories |-> 0]
    /\ reported = {}
    /\ crashes = 0

Recovery(p) ==
    \/ StartRecovery(p) \/ ForwardLedger(p) \/ ForwardManifest(p)
    \/ Reproved(p) \/ ReproofFails(p) \/ BackLedger(p) \/ BackManifest(p)

Acceptance(p) ==
    \/ StartAcceptance(p) \/ Refused(p) \/ WriteJournal(p) \/ ProofFails(p)
    \/ WriteLedger(p) \/ WriteManifest(p) \/ WriteFails(p)
    \/ UndoLedger(p) \/ UndoManifest(p) \/ UndoJournal(p)
    \/ UnlinkProposal(p) \/ UnlinkJournal(p)

Environment ==
    \/ \E s \in Sources : Propose(s)
    \/ \E r \in Repositories, rev \in Revs : UpstreamMoves(r, rev)
    \/ EditManifest \/ EditLedger

Next ==
    \/ \E p \in Procs :
        \/ \E head \in Heads, dry \in BOOLEAN : Request(p, head, dry)
        \/ Acquire(p) \/ Recovery(p) \/ Acceptance(p)
        \/ Crash(p) \/ CrashInJournal(p)
    \/ Environment

Spec == Init /\ [][Next]_vars

\* The operator reruns the command an interrupted acceptance asks for.
Rerun(p) == journal # NoFile /\ Request(p, HeadOf(journal.to), FALSE)

\* A running command keeps running, its network proofs end (they have a timeout),
\* a blocked flock is granted if the lock keeps becoming free, and somebody who
\* sees a pending journal again and again reruns the command it belongs to.
Fairness ==
    /\ \A p \in Procs : SF_vars(Acquire(p) \/ Recovery(p) \/ Acceptance(p))
    /\ SF_vars(\E p \in Procs : Rerun(p))

FairSpec == Spec /\ Fairness

-----------------------------------------------------------------------------
(* Properties. *)

Labels ==
    {"idle", "wait", "enter", "fwd_ledger", "fwd_manifest", "reprove", "back_ledger",
     "back_manifest", "prove", "ledger", "manifest", "undo_ledger", "undo_manifest",
     "undo_journal", "unlink_proposal", "unlink_journal"}

Commands == [pc : Labels, head : Heads \cup {NoFile}, dry : BOOLEAN,
             to : Transitions \cup {NoFile}, prior : Revs \cup {NoFile}, accepted : BOOLEAN]

\* Type correctness; what a journal restores or completes are documents whose
\* reviewed chains only move forward (_validate_transaction_source_chains).
TypeOK ==
    /\ manifest \in Manifests
    /\ ledger \in Ledgers
    /\ journal # NoFile =>
          /\ journal \in Journals
          /\ journal.after = Applied(journal.to, journal.before.manifest,
                                     journal.before.ledger)
    /\ proposal = NoFile \/ proposal \in Proposals
    /\ stray \in BOOLEAN
    /\ lock \in Procs \cup {NoFile}
    /\ proc \in [Procs -> Commands]
    /\ upstream \in [Repositories -> Revs]
    /\ reported \subseteq Transitions
    /\ crashes \in 0 .. MaxCrashes

\* Whenever the pins and the reviewed tips disagree, a journal is there from
\* which the same command can still complete or withdraw the acceptance.
MixedIsJournaled ==
    ~Consistent =>
        /\ journal # NoFile
        /\ manifest.pin \in {journal.before.manifest.pin, journal.after.manifest.pin}
        /\ ledger.chain \in {journal.before.ledger.chain, journal.after.ledger.chain}

\* While a journal is pending, only a command for its expected head touches it
\* or the documents' pins and reviews, and it moves those of the journal's source
\* only: a command meant for another source of the same repository, which has the
\* same expected head, completes or withdraws the pending acceptance and never
\* accepts its own source, although the two cannot be told apart by the SHA.
JournalBound ==
    [][(journal # NoFile
          /\ (journal' # journal \/ manifest'.pin # manifest.pin
                \/ ledger'.chain # ledger.chain))
        => /\ lock # NoFile /\ proc[lock].head = HeadOf(journal.to)
           /\ \A s \in Sources \ {journal.to.source} :
                 /\ manifest'.pin[s] = manifest.pin[s]
                 /\ ledger'.chain[s] = ledger.chain[s]]_vars

\* An edit by somebody who does not take the lock, made before a recovery or
\* during the network proof of a fresh acceptance, is never overwritten; only
\* the rollback of a recovery, which compares nothing, can lose one.
EditsKept ==
    [][manifest'.edits < manifest.edits \/ ledger'.edits < ledger.edits
        => \E p \in Procs : proc[p].pc \in {"back_ledger", "back_manifest"}]_vars

\* A pending journal is eventually completed or withdrawn, wherever the commands
\* before were killed.
RecoveryCompletes == []<>(journal = NoFile)

\* The reviewed history the manifest stands for.
Committed ==
    IF journal = NoFile THEN ledger.chain
    ELSE IF manifest.pin = journal.after.manifest.pin THEN journal.after.ledger.chain
    ELSE journal.before.ledger.chain

\* What load_upstream_review_ledger gives a reader.
ReaderSees == IF Consistent THEN ledger.chain ELSE Closed

History == INSTANCE ReviewHistory WITH history <- Committed, seen <- ReaderSees

\* Two documents, a journal, crashes and failed writes implement one history per
\* source that advances by whole acceptances, is readable completely or not at
\* all, and keeps every acceptance that was reported.
ImplementsHistory == History!HistorySpec

\* The maintenance skill: "Preview, then apply the expected-head-bound
\* acceptance".  A command run with --dry-run changes no document and no journal.
DryRunsPreview ==
    [][lock # NoFile /\ proc[lock].dry
        => UNCHANGED <<manifest.pin, ledger.chain, journal>>]_vars
=============================================================================
