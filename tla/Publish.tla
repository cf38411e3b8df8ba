------------------------------ MODULE Publish ------------------------------
(***************************************************************************)
(* How archify's commands replace trusted files (bin/archify.mjs):         *)
(* `deliver` renders one source to one HTML file, `compare` renders two    *)
(* sources to an HTML file and its receipt, `migrate` rewrites a source    *)
(* under a new schema.  Each works in a private staging directory beside   *)
(* its target and publishes by rename; each may find an error at any step, *)
(* be killed, or run beside another command and an editor of the source.   *)
(*                                                                         *)
(* A file is modelled by what its bytes came from.  A command is one       *)
(* process that takes one step at a time on the files it shares; what it   *)
(* does in its own staging directory is part of the step before.  The      *)
(* second source of compare is fixed: only the first one is edited.        *)
(***************************************************************************)
EXTENDS Naturals

CONSTANTS
    Procs,    \* the command processes, each runs once
    Good,     \* sources that are accepted as authored
    Sloppy,   \* sources that are accepted only in their canonical form
    Bad,      \* sources that are refused, and the missing file
    NoFile,   \* no file, no value
    MaxEdits, \* bound: edits of the source
    MaxFaults \* bound: file operations, children or processes that fail

Contents == Good \cup Sloppy \cup Bad

ASSUME PublishAssumption ==
    /\ NoFile \notin Contents
    /\ Good \cap Sloppy = {} /\ Good \cap Bad = {} /\ Sloppy \cap Bad = {}
    /\ MaxEdits \in Nat /\ MaxFaults \in Nat

VARIABLES
    base,    \* the source: of deliver and migrate, and the first of compare
    target,  \* the published files: html, receipt, migrated
    proc,    \* the commands
    edits,   \* edits so far
    faults,  \* failures so far
    overlap, \* history: two commands have run at the same time
    before   \* history: the published files when the last command started

publishVars == <<base, target, proc, edits, faults, overlap, before>>

NoHtml == [by |-> "nobody", of |-> NoFile]
Html   == {NoHtml} \cup [by : {"deliver", "compare"}, of : Good \cup Sloppy]

Targets == [html : Html, receipt : Good \cup Sloppy \cup {NoFile},
            migrated : Good \cup {NoFile}]
Empty == [html |-> NoHtml, receipt |-> NoFile, migrated |-> NoFile]

Kinds == {"deliver", "compare", "migrate"}
Steps == {"idle", "read", "raw", "render", "recheck", "commit", "backup_html",
          "backup_receipt", "commit_html", "commit_receipt", "undo",
          "restore_receipt", "restore_html", "cleanup", "ended"}

Command == [
    pc : Steps, kind : Kinds,
    buffer : Contents \cup {NoFile},  \* the source as it was read
    html : Html,                      \* the backup in the staging directory
    receipt : Good \cup Sloppy \cup {NoFile},
    exit : {"none", "ok", "failed", "unrestored", "killed"}]

PublishTypeOK ==
    /\ base \in Contents
    /\ target \in Targets /\ before \in Targets
    /\ proc \in [Procs -> Command]
    /\ edits \in 0..MaxEdits /\ faults \in 0..MaxFaults
    /\ overlap \in BOOLEAN

\* Nothing was published yet, or an earlier compare left its pair.
PublishInit ==
    /\ base \in Contents
    /\ target \in {Empty} \cup
            {[Empty EXCEPT !.html = [by |-> "compare", of |-> c], !.receipt = c] : c \in Good \cup Sloppy}
    /\ before = target
    /\ proc = [p \in Procs |->
                  [pc |-> "idle", kind |-> "deliver", buffer |-> NoFile,
                   html |-> NoHtml, receipt |-> NoFile, exit |-> "none"]]
    /\ edits = 0 /\ faults = 0 /\ overlap = FALSE

-----------------------------------------------------------------------------
Running(p) == proc[p].pc \notin {"idle", "ended"}
At(p, kinds, pc) == proc[p].kind \in kinds /\ proc[p].pc = pc
Goto(p, pc) == proc' = [proc EXCEPT ![p].pc = pc]

\* Every error path reports its stage, sets the exit code and leaves through the
\* finally clause.
Fail(p) == proc' = [proc EXCEPT ![p].pc = "cleanup", ![p].exit = "failed"]

Fault == faults < MaxFaults /\ faults' = faults + 1
Private == UNCHANGED <<base, target, edits, overlap, before>>
Publishes == UNCHANGED <<base, edits, faults, overlap, before>>

EditBase(c) ==
    /\ edits < MaxEdits /\ c # base
    /\ base' = c
    /\ edits' = edits + 1
    /\ UNCHANGED <<target, proc, faults, overlap, before>>

Start(p, kind) ==
    /\ proc[p].pc = "idle"
    /\ proc' = [proc EXCEPT ![p].pc = "read", ![p].kind = kind]
    /\ overlap' = (overlap \/ \E q \in Procs : Running(q))
    /\ before' = target
    /\ UNCHANGED <<base, target, edits, faults>>

(***************************************************************************)
(* Reading, staging and rendering                                          *)
(***************************************************************************)
\* The source is read once into a buffer, the staging directory is made and the
\* buffer is written to it: deliver renders this snapshot,
ReadToDeliver(p) ==
    /\ At(p, {"deliver"}, "read")
    /\ proc' = [proc EXCEPT ![p].buffer = base, ![p].pc = "render"]
    /\ Private /\ UNCHANGED faults

\* migrate the document it makes of it,
ReadToMigrate(p) ==
    /\ At(p, {"migrate"}, "read")
    /\ proc' = [proc EXCEPT ![p].buffer = base, ![p].pc = "render"]
    /\ Private /\ UNCHANGED faults

\* and compare the canonical form of both sources ...
ReadToCompare(p) ==
    /\ At(p, {"compare"}, "read")
    /\ proc' = [proc EXCEPT ![p].buffer = base, ![p].pc = "raw"]
    /\ Private /\ UNCHANGED faults

\* ... after it had the authored files validated, which reads them once more.
RawValidation(p) ==
    /\ At(p, {"compare"}, "raw")
    /\ IF base \in Good THEN Goto(p, "render") ELSE Fail(p)
    /\ Private /\ UNCHANGED faults

\* Mutant: the exit code of the renderer is not looked at.
AcceptedAnyhow(p) == proc[p].buffer \in Contents

Accepted(p) ==
    proc[p].buffer \in (IF proc[p].kind = "compare" THEN Good \cup Sloppy ELSE Good)

\* The renderer and the artifact checker run on the staged candidate, its receipt
\* is read, and the output is checked once more to be no alias of an input.
RenderFor(p, kind, next) ==
    /\ At(p, {kind}, "render")
    /\ IF Accepted(p) THEN Goto(p, next) ELSE Fail(p)
    /\ Private /\ UNCHANGED faults

RenderDelivery(p)   == RenderFor(p, "deliver", "commit")
RenderComparison(p) == RenderFor(p, "compare", "backup_html")
RenderMigration(p)  == RenderFor(p, "migrate", "recheck")

\* Before its commit migrate reads the source again.
Recheck(p) ==
    /\ At(p, {"migrate"}, "recheck")
    /\ IF base = proc[p].buffer THEN Goto(p, "commit") ELSE Fail(p)
    /\ Private /\ UNCHANGED faults

(***************************************************************************)
(* Publishing                                                              *)
(***************************************************************************)
\* The files t with what the command makes of its buffer.
With(p, t) ==
    CASE proc[p].kind = "deliver" ->
            [t EXCEPT !.html = [by |-> "deliver", of |-> proc[p].buffer]]
      [] proc[p].kind = "migrate" -> [t EXCEPT !.migrated = proc[p].buffer]
      [] proc[p].kind = "compare" ->
            [t EXCEPT !.html = [by |-> "compare", of |-> proc[p].buffer],
                      !.receipt = proc[p].buffer]

\* The one rename of deliver, and of migrate.
CommitDelivery(p) ==
    /\ At(p, {"deliver"}, "commit")
    /\ target' = With(p, target)
    /\ proc' = [proc EXCEPT ![p].pc = "cleanup", ![p].exit = "ok"]
    /\ Publishes

CommitMigration(p) ==
    /\ At(p, {"migrate"}, "commit")
    /\ target' = With(p, target)
    /\ proc' = [proc EXCEPT ![p].pc = "cleanup", ![p].exit = "ok"]
    /\ Publishes

\* commitComparePair: both previous files go to the staging directory ...
BackupHtml(p) ==
    /\ proc[p].pc = "backup_html"
    /\ target' = [target EXCEPT !.html = NoHtml]
    /\ proc' = [proc EXCEPT ![p].html = target.html, ![p].pc = "backup_receipt"]
    /\ Publishes

\* Mutant: the previous receipt stays, the rename of the new one replaces it.
BackupReceiptInPlace(p) ==
    /\ proc[p].pc = "backup_receipt"
    /\ proc' = [proc EXCEPT ![p].receipt = target.receipt, ![p].pc = "commit_html"]
    /\ Publishes /\ UNCHANGED target

BackupReceipt(p) ==
    /\ proc[p].pc = "backup_receipt"
    /\ target' = [target EXCEPT !.receipt = NoFile]
    /\ proc' = [proc EXCEPT ![p].receipt = target.receipt, ![p].pc = "commit_html"]
    /\ Publishes

\* ... and both candidates to their targets.
CommitHtml(p) ==
    /\ proc[p].pc = "commit_html"
    /\ target' = [target EXCEPT !.html = With(p, target).html]
    /\ Goto(p, "commit_receipt")
    /\ Publishes

CommitReceipt(p) ==
    /\ proc[p].pc = "commit_receipt"
    /\ target' = [target EXCEPT !.receipt = With(p, target).receipt]
    /\ proc' = [proc EXCEPT ![p].pc = "cleanup", ![p].exit = "ok"]
    /\ Publishes

\* A rename of commitComparePair fails: what was committed is removed again, what
\* was backed up goes back over whatever stands there.
PairFails(p) ==
    /\ proc[p].pc \in {"backup_html", "backup_receipt", "commit_html", "commit_receipt"}
    /\ Fault
    /\ proc' = [proc EXCEPT ![p].exit = "failed",
                            ![p].pc = IF @ = "commit_receipt" THEN "undo"
                                      ELSE "restore_receipt"]
    /\ Private

Undo(p) ==
    /\ proc[p].pc = "undo"
    /\ target' = [target EXCEPT !.html = NoHtml]
    /\ Goto(p, "restore_receipt")
    /\ Publishes

\* Mutant: the receipt was the last file to be backed up, so it is still there.
RestoreReceiptNever(p) ==
    /\ proc[p].pc = "restore_receipt"
    /\ proc' = [proc EXCEPT ![p].receipt = NoFile, ![p].pc = "restore_html"]
    /\ Publishes /\ UNCHANGED target

RestoreReceipt(p) ==
    /\ proc[p].pc = "restore_receipt"
    /\ target' = IF proc[p].receipt = NoFile THEN target
                 ELSE [target EXCEPT !.receipt = proc[p].receipt]
    /\ proc' = [proc EXCEPT ![p].receipt = NoFile, ![p].pc = "restore_html"]
    /\ Publishes

RestoreHtml(p) ==
    /\ proc[p].pc = "restore_html"
    /\ target' = IF proc[p].html = NoHtml THEN target
                 ELSE [target EXCEPT !.html = proc[p].html]
    /\ proc' = [proc EXCEPT ![p].html = NoHtml, ![p].pc = "cleanup"]
    /\ Publishes

\* A step of the rollback fails: it is noted and the rest goes on; the backup of
\* that file stays in the staging directory.  What stood in its place may be gone.
RollbackFails(p) ==
    /\ proc[p].pc \in {"undo", "restore_receipt", "restore_html"}
    /\ Fault
    /\ \/ target' = target
       \/ /\ proc[p].pc = "restore_receipt" /\ proc[p].receipt # NoFile
          /\ target' = [target EXCEPT !.receipt = NoFile]
       \/ /\ proc[p].pc = "restore_html" /\ proc[p].html # NoHtml
          /\ target' = [target EXCEPT !.html = NoHtml]
    /\ proc' = [proc EXCEPT
            ![p].exit = "unrestored",
            ![p].pc = CASE @ = "undo" -> "restore_receipt"
                        [] @ = "restore_receipt" -> "restore_html"
                        [] @ = "restore_html" -> "cleanup"]
    /\ UNCHANGED <<base, edits, overlap, before>>

\* Any other step reports an error instead.
StepFails(p) ==
    /\ proc[p].pc \in {"read", "raw", "render", "recheck", "commit"}
    /\ Fault
    /\ Fail(p)
    /\ Private

\* The finally clause: the staging directory goes, with everything in it.
Cleanup(p) ==
    /\ proc[p].pc = "cleanup"
    /\ proc' = [proc EXCEPT ![p].pc = "ended", ![p].buffer = NoFile,
                            ![p].html = NoHtml, ![p].receipt = NoFile]
    /\ Private /\ UNCHANGED faults

\* A signal ends the process where it stands; no finally clause runs.  A failure of
\* its rollback stays on record.
Kill(p) ==
    /\ Running(p)
    /\ Fault
    /\ proc' = [proc EXCEPT ![p].pc = "ended",
                            ![p].exit = IF @ = "unrestored" THEN @ ELSE "killed"]
    /\ Private

CommandStep(p) ==
    \/ ReadToDeliver(p) \/ ReadToMigrate(p) \/ ReadToCompare(p) \/ RawValidation(p)
    \/ RenderDelivery(p) \/ RenderComparison(p) \/ RenderMigration(p)
    \/ Recheck(p) \/ CommitDelivery(p) \/ CommitMigration(p)
    \/ BackupHtml(p) \/ BackupReceipt(p) \/ CommitHtml(p) \/ CommitReceipt(p)
    \/ PairFails(p) \/ Undo(p) \/ RestoreReceipt(p) \/ RestoreHtml(p)
    \/ RollbackFails(p) \/ StepFails(p) \/ Cleanup(p)

PublishNext ==
    \/ \E c \in Contents : EditBase(c)
    \/ \E p \in Procs :
        \/ \E kind \in Kinds : Start(p, kind)
        \/ CommandStep(p)
        \/ Kill(p)

-----------------------------------------------------------------------------
(***************************************************************************)
(* Properties                                                              *)
(***************************************************************************)
\* The receipt of compare describes the page beside it: as long as commands did not
\* overlap and no rollback of one failed, a comparison page and a
\* receipt that stand together came from the same pair, also while a command runs
\* and after one was killed (commitComparePair).
PairConsistent ==
    ~overlap /\ (\A p \in Procs : proc[p].exit # "unrestored") =>
        (target.html.by = "compare" /\ target.receipt # NoFile =>
            target.receipt = target.html.of)

\* A file of a command that was killed: what stood there before, what the command was
\* to publish, or moved away with the only copy in its staging directory.
KeptOrStaged(p, file, none) ==
    \/ target[file] \in {before[file], With(p, before)[file]}
    \/ target[file] = none /\ proc[p][file] = before[file]

\* How a command that ran alone leaves the published files (commandDeliver,
\* commandCompare, commandMigrate): with all it was to publish when it reports
\* success, exactly as they were when it reports failure, with an old file missing or
\* the new page left when a step of its rollback failed; and after a kill each
\* file is old, new, or still to be found in the staging directory.
EndsClean ==
    [][\A p \in Procs :
        Running(p) /\ proc'[p].pc = "ended" /\ ~overlap =>
            /\ proc'[p].exit = "ok" => target = With(p, before)
            /\ proc'[p].exit = "failed" => target = before
            /\ proc'[p].exit = "unrestored" =>
                  /\ target.html \in {before.html, NoHtml, With(p, before).html}
                  /\ target.receipt \in {before.receipt, NoFile}
                  /\ target.migrated = before.migrated
            /\ proc'[p].exit = "killed" =>
                  /\ KeptOrStaged(p, "html", NoHtml)
                  /\ KeptOrStaged(p, "receipt", NoFile)
                  /\ target.migrated \in {before.migrated, With(p, before).migrated}
      ]_publishVars

=============================================================================
