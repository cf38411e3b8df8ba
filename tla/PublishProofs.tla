---------------------------- MODULE PublishProofs ----------------------------
(***************************************************************************)
(* Proofs about Publish and VisualCheck for any commands, sources,         *)
(* viewports and bounds.                                                   *)
(***************************************************************************)
EXTENDS VisualCheck, TLAPS

-----------------------------------------------------------------------------
(* The inductive invariant: the commands. *)

Early   == {"read", "raw", "render", "recheck", "commit", "backup_html"}
Pairing == {"raw", "backup_html", "backup_receipt", "commit_html", "commit_receipt",
            "undo", "restore_receipt", "restore_html"}
Checked == {"recheck", "commit", "backup_html", "backup_receipt", "commit_html",
            "commit_receipt"}

\* A command is only where its kind takes it, and what it publishes was accepted.
Fits(p) ==
    /\ proc[p].pc \in Pairing => proc[p].kind = "compare"
    /\ proc[p].pc = "recheck" => proc[p].kind = "migrate"
    /\ proc[p].pc = "commit" => proc[p].kind \in {"deliver", "migrate"}
    /\ proc[p].pc \in Checked => Accepted(p)
    /\ proc[p].pc = "idle" => proc[p].html = NoHtml /\ proc[p].receipt = NoFile
    /\ proc[p].pc \in {"idle", "backup_receipt", "commit_html", "commit_receipt"} \cup Early
            => proc[p].exit = "none"
    /\ proc[p].pc = "undo" => proc[p].exit = "failed"
    /\ proc[p].pc \in {"restore_receipt", "restore_html"}
            => proc[p].exit \in {"failed", "unrestored"}
    /\ proc[p].pc = "cleanup" => proc[p].exit \in {"ok", "failed", "unrestored"}

\* Each previous file is at its place, or backed up and its place is empty.
Kept(p) ==
    /\ IF proc[p].html = NoHtml THEN target.html = before.html
       ELSE target.html = NoHtml /\ proc[p].html = before.html
    /\ IF proc[p].receipt = NoFile THEN target.receipt = before.receipt
       ELSE target.receipt = NoFile /\ proc[p].receipt = before.receipt
    /\ target.migrated = before.migrated

BackedUp(p) == proc[p].html = before.html /\ proc[p].receipt = before.receipt

\* A rollback of which a step failed: a file is missing, or the new page left.
Loose(p) ==
    /\ target.html \in {before.html, NoHtml, With(p, before).html}
    /\ target.receipt \in {before.receipt, NoFile}
    /\ target.migrated = before.migrated
    /\ proc[p].html \in {before.html, NoHtml}
    /\ proc[p].receipt \in {before.receipt, NoFile}

\* How far a command that runs alone has brought the published files.
Stage(p) ==
    /\ proc[p].pc \in Early =>
          /\ target = before
          /\ proc[p].html = NoHtml /\ proc[p].receipt = NoFile
    /\ proc[p].pc = "backup_receipt" =>
          /\ proc[p].html = before.html /\ proc[p].receipt = NoFile
          /\ target.html = NoHtml /\ target.receipt = before.receipt
          /\ target.migrated = before.migrated
    /\ proc[p].pc = "commit_html" =>
          /\ BackedUp(p)
          /\ target.html = NoHtml /\ target.receipt = NoFile
          /\ target.migrated = before.migrated
    /\ proc[p].pc \in {"commit_receipt", "undo"} =>
          /\ BackedUp(p)
          /\ target.html = With(p, before).html /\ target.receipt = NoFile
          /\ target.migrated = before.migrated
    /\ proc[p].pc \in {"restore_receipt", "restore_html"} =>
          IF proc[p].exit = "failed" THEN Kept(p) ELSE Loose(p)
    /\ proc[p].pc = "restore_html" => proc[p].receipt = NoFile \/ proc[p].exit = "unrestored"
    /\ proc[p].pc = "cleanup" =>
          /\ proc[p].exit = "ok" => target = With(p, before)
          /\ proc[p].exit = "failed" => target = before
          /\ proc[p].exit = "unrestored" => Loose(p)

Alone == ~overlap => \A p, q \in Procs : Running(p) /\ Running(q) => p = q

Tracks == ~overlap => \A p \in Procs : Running(p) => Stage(p)

PairOf(t) == t.html.by = "compare" /\ t.receipt # NoFile => t.receipt = t.html.of

Restorable == \A p \in Procs : proc[p].exit # "unrestored"

Paired == ~overlap /\ Restorable => PairOf(before) /\ PairOf(target)

Commands ==
    /\ PublishTypeOK
    /\ \A p \in Procs : Fits(p)
    /\ Alone
    /\ Tracks
    /\ Paired

-----------------------------------------------------------------------------
(* What a step of one command has to keep. *)

Moves(p) ==
    /\ proc' \in [Procs -> Command]
    /\ \A q \in Procs \ {p} : proc'[q] = proc[q]
    /\ proc[p].exit = "unrestored" => proc'[p].exit = "unrestored"
    /\ UNCHANGED <<base, edits, overlap, before>>

LEMMA SameFiles ==
    ASSUME NEW t \in Targets, NEW u \in Targets,
           t.html = u.html, t.receipt = u.receipt, t.migrated = u.migrated
    PROVE  t = u
    BY DEF Targets

LEMMA HtmlFacts == NoHtml \in Html /\ NoHtml.by # "compare"
    BY DEF Html, NoHtml

\* While a command has not ended, a page and a receipt that stand together are
\* the previous pair or the new one.
LEMMA StagePaired ==
    ASSUME NEW p \in Procs, PublishTypeOK, Running(p), Fits(p), Stage(p),
           proc[p].exit # "unrestored", PairOf(before)
    PROVE  PairOf(target)
<1>1. proc[p] \in Command /\ target \in Targets /\ before \in Targets
    BY DEF PublishTypeOK
<1>2. CASE proc[p].pc \in Early
    BY <1>2 DEF Stage
<1>3. CASE proc[p].pc \in {"backup_receipt", "commit_html"}
    BY <1>3, HtmlFacts DEF Stage, PairOf
<1>4. CASE proc[p].pc \in {"commit_receipt", "undo"}
    BY <1>4 DEF Stage, PairOf
<1>5. CASE proc[p].pc \in {"restore_receipt", "restore_html"}
  <2>1. Kept(p)
      BY <1>5 DEF Stage, Fits
  <2> QED BY <2>1, HtmlFacts DEF Kept, PairOf
<1>6. CASE proc[p].pc = "cleanup"
  <2>1. target = before \/ target = With(p, before)
      BY <1>6 DEF Stage, Fits
  <2>2. PairOf(With(p, before))
      BY <1>1 DEF With, PairOf, Targets, Command, Kinds
  <2> QED BY <2>1, <2>2
<1> QED BY <1>1, <1>2, <1>3, <1>4, <1>5, <1>6 DEF Running, Command, Steps, Early

StagesPaired ==
    PublishTypeOK /\ PairOf(before) =>
        \A p \in Procs : Running(p) /\ Fits(p) /\ Stage(p) /\ proc[p].exit # "unrestored"
            => PairOf(target)

LEMMA StagesPairedNext == StagesPaired'
<1>1. StagesPaired
    BY StagePaired DEF StagesPaired
<1> QED BY <1>1, PTL

LEMMA StepKeeps ==
    ASSUME Commands, NEW p \in Procs, Moves(p), Running(p),
           target' \in Targets, faults' \in 0 .. MaxFaults, Fits(p)',
           ~overlap /\ Stage(p) /\ Running(p)' => Stage(p)',
           Running(p)' \/ target' = target
    PROVE  Commands'
<1>1. PublishTypeOK'
    BY DEF Commands, PublishTypeOK, Moves
<1>2. ASSUME NEW q \in Procs, q # p PROVE /\ Fits(q)' /\ (Running(q)' <=> Running(q))
                                        /\ proc'[q] = proc[q]
    BY <1>2 DEF Commands, Fits, Accepted, Moves, Running
<1>3. \A q \in Procs : Fits(q)'
    BY <1>2
<1>4. Alone'
    BY <1>2 DEF Commands, Alone, Moves
<1>5. ~overlap => Stage(p)
    BY DEF Commands, Tracks
<1>6. Tracks'
    BY <1>2, <1>5 DEF Commands, Alone, Tracks, Moves
<1>7. Paired'
  <2> SUFFICES ASSUME ~overlap', Restorable' PROVE PairOf(before)' /\ PairOf(target)'
      BY DEF Paired
  <2>1. proc'[p].exit # "unrestored" /\ Restorable
      BY <1>2 DEF Restorable, Moves
  <2>2. PairOf(before) /\ PairOf(target) /\ before' = before
      BY <2>1 DEF Commands, Paired, Moves
  <2>3. CASE Running(p)'
    <3>1. Stage(p)'
        BY <1>5, <2>3 DEF Moves
    <3>2. PairOf(before)'
        BY <2>2 DEF PairOf
    <3> QED BY <1>1, <2>1, <2>3, <3>1, <3>2, StagesPairedNext DEF StagesPaired
  <2>4. CASE target' = target
      BY <2>2, <2>4 DEF PairOf
  <2> QED BY <2>3, <2>4
<1> QED BY <1>1, <1>3, <1>4, <1>6, <1>7 DEF Commands

-----------------------------------------------------------------------------
(* The steps of a command. *)

LEMMA CommandFacts ==
    ASSUME Commands, NEW p \in Procs
    PROVE  /\ proc \in [Procs -> Command] /\ proc[p] \in Command /\ Fits(p)
           /\ target \in Targets /\ before \in Targets /\ base \in Contents
           /\ faults \in 0 .. MaxFaults /\ MaxFaults \in Nat
    BY PublishAssumption DEF Commands, PublishTypeOK

\* The steps that end before anything is published.
LEMMA ReadKeeps ==
    ASSUME Commands, NEW p \in Procs,
           ReadToDeliver(p) \/ ReadToMigrate(p) \/ ReadToCompare(p)
    PROVE  Commands'
<1>1. /\ Moves(p) /\ Running(p) /\ proc[p].pc = "read"
      /\ proc'[p].pc \in {"render", "raw"} /\ proc'[p].kind = proc[p].kind
      /\ proc'[p].pc = "raw" => proc[p].kind = "compare"
      /\ proc'[p].html = proc[p].html /\ proc'[p].receipt = proc[p].receipt
      /\ proc'[p].exit = proc[p].exit
      /\ target' = target /\ faults' = faults /\ before' = before
    BY CommandFacts DEF ReadToDeliver, ReadToMigrate, ReadToCompare, At, Moves, Private,
                        Running, Command, Steps
<1>2. Fits(p)'
    BY <1>1, CommandFacts DEF Fits, Pairing, Checked, Early
<1>3. Stage(p) => Stage(p)'
    BY <1>1 DEF Stage, Early
<1> QED BY <1>1, <1>2, <1>3, CommandFacts, StepKeeps

LEMMA FailKeeps ==
    ASSUME Commands, NEW p \in Procs, Fail(p), Private, faults' \in 0 .. MaxFaults,
           proc[p].pc \in Early
    PROVE  Commands'
<1>1. /\ Moves(p) /\ Running(p)
      /\ proc'[p].pc = "cleanup" /\ proc'[p].exit = "failed"
      /\ target' = target /\ before' = before
    BY CommandFacts DEF Fail, Moves, Private, Running, Command, Steps, Early, Fits
<1>2. Fits(p)'
    BY <1>1 DEF Fits, Pairing, Checked, Early
<1>3. Stage(p) => Stage(p)'
    BY <1>1 DEF Stage, Early
<1> QED BY <1>1, <1>2, <1>3, CommandFacts, StepKeeps

\* A step that only goes on to the next place.
LEMMA GotoKeeps ==
    ASSUME Commands, NEW p \in Procs, NEW pc \in Early, Goto(p, pc), Private,
           faults' = faults, proc[p].pc \in Early, Fits(p)'
    PROVE  Commands'
<1>1. /\ Moves(p) /\ Running(p)
      /\ proc'[p] = [proc[p] EXCEPT !.pc = pc]
      /\ target' = target /\ before' = before
    BY CommandFacts DEF Goto, Moves, Private, Running, Command, Steps, Early
<1>2. Stage(p) => Stage(p)'
    BY <1>1, CommandFacts DEF Stage, Early, Command
<1> QED BY <1>1, <1>2, CommandFacts, StepKeeps

LEMMA RenderKeeps ==
    ASSUME Commands, NEW p \in Procs,
           RawValidation(p) \/ RenderDelivery(p) \/ RenderComparison(p) \/ RenderMigration(p)
              \/ Recheck(p)
    PROVE  Commands'
<1>1. /\ proc[p].pc \in {"raw", "render", "recheck"} /\ Private /\ faults' = faults
      /\ Fail(p) \/ \E pc \in Early : Goto(p, pc)
    BY DEF RawValidation, RenderDelivery, RenderComparison, RenderMigration, RenderFor,
           Recheck, At, Early
<1>2. CASE Fail(p)
    BY <1>1, <1>2, FailKeeps, CommandFacts DEF Early
<1>3. CASE ~Fail(p)
  <2>1. PICK pc \in Early : Goto(p, pc)
      BY <1>1, <1>3
  <2>2. /\ proc'[p] = [proc[p] EXCEPT !.pc = pc]
        /\ proc[p].pc = "raw" => pc = "render"
        /\ proc[p].pc = "render" =>
              Accepted(p) /\ <<proc[p].kind, pc>> \in {<<"deliver", "commit">>,
                                <<"compare", "backup_html">>, <<"migrate", "recheck">>}
        /\ proc[p].pc = "recheck" => pc = "commit"
      BY <1>1, <1>3, <2>1, CommandFacts DEF RawValidation, RenderDelivery, RenderComparison,
             RenderMigration, RenderFor, Recheck, At, Goto, Command
  <2>3. Fits(p)'
      BY <1>1, <2>2, CommandFacts DEF Fits, Pairing, Checked, Early, Accepted, Command
  <2> QED BY <1>1, <2>1, <2>3, GotoKeeps DEF Early
<1> QED BY <1>2, <1>3

LEMMA StepFailsKeeps == ASSUME Commands, NEW p \in Procs, StepFails(p) PROVE Commands'
<1>1. faults' \in 0 .. MaxFaults
    BY CommandFacts DEF StepFails, Fault
<1> QED BY <1>1, FailKeeps DEF StepFails, Early

\* A step that changes the published files.
LEMMA CommitKeeps ==
    ASSUME Commands, NEW p \in Procs, CommitDelivery(p) \/ CommitMigration(p)
    PROVE  Commands'
<1>1. /\ Moves(p) /\ Running(p) /\ proc[p].pc = "commit"
      /\ proc[p].kind \in {"deliver", "migrate"} /\ Accepted(p)
      /\ target' = With(p, target) /\ before' = before /\ faults' = faults
      /\ proc'[p] = [proc[p] EXCEPT !.pc = "cleanup", !.exit = "ok"]
    BY CommandFacts DEF CommitDelivery, CommitMigration, At, Moves, Publishes, Running, Command,
                        Steps, Early, Fits, Checked
<1>2. target' \in Targets
    BY <1>1, CommandFacts DEF With, Targets, Html, Accepted, Command
<1>3. Fits(p)'
    BY <1>1, CommandFacts DEF Fits, Pairing, Checked, Early, Command
<1>4. Stage(p) => Stage(p)'
  <2>1. With(p, before)' = With(p, before)
      BY <1>1, CommandFacts DEF With, Command
  <2> QED BY <1>1, <2>1, CommandFacts DEF Stage, Early, Command
<1> QED BY <1>1, <1>2, <1>3, <1>4, CommandFacts, StepKeeps DEF Running, Command

\* What compare publishes is a page.
LEMMA AcceptedPage ==
    ASSUME NEW p \in Procs, Accepted(p), proc[p].kind = "compare"
    PROVE  /\ proc[p].buffer \in Good \cup Sloppy
           /\ [by |-> "compare", of |-> proc[p].buffer] \in Html
    BY DEF Accepted, Html

\* What a step of commitComparePair or of its rollback leaves alone.
PairStep(p, pc) ==
    /\ Moves(p) /\ Running(p) /\ proc[p].kind = "compare"
    /\ proc'[p].pc = pc /\ proc'[p].kind = proc[p].kind /\ proc'[p].buffer = proc[p].buffer
    /\ proc'[p].exit = proc[p].exit
    /\ target'.migrated = target.migrated /\ before' = before

\* The new page does not change under way.
LEMMA NewPage ==
    ASSUME Commands, NEW p \in Procs, proc[p].kind = "compare",
           proc'[p].kind = proc[p].kind, proc'[p].buffer = proc[p].buffer, before' = before,
           proc' \in [Procs -> Command]
    PROVE  /\ With(p, before)'.html = With(p, before).html
           /\ With(p, before).html = [by |-> "compare", of |-> proc[p].buffer]
           /\ With(p, target).html = [by |-> "compare", of |-> proc[p].buffer]
           /\ With(p, target).receipt = proc[p].buffer
    BY CommandFacts DEF With, Targets

LEMMA BackupKeeps ==
    ASSUME Commands, NEW p \in Procs, BackupHtml(p) \/ BackupReceipt(p)
    PROVE  Commands'
<1>1. CASE BackupHtml(p)
  <2>1. /\ PairStep(p, "backup_receipt") /\ proc[p].pc = "backup_html"
        /\ proc'[p].html = target.html /\ proc'[p].receipt = proc[p].receipt
        /\ target' \in Targets /\ target'.html = NoHtml /\ target'.receipt = target.receipt
        /\ faults' = faults
      BY <1>1, CommandFacts, HtmlFacts DEF BackupHtml, PairStep, Moves, Publishes, Running,
                        Command, Steps, Targets, Fits, Pairing
  <2>2. Fits(p)'
      BY <2>1, CommandFacts DEF PairStep, Fits, Pairing, Checked, Early, Accepted
  <2>3. Stage(p) => Stage(p)'
      BY <2>1 DEF PairStep, Stage, Early
  <2> QED BY <2>1, <2>2, <2>3, CommandFacts, StepKeeps DEF PairStep, Running
<1>2. CASE BackupReceipt(p)
  <2>1. /\ PairStep(p, "commit_html") /\ proc[p].pc = "backup_receipt"
        /\ proc'[p].html = proc[p].html /\ proc'[p].receipt = target.receipt
        /\ target' \in Targets /\ target'.html = target.html /\ target'.receipt = NoFile
        /\ faults' = faults
      BY <1>2, CommandFacts DEF BackupReceipt, PairStep, Moves, Publishes, Running,
                        Command, Steps, Targets, Fits, Pairing
  <2>2. Fits(p)'
      BY <2>1, CommandFacts DEF PairStep, Fits, Pairing, Checked, Early, Accepted
  <2>3. Stage(p) => Stage(p)'
      BY <2>1 DEF PairStep, Stage, Early, BackedUp
  <2> QED BY <2>1, <2>2, <2>3, CommandFacts, StepKeeps DEF PairStep, Running
<1> QED BY <1>1, <1>2

LEMMA CommitPairKeeps ==
    ASSUME Commands, NEW p \in Procs, CommitHtml(p) \/ CommitReceipt(p)
    PROVE  Commands'
<1>1. CASE CommitHtml(p)
  <2>1. /\ PairStep(p, "commit_receipt") /\ proc[p].pc = "commit_html" /\ Accepted(p)
        /\ proc'[p].html = proc[p].html /\ proc'[p].receipt = proc[p].receipt
        /\ target' = [target EXCEPT !.html = With(p, target).html] /\ faults' = faults
      BY <1>1, CommandFacts DEF CommitHtml, Goto, PairStep, Moves, Publishes, Running,
                        Command, Steps, Targets, Fits, Pairing, Checked
  <2>2. /\ target'.html = With(p, before)'.html /\ target'.receipt = target.receipt
        /\ target' \in Targets
    <3>1. target'.html = With(p, before)'.html /\ target'.html \in Html
        BY <2>1, NewPage, AcceptedPage, CommandFacts DEF PairStep, Moves, Targets
    <3> QED BY <2>1, <3>1, CommandFacts DEF Targets
  <2>3. Fits(p)'
      BY <2>1, CommandFacts DEF PairStep, Fits, Pairing, Checked, Early, Accepted
  <2>4. Stage(p) => Stage(p)'
      BY <2>1, <2>2 DEF PairStep, Stage, Early, BackedUp
  <2> QED BY <2>1, <2>2, <2>3, <2>4, CommandFacts, StepKeeps DEF PairStep, Running
<1>2. CASE CommitReceipt(p)
  <2>1. /\ Moves(p) /\ Running(p) /\ proc[p].pc = "commit_receipt" /\ Accepted(p)
        /\ proc[p].kind = "compare"
        /\ proc'[p] = [proc[p] EXCEPT !.pc = "cleanup", !.exit = "ok"]
        /\ target' = [target EXCEPT !.receipt = With(p, target).receipt]
        /\ faults' = faults /\ before' = before
      BY <1>2, CommandFacts DEF CommitReceipt, Moves, Publishes, Running,
                        Command, Steps, Targets, Fits, Pairing, Checked
  <2>2. /\ proc'[p].pc = "cleanup" /\ proc'[p].exit = "ok"
        /\ proc'[p].kind = "compare" /\ proc'[p].buffer = proc[p].buffer
        /\ proc' \in [Procs -> Command]
      BY <2>1, CommandFacts DEF Moves, Command
  <2>3. /\ target'.html = target.html /\ target'.receipt = proc[p].buffer
        /\ target'.migrated = target.migrated /\ target' \in Targets
      BY <2>1, <2>2, NewPage, CommandFacts DEF Targets, Accepted
  <2>4. Fits(p)'
      BY <2>2 DEF Fits, Pairing, Checked, Early
  <2>5. ASSUME Stage(p) PROVE target' = With(p, before)'
    <3>1. /\ With(p, before)' = [before EXCEPT !.html = [by |-> "compare", of |-> proc[p].buffer],
                                              !.receipt = proc[p].buffer]
        BY <2>1, <2>2 DEF With
    <3>2. target.html = [by |-> "compare", of |-> proc[p].buffer]
          /\ target.migrated = before.migrated
        BY <2>1, <2>2, <2>5, NewPage DEF Stage
    <3>3. /\ With(p, before)' \in Targets
          /\ With(p, before)'.html = [by |-> "compare", of |-> proc[p].buffer]
          /\ With(p, before)'.receipt = proc[p].buffer
          /\ With(p, before)'.migrated = before.migrated
        BY <2>1, <3>1, AcceptedPage, CommandFacts DEF Targets
    <3> QED BY <2>3, <3>2, <3>3, SameFiles
  <2>6. Stage(p) => Stage(p)'
      BY <2>2, <2>5 DEF Stage, Early
  <2> QED BY <2>1, <2>2, <2>3, <2>4, <2>6, CommandFacts, StepKeeps DEF Running
<1> QED BY <1>1, <1>2

\* A rename fails: nothing is lost yet, and the rollback starts.
LEMMA PairFailsKeeps == ASSUME Commands, NEW p \in Procs, PairFails(p) PROVE Commands'
<1>1. /\ Moves(p) /\ Running(p) /\ Running(p)'
      /\ proc[p].pc \in {"backup_html", "backup_receipt", "commit_html", "commit_receipt"}
      /\ proc[p].kind = "compare"
      /\ proc'[p].kind = proc[p].kind /\ proc'[p].buffer = proc[p].buffer
      /\ proc'[p].html = proc[p].html /\ proc'[p].receipt = proc[p].receipt
      /\ proc'[p].exit = "failed"
      /\ proc'[p].pc = IF proc[p].pc = "commit_receipt" THEN "undo" ELSE "restore_receipt"
      /\ target' = target /\ before' = before /\ faults' \in 0 .. MaxFaults
    BY CommandFacts DEF PairFails, Fault, Private, Moves, Running, Command, Steps, Fits, Pairing,
                        Early
<1>2. Fits(p)'
    BY <1>1 DEF Fits, Pairing, Checked, Early
<1>3. Stage(p) => Stage(p)'
  <2>1. With(p, before)'.html = With(p, before).html
      BY <1>1, NewPage DEF Moves
  <2> QED BY <1>1, <2>1 DEF Stage, Early, BackedUp, Kept
<1> QED BY <1>1, <1>2, <1>3, CommandFacts, StepKeeps

LEMMA RollbackFits ==
    ASSUME Commands, NEW p \in Procs, Moves(p), proc[p].kind = "compare",
           proc'[p].kind = proc[p].kind, proc'[p].exit \in {"failed", "unrestored"},
           proc'[p].pc \in {"restore_receipt", "restore_html", "cleanup"}
    PROVE  Fits(p)'
    BY DEF Fits, Pairing, Checked, Early

LEMMA UndoKeeps == ASSUME Commands, NEW p \in Procs, Undo(p) PROVE Commands'
<1>1. /\ PairStep(p, "restore_receipt") /\ proc[p].pc = "undo" /\ proc[p].exit = "failed"
      /\ proc'[p].html = proc[p].html /\ proc'[p].receipt = proc[p].receipt
      /\ target' \in Targets /\ target'.html = NoHtml /\ target'.receipt = target.receipt
      /\ faults' = faults
    BY CommandFacts, HtmlFacts DEF Undo, Goto, PairStep, Moves, Publishes, Running, Command,
                                   Steps, Targets, Fits, Pairing
<1>2. Fits(p)'
    BY <1>1, RollbackFits DEF PairStep
<1>3. Stage(p) => Stage(p)'
    BY <1>1 DEF PairStep, Stage, Early, BackedUp, Kept
<1> QED BY <1>1, <1>2, <1>3, CommandFacts, StepKeeps DEF PairStep, Running

LEMMA RestoreReceiptKeeps ==
    ASSUME Commands, NEW p \in Procs, RestoreReceipt(p) PROVE Commands'
<1>1. /\ PairStep(p, "restore_html") /\ proc[p].pc = "restore_receipt"
      /\ proc[p].exit \in {"failed", "unrestored"}
      /\ proc'[p].html = proc[p].html /\ proc'[p].receipt = NoFile
      /\ target' \in Targets /\ target'.html = target.html
      /\ target'.receipt = IF proc[p].receipt = NoFile THEN target.receipt ELSE proc[p].receipt
      /\ faults' = faults
    BY CommandFacts DEF RestoreReceipt, PairStep, Moves, Publishes, Running, Command,
                        Steps, Targets, Fits, Pairing
<1>2. Fits(p)'
    BY <1>1, RollbackFits DEF PairStep
<1>3. Stage(p) => Stage(p)'
  <2>1. With(p, before)'.html = With(p, before).html
      BY <1>1, NewPage DEF PairStep, Moves
  <2>2. CASE proc[p].exit = "failed"
      BY <1>1, <2>2 DEF PairStep, Stage, Early, Kept
  <2>3. CASE proc[p].exit = "unrestored"
      BY <1>1, <2>1, <2>3 DEF PairStep, Stage, Early, Loose
  <2> QED BY <1>1, <2>2, <2>3
<1> QED BY <1>1, <1>2, <1>3, CommandFacts, StepKeeps DEF PairStep, Running

LEMMA RestoreHtmlKeeps ==
    ASSUME Commands, NEW p \in Procs, RestoreHtml(p) PROVE Commands'
<1>1. /\ PairStep(p, "cleanup") /\ proc[p].pc = "restore_html"
      /\ proc[p].exit \in {"failed", "unrestored"}
      /\ proc'[p].html = NoHtml /\ proc'[p].receipt = proc[p].receipt
      /\ target' \in Targets /\ target'.receipt = target.receipt
      /\ target'.html = IF proc[p].html = NoHtml THEN target.html ELSE proc[p].html
      /\ faults' = faults
    BY CommandFacts, HtmlFacts DEF RestoreHtml, PairStep, Moves, Publishes, Running, Command,
                        Steps, Targets, Fits, Pairing
<1>2. Fits(p)'
    BY <1>1, RollbackFits DEF PairStep
<1>3. Stage(p) => Stage(p)'
  <2>1. With(p, before)'.html = With(p, before).html
      BY <1>1, NewPage DEF PairStep, Moves
  <2>2. ASSUME proc[p].exit = "failed", Stage(p) PROVE target' = before
    <3>1. Kept(p) /\ proc[p].receipt = NoFile
        BY <1>1, <2>2 DEF Stage
    <3>2. target'.html = before.html /\ target'.receipt = before.receipt
          /\ target'.migrated = before.migrated
        BY <1>1, <3>1 DEF Kept, PairStep
    <3> QED BY <1>1, <3>2, CommandFacts, SameFiles
  <2>3. CASE proc[p].exit = "failed"
      BY <1>1, <2>2, <2>3 DEF PairStep, Stage, Early
  <2>4. CASE proc[p].exit = "unrestored"
      BY <1>1, <2>1, <2>4 DEF PairStep, Stage, Early, Loose
  <2> QED BY <1>1, <2>3, <2>4
<1> QED BY <1>1, <1>2, <1>3, CommandFacts, StepKeeps DEF PairStep, Running

LEMMA RollbackFailsKeeps ==
    ASSUME Commands, NEW p \in Procs, RollbackFails(p) PROVE Commands'
<1>1. /\ Moves(p) /\ Running(p) /\ Running(p)'
      /\ proc[p].pc \in {"undo", "restore_receipt", "restore_html"}
      /\ proc[p].kind = "compare" /\ proc[p].exit \in {"failed", "unrestored"}
      /\ proc'[p].kind = proc[p].kind /\ proc'[p].buffer = proc[p].buffer
      /\ proc'[p].html = proc[p].html /\ proc'[p].receipt = proc[p].receipt
      /\ proc'[p].exit = "unrestored"
      /\ proc'[p].pc \in {"restore_receipt", "restore_html", "cleanup"}
      /\ before' = before /\ faults' \in 0 .. MaxFaults
    BY CommandFacts DEF RollbackFails, Fault, Moves, Running, Command, Steps, Fits, Pairing
<1>2. /\ target' \in Targets /\ target'.migrated = target.migrated
      /\ target'.html \in {target.html, NoHtml} /\ target'.receipt \in {target.receipt, NoFile}
    BY CommandFacts, HtmlFacts DEF RollbackFails, Targets
<1>3. Fits(p)'
    BY <1>1, RollbackFits
<1>4. Stage(p) => Stage(p)'
  <2>1. With(p, before)'.html = With(p, before).html
      BY <1>1, NewPage DEF Moves
  <2>2. Stage(p) => Loose(p)
      BY <1>1 DEF Stage, BackedUp, Kept, Loose
  <2>3. Loose(p) => Loose(p)'
      BY <1>1, <1>2, <2>1 DEF Loose
  <2> QED BY <1>1, <2>2, <2>3 DEF Stage, Early
<1> QED BY <1>1, <1>2, <1>3, <1>4, CommandFacts, StepKeeps

\* A command that ends leaves the published files as they are.
LEMMA EndKeeps == ASSUME Commands, NEW p \in Procs, Cleanup(p) \/ Kill(p) PROVE Commands'
<1>1. /\ Moves(p) /\ Running(p) /\ proc'[p].pc = "ended" /\ target' = target
      /\ faults' \in 0 .. MaxFaults
    BY CommandFacts, HtmlFacts DEF Cleanup, Kill, Fault, Private, Moves, Running, Command, Steps
<1>2. Fits(p)' /\ ~Running(p)'
    BY <1>1 DEF Fits, Pairing, Checked, Early, Running
<1> QED BY <1>1, <1>2, CommandFacts, StepKeeps

LEMMA CommandStepKeeps ==
    ASSUME Commands, NEW p \in Procs, CommandStep(p) \/ Kill(p) PROVE Commands'
    BY ReadKeeps, RenderKeeps, StepFailsKeeps, CommitKeeps, BackupKeeps, CommitPairKeeps,
       PairFailsKeeps, UndoKeeps, RestoreReceiptKeeps, RestoreHtmlKeeps, RollbackFailsKeeps,
       EndKeeps, Zenon DEF CommandStep

LEMMA StartKeeps ==
    ASSUME Commands, NEW p \in Procs, NEW kind \in Kinds, Start(p, kind) PROVE Commands'
<1>1. /\ proc' \in [Procs -> Command] /\ proc[p].pc = "idle"
      /\ proc'[p].pc = "read" /\ proc'[p].html = NoHtml /\ proc'[p].receipt = NoFile
      /\ proc'[p].exit = "none" /\ proc[p].exit = "none"
      /\ \A q \in Procs \ {p} : proc'[q] = proc[q]
      /\ overlap' = (overlap \/ \E q \in Procs : Running(q))
      /\ before' = target /\ UNCHANGED <<base, target, edits, faults>>
    BY CommandFacts DEF Start, Command, Steps, Fits
<1>2. PublishTypeOK'
  <2>1. overlap' \in BOOLEAN
      BY <1>1, Zenon DEF Commands, PublishTypeOK
  <2> QED BY <1>1, <2>1 DEF Commands, PublishTypeOK
<1>3. \A q \in Procs : Fits(q)'
  <2>1. Fits(p)'
      BY <1>1 DEF Fits, Pairing, Checked, Early
  <2>2. ASSUME NEW q \in Procs, q # p PROVE Fits(q)'
      BY <1>1, <2>2 DEF Commands, Fits, Accepted
  <2> QED BY <2>1, <2>2
<1>4. ASSUME ~overlap', NEW q \in Procs, Running(q)' PROVE q = p /\ ~overlap
    BY <1>1, <1>4 DEF Running
<1>5. Alone'
    BY <1>4 DEF Alone
<1>6. Tracks'
  <2>1. Stage(p)'
      BY <1>1 DEF Stage, Early
  <2> QED BY <1>4, <2>1 DEF Tracks
<1>7. Paired'
  <2>1. ~overlap' /\ Restorable' => ~overlap /\ Restorable
      BY <1>1 DEF Restorable
  <2> QED BY <1>1, <2>1 DEF Commands, Paired, PairOf
<1> QED BY <1>2, <1>3, <1>5, <1>6, <1>7 DEF Commands

\* Steps of others: an edit of the source, a step of the check.
LEMMA OthersKeep ==
    ASSUME Commands, UNCHANGED <<target, proc, overlap, before>>,
           base' \in Contents, edits' \in 0 .. MaxEdits, faults' \in 0 .. MaxFaults
    PROVE  Commands'
<1>1. PublishTypeOK'
    BY DEF Commands, PublishTypeOK
<1>2. \A p \in Procs : /\ Fits(p)' <=> Fits(p)
                       /\ Stage(p)' <=> Stage(p)
                       /\ Running(p)' <=> Running(p)
    BY DEF Fits, Accepted, Stage, BackedUp, Kept, Loose, With, Running
<1>3. Paired' <=> Paired
    BY DEF Paired, Restorable, PairOf
<1> QED BY <1>1, <1>2, <1>3 DEF Commands, Alone, Tracks

LEMMA PublishKeeps == ASSUME Commands, PublishNext PROVE Commands'
<1>1. CASE \E c \in Contents : EditBase(c)
  <2>1. PICK c \in Contents : EditBase(c)
      BY <1>1
  <2>2. edits' \in 0 .. MaxEdits
      BY <2>1, PublishAssumption DEF EditBase, Commands, PublishTypeOK
  <2> QED BY <2>1, <2>2, OthersKeep, CommandFacts DEF EditBase, Commands, PublishTypeOK
<1>2. CASE \E p \in Procs : \E kind \in Kinds : Start(p, kind)
    BY <1>2, StartKeeps
<1>3. CASE \E p \in Procs : CommandStep(p) \/ Kill(p)
    BY <1>3, CommandStepKeeps
<1> QED BY <1>1, <1>2, <1>3 DEF PublishNext

-----------------------------------------------------------------------------
(* The inductive invariant: the check. *)

Measuring == {"view", "navigating", "shoot", "reread"}

OwnShots == \A v \in 1 .. Views : shots[v] \in {NoHtml, check.seen}

\* While the check measures, its shots are of the page it has read, as long as
\* nobody replaced it; after one replacement the page is another one.
Watches ==
    /\ check.pc = "idle" => check = Idle /\ swaps = 0
    /\ check.pc \notin {"idle", "ended"} => check.seen # NoHtml
    /\ check.pc \notin {"idle", "close", "ended"} => receipt = NoReceipt
    /\ check.pc \in Measuring =>
          /\ swaps = 0 => /\ target.html = check.seen
                          /\ check.page \in {NoHtml, check.seen}
                          /\ OwnShots
          /\ swaps = 1 => target.html # check.seen
    /\ check.pc \in {"sheet", "receipt"} /\ swaps < 2 => OwnShots
    /\ check.pc \in {"idle", "close", "ended"} => SidecarsBelong

CheckTypeOK ==
    /\ check \in Checks
    /\ shots \in [1 .. Views -> Html]
    /\ sheet \in BOOLEAN
    /\ receipt \in Receipts
    /\ swaps \in 0 .. 2

IInv == Commands /\ CheckTypeOK /\ Watches

LEMMA ReceiptFacts == NoReceipt \in Receipts /\ NoReceipt.status # "pass"
    BY DEF Receipts, NoReceipt

LEMMA BelongsWithoutReceipt == ASSUME receipt'.status # "pass" PROVE SidecarsBelong'
    BY DEF SidecarsBelong

\* Nothing but the number of failures changes for the commands.
LEMMA CheckFrame ==
    ASSUME IInv, NoFault \/ VisualFault
    PROVE  Commands' /\ target' = target
<1>1. /\ UNCHANGED <<target, proc, overlap, before, base, edits>>
      /\ faults' \in 0 .. MaxFaults
    BY PublishAssumption DEF NoFault, VisualFault, Fault, publishVars, IInv, Commands, PublishTypeOK
<1> QED BY <1>1, OthersKeep DEF IInv, Commands, PublishTypeOK

-----------------------------------------------------------------------------
(* The steps of the check. *)

LEMMA CheckFacts ==
    ASSUME IInv
    PROVE  /\ check \in Checks /\ target.html \in Html /\ NoHtml \in Html
           /\ 1 \in 1 .. Views /\ Views \in Nat /\ Views # 0
           /\ Idle \in Checks
           /\ \A exit \in {"fail", "skipped", "died", "killed", "pass", "none"} :
                  Ended(exit) \in Checks /\ Ended(exit).pc = "ended"
           /\ NoShots \in [1 .. Views -> Html]
<1>1. check \in Checks /\ target.html \in Html /\ Views \in Nat /\ Views # 0 /\ NoHtml \in Html
    BY HtmlFacts, ViewsAssumption DEF IInv, CheckTypeOK, Commands, PublishTypeOK, Targets
<1>2. 1 \in 1 .. Views
    BY <1>1
<1>3. Idle \in Checks
    BY <1>1, <1>2 DEF Idle, Checks
<1>4. \A exit \in {"fail", "skipped", "died", "killed", "pass", "none"} :
                  Ended(exit) \in Checks /\ Ended(exit).pc = "ended"
    BY <1>3 DEF Ended, Checks
<1> QED BY <1>1, <1>2, <1>3, <1>4 DEF NoShots

\* A check that ends with its sidecars as they are.
LEMMA EndsKeeps ==
    ASSUME IInv, check' \in Checks, check'.pc = "ended", check.pc # "idle", UNCHANGED <<Sidecars, swaps>>
    PROVE  CheckTypeOK' /\ Watches'
<1>1. CheckTypeOK'
    BY DEF IInv, CheckTypeOK, Sidecars
<1>2. SidecarsBelong'
    BY ReceiptFacts DEF IInv, Watches, SidecarsBelong, Sidecars
<1> QED BY <1>1, <1>2 DEF Watches, Measuring

\* An exception before the verdict.
LEMMA ThrowsKeeps ==
    ASSUME IInv, check' \in {Throws, [Throws EXCEPT !.orphan = TRUE],
                             [Throws EXCEPT !.orphan = FALSE]},
           check.pc \in Measuring \cup {"sheet", "receipt"}, UNCHANGED <<Sidecars, swaps>>
    PROVE  CheckTypeOK' /\ Watches'
<1>1. /\ check' \in Checks /\ check'.pc = "give_up" /\ check'.seen = check.seen
  <2>1. Throws \in Checks /\ Throws.pc = "give_up" /\ Throws.seen = check.seen
      BY CheckFacts DEF Throws, Checks
  <2>2. TRUE \in BOOLEAN /\ FALSE \in BOOLEAN
      BY Zenon
  <2> QED BY <2>1, <2>2 DEF Checks
<1>2. CheckTypeOK'
    BY <1>1 DEF IInv, CheckTypeOK, Sidecars
<1> QED BY <1>1, <1>2 DEF IInv, Watches, Sidecars, Measuring

LEMMA BeginKeeps == ASSUME IInv, NoPage \/ Begin \/ NoChrome PROVE CheckTypeOK' /\ Watches'
<1>1. CASE NoPage
  <2>1. check' \in Checks /\ check'.pc = "ended" /\ UNCHANGED <<Sidecars, swaps>>
      BY <1>1, CheckFacts DEF NoPage, Keep
  <2>2. CheckTypeOK'
      BY <2>1 DEF IInv, CheckTypeOK, Sidecars
  <2>3. SidecarsBelong'
      BY <1>1, <2>1 DEF NoPage, IInv, Watches, SidecarsBelong, Sidecars
  <2> QED BY <2>1, <2>2, <2>3 DEF Watches, Measuring
<1>2. CASE Begin
  <2>1. /\ check = Idle /\ swaps = 0 /\ swaps' = 0 /\ target.html # NoHtml
        /\ check' = [Idle EXCEPT !.pc = "view", !.seen = target.html]
        /\ shots' = NoShots /\ sheet' = FALSE /\ receipt' = NoReceipt
      BY <1>2 DEF IInv, Watches, Begin, Began, Keep
  <2>2. target' = target
      BY <1>2, CheckFrame DEF Begin
  <2>3. /\ check' \in Checks /\ check'.pc = "view" /\ check'.seen = target.html
        /\ check'.page = NoHtml
    <3>1. check' \in Checks /\ check'.pc = "view" /\ check'.seen = target.html
          /\ check'.page = Idle.page
        BY <2>1, CheckFacts DEF Checks
    <3> QED BY <3>1 DEF Idle
  <2>4. CheckTypeOK'
    <3>1. sheet' \in BOOLEAN
        BY <2>1, Zenon
    <3> QED BY <2>1, <2>3, <3>1, CheckFacts, ReceiptFacts DEF CheckTypeOK
  <2>5. OwnShots'
      BY <2>1 DEF OwnShots, NoShots
  <2> QED BY <2>1, <2>2, <2>3, <2>4, <2>5 DEF Watches, Measuring
<1>3. CASE NoChrome
  <2>1. /\ check' \in {Ended("skipped"), Ended("fail")} /\ target.html # NoHtml
        /\ receipt' \in {NoReceipt, [status |-> "skipped", of |-> target.html]}
        /\ shots' = NoShots /\ sheet' = FALSE /\ swaps' = swaps
      BY <1>3 DEF NoChrome, Keep
  <2>2. /\ check' \in Checks /\ check'.pc = "ended"
        /\ receipt' \in Receipts /\ receipt'.status # "pass"
      BY <2>1, CheckFacts, ReceiptFacts DEF Receipts
  <2>3. CheckTypeOK'
    <3>1. sheet' \in BOOLEAN
        BY <2>1, Zenon
    <3> QED BY <2>1, <2>2, <3>1, CheckFacts DEF IInv, CheckTypeOK
  <2> QED BY <2>2, <2>3, BelongsWithoutReceipt DEF Watches, Measuring
<1> QED BY <1>1, <1>2, <1>3

\* A step within a viewport that takes no screenshot.
LEMMA InspectKeeps ==
    ASSUME IInv, Navigate \/ Answer \/ LoadEvent PROVE CheckTypeOK' /\ Watches'
<1>1. /\ target' = target /\ UNCHANGED <<Sidecars, swaps>>
      /\ check.pc \in {"view", "navigating"}
    BY CheckFrame DEF Navigate, Answer, LoadEvent, Keep
<1>2. /\ check' \in Checks /\ check'.pc \in {"navigating", "shoot"} /\ check'.seen = check.seen
      /\ check'.page \in {check.page, target.html}
  <2>1. \/ check' = [check EXCEPT !.pc = "navigating"]
        \/ check.pc = "navigating" /\ check' = [check EXCEPT !.loaded = TRUE]
        \/ check.pc = "navigating" /\ check' = [check EXCEPT !.page = target.html, !.answered = TRUE]
        \/ check' = [check EXCEPT !.pc = "shoot", !.answered = FALSE]
        \/ check' = [check EXCEPT !.page = target.html, !.pc = "shoot", !.loaded = FALSE]
      BY DEF Navigate, Answer, LoadEvent
  <2>2. TRUE \in BOOLEAN /\ FALSE \in BOOLEAN
      BY Zenon
  <2>3. CASE check' = [check EXCEPT !.pc = "navigating"]
      BY <2>3, CheckFacts DEF Checks
  <2>8. check \in Checks /\ target.html \in Html
      BY CheckFacts
  <2>9. ASSUME NEW h \in Html, NEW a \in BOOLEAN
        PROVE  [check EXCEPT !.page = h, !.answered = a] \in Checks
      BY <2>8 DEF Checks
  <2>10. ASSUME NEW h \in Html, NEW a \in BOOLEAN
         PROVE  [check EXCEPT !.page = h, !.pc = "shoot", !.loaded = a] \in Checks
      BY <2>8 DEF Checks
  <2>4. CASE check.pc = "navigating" /\ check' = [check EXCEPT !.loaded = TRUE]
      BY <2>2, <2>4, <2>8 DEF Checks
  <2>5. CASE check.pc = "navigating" /\ check' = [check EXCEPT !.page = target.html, !.answered = TRUE]
    <3>1. check' \in Checks
        BY <2>2, <2>5, <2>8, <2>9
    <3> QED BY <2>5, <2>8, <3>1 DEF Checks
  <2>6. CASE check' = [check EXCEPT !.pc = "shoot", !.answered = FALSE]
      BY <2>2, <2>6, <2>8 DEF Checks
  <2>7. CASE check' = [check EXCEPT !.page = target.html, !.pc = "shoot", !.loaded = FALSE]
    <3>1. check' \in Checks
        BY <2>2, <2>7, <2>8, <2>10
    <3> QED BY <2>7, <2>8, <3>1 DEF Checks
  <2> QED BY <2>1, <2>3, <2>4, <2>5, <2>6, <2>7
<1>3. CheckTypeOK'
    BY <1>1, <1>2 DEF IInv, CheckTypeOK, Sidecars
<1> QED BY <1>1, <1>2, <1>3 DEF IInv, Watches, Measuring, OwnShots, Sidecars

LEMMA ShootKeeps == ASSUME IInv, Shoot PROVE CheckTypeOK' /\ Watches'
<1>1. PICK ok \in BOOLEAN :
          check' = [check EXCEPT !.ok = @ /\ ok, !.page = NoHtml,
                              !.pc = IF check.view = Views THEN "reread" ELSE "view",
                              !.view = IF @ = Views THEN @ ELSE @ + 1]
    BY DEF Shoot
<1>2. /\ target' = target /\ check.pc = "shoot" /\ UNCHANGED <<sheet, receipt, swaps>>
      /\ shots' = [shots EXCEPT ![check.view] = check.page]
    BY CheckFrame DEF Shoot, Keep
<1>3. /\ check.view \in 1 .. Views /\ check.page \in Html /\ check.ok \in BOOLEAN
    BY CheckFacts DEF Checks
<1>4. (check.ok /\ ok) \in BOOLEAN
    BY <1>3, Zenon
<1>5. (IF check.view = Views THEN check.view ELSE check.view + 1) \in 1 .. Views
    BY <1>3, CheckFacts
<1>6. /\ check' \in Checks /\ check'.pc \in {"reread", "view"} /\ check'.seen = check.seen
      /\ check'.page = NoHtml
  <2> DEFINE good == check.ok /\ ok
             view == IF check.view = Views THEN check.view ELSE check.view + 1
             pc == IF check.view = Views THEN "reread" ELSE "view"
  <2>1. check' = [check EXCEPT !.ok = good, !.page = NoHtml, !.pc = pc, !.view = view]
      BY <1>1, Zenon
  <2>2. good \in BOOLEAN /\ view \in 1 .. Views /\ pc \in {"reread", "view"}
      BY <1>4, <1>5
  <2> HIDE DEF good, view, pc
  <2>3. PICK g \in BOOLEAN, v \in 1 .. Views, l \in {"reread", "view"} :
            check' = [check EXCEPT !.ok = g, !.page = NoHtml, !.pc = l, !.view = v]
      BY <2>1, <2>2
  <2>4. check \in Checks /\ NoHtml \in Html
      BY CheckFacts
  <2> QED BY <2>3, <2>4 DEF Checks
<1>7. CheckTypeOK'
    BY <1>2, <1>3, <1>6 DEF IInv, CheckTypeOK
<1>8. swaps = 0 => OwnShots'
    BY <1>2, <1>3, <1>6 DEF IInv, Watches, Measuring, OwnShots, CheckTypeOK
<1> QED BY <1>2, <1>6, <1>7, <1>8 DEF IInv, Watches, Measuring

LEMMA FailsKeeps ==
    ASSUME IInv, NavigationError \/ LoadTimeout \/ AnswerTimeout \/ InspectFails \/ WriteFails
    PROVE  CheckTypeOK' /\ Watches'
<1>1. /\ UNCHANGED <<Sidecars, swaps>>
      /\ check.pc \in Measuring \cup {"sheet", "receipt"}
    BY DEF NavigationError, LoadTimeout, AnswerTimeout, InspectFails, WriteFails, Keep, Measuring
<1>2. \/ check' \in {Throws, [Throws EXCEPT !.orphan = TRUE], [Throws EXCEPT !.orphan = FALSE]}
      \/ check' = Ended("died")
  <2>1. check.loaded \in BOOLEAN
      BY DEF IInv, CheckTypeOK, Checks
  <2>2. CASE NavigationError
    <3>1. check' = [Throws EXCEPT !.orphan = ~check.loaded]
        BY <2>2 DEF NavigationError
    <3>2. (~check.loaded) = TRUE \/ (~check.loaded) = FALSE
        BY Zenon
    <3> QED BY <3>1, <3>2
  <2>3. CASE InspectFails
    <3> DEFINE late == check.pc = "navigating" /\ ~check.answered /\ ~check.loaded
    <3>1. check' = [Throws EXCEPT !.orphan = late]
        BY <2>3 DEF InspectFails
    <3>2. late = TRUE \/ late = FALSE
        BY Zenon
    <3> HIDE DEF late
    <3> QED BY <3>1, <3>2
  <2> QED BY <2>2, <2>3 DEF LoadTimeout, AnswerTimeout, WriteFails,
             NavigationError, InspectFails
<1>3. CASE check' = Ended("died")
    BY <1>1, <1>3, EndsKeeps, CheckFacts DEF Measuring
<1> QED BY <1>1, <1>2, <1>3, ThrowsKeeps

\* The page is read again: after one replacement it cannot be the one that was seen.
LEMMA RereadKeeps == ASSUME IInv, Reread PROVE CheckTypeOK' /\ Watches'
<1>1. /\ check.pc = "reread" /\ target' = target /\ UNCHANGED <<Sidecars, swaps>>
    BY CheckFrame DEF Reread, Keep
<1>2. CASE target.html = check.seen
  <2>1. check' = [check EXCEPT !.pc = "sheet"]
      BY <1>2 DEF Reread
  <2>2. check' \in Checks /\ check'.pc = "sheet" /\ check'.seen = check.seen
      BY <2>1, CheckFacts DEF Checks
  <2>3. CheckTypeOK'
      BY <1>1, <2>2 DEF IInv, CheckTypeOK, Sidecars
  <2>4. swaps \in 0 .. 2 /\ swaps # 1
      BY <1>1, <1>2 DEF IInv, CheckTypeOK, Watches, Measuring
  <2>5. swaps < 2 => OwnShots'
      BY <1>1, <2>2, <2>4 DEF IInv, Watches, Measuring, OwnShots, Sidecars
  <2> QED BY <1>1, <2>2, <2>3, <2>5 DEF IInv, Watches, Measuring, Sidecars
<1>3. CASE target.html # check.seen
    BY <1>1, <1>3, ThrowsKeeps DEF Reread, Measuring
<1> QED BY <1>2, <1>3

LEMMA WriteKeeps == ASSUME IInv, WriteSheet \/ WriteReceipt PROVE CheckTypeOK' /\ Watches'
<1>1. CASE WriteSheet
  <2>1. /\ check' = [check EXCEPT !.pc = "receipt"] /\ check.pc = "sheet"
        /\ sheet' = TRUE /\ UNCHANGED <<shots, receipt, swaps>>
      BY <1>1 DEF WriteSheet, Keep
  <2>2. check' \in Checks /\ check'.pc = "receipt" /\ check'.seen = check.seen
      BY <2>1, CheckFacts DEF Checks
  <2>3. CheckTypeOK'
    <3>1. sheet' \in BOOLEAN
        BY <2>1, Zenon
    <3> QED BY <2>1, <2>2, <3>1 DEF IInv, CheckTypeOK
  <2> QED BY <2>1, <2>2, <2>3 DEF IInv, Watches, Measuring, OwnShots
<1>2. CASE WriteReceipt
  <2>1. PICK status \in {"pass", "fail"} :
          /\ receipt' = [status |-> status, of |-> check.seen]
          /\ check' = [check EXCEPT !.pc = "close", !.exit = status]
      BY <1>2 DEF WriteReceipt
  <2>2. check.pc = "receipt" /\ UNCHANGED <<shots, sheet, swaps>>
      BY <1>2 DEF WriteReceipt, Keep
  <2>3. check' \in Checks /\ check'.pc = "close" /\ check'.seen = check.seen
      BY <2>1, CheckFacts DEF Checks
  <2>4. check.seen \in Html \ {NoHtml}
      BY <2>2, CheckFacts DEF IInv, Watches, Checks
  <2>5. receipt' \in Receipts /\ receipt'.of = check.seen
      BY <2>1, <2>4 DEF Receipts
  <2>6. CheckTypeOK'
      BY <2>2, <2>3, <2>5 DEF IInv, CheckTypeOK
  <2>7. SidecarsBelong'
      BY <2>2, <2>5 DEF IInv, Watches, SidecarsBelong, OwnShots
  <2> QED BY <2>3, <2>4, <2>6, <2>7 DEF Watches, Measuring
<1> QED BY <1>1, <1>2

LEMMA GiveUpKeeps == ASSUME IInv, GiveUp \/ FailReceipt PROVE CheckTypeOK' /\ Watches'
<1>1. CASE GiveUp
  <2>1. /\ check' = [check EXCEPT !.pc = "fail_receipt"] /\ check.pc = "give_up"
        /\ shots' = NoShots /\ sheet' = FALSE /\ UNCHANGED <<receipt, swaps>>
      BY <1>1 DEF GiveUp, Keep
  <2>2. check' \in Checks /\ check'.pc = "fail_receipt" /\ check'.seen = check.seen
      BY <2>1, CheckFacts DEF Checks
  <2>3. CheckTypeOK'
    <3>1. sheet' \in BOOLEAN
        BY <2>1, Zenon
    <3> QED BY <2>1, <2>2, <3>1, CheckFacts DEF IInv, CheckTypeOK
  <2> QED BY <2>1, <2>2, <2>3 DEF IInv, Watches, Measuring
<1>2. CASE FailReceipt
  <2>1. /\ check' = [check EXCEPT !.pc = "close", !.exit = "fail"] /\ check.pc = "fail_receipt"
        /\ receipt' \in {receipt, [status |-> "fail", of |-> check.seen]}
        /\ UNCHANGED <<shots, sheet, swaps>>
      BY <1>2 DEF FailReceipt, Keep
  <2>2. check' \in Checks /\ check'.pc = "close" /\ check'.seen = check.seen
      BY <2>1, CheckFacts DEF Checks
  <2>3. check.seen \in Html \ {NoHtml} /\ receipt = NoReceipt
      BY <2>1, CheckFacts DEF IInv, Watches, Checks
  <2>4. receipt' \in Receipts /\ receipt'.status # "pass"
      BY <2>1, <2>3, ReceiptFacts DEF Receipts
  <2>5. CheckTypeOK'
      BY <2>1, <2>2, <2>4 DEF IInv, CheckTypeOK
  <2> QED BY <2>2, <2>3, <2>4, <2>5, BelongsWithoutReceipt DEF Watches, Measuring
<1> QED BY <1>1, <1>2

LEMMA CloseKeeps == ASSUME IInv, Close \/ KillCheck PROVE CheckTypeOK' /\ Watches'
<1>1. /\ check.pc # "idle" /\ UNCHANGED <<Sidecars, swaps>>
      /\ \E exit \in {"died", "killed", check.exit} : check' = Ended(exit)
    BY DEF Close, KillCheck, Keep
<1>2. check.exit \in {"none", "pass", "fail", "skipped", "died", "killed"}
    BY CheckFacts DEF Checks
<1> QED BY <1>1, <1>2, CheckFacts, EndsKeeps

LEMMA VisualKeeps == ASSUME IInv, VisualNext PROVE IInv'
<1>1. CheckTypeOK' /\ Watches'
    BY BeginKeeps, InspectKeeps, ShootKeeps, FailsKeeps, RereadKeeps, WriteKeeps, GiveUpKeeps,
       CloseKeeps, Zenon DEF VisualNext
<1>2. NoFault \/ VisualFault
    BY DEF VisualNext, NoPage, Begin, NoChrome, Navigate, Answer, LoadEvent, NavigationError,
           LoadTimeout, AnswerTimeout, Shoot, InspectFails, Reread, WriteSheet, WriteReceipt,
           WriteFails, GiveUp, FailReceipt, Close, KillCheck
<1> QED BY <1>1, <1>2, CheckFrame DEF IInv

\* The commands replace the page under the check.
LEMMA BesidesKeeps == ASSUME IInv, BesidesNext PROVE IInv'
<1>1. Commands'
    BY PublishKeeps DEF IInv, BesidesNext
<1>2. /\ swaps \in 0 .. 2 /\ UNCHANGED <<check, Sidecars>>
      /\ swaps' = IF check.pc \in {"idle", "ended"} \/ target'.html = target.html \/ swaps = 2
                  THEN swaps ELSE swaps + 1
    BY DEF IInv, CheckTypeOK, BesidesNext
<1>3. swaps' \in 0 .. 2 /\ swaps <= swaps'
    BY <1>2
<1>4. CheckTypeOK'
    BY <1>2, <1>3 DEF IInv, CheckTypeOK, Sidecars
<1>5. OwnShots' <=> OwnShots
    BY <1>2 DEF OwnShots, Sidecars
<1>6. SidecarsBelong => SidecarsBelong'
    BY <1>2, <1>3 DEF SidecarsBelong, Sidecars
<1>7. ASSUME check.pc \in Measuring
      PROVE  /\ swaps' = 0 => target'.html = check.seen /\ swaps = 0
             /\ swaps' = 1 => target'.html # check.seen
    BY <1>2, <1>3, <1>7 DEF IInv, Watches, Measuring
<1>8. Watches'
    BY <1>2, <1>3, <1>5, <1>6, <1>7 DEF IInv, Watches, Sidecars, Measuring
<1> QED BY <1>1, <1>4, <1>8 DEF IInv

LEMMA InitHolds == Init => IInv
<1> SUFFICES ASSUME Init PROVE IInv
    OBVIOUS
<1>1. target \in Targets /\ before = target /\ base \in Contents /\ PairOf(target)
  <2>1. Empty \in Targets /\ Empty.receipt = NoFile
      BY HtmlFacts DEF Empty, Targets
  <2>2. base \in Contents /\ before = target
      BY DEF Init, PublishInit
  <2>3. CASE target = Empty
      BY <2>1, <2>2, <2>3 DEF PairOf
  <2>4. CASE target # Empty
    <3>1. PICK c \in Good \cup Sloppy :
              target = [Empty EXCEPT !.html = [by |-> "compare", of |-> c], !.receipt = c]
        BY <2>4 DEF Init, PublishInit
    <3>2. [by |-> "compare", of |-> c] \in Html
        BY DEF Html
    <3>3. target.html = [by |-> "compare", of |-> c] /\ target.receipt = c
        BY <2>1, <3>1 DEF Targets
    <3>4. target \in Targets
        BY <2>1, <3>1, <3>2 DEF Targets
    <3> QED BY <2>2, <3>3, <3>4 DEF PairOf
  <2> QED BY <2>3, <2>4
<1>2. \A p \in Procs : /\ proc[p].pc = "idle" /\ proc[p].exit = "none"
                       /\ proc[p].html = NoHtml /\ proc[p].receipt = NoFile
    BY DEF Init, PublishInit
<1>3. PublishTypeOK
  <2>1. proc \in [Procs -> Command]
      BY HtmlFacts DEF Init, PublishInit, Command, Kinds, Steps
  <2>2. overlap \in BOOLEAN /\ ~overlap
      BY Zenon DEF Init, PublishInit
  <2>3. edits \in 0 .. MaxEdits /\ faults \in 0 .. MaxFaults
    <3>1. edits = 0 /\ faults = 0
        BY DEF Init, PublishInit
    <3>2. MaxEdits \in Nat /\ MaxFaults \in Nat
        BY PublishAssumption
    <3> QED BY <3>1, <3>2
  <2> QED BY <1>1, <2>1, <2>2, <2>3 DEF PublishTypeOK
<1>4. Commands
    BY <1>1, <1>2, <1>3 DEF Commands, Fits, Pairing, Checked, Early, Alone, Tracks, Running, Paired
<1>5. check = Idle /\ check \in Checks /\ swaps = 0
  <2>1. Idle \in Checks
      BY HtmlFacts, ViewsAssumption DEF Idle, Checks
  <2> QED BY <2>1 DEF Init, VisualInit
<1>6. CheckTypeOK
  <2>1. target.html \in Html /\ NoShots \in [1 .. Views -> Html]
      BY <1>1, HtmlFacts DEF Targets, NoShots
  <2>2. sheet \in BOOLEAN
      BY Zenon DEF Init, VisualInit
  <2>3. receipt \in Receipts /\ shots \in [1 .. Views -> Html]
      BY <2>1, ReceiptFacts DEF Init, VisualInit, Receipts
  <2> QED BY <1>5, <2>2, <2>3 DEF CheckTypeOK
<1>7. SidecarsBelong
  <2>1. CASE receipt = NoReceipt
      BY <2>1, ReceiptFacts DEF SidecarsBelong
  <2>2. CASE receipt # NoReceipt
    <3>1. shots = [v \in 1 .. Views |-> target.html] /\ receipt.of = target.html
        BY <2>2 DEF Init, VisualInit
    <3> QED BY <3>1 DEF SidecarsBelong
  <2> QED BY <2>1, <2>2
<1>8. Watches
    BY <1>5, <1>7 DEF Watches, Idle, Measuring
<1> QED BY <1>4, <1>6, <1>8 DEF IInv

\* The invariant holds whatever the commands, the check, the editor, Chrome and
\* the file system do.
THEOREM Invariance == Spec => []IInv
<1>1. ASSUME IInv, [Next]_vars PROVE IInv'
  <2>1. CASE UNCHANGED vars
    <3>1. Commands' /\ target' = target
        BY <1>1, <2>1, CheckFrame DEF vars, NoFault
    <3>2. UNCHANGED <<check, shots, sheet, receipt, swaps>>
        BY <2>1 DEF vars, visualVars
    <3>3. CheckTypeOK'
        BY <1>1, <3>2 DEF IInv, CheckTypeOK
    <3>4. Watches'
        BY <1>1, <3>1, <3>2 DEF IInv, Watches, OwnShots, SidecarsBelong
    <3> QED BY <3>1, <3>3, <3>4 DEF IInv
  <2> QED BY <1>1, <2>1, VisualKeeps, BesidesKeeps DEF Next
<1> QED BY InitHolds, <1>1, PTL DEF Spec

\* Type correctness of the commands and of the check.
THEOREM Types == Spec => []TypeOK
<1>1. IInv => TypeOK
    BY DEF IInv, Commands, CheckTypeOK, TypeOK
<1> QED BY <1>1, Invariance, PTL

\* A comparison page and a receipt that stand together are a pair (commitComparePair),
\* at every step, also after a kill.
THEOREM PairsConsistent == Spec => []PairConsistent
<1>1. IInv => PairConsistent
    BY DEF IInv, Commands, Paired, Restorable, PairOf, PairConsistent
<1> QED BY <1>1, Invariance, PTL

\* Beside a receipt that says pass stand only shots of the page it names
\* (runVisualCheck).
THEOREM ShotsBelong == Spec => []SidecarsBelong
<1>1. IInv => SidecarsBelong
    BY ReceiptFacts DEF IInv, Watches, SidecarsBelong, CheckTypeOK, Checks
<1> QED BY <1>1, Invariance, PTL

-----------------------------------------------------------------------------
(* How a command ends. *)

\* The files a command that ran alone leaves, by the exit it ended with.
Leaves(p, exit) ==
    /\ exit = "ok" => target = With(p, before)
    /\ exit = "failed" => target = before
    /\ exit = "unrestored" => Loose(p)
    /\ exit = "killed" =>
          /\ KeptOrStaged(p, "html", NoHtml)
          /\ KeptOrStaged(p, "receipt", NoFile)
          /\ target.migrated \in {before.migrated, With(p, before).migrated}

LEMMA KillLeaves ==
    ASSUME PublishTypeOK, NEW p \in Procs, Running(p), Fits(p), Stage(p),
           proc[p].exit # "unrestored"
    PROVE  Leaves(p, "killed")
<1>1. proc[p] \in Command /\ target \in Targets /\ before \in Targets
    BY DEF PublishTypeOK
<1>2. SUFFICES /\ \/ target.html \in {before.html, With(p, before).html}
                  \/ target.html = NoHtml /\ proc[p].html = before.html
               /\ \/ target.receipt \in {before.receipt, With(p, before).receipt}
                  \/ target.receipt = NoFile /\ proc[p].receipt = before.receipt
               /\ target.migrated \in {before.migrated, With(p, before).migrated}
    BY DEF Leaves, KeptOrStaged
<1>3. CASE proc[p].pc \in Early
    BY <1>3 DEF Stage
<1>4. CASE proc[p].pc \in {"backup_receipt", "commit_html", "commit_receipt", "undo"}
    BY <1>4 DEF Stage, BackedUp
<1>5. CASE proc[p].pc \in {"restore_receipt", "restore_html"}
  <2>1. Kept(p)
      BY <1>5 DEF Stage, Fits
  <2> QED BY <2>1 DEF Kept
<1>6. CASE proc[p].pc = "cleanup"
  <2>1. target = before \/ target = With(p, before)
      BY <1>6 DEF Stage, Fits
  <2> QED BY <2>1
<1> QED BY <1>1, <1>3, <1>4, <1>5, <1>6 DEF Running, Command, Steps, Early

LEMMA EndLeaves ==
    ASSUME Commands, ~overlap, NEW p \in Procs, Running(p), Cleanup(p) \/ Kill(p)
    PROVE  Leaves(p, proc'[p].exit)
<1>1. PublishTypeOK /\ Fits(p) /\ Stage(p)
    BY DEF Commands, Tracks
<1>2. proc[p] \in Command
    BY <1>1 DEF PublishTypeOK
<1>3. CASE Cleanup(p)
  <2>1. proc[p].pc = "cleanup" /\ proc'[p].exit = proc[p].exit
      BY <1>1, <1>3 DEF Cleanup, PublishTypeOK
  <2> QED BY <1>1, <2>1 DEF Fits, Stage, Leaves
<1>4. CASE Kill(p)
  <2>1. CASE proc[p].exit = "unrestored"
    <3>1. proc'[p].exit = "unrestored"
        BY <1>1, <1>4, <2>1 DEF Kill, PublishTypeOK
    <3>2. proc[p].pc \in {"restore_receipt", "restore_html", "cleanup"}
        BY <1>1, <1>2, <2>1 DEF Fits, Running, Command, Steps, Early
    <3>3. Loose(p)
        BY <1>1, <2>1, <3>2 DEF Stage
    <3> QED BY <3>1, <3>3 DEF Leaves
  <2>2. CASE proc[p].exit # "unrestored"
    <3>1. proc'[p].exit = "killed"
        BY <1>1, <1>4, <2>2 DEF Kill, PublishTypeOK
    <3> QED BY <1>1, <2>2, <3>1, KillLeaves
  <2> QED BY <2>1, <2>2
<1> QED BY <1>3, <1>4

\* Only its last step and a kill end a command.
LEMMA OnlyThese ==
    ASSUME Commands, NEW p \in Procs, CommandStep(p) \/ Kill(p), proc'[p].pc = "ended"
    PROVE  Cleanup(p) \/ Kill(p)
<1>1. proc[p] \in Command /\ proc \in [Procs -> Command]
    BY DEF Commands, PublishTypeOK
<1>2. ~(ReadToDeliver(p) \/ ReadToMigrate(p) \/ ReadToCompare(p) \/ RawValidation(p))
    BY <1>1 DEF Command, ReadToDeliver, ReadToMigrate, ReadToCompare, RawValidation, Fail, Goto
<1>3. ~(RenderDelivery(p) \/ RenderComparison(p) \/ RenderMigration(p) \/ Recheck(p))
    BY <1>1 DEF Command, RenderDelivery, RenderComparison, RenderMigration, RenderFor, Recheck, Fail, Goto
<1>4. ~(CommitDelivery(p) \/ CommitMigration(p) \/ BackupHtml(p) \/ BackupReceipt(p))
    BY <1>1 DEF Command, CommitDelivery, CommitMigration, BackupHtml, BackupReceipt
<1>5. ~(CommitHtml(p) \/ CommitReceipt(p) \/ PairFails(p))
    BY <1>1 DEF Command, CommitHtml, CommitReceipt, PairFails, Goto
<1>6. ~(Undo(p) \/ RestoreReceipt(p) \/ RestoreHtml(p))
    BY <1>1 DEF Command, Undo, RestoreReceipt, RestoreHtml, Goto
<1>7. ~(RollbackFails(p) \/ StepFails(p))
    BY <1>1 DEF Command, RollbackFails, StepFails, Fail
<1> QED BY <1>2, <1>3, <1>4, <1>5, <1>6, <1>7 DEF CommandStep

LEMMA OwnRecord ==
    ASSUME Commands, NEW q \in Procs, CommandStep(q) \/ Kill(q), NEW p \in Procs, p # q
    PROVE  proc'[p] = proc[p]
<1>1. proc \in [Procs -> Command]
    BY DEF Commands, PublishTypeOK
<1>2. CASE ReadToDeliver(q) \/ ReadToMigrate(q) \/ ReadToCompare(q) \/ RawValidation(q)
    BY <1>1, <1>2 DEF ReadToDeliver, ReadToMigrate, ReadToCompare, RawValidation, Fail, Goto
<1>3. CASE RenderDelivery(q) \/ RenderComparison(q) \/ RenderMigration(q) \/ Recheck(q)
    BY <1>1, <1>3 DEF RenderDelivery, RenderComparison, RenderMigration, RenderFor, Recheck,
                      Fail, Goto
<1>4. CASE CommitDelivery(q) \/ CommitMigration(q) \/ BackupHtml(q) \/ BackupReceipt(q)
    BY <1>1, <1>4 DEF CommitDelivery, CommitMigration, BackupHtml, BackupReceipt
<1>5. CASE CommitHtml(q) \/ CommitReceipt(q) \/ PairFails(q)
    BY <1>1, <1>5 DEF CommitHtml, CommitReceipt, PairFails, Goto
<1>6. CASE Undo(q) \/ RestoreReceipt(q) \/ RestoreHtml(q)
    BY <1>1, <1>6 DEF Undo, RestoreReceipt, RestoreHtml, Goto
<1>7. CASE RollbackFails(q) \/ StepFails(q)
    BY <1>1, <1>7 DEF RollbackFails, StepFails, Fail
<1>8. CASE Cleanup(q) \/ Kill(q)
    BY <1>1, <1>8 DEF Cleanup, Kill
<1> QED BY <1>2, <1>3, <1>4, <1>5, <1>6, <1>7, <1>8 DEF CommandStep

\* A command ends by a step of its own.
LEMMA EndsBySelf ==
    ASSUME IInv, [Next]_vars, NEW p \in Procs, Running(p), proc'[p].pc = "ended"
    PROVE  Cleanup(p) \/ Kill(p)
<1>1. proc \in [Procs -> Command] /\ Commands /\ proc[p].pc # "ended"
    BY DEF IInv, Commands, PublishTypeOK, Running
<1>2. ~UNCHANGED proc
    BY <1>1
<1>3. ~VisualNext
    BY <1>2 DEF VisualNext, NoPage, Begin, NoChrome, Navigate, Answer, LoadEvent,
                NavigationError, LoadTimeout, AnswerTimeout, Shoot, InspectFails, Reread,
                WriteSheet, WriteReceipt, WriteFails, GiveUp, FailReceipt, Close, KillCheck,
                NoFault, VisualFault, publishVars
<1>4. PublishNext
    BY <1>2, <1>3 DEF Next, BesidesNext, vars, publishVars
<1>5. PICK q \in Procs : (\E kind \in Kinds : Start(q, kind)) \/ CommandStep(q) \/ Kill(q)
    BY <1>2, <1>4 DEF PublishNext, EditBase
<1>6. ~\E kind \in Kinds : Start(q, kind)
    BY <1>1, <1>5 DEF Start, Running
<1>7. p = q
    BY <1>1, <1>5, <1>6, OwnRecord
<1> QED BY <1>1, <1>5, <1>6, <1>7, OnlyThese

\* What a command that ran alone leaves behind, however it ends (commandDeliver,
\* commandCompare, commandMigrate).
THEOREM CommandsEndClean == Spec => EndsClean
<1> DEFINE EndOf ==
    \A p \in Procs :
        Running(p) /\ proc'[p].pc = "ended" /\ ~overlap =>
            /\ proc'[p].exit = "ok" => target = With(p, before)
            /\ proc'[p].exit = "failed" => target = before
            /\ proc'[p].exit = "unrestored" =>
                  /\ target.html \in {before.html, NoHtml, With(p, before).html}
                  /\ target.receipt \in {before.receipt, NoFile}
                  /\ target.migrated = before.migrated
            /\ proc'[p].exit = "killed" =>
                  /\ KeptOrStaged(p, "html", NoHtml)
                  /\ KeptOrStaged(p, "receipt", NoFile)
                  /\ target.migrated \in {before.migrated, With(p, before).migrated}
<1>1. ASSUME IInv, [Next]_vars, NEW p \in Procs,
             Running(p), proc'[p].pc = "ended", ~overlap
      PROVE  Leaves(p, proc'[p].exit)
  <2>1. Commands /\ (Cleanup(p) \/ Kill(p))
      BY <1>1, EndsBySelf DEF IInv
  <2> QED BY <1>1, <2>1, EndLeaves
<1>2. ASSUME IInv, [Next]_vars PROVE EndOf
  <2> SUFFICES ASSUME NEW p \in Procs, Running(p), proc'[p].pc = "ended", ~overlap
               PROVE  Leaves(p, proc'[p].exit)
      BY Zenon DEF Leaves, Loose
  <2> QED BY <1>1, <1>2
<1>3. IInv /\ [Next]_vars => [EndOf]_publishVars
    BY <1>2
<1> QED BY <1>3, Invariance, PTL DEF Spec, EndsClean
=============================================================================
