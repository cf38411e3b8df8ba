---------------------------- MODULE AcceptProofs ----------------------------
(***************************************************************************)
(* Proofs about AcceptTransaction for any number of commands and sources   *)
(* and any bounds.                                                         *)
(***************************************************************************)
EXTENDS AcceptTransaction, TLAPS

-----------------------------------------------------------------------------
(* The inductive invariant. *)

\* Where a command holds the lock, where the journal is its own, where nobody
\* can edit a document before it goes on, and where it only tidies up.
Holding == Labels \ {"idle", "wait"}
Owning == Holding \ {"enter", "prove"}
Writing == {"fwd_ledger", "fwd_manifest", "ledger", "manifest", "undo_ledger",
            "undo_manifest", "undo_journal"}
Cleaning == {"unlink_proposal", "unlink_journal"}

\* What a journal says of itself.
Sound(j) ==
    /\ j \in Journals
    /\ j.after = Applied(j.to, j.before.manifest, j.before.ledger)
    /\ Agree(j.before.manifest, j.before.ledger)
    /\ j.before.manifest.pin[j.to.source] < j.to.rev

JournalSound == journal # NoFile => Sound(journal)

\* The pins and the reviews are those of a pending journal, before or after.
DocumentsFollow ==
    IF journal = NoFile THEN Consistent
    ELSE /\ manifest.pin \in {journal.before.manifest.pin, journal.after.manifest.pin}
         /\ ledger.chain \in {journal.before.ledger.chain, journal.after.ledger.chain}

\* What a command c of process p knows of the files.
Knows(p, c) ==
    /\ c.pc # "idle" => c.head \in Heads
    /\ c.pc \in Holding => lock = p
    /\ c.pc = "prove" => journal = NoFile /\ c.to \in Transitions
    /\ c.pc \in Owning => journal # NoFile /\ journal.to = c.to /\ HeadOf(c.to) = c.head
    /\ c.pc \in Writing =>
          /\ manifest \in {journal.before.manifest, journal.after.manifest}
          /\ ledger \in {journal.before.ledger, journal.after.ledger}
    /\ c.pc \in {"fwd_manifest", "manifest"} => ledger = journal.after.ledger
    /\ c.pc \in {"undo_manifest", "undo_journal", "back_manifest"} =>
          ledger = journal.before.ledger
    /\ c.pc = "undo_journal" => manifest = journal.before.manifest
    /\ c.pc \in Cleaning => Consistent
    /\ c.accepted =>
          /\ c.pc \in Cleaning
          /\ manifest.pin = journal.after.manifest.pin
          /\ ledger.chain = journal.after.ledger.chain

CommandsKnow == \A p \in Procs : Knows(p, proc[p])

\* The reviews that no pending journal can take back.
Settled == IF journal = NoFile THEN ledger.chain ELSE journal.before.ledger.chain

ReportedSettled ==
    \A h \in reported :
        \E i \in 1 .. Len(Settled[h.source]) : Settled[h.source][i] = h.rev

IInv == TypeOK /\ JournalSound /\ DocumentsFollow /\ CommandsKnow /\ ReportedSettled

-----------------------------------------------------------------------------
(* Lemmas about the documents. *)

\* A later revision can be appended to a reviewed chain.
LEMMA ChainGrows ==
    ASSUME NEW c \in Chains, NEW r \in Revs, Tip(c) < r
    PROVE  /\ Append(c, r) \in Chains
           /\ Tip(Append(c, r)) = r
           /\ Len(Append(c, r)) = Len(c) + 1
           /\ \A i \in 1 .. Len(c) : Append(c, r)[i] = c[i]
<1> DEFINE d == Append(c, r)
<1>1. /\ c \in Seq(Revs) /\ Len(c) \in Nat /\ Len(c) > 0 /\ c[1] = 0
      /\ \A i, j \in 1 .. Len(c) : i < j => c[i] < c[j]
    BY DEF Chains
<1>2. /\ d \in Seq(Revs) /\ Len(d) = Len(c) + 1 /\ d[Len(c) + 1] = r
      /\ \A i \in 1 .. Len(c) : d[i] = c[i]
    BY <1>1
<1>3. c[Len(c)] < r
    BY DEF Tip
<1> HIDE DEF d
<1>4. ASSUME NEW i \in 1 .. Len(d), NEW j \in 1 .. Len(d), i < j PROVE d[i] < d[j]
  <2>1. i \in 1 .. Len(c) /\ d[i] = c[i] /\ c[i] \in Revs
      BY <1>1, <1>2, <1>4
  <2>2. CASE j = Len(c) + 1
    <3>1. Len(c) \in 1 .. Len(c) /\ c[Len(c)] \in Revs
        BY <1>1
    <3>2. i = Len(c) \/ c[i] < c[Len(c)]
        BY <1>1, <2>1, <3>1
    <3> QED BY <1>2, <1>3, <2>1, <2>2, <3>1, <3>2 DEF Revs
  <2>3. CASE j # Len(c) + 1
      BY <1>1, <1>2, <1>4, <2>1, <2>3
  <2> QED BY <2>2, <2>3
<1>5. d \in Chains
    BY <1>1, <1>2, <1>4 DEF Chains
<1>6. Tip(d) = r
    BY <1>2 DEF Tip
<1> QED BY <1>2, <1>5, <1>6 DEF d

\* The latest revision of a chain is the greatest.
LEMMA TipIsLast ==
    ASSUME NEW c \in Chains, NEW i \in 1 .. Len(c)
    PROVE  Tip(c) \in Revs /\ c[i] <= Tip(c)
<1>1. /\ c \in Seq(Revs) /\ Len(c) \in Nat /\ Len(c) > 0
      /\ \A k, j \in 1 .. Len(c) : k < j => c[k] < c[j]
    BY DEF Chains
<1>2. c[i] \in Revs /\ c[Len(c)] \in Revs
    BY <1>1
<1> QED BY <1>1, <1>2 DEF Tip, Revs

\* What the reviewed transition makes of documents that agree.
LEMMA AppliedDocuments ==
    ASSUME NEW h \in Transitions, NEW m \in Manifests, NEW l \in Ledgers,
           Agree(m, l), m.pin[h.source] < h.rev
    PROVE  LET a == Applied(h, m, l) IN
           /\ a \in Snapshots
           /\ Agree(a.manifest, a.ledger)
           /\ a.manifest.pin = [m.pin EXCEPT ![h.source] = h.rev]
           /\ a.ledger.chain = [l.chain EXCEPT ![h.source] = Append(@, h.rev)]
           /\ a.manifest.edits = m.edits /\ a.ledger.edits = l.edits
<1> DEFINE a == Applied(h, m, l)
           k == Append(l.chain[h.source], h.rev)
<1>1. /\ h.source \in Sources /\ h.rev \in Revs
      /\ m.pin \in [Sources -> Revs] /\ m.edits \in 0 .. MaxEdits
      /\ l.chain \in [Sources -> Chains] /\ l.edits \in 0 .. MaxEdits
    BY DEF Transitions, Manifests, Ledgers
<1>2. Tip(l.chain[h.source]) = m.pin[h.source]
    BY <1>1 DEF Agree
<1>3. k \in Chains /\ Tip(k) = h.rev
    BY <1>1, <1>2, ChainGrows
<1>4. a = [manifest |-> [m EXCEPT !.pin = [m.pin EXCEPT ![h.source] = h.rev]],
           ledger |-> [l EXCEPT !.chain = [l.chain EXCEPT ![h.source] = k]]]
    BY DEF Applied
<1> HIDE DEF k
<1>5. [m.pin EXCEPT ![h.source] = h.rev] \in [Sources -> Revs]
    BY <1>1
<1>6. [l.chain EXCEPT ![h.source] = k] \in [Sources -> Chains]
    BY <1>1, <1>3
<1>7. /\ a.manifest \in Manifests
      /\ a.manifest.pin = [m.pin EXCEPT ![h.source] = h.rev]
      /\ a.manifest.edits = m.edits
    BY <1>1, <1>4, <1>5 DEF Manifests
<1>8. /\ a.ledger \in Ledgers
      /\ a.ledger.chain = [l.chain EXCEPT ![h.source] = k]
      /\ a.ledger.edits = l.edits
    BY <1>1, <1>4, <1>6 DEF Ledgers
<1>9. a \in Snapshots
    BY <1>4, <1>7, <1>8 DEF Snapshots
<1>10. ASSUME NEW s \in Sources PROVE Tip(a.ledger.chain[s]) = a.manifest.pin[s]
  <2>1. CASE s = h.source
      BY <1>1, <1>3, <1>7, <1>8, <2>1
  <2>2. CASE s # h.source
      BY <1>1, <1>7, <1>8, <2>2 DEF Agree
  <2> QED BY <2>1, <2>2
<1>11. Agree(a.manifest, a.ledger)
    BY <1>10 DEF Agree
<1> QED BY <1>7, <1>8, <1>9, <1>11 DEF k

\* A pending journal restores or completes documents that agree, and different
\* ones.
LEMMA JournalDocuments ==
    ASSUME NEW j, Sound(j)
    PROVE  /\ j.to \in Transitions /\ j.before \in Snapshots /\ j.after \in Snapshots
           /\ Agree(j.before.manifest, j.before.ledger)
           /\ Agree(j.after.manifest, j.after.ledger)
           /\ j.after.manifest.pin = [j.before.manifest.pin EXCEPT ![j.to.source] = j.to.rev]
           /\ j.after.ledger.chain = [j.before.ledger.chain EXCEPT
                                        ![j.to.source] = Append(@, j.to.rev)]
           /\ j.after.manifest.edits = j.before.manifest.edits
           /\ j.after.ledger.edits = j.before.ledger.edits
           /\ j.after.manifest.pin[j.to.source] = j.to.rev
           /\ j.before.manifest.pin[j.to.source] < j.to.rev
<1>1. /\ j.to \in Transitions /\ j.before \in Snapshots
      /\ j.before.manifest \in Manifests /\ j.before.ledger \in Ledgers
      /\ Agree(j.before.manifest, j.before.ledger)
      /\ j.before.manifest.pin[j.to.source] < j.to.rev
      /\ j.after = Applied(j.to, j.before.manifest, j.before.ledger)
    BY DEF Sound, Journals, Snapshots
<1>2. j.to.source \in Sources /\ j.before.manifest.pin \in [Sources -> Revs]
    BY <1>1 DEF Transitions, Manifests
<1> DEFINE h == j.to
           m == j.before.manifest
           l == j.before.ledger
           a == Applied(h, m, l)
<1> HIDE DEF h, m, l
<1>6. h \in Transitions /\ m \in Manifests /\ l \in Ledgers /\ Agree(m, l) /\ m.pin[h.source] < h.rev
    BY <1>1 DEF h, m, l
<1>3. /\ a \in Snapshots
      /\ Agree(a.manifest, a.ledger)
      /\ a.manifest.pin = [m.pin EXCEPT ![h.source] = h.rev]
      /\ a.ledger.chain = [l.chain EXCEPT ![h.source] = Append(@, h.rev)]
      /\ a.manifest.edits = m.edits /\ a.ledger.edits = l.edits
    BY <1>6, AppliedDocuments
<1>4. j.after = a
    BY <1>1 DEF h, m, l
<1> HIDE DEF a
<1>5. a.manifest.pin[h.source] = h.rev
    BY <1>2, <1>3 DEF h, m
<1> QED BY <1>1, <1>3, <1>4, <1>5 DEF h, m, l

\* The reviewed tips tell the two states of a journal apart.
LEMMA MatchingSides ==
    ASSUME NEW j, Sound(j), NEW m \in Manifests, NEW l \in Ledgers, Agree(m, l),
           m.pin \in {j.before.manifest.pin, j.after.manifest.pin},
           l.chain \in {j.before.ledger.chain, j.after.ledger.chain}
    PROVE  \/ m.pin = j.before.manifest.pin /\ l.chain = j.before.ledger.chain
           \/ m.pin = j.after.manifest.pin /\ l.chain = j.after.ledger.chain
<1>1. /\ j.to.source \in Sources
      /\ Tip(j.before.ledger.chain[j.to.source]) = j.before.manifest.pin[j.to.source]
      /\ Tip(j.after.ledger.chain[j.to.source]) = j.after.manifest.pin[j.to.source]
      /\ j.after.manifest.pin[j.to.source] = j.to.rev
      /\ j.before.manifest.pin[j.to.source] < j.to.rev
      /\ j.before.manifest.pin[j.to.source] \in Int /\ j.to.rev \in Int
  <2>1. j.to.source \in Sources /\ j.to.rev \in Revs
      BY JournalDocuments DEF Transitions
  <2>2. j.before.manifest.pin \in [Sources -> Revs]
      BY JournalDocuments DEF Snapshots, Manifests
  <2>3. /\ Agree(j.before.manifest, j.before.ledger)
        /\ Agree(j.after.manifest, j.after.ledger)
        /\ j.after.manifest.pin[j.to.source] = j.to.rev
        /\ j.before.manifest.pin[j.to.source] < j.to.rev
      BY JournalDocuments
  <2> QED BY <2>1, <2>2, <2>3 DEF Agree, Revs
<1>2. Tip(l.chain[j.to.source]) = m.pin[j.to.source]
    BY <1>1 DEF Agree
<1> QED BY <1>1, <1>2

-----------------------------------------------------------------------------
(* Lemmas about one step of one command. *)

\* A step in which only process p moves.
Moves(p) ==
    /\ proc' \in [Procs -> Commands]
    /\ \A q \in Procs \ {p} : proc'[q] = proc[q]

\* Going on to another label, and leaving.
LEMMA GotoMoves ==
    ASSUME NEW p \in Procs, NEW label \in Labels, proc \in [Procs -> Commands],
           Goto(p, label)
    PROVE  /\ Moves(p) /\ proc'[p].pc = label /\ proc'[p].head = proc[p].head
           /\ proc'[p].to = proc[p].to
           /\ proc'[p].accepted = proc[p].accepted
<1>1. proc[p] \in Commands
    OBVIOUS
<1>2. [proc[p] EXCEPT !.pc = label] \in Commands
    BY <1>1 DEF Commands
<1> QED BY <1>1, <1>2 DEF Goto, Moves, Commands

LEMMA ExitMoves ==
    ASSUME NEW p \in Procs, proc \in [Procs -> Commands], Exit(p)
    PROVE  /\ Moves(p) /\ proc'[p] = Idle
           /\ lock = p => lock' = NoFile
           /\ lock # p => lock' = lock
<1>1. Idle \in Commands
    BY DEF Idle, Commands, Labels
<1> QED BY <1>1 DEF Exit, Moves

\* An idle command knows nothing.
LEMMA IdleKnows ==
    ASSUME NEW p \in Procs, proc'[p] = Idle PROVE Knows(p, proc[p])'
    BY DEF Knows, Idle, Holding, Owning, Writing, Cleaning

\* A command that holds the lock is the only one that knows anything of the files.
LEMMA OthersKnow ==
    ASSUME IInv, NEW p \in Procs, Moves(p), Knows(p, proc[p])',
           lock \in {p, NoFile} \/ UNCHANGED <<manifest, ledger, journal, lock>>
    PROVE  CommandsKnow'
<1>1. ASSUME NEW q \in Procs \ {p} PROVE Knows(q, proc[q])'
  <2>1. Knows(q, proc[q]) /\ proc[q] \in Commands /\ proc'[q] = proc[q]
      BY DEF IInv, TypeOK, CommandsKnow, Moves
  <2>2. CASE lock \in {p, NoFile}
    <3>1. proc[q].pc \notin Holding
        BY <2>1, <2>2, NoFileAssumption DEF Knows
    <3>2. proc[q].pc \in {"idle", "wait"} /\ ~proc[q].accepted
          /\ (proc[q].pc # "idle" => proc[q].head \in Heads)
        BY <2>1, <3>1 DEF Holding, Commands, Labels, Knows, Cleaning
    <3> QED BY <2>1, <3>2 DEF Knows, Holding, Owning, Writing, Cleaning
  <2>3. CASE UNCHANGED <<manifest, ledger, journal, lock>>
      BY <2>1, <2>3 DEF Knows, Consistent, Agree
  <2> QED BY <2>2, <2>3
<1> QED BY <1>1 DEF CommandsKnow

\* As long as no file changes, what the files are to each other does not.
LEMMA FilesStay ==
    ASSUME IInv, UNCHANGED <<manifest, ledger, journal, reported>>
    PROVE  JournalSound' /\ DocumentsFollow' /\ ReportedSettled'
    BY DEF IInv, JournalSound, DocumentsFollow, ReportedSettled, Settled, Consistent, Agree

\* A step of one command that changes no file.
LEMMA QuietStep ==
    ASSUME IInv, NEW p \in Procs, Moves(p), Knows(p, proc[p])',
           UNCHANGED <<manifest, ledger, journal, reported, upstream>>,
           lock \in {p, NoFile} \/ lock' = lock, lock' \in Procs \cup {NoFile},
           proposal' \in {proposal, NoFile}, stray' \in BOOLEAN,
           crashes' \in 0 .. MaxCrashes
    PROVE  IInv'
<1>1. TypeOK'
    BY DEF IInv, TypeOK, Moves
<1>2. CommandsKnow'
    BY OthersKnow
<1> QED BY <1>1, <1>2, FilesStay DEF IInv

\* What every command can rely on.
LEMMA CommandFacts ==
    ASSUME IInv, NEW p \in Procs
    PROVE  /\ proc \in [Procs -> Commands] /\ proc[p] \in Commands /\ Knows(p, proc[p])
           /\ lock \in Procs \cup {NoFile} /\ p # NoFile
           /\ stray \in BOOLEAN /\ crashes \in 0 .. MaxCrashes
           /\ manifest \in Manifests /\ ledger \in Ledgers
    BY NoFileAssumption DEF IInv, TypeOK, CommandsKnow

LEMMA RequestKeeps ==
    ASSUME IInv, NEW p \in Procs, NEW head \in Heads, NEW dry \in BOOLEAN,
           Request(p, head, dry)
    PROVE  IInv'
<1>1. proc[p] \in Commands /\ proc[p].pc = "idle" /\ ~proc[p].accepted
    BY CommandFacts DEF Request, At, Knows, Cleaning
<1>2. [proc[p] EXCEPT !.pc = "wait", !.head = head, !.dry = dry] \in Commands
    BY <1>1 DEF Commands, Labels
<1>3. /\ Moves(p) /\ proc'[p].pc = "wait" /\ proc'[p].head = head /\ ~proc'[p].accepted
    BY <1>1, <1>2, CommandFacts DEF Request, Moves, Commands
<1>4. Knows(p, proc[p])'
    BY <1>3 DEF Knows, Holding, Owning, Writing, Cleaning
<1> QED BY <1>3, <1>4, CommandFacts, QuietStep DEF Request

LEMMA AcquireKeeps == ASSUME IInv, NEW p \in Procs, Acquire(p) PROVE IInv'
<1>1. /\ Moves(p) /\ proc'[p].pc = "enter" /\ proc'[p].head = proc[p].head
      /\ proc'[p].accepted = proc[p].accepted
    BY CommandFacts, GotoMoves DEF Acquire, Labels
<1>2. lock = NoFile /\ lock' = p /\ proc[p].pc = "wait"
    BY DEF Acquire, At
<1>3. proc'[p].head \in Heads /\ ~proc'[p].accepted
    BY <1>1, <1>2, CommandFacts DEF Knows, Cleaning
<1>4. Knows(p, proc[p])'
    BY <1>1, <1>2, <1>3 DEF Knows, Holding, Owning, Writing, Cleaning
<1> QED BY <1>1, <1>2, <1>4, CommandFacts, QuietStep DEF Acquire

LEMMA ExitKeeps ==
    ASSUME IInv, NEW p \in Procs, Exit(p),
           UNCHANGED <<manifest, ledger, journal, proposal, upstream, reported>>,
           stray' \in BOOLEAN, crashes' \in 0 .. MaxCrashes
    PROVE  IInv'
<1>1. Moves(p) /\ proc'[p] = Idle /\ (lock \in {p, NoFile} \/ lock' = lock)
    BY ExitMoves, CommandFacts
<1>2. lock' \in Procs \cup {NoFile}
    BY ExitMoves, CommandFacts
<1> QED BY <1>1, <1>2, IdleKnows, QuietStep

LEMMA CrashKeeps ==
    ASSUME IInv, NEW p \in Procs, Crash(p) \/ CrashInJournal(p) PROVE IInv'
<1>1. crashes' \in 0 .. MaxCrashes
    BY CommandFacts, BoundsAssumption DEF Crash, CrashInJournal
<1>2. stray' \in BOOLEAN
    BY CommandFacts DEF Crash, CrashInJournal
<1> QED BY <1>1, <1>2, ExitKeeps DEF Crash, CrashInJournal

LEMMA StopKeeps == ASSUME IInv, NEW p \in Procs, Stop(p) PROVE IInv'
    BY CommandFacts, ExitKeeps DEF Stop

-----------------------------------------------------------------------------
(* Steps of a command that holds the lock and change no document. *)

\* A step to another label by the holder of the lock, and what it must know there.
LEMMA HolderGoes ==
    ASSUME IInv, NEW p \in Procs, NEW label \in Holding, Goto(p, label),
           proc[p].pc \in Holding
    PROVE  /\ Moves(p) /\ lock = p /\ proc'[p].pc = label /\ proc'[p].head = proc[p].head
           /\ proc'[p].to = proc[p].to
           /\ proc'[p].head \in Heads /\ proc'[p].accepted = proc[p].accepted
           /\ proc[p].accepted => proc[p].pc \in Cleaning
<1>1. label \in Labels /\ proc[p].pc # "idle"
    BY DEF Holding
<1> QED BY <1>1, CommandFacts, GotoMoves DEF Knows

LEMMA StartRecoveryKeeps == ASSUME IInv, NEW p \in Procs, StartRecovery(p) PROVE IInv'
<1>1. proc[p] \in Commands /\ Knows(p, proc[p]) /\ proc \in [Procs -> Commands]
      /\ proc[p].pc = "enter" /\ ~proc[p].accepted
    BY CommandFacts DEF StartRecovery, At, Knows, Cleaning
<1>2. journal # NoFile /\ journal.to \in Transitions
    BY DEF StartRecovery, IInv, TypeOK, Journals
<1>3. [proc[p] EXCEPT !.pc = "fwd_ledger", !.to = journal.to] \in Commands
    BY <1>1, <1>2 DEF Commands, Labels
<1>4. /\ Moves(p) /\ proc'[p].pc = "fwd_ledger" /\ proc'[p].head = proc[p].head
      /\ proc'[p].to = journal.to /\ ~proc'[p].accepted
    BY <1>1, <1>3 DEF StartRecovery, Moves, Commands
<1>5. lock = p /\ proc[p].head \in Heads
    BY <1>1 DEF Knows, Holding, Labels
<1>6. UNCHANGED <<manifest, ledger, journal, proposal, stray, lock, upstream, reported,
                  crashes>>
    BY DEF StartRecovery
<1>7. Knows(p, proc[p])'
    BY <1>2, <1>4, <1>5, <1>6 DEF StartRecovery, Recoverable, Knows, Cleaning, Owning, Writing
<1> QED BY <1>4, <1>5, <1>6, <1>7, CommandFacts, QuietStep

LEMMA ReproofFailsKeeps == ASSUME IInv, NEW p \in Procs, ReproofFails(p) PROVE IInv'
<1>1. proc[p].pc = "reprove" /\ Goto(p, "back_ledger") /\ "back_ledger" \in Holding
      /\ proc[p].pc \in Holding /\ proc[p].pc \in Owning
    BY DEF ReproofFails, At, Holding, Owning, Labels
<1>2. /\ Moves(p) /\ lock = p /\ proc'[p].pc = "back_ledger" /\ proc'[p].head = proc[p].head
      /\ proc'[p].to = proc[p].to
      /\ proc'[p].head \in Heads /\ ~proc'[p].accepted
    BY <1>1, HolderGoes DEF Cleaning
<1>3. UNCHANGED <<manifest, ledger, journal, proposal, stray, lock, upstream, reported,
                  crashes>>
    BY DEF ReproofFails
<1>4. Knows(p, proc[p])'
    BY <1>1, <1>2, <1>3, CommandFacts DEF Knows, Cleaning, Writing
<1> QED BY <1>2, <1>3, <1>4, CommandFacts, QuietStep

\* What a reproof that passes and a manifest that is written leave of the command.
LEMMA AcceptedMoves ==
    ASSUME IInv, NEW p \in Procs, proc[p].pc \in Owning,
           proc' = [proc EXCEPT ![p].pc = "unlink_proposal", ![p].accepted = TRUE]
    PROVE  /\ Moves(p) /\ lock = p /\ proc'[p].pc = "unlink_proposal"
           /\ proc'[p].head = proc[p].head /\ proc'[p].to = proc[p].to
      /\ proc'[p].head \in Heads
           /\ journal # NoFile /\ Sound(journal) /\ journal.to = proc[p].to
           /\ HeadOf(journal.to) = proc[p].head
<1>1. proc[p] \in Commands /\ Knows(p, proc[p]) /\ proc \in [Procs -> Commands]
    BY CommandFacts
<1>2. [proc[p] EXCEPT !.pc = "unlink_proposal", !.accepted = TRUE] \in Commands
    BY <1>1 DEF Commands, Labels
<1>3. Moves(p) /\ proc'[p].pc = "unlink_proposal" /\ proc'[p].head = proc[p].head
    BY <1>1, <1>2 DEF Moves, Commands
<1> QED BY <1>1, <1>3 DEF Knows, Owning, Holding, IInv, JournalSound

\* Documents that agree at the head of the journal are the ones after it.
LEMMA ReprovedDocuments ==
    ASSUME IInv, journal # NoFile, Consistent,
           manifest.pin[journal.to.source] = journal.to.rev
    PROVE  manifest.pin = journal.after.manifest.pin /\ ledger.chain = journal.after.ledger.chain
<1>1. /\ Sound(journal) /\ Agree(manifest, ledger)
      /\ manifest \in Manifests /\ ledger \in Ledgers
      /\ manifest.pin \in {journal.before.manifest.pin, journal.after.manifest.pin}
      /\ ledger.chain \in {journal.before.ledger.chain, journal.after.ledger.chain}
    BY DEF IInv, JournalSound, DocumentsFollow, Consistent, TypeOK
<1>2. journal.before.manifest.pin[journal.to.source] # journal.to.rev
  <2>1. /\ journal.to \in Transitions /\ journal.before.manifest \in Manifests
        /\ journal.before.manifest.pin[journal.to.source] < journal.to.rev
      BY <1>1, JournalDocuments DEF Snapshots
  <2> QED BY <2>1 DEF Transitions, Manifests, Revs
<1> QED BY <1>1, <1>2, MatchingSides

LEMMA ReprovedKeeps == ASSUME IInv, NEW p \in Procs, Reproved(p) PROVE IInv'
<1>1. proc[p].pc = "reprove" /\ proc[p].pc \in Owning
    BY DEF Reproved, At, Owning, Holding, Labels
<1>2. /\ Moves(p) /\ lock = p /\ proc'[p].pc = "unlink_proposal"
      /\ proc'[p].head = proc[p].head /\ proc'[p].to = proc[p].to
      /\ proc'[p].head \in Heads
      /\ journal # NoFile /\ journal.to = proc[p].to /\ HeadOf(journal.to) = proc[p].head
    BY <1>1, AcceptedMoves DEF Reproved
<1>3. UNCHANGED <<manifest, ledger, journal, proposal, stray, lock, upstream, reported,
                  crashes>>
    BY DEF Reproved
<1>4. /\ Consistent /\ manifest.pin = journal.after.manifest.pin
      /\ ledger.chain = journal.after.ledger.chain
    BY <1>2, ReprovedDocuments DEF Reproved
<1>5. Knows(p, proc[p])'
    BY <1>2, <1>3, <1>4 DEF Knows, Cleaning, Writing, Consistent, Agree
<1> QED BY <1>2, <1>3, <1>5, CommandFacts, QuietStep

LEMMA StartAcceptanceKeeps == ASSUME IInv, NEW p \in Procs, StartAcceptance(p) PROVE IInv'
<1>1. proc[p] \in Commands /\ Knows(p, proc[p]) /\ proc \in [Procs -> Commands]
      /\ proc[p].pc = "enter" /\ ~proc[p].accepted
    BY CommandFacts DEF StartAcceptance, At, Knows, Cleaning
<1>2. proposal.prior \in Revs /\ proposal.to \in Transitions
    BY DEF StartAcceptance, CanPropose, IInv, TypeOK, Proposals
<1>3. [proc[p] EXCEPT !.pc = "prove", !.to = proposal.to, !.prior = proposal.prior] \in Commands
    BY <1>1, <1>2 DEF Commands, Labels
<1>4. /\ Moves(p) /\ proc'[p].pc = "prove" /\ proc'[p].head = proc[p].head
      /\ proc'[p].to = proposal.to /\ ~proc'[p].accepted
    BY <1>1, <1>3 DEF StartAcceptance, Moves, Commands
<1>5. lock = p /\ proc[p].head \in Heads
    BY <1>1 DEF Knows, Holding, Labels
<1>6. UNCHANGED <<manifest, ledger, journal, proposal, stray, lock, upstream, reported,
                  crashes>>
    BY DEF StartAcceptance
<1>7. Knows(p, proc[p])'
    BY <1>2, <1>4, <1>5, <1>6 DEF StartAcceptance, Knows, Cleaning, Writing, Owning
<1> QED BY <1>4, <1>5, <1>6, <1>7, CommandFacts, QuietStep

LEMMA WriteFailsKeeps == ASSUME IInv, NEW p \in Procs, WriteFails(p) PROVE IInv'
<1>1. proc[p].pc \in {"ledger", "manifest"} /\ Goto(p, "undo_ledger")
      /\ "undo_ledger" \in Holding /\ proc[p].pc \in Holding /\ proc[p].pc \in Owning
      /\ proc[p].pc \in Writing
    BY DEF WriteFails, At, Holding, Owning, Writing, Labels
<1>2. /\ Moves(p) /\ lock = p /\ proc'[p].pc = "undo_ledger" /\ proc'[p].head = proc[p].head
      /\ proc'[p].to = proc[p].to
      /\ proc'[p].head \in Heads /\ ~proc'[p].accepted
    BY <1>1, HolderGoes DEF Cleaning
<1>3. UNCHANGED <<manifest, ledger, journal, proposal, stray, lock, upstream, reported,
                  crashes>>
    BY DEF WriteFails
<1>4. Knows(p, proc[p])'
    BY <1>1, <1>2, <1>3, CommandFacts DEF Knows, Cleaning
<1> QED BY <1>2, <1>3, <1>4, CommandFacts, QuietStep

LEMMA UnlinkProposalKeeps == ASSUME IInv, NEW p \in Procs, UnlinkProposal(p) PROVE IInv'
<1>1. proc[p].pc = "unlink_proposal" /\ Goto(p, "unlink_journal")
      /\ "unlink_journal" \in Holding /\ proc[p].pc \in Holding /\ proc[p].pc \in Owning
    BY DEF UnlinkProposal, At, Holding, Owning, Labels
<1>2. /\ Moves(p) /\ lock = p /\ proc'[p].pc = "unlink_journal"
      /\ proc'[p].head = proc[p].head /\ proc'[p].to = proc[p].to
      /\ proc'[p].head \in Heads
      /\ proc'[p].accepted = proc[p].accepted
    BY <1>1, HolderGoes
<1>3. UNCHANGED <<manifest, ledger, journal, stray, lock, upstream, reported, crashes>>
      /\ proposal' = NoFile
    BY DEF UnlinkProposal
<1>4. Knows(p, proc[p])'
    BY <1>1, <1>2, <1>3, CommandFacts DEF Knows, Cleaning, Writing, Consistent, Agree
<1> QED BY <1>2, <1>3, <1>4, CommandFacts, QuietStep

-----------------------------------------------------------------------------
(* Steps of a command that replace a document, or end the journal. *)

\* A step of the journal's owner that replaces the documents by ones of the journal.
LEMMA DocumentStep ==
    ASSUME IInv, NEW p \in Procs, proc[p].pc \in Owning, Moves(p), Knows(p, proc[p])',
           UNCHANGED <<journal, proposal, stray, lock, upstream, reported, crashes>>,
           manifest' \in {manifest, journal.before.manifest, journal.after.manifest},
           ledger' \in {ledger, journal.before.ledger, journal.after.ledger}
    PROVE  IInv'
<1>1. /\ lock = p /\ journal # NoFile /\ Sound(journal)
    BY CommandFacts DEF Knows, Owning, Holding, IInv, JournalSound
<1>2. /\ journal.before.manifest \in Manifests /\ journal.after.manifest \in Manifests
      /\ journal.before.ledger \in Ledgers /\ journal.after.ledger \in Ledgers
    BY <1>1, JournalDocuments DEF Snapshots
<1>3. TypeOK'
    BY <1>2 DEF IInv, TypeOK, Moves
<1>4. JournalSound'
    BY DEF IInv, JournalSound
<1>5. DocumentsFollow'
    BY <1>1 DEF IInv, DocumentsFollow
<1>6. CommandsKnow'
    BY <1>1, OthersKnow
<1>7. ReportedSettled'
    BY <1>1 DEF IInv, ReportedSettled, Settled
<1> QED BY <1>3, <1>4, <1>5, <1>6, <1>7 DEF IInv

LEMMA ForwardLedgerKeeps == ASSUME IInv, NEW p \in Procs, ForwardLedger(p) PROVE IInv'
<1>1. proc[p].pc = "fwd_ledger" /\ Goto(p, "fwd_manifest") /\ "fwd_manifest" \in Holding
      /\ proc[p].pc \in Holding /\ proc[p].pc \in Owning /\ proc[p].pc \in Writing
    BY DEF ForwardLedger, At, Holding, Owning, Writing, Labels
<1>2. /\ Moves(p) /\ lock = p /\ proc'[p].pc = "fwd_manifest"
      /\ proc'[p].head = proc[p].head /\ proc'[p].to = proc[p].to
      /\ proc'[p].head \in Heads /\ ~proc'[p].accepted
    BY <1>1, HolderGoes DEF Cleaning
<1>3. Knows(p, proc[p])'
    BY <1>1, <1>2, CommandFacts DEF ForwardLedger, Knows, Cleaning
<1> QED BY <1>1, <1>2, <1>3, DocumentStep DEF ForwardLedger

LEMMA WriteLedgerKeeps == ASSUME IInv, NEW p \in Procs, WriteLedger(p) PROVE IInv'
<1>1. proc[p].pc = "ledger" /\ Goto(p, "manifest") /\ "manifest" \in Holding
      /\ proc[p].pc \in Holding /\ proc[p].pc \in Owning /\ proc[p].pc \in Writing
    BY DEF WriteLedger, At, Holding, Owning, Writing, Labels
<1>2. /\ Moves(p) /\ lock = p /\ proc'[p].pc = "manifest"
      /\ proc'[p].head = proc[p].head /\ proc'[p].to = proc[p].to
      /\ proc'[p].head \in Heads /\ ~proc'[p].accepted
    BY <1>1, HolderGoes DEF Cleaning
<1>3. Knows(p, proc[p])'
    BY <1>1, <1>2, CommandFacts DEF WriteLedger, Knows, Cleaning
<1> QED BY <1>1, <1>2, <1>3, DocumentStep DEF WriteLedger

LEMMA BackLedgerKeeps == ASSUME IInv, NEW p \in Procs, BackLedger(p) PROVE IInv'
<1>1. proc[p].pc = "back_ledger" /\ Goto(p, "back_manifest") /\ "back_manifest" \in Holding
      /\ proc[p].pc \in Holding /\ proc[p].pc \in Owning
    BY DEF BackLedger, At, Holding, Owning, Labels
<1>2. /\ Moves(p) /\ lock = p /\ proc'[p].pc = "back_manifest"
      /\ proc'[p].head = proc[p].head /\ proc'[p].to = proc[p].to
      /\ proc'[p].head \in Heads /\ ~proc'[p].accepted
    BY <1>1, HolderGoes DEF Cleaning
<1>3. Knows(p, proc[p])'
    BY <1>1, <1>2, CommandFacts DEF BackLedger, Knows, Cleaning, Writing
<1> QED BY <1>1, <1>2, <1>3, DocumentStep DEF BackLedger

LEMMA UndoLedgerKeeps == ASSUME IInv, NEW p \in Procs, UndoLedger(p) PROVE IInv'
<1>1. proc[p].pc = "undo_ledger" /\ Goto(p, "undo_manifest") /\ "undo_manifest" \in Holding
      /\ proc[p].pc \in Holding /\ proc[p].pc \in Owning /\ proc[p].pc \in Writing
    BY DEF UndoLedger, At, Holding, Owning, Writing, Labels
<1>2. /\ Moves(p) /\ lock = p /\ proc'[p].pc = "undo_manifest"
      /\ proc'[p].head = proc[p].head /\ proc'[p].to = proc[p].to
      /\ proc'[p].head \in Heads /\ ~proc'[p].accepted
    BY <1>1, HolderGoes DEF Cleaning
<1>3. Knows(p, proc[p])'
    BY <1>1, <1>2, CommandFacts DEF UndoLedger, Knows, Cleaning
<1> QED BY <1>1, <1>2, <1>3, DocumentStep DEF UndoLedger

LEMMA ForwardManifestKeeps == ASSUME IInv, NEW p \in Procs, ForwardManifest(p) PROVE IInv'
<1>1. proc[p].pc = "fwd_manifest" /\ Goto(p, "reprove") /\ "reprove" \in Holding
      /\ proc[p].pc \in Holding /\ proc[p].pc \in Owning
    BY DEF ForwardManifest, At, Holding, Owning, Labels
<1>2. /\ Moves(p) /\ lock = p /\ proc'[p].pc = "reprove"
      /\ proc'[p].head = proc[p].head /\ proc'[p].to = proc[p].to
      /\ proc'[p].head \in Heads /\ ~proc'[p].accepted
    BY <1>1, HolderGoes DEF Cleaning
<1>3. Knows(p, proc[p])'
    BY <1>1, <1>2, CommandFacts DEF ForwardManifest, Knows, Cleaning, Writing
<1> QED BY <1>1, <1>2, <1>3, DocumentStep DEF ForwardManifest

LEMMA BackManifestKeeps == ASSUME IInv, NEW p \in Procs, BackManifest(p) PROVE IInv'
<1>1. proc[p].pc = "back_manifest" /\ Goto(p, "unlink_proposal")
      /\ "unlink_proposal" \in Holding
      /\ proc[p].pc \in Holding /\ proc[p].pc \in Owning
    BY DEF BackManifest, At, Holding, Owning, Labels
<1>2. /\ Moves(p) /\ lock = p /\ proc'[p].pc = "unlink_proposal"
      /\ proc'[p].head = proc[p].head /\ proc'[p].to = proc[p].to
      /\ proc'[p].head \in Heads /\ ~proc'[p].accepted
    BY <1>1, HolderGoes DEF Cleaning
<1>3. /\ manifest' = journal.before.manifest /\ ledger' = journal.before.ledger
      /\ journal # NoFile
    BY <1>1, CommandFacts DEF BackManifest, Knows
<1>4. Consistent'
  <2>1. Agree(journal.before.manifest, journal.before.ledger)
      BY <1>3, JournalDocuments DEF IInv, JournalSound
  <2> QED BY <1>3, <2>1 DEF Consistent, Agree
<1>5. Knows(p, proc[p])'
    BY <1>1, <1>2, <1>4, CommandFacts DEF BackManifest, Knows, Cleaning, Writing
<1> QED BY <1>1, <1>2, <1>5, DocumentStep DEF BackManifest

LEMMA UndoManifestKeeps == ASSUME IInv, NEW p \in Procs, UndoManifest(p) PROVE IInv'
<1>1. proc[p].pc = "undo_manifest" /\ Goto(p, "undo_journal") /\ "undo_journal" \in Holding
      /\ proc[p].pc \in Holding /\ proc[p].pc \in Owning /\ proc[p].pc \in Writing
    BY DEF UndoManifest, At, Holding, Owning, Writing, Labels
<1>2. /\ Moves(p) /\ lock = p /\ proc'[p].pc = "undo_journal"
      /\ proc'[p].head = proc[p].head /\ proc'[p].to = proc[p].to
      /\ proc'[p].head \in Heads /\ ~proc'[p].accepted
    BY <1>1, HolderGoes DEF Cleaning
<1>3. Knows(p, proc[p])'
    BY <1>1, <1>2, CommandFacts DEF UndoManifest, Knows, Cleaning
<1> QED BY <1>1, <1>2, <1>3, DocumentStep DEF UndoManifest

LEMMA WriteManifestKeeps == ASSUME IInv, NEW p \in Procs, WriteManifest(p) PROVE IInv'
<1>1. proc[p].pc = "manifest" /\ proc[p].pc \in Owning
    BY DEF WriteManifest, At, Owning, Holding, Labels
<1>2. /\ Moves(p) /\ lock = p /\ proc'[p].pc = "unlink_proposal"
      /\ proc'[p].head = proc[p].head /\ proc'[p].to = proc[p].to
      /\ proc'[p].head \in Heads
      /\ journal # NoFile /\ Sound(journal) /\ journal.to = proc[p].to
      /\ HeadOf(journal.to) = proc[p].head
    BY <1>1, AcceptedMoves DEF WriteManifest
<1>3. manifest' = journal.after.manifest /\ ledger' = journal.after.ledger
    BY <1>1, CommandFacts DEF WriteManifest, Knows
<1>4. Consistent'
  <2>1. Agree(journal.after.manifest, journal.after.ledger)
      BY <1>2, JournalDocuments
  <2> QED BY <1>3, <2>1 DEF Consistent, Agree
<1>5. Knows(p, proc[p])'
    BY <1>2, <1>3, <1>4 DEF WriteManifest, Knows, Cleaning, Writing
<1> QED BY <1>1, <1>2, <1>5, DocumentStep DEF WriteManifest

\* The journal written from documents that agree, for a later revision, is sound.
LEMMA JournalWritten ==
    ASSUME IInv, NEW h \in Transitions, Consistent, manifest.pin[h.source] < h.rev,
           journal' = Journal(h)
    PROVE  /\ journal' # NoFile /\ Sound(journal') /\ journal'.to = h
           /\ journal'.before = [manifest |-> manifest, ledger |-> ledger]
<1>1. manifest \in Manifests /\ ledger \in Ledgers /\ Agree(manifest, ledger)
    BY DEF IInv, TypeOK, Consistent
<1>2. Applied(h, manifest, ledger) \in Snapshots
    BY <1>1, AppliedDocuments
<1>3. /\ journal' \in Journals /\ journal'.to = h
      /\ journal'.before = [manifest |-> manifest, ledger |-> ledger]
      /\ journal'.after = Applied(h, manifest, ledger)
    BY <1>1, <1>2 DEF Journal, Journals, Snapshots
<1> QED BY <1>1, <1>3, NoFileAssumption DEF Sound

LEMMA WriteJournalKeeps == ASSUME IInv, NEW p \in Procs, WriteJournal(p) PROVE IInv'
<1> DEFINE h == proc[p].to
<1>1. proc[p].pc = "prove" /\ Goto(p, "ledger") /\ "ledger" \in Holding
      /\ proc[p].pc \in Holding
    BY DEF WriteJournal, At, Holding, Labels
<1>2. /\ Moves(p) /\ lock = p /\ proc'[p].pc = "ledger"
      /\ proc'[p].head = proc[p].head /\ proc'[p].head \in Heads /\ proc'[p].to = h
      /\ HeadOf(h) = proc[p].head /\ h \in Transitions /\ ~proc'[p].accepted
    BY <1>1, HolderGoes, CommandFacts DEF Cleaning, WriteJournal, Proven, Knows
<1>3. /\ journal' # NoFile /\ Sound(journal') /\ journal'.to = h
      /\ journal'.before = [manifest |-> manifest, ledger |-> ledger]
    BY <1>2, JournalWritten DEF WriteJournal, Proven
<1>4. UNCHANGED <<manifest, ledger, proposal, stray, lock, upstream, reported, crashes>>
    BY DEF WriteJournal
<1>5. TypeOK'
    BY <1>2, <1>3, <1>4 DEF IInv, TypeOK, Moves, Sound
<1>6. JournalSound'
    BY <1>3 DEF JournalSound
<1>7. DocumentsFollow'
    BY <1>3, <1>4 DEF DocumentsFollow
<1>8. Knows(p, proc[p])'
    BY <1>2, <1>3, <1>4 DEF Knows, Cleaning
<1>9. CommandsKnow'
    BY <1>2, <1>8, OthersKnow
<1>10. Settled = ledger.chain /\ Settled' = ledger.chain /\ reported' = reported
    BY <1>1, <1>3, <1>4, CommandFacts DEF WriteJournal, Knows, Settled
<1>11. ReportedSettled'
    BY <1>10 DEF IInv, ReportedSettled
<1> QED BY <1>5, <1>6, <1>7, <1>9, <1>11 DEF IInv

\* A step that removes the journal and ends the command.
LEMMA JournalEnds ==
    ASSUME IInv, NEW p \in Procs, proc[p].pc \in Holding, Exit(p), journal' = NoFile,
           Consistent, reported' \subseteq Transitions, ReportedSettled',
           UNCHANGED <<manifest, ledger, stray, upstream, crashes>>,
           proposal' = proposal
    PROVE  IInv'
<1>1. lock = p /\ Moves(p) /\ proc'[p] = Idle /\ lock' = NoFile
    BY CommandFacts, ExitMoves DEF Knows
<1>2. TypeOK'
    BY <1>1 DEF IInv, TypeOK, Moves
<1>3. CommandsKnow'
    BY <1>1, IdleKnows, OthersKnow
<1>4. JournalSound' /\ DocumentsFollow'
    BY DEF JournalSound, DocumentsFollow, Consistent, Agree
<1> QED BY <1>2, <1>3, <1>4 DEF IInv

LEMMA UndoJournalKeeps == ASSUME IInv, NEW p \in Procs, UndoJournal(p) PROVE IInv'
<1>1. proc[p].pc = "undo_journal" /\ proc[p].pc \in Holding /\ proc[p].pc \in Owning
    BY DEF UndoJournal, At, Holding, Owning, Labels
<1>2. /\ journal # NoFile /\ Sound(journal) /\ manifest = journal.before.manifest
      /\ ledger = journal.before.ledger
    BY <1>1, CommandFacts DEF Knows, IInv, JournalSound
<1>3. Consistent
    BY <1>2, JournalDocuments DEF Consistent
<1>4. ReportedSettled' /\ reported' \subseteq Transitions
    BY <1>2 DEF UndoJournal, IInv, TypeOK, ReportedSettled, Settled
<1> QED BY <1>1, <1>3, <1>4, JournalEnds DEF UndoJournal

\* The reviews before a journal are among those after it.
LEMMA ReviewsGrow ==
    ASSUME NEW j, Sound(j), NEW s \in Sources, NEW i \in 1 .. Len(j.before.ledger.chain[s])
    PROVE  /\ i \in 1 .. Len(j.after.ledger.chain[s])
           /\ j.after.ledger.chain[s][i] = j.before.ledger.chain[s][i]
<1> DEFINE c == j.before.ledger.chain
           h == j.to
<1>1. /\ h \in Transitions /\ h.source \in Sources /\ h.rev \in Revs
      /\ c \in [Sources -> Chains]
      /\ j.after.ledger.chain = [c EXCEPT ![h.source] = Append(@, h.rev)]
    BY JournalDocuments DEF Snapshots, Ledgers, Transitions
<1>2. c[s] \in Chains /\ c[s] \in Seq(Revs)
    BY <1>1 DEF Chains
<1>3. CASE s = h.source
  <2>1. j.after.ledger.chain[s] = Append(c[s], h.rev)
      BY <1>1, <1>3
  <2> HIDE DEF c, h
  <2>2. i \in 1 .. Len(c[s])
      BY DEF c
  <2>3. i \in 1 .. Len(Append(c[s], h.rev)) /\ Append(c[s], h.rev)[i] = c[s][i]
      BY <1>1, <1>2, <2>2
  <2> QED BY <2>1, <2>3 DEF c
<1>4. CASE s # h.source
    BY <1>1, <1>4
<1> QED BY <1>3, <1>4

LEMMA UnlinkJournalKeeps == ASSUME IInv, NEW p \in Procs, UnlinkJournal(p) PROVE IInv'
<1>1. proc[p].pc = "unlink_journal" /\ proc[p].pc \in Holding /\ proc[p].pc \in Owning
      /\ proc[p].pc \in Cleaning
    BY DEF UnlinkJournal, At, Holding, Owning, Cleaning, Labels
<1>2. /\ journal # NoFile /\ Sound(journal) /\ Consistent /\ journal.to = proc[p].to
      /\ proc[p].to \in Transitions
      /\ (proc[p].accepted => ledger.chain = journal.after.ledger.chain)
    BY <1>1, CommandFacts DEF Knows, IInv, JournalSound, Sound, Journals
<1>3. reported' = reported \cup Outcome(p) /\ ledger' = ledger /\ journal' = NoFile
      /\ reported \subseteq Transitions
    BY DEF UnlinkJournal, IInv, TypeOK
<1>4. reported' \subseteq Transitions
    BY <1>2, <1>3 DEF Outcome
<1>5. ASSUME NEW h \in reported
      PROVE \E i \in 1 .. Len(ledger.chain[h.source]) : ledger.chain[h.source][i] = h.rev
  <2>1. PICK i \in 1 .. Len(journal.before.ledger.chain[h.source]) :
            journal.before.ledger.chain[h.source][i] = h.rev
      BY <1>2 DEF IInv, ReportedSettled, Settled
  <2>2. h.source \in Sources
      BY <1>3 DEF Transitions
  <2>3. ledger.chain \in {journal.before.ledger.chain, journal.after.ledger.chain}
      BY <1>2 DEF IInv, DocumentsFollow
  <2>4. CASE ledger.chain = journal.before.ledger.chain
      BY <2>1, <2>4
  <2>5. CASE ledger.chain = journal.after.ledger.chain
    <3>1. /\ i \in 1 .. Len(journal.after.ledger.chain[h.source])
          /\ journal.after.ledger.chain[h.source][i] = h.rev
        BY <1>2, <2>1, <2>2, ReviewsGrow
    <3> QED BY <2>5, <3>1
  <2> QED BY <2>3, <2>4, <2>5
<1>6. ASSUME proc[p].accepted, NEW h, h = proc[p].to
      PROVE \E i \in 1 .. Len(ledger.chain[h.source]) : ledger.chain[h.source][i] = h.rev
  <2>1. h \in Transitions /\ h.source \in Sources /\ ledger.chain = journal.after.ledger.chain
      BY <1>2, <1>6 DEF Transitions
  <2>2. Tip(ledger.chain[h.source]) = h.rev
    <3>1. /\ Agree(journal.after.manifest, journal.after.ledger)
          /\ journal.after.manifest.pin[journal.to.source] = journal.to.rev
          /\ journal.to = h
        BY <1>2, <1>6, JournalDocuments
    <3> QED BY <2>1, <3>1 DEF Agree
  <2>3. ledger.chain[h.source] \in Chains
      BY <2>1, CommandFacts DEF Ledgers
  <2>4. Len(ledger.chain[h.source]) \in 1 .. Len(ledger.chain[h.source])
      BY <2>3 DEF Chains
  <2> QED BY <2>2, <2>4 DEF Tip
<1>7. ReportedSettled'
    BY <1>3, <1>5, <1>6 DEF ReportedSettled, Settled, Outcome
<1> QED BY <1>1, <1>2, <1>4, <1>7, JournalEnds DEF UnlinkJournal

-----------------------------------------------------------------------------
(* Steps of the environment. *)

LEMMA UpstreamKeeps ==
    ASSUME IInv, (\E r \in Repositories, rev \in Revs : UpstreamMoves(r, rev))
                 \/ (\E s \in Sources : Propose(s))
    PROVE  IInv'
<1>1. upstream' \in [Repositories -> Revs]
    BY DEF IInv, TypeOK, UpstreamMoves, Propose
<1>2. proposal' \in Proposals \cup {proposal}
    BY RepoOfAssumption DEF IInv, TypeOK, UpstreamMoves, Propose, Manifests, Transitions,
                            Proposals
<1>3. UNCHANGED <<manifest, ledger, journal, stray, lock, proc, reported, crashes>>
    BY DEF UpstreamMoves, Propose
<1>4. TypeOK'
    BY <1>1, <1>2, <1>3 DEF IInv, TypeOK
<1>5. CommandsKnow'
    BY <1>3 DEF IInv, CommandsKnow, Knows, Consistent, Agree
<1> QED BY <1>3, <1>4, <1>5, FilesStay DEF IInv

LEMMA EditKeeps ==
    ASSUME IInv, EditManifest \/ EditLedger
    PROVE  /\ IInv'
           /\ manifest'.pin = manifest.pin /\ manifest'.edits >= manifest.edits
           /\ ledger'.chain = ledger.chain /\ ledger'.edits >= ledger.edits
           /\ UNCHANGED <<journal, reported>>
<1>1. manifest \in Manifests /\ ledger \in Ledgers
    BY DEF IInv, TypeOK
<1>2. /\ manifest' \in Manifests /\ manifest'.pin = manifest.pin
      /\ manifest'.edits >= manifest.edits
    BY <1>1, BoundsAssumption DEF EditManifest, EditLedger, Manifests
<1>3. /\ ledger' \in Ledgers /\ ledger'.chain = ledger.chain /\ ledger'.edits >= ledger.edits
    BY <1>1, BoundsAssumption DEF EditManifest, EditLedger, Ledgers
<1>4. UNCHANGED <<journal, proposal, stray, lock, proc, upstream, reported, crashes>> /\ NoWrite
    BY DEF EditManifest, EditLedger
<1>5. TypeOK'
    BY <1>2, <1>3, <1>4 DEF IInv, TypeOK
<1>6. JournalSound' /\ DocumentsFollow' /\ ReportedSettled'
    BY <1>2, <1>3, <1>4 DEF IInv, JournalSound, DocumentsFollow, ReportedSettled, Settled,
                            Consistent, Agree
<1>7. ASSUME NEW p \in Procs PROVE Knows(p, proc[p])'
  <2>1. Knows(p, proc[p]) /\ proc[p].pc \in {"idle", "wait", "enter", "prove", "reprove"}
      BY <1>4 DEF IInv, CommandsKnow, NoWrite
  <2> QED BY <1>4, <2>1 DEF Knows, Writing, Cleaning
<1> QED BY <1>2, <1>3, <1>4, <1>5, <1>6, <1>7 DEF IInv, CommandsKnow

-----------------------------------------------------------------------------
(* The invariant holds. *)

LEMMA InitHolds == Init => IInv
<1> SUFFICES ASSUME Init PROVE IInv
    OBVIOUS
<1>1. 0 \in Revs /\ 0 \in 0 .. MaxEdits /\ 0 \in 0 .. MaxCrashes
    BY BoundsAssumption DEF Revs
<1>2. <<0>> \in Chains /\ Tip(<<0>>) = 0
    BY <1>1 DEF Chains, Tip
<1>3. Idle \in Commands
    BY DEF Idle, Commands, Labels
<1>4. manifest \in Manifests /\ ledger \in Ledgers
    BY <1>1, <1>2 DEF Init, Manifests, Ledgers
<1>5. TypeOK
    BY <1>1, <1>3, <1>4 DEF Init, TypeOK
<1>6. Consistent
    BY <1>2 DEF Init, Consistent, Agree
<1>7. CommandsKnow
    BY DEF Init, CommandsKnow, Knows, Idle, Holding, Owning, Writing, Cleaning
<1> QED BY <1>5, <1>6, <1>7 DEF Init, IInv, JournalSound, DocumentsFollow, ReportedSettled

LEMMA NextKeeps == IInv /\ [Next]_vars => IInv'
<1> SUFFICES ASSUME IInv, [Next]_vars PROVE IInv'
    OBVIOUS
<1>1. ASSUME NEW p \in Procs, NEW head \in Heads, NEW dry \in BOOLEAN, Request(p, head, dry)
      PROVE IInv'
    BY <1>1, RequestKeeps
<1>2. ASSUME NEW p \in Procs, Acquire(p) \/ Crash(p) \/ CrashInJournal(p) PROVE IInv'
    BY <1>2, AcquireKeeps, CrashKeeps
<1>3. ASSUME NEW p \in Procs, Recovery(p) PROVE IInv'
    BY <1>3, StartRecoveryKeeps, ForwardLedgerKeeps, ForwardManifestKeeps, ReprovedKeeps,
       ReproofFailsKeeps, BackLedgerKeeps, BackManifestKeeps DEF Recovery
<1>4. ASSUME NEW p \in Procs, Acceptance(p) PROVE IInv'
    BY <1>4, StartAcceptanceKeeps, StopKeeps, WriteJournalKeeps, WriteLedgerKeeps,
       WriteManifestKeeps, WriteFailsKeeps, UndoLedgerKeeps, UndoManifestKeeps,
       UndoJournalKeeps, UnlinkProposalKeeps, UnlinkJournalKeeps
       DEF Acceptance, Refused, ProofFails
<1>5. CASE Environment
    BY <1>5, UpstreamKeeps, EditKeeps DEF Environment
<1>6. CASE UNCHANGED vars
  <2>1. UNCHANGED <<manifest, ledger, journal, proposal, stray, lock, proc, upstream,
                    reported, crashes>>
      BY <1>6 DEF vars
  <2>2. TypeOK' /\ CommandsKnow'
      BY <2>1 DEF IInv, TypeOK, CommandsKnow, Knows, Consistent, Agree
  <2> QED BY <2>1, <2>2, FilesStay DEF IInv
<1> QED BY <1>1, <1>2, <1>3, <1>4, <1>5, <1>6 DEF Next

THEOREM Invariance == Spec => []IInv
<1> QED BY InitHolds, NextKeeps, PTL DEF Spec

-----------------------------------------------------------------------------
(* Safety. *)

\* The documents, the journal and the commands stay well formed; no chain of
\* reviews ever goes back.
THEOREM Types == Spec => []TypeOK
<1>1. IInv => TypeOK
    BY DEF IInv
<1> QED BY <1>1, Invariance, PTL

\* Documents that disagree are the halves of the pending journal.
THEOREM MixedJournaled == Spec => []MixedIsJournaled
<1>1. IInv => MixedIsJournaled
    BY DEF IInv, DocumentsFollow, MixedIsJournaled
<1> QED BY <1>1, Invariance, PTL

\* The steps that replace a document or the journal.
Replacing(p) ==
    \/ ForwardLedger(p) \/ ForwardManifest(p) \/ BackLedger(p) \/ BackManifest(p)
    \/ WriteLedger(p) \/ WriteManifest(p) \/ UndoLedger(p) \/ UndoManifest(p)

LEMMA FileSteps ==
    ASSUME [Next]_vars
    PROVE  \/ UNCHANGED <<manifest, ledger, journal, reported>>
           \/ EditManifest \/ EditLedger
           \/ \E p \in Procs :
                  WriteJournal(p) \/ Replacing(p) \/ UndoJournal(p) \/ UnlinkJournal(p)
<1>1. ASSUME NEW p \in Procs, NEW head \in Heads, NEW dry \in BOOLEAN, Request(p, head, dry)
      PROVE UNCHANGED <<manifest, ledger, journal, reported>>
    BY <1>1 DEF Request
<1>2. ASSUME NEW p \in Procs, Acquire(p) \/ Crash(p) \/ CrashInJournal(p)
      PROVE UNCHANGED <<manifest, ledger, journal, reported>>
    BY <1>2 DEF Acquire, Crash, CrashInJournal
<1>3. ASSUME NEW p \in Procs, Recovery(p)
      PROVE UNCHANGED <<manifest, ledger, journal, reported>> \/ Replacing(p)
    BY <1>3 DEF Recovery, StartRecovery, Reproved, ReproofFails, Replacing
<1>4. ASSUME NEW p \in Procs, Acceptance(p)
      PROVE \/ UNCHANGED <<manifest, ledger, journal, reported>>
            \/ WriteJournal(p) \/ Replacing(p) \/ UndoJournal(p) \/ UnlinkJournal(p)
    BY <1>4 DEF Acceptance, StartAcceptance, Refused, ProofFails, Stop, WriteFails,
                UnlinkProposal, Replacing
<1>5. CASE Environment
    BY <1>5 DEF Environment, UpstreamMoves, Propose
<1>6. CASE UNCHANGED vars
    BY <1>6 DEF vars
<1> QED BY <1>1, <1>2, <1>3, <1>4, <1>5, <1>6 DEF Next

\* A command that replaces a document, or removes the journal, owns the journal.
LEMMA OwnersReplace ==
    ASSUME IInv, NEW p \in Procs, Replacing(p) \/ UndoJournal(p) \/ UnlinkJournal(p)
    PROVE  /\ lock = p /\ lock # NoFile /\ journal # NoFile /\ Sound(journal)
           /\ proc[p].head = HeadOf(journal.to)
           /\ Replacing(p) => UNCHANGED <<journal, reported>>
<1>1. proc[p].pc \in Owning /\ proc[p].pc \in Holding
    BY DEF Replacing, ForwardLedger, ForwardManifest, BackLedger, BackManifest, WriteLedger,
           WriteManifest, UndoLedger, UndoManifest, UndoJournal, UnlinkJournal, At, Owning,
           Holding, Labels
<1>2. Replacing(p) => UNCHANGED <<journal, reported>>
    BY DEF Replacing, ForwardLedger, ForwardManifest, BackLedger, BackManifest, WriteLedger,
           WriteManifest, UndoLedger, UndoManifest
<1> QED BY <1>1, <1>2, CommandFacts DEF Knows, IInv, JournalSound

LEMMA NewJournal ==
    ASSUME IInv, NEW p \in Procs, WriteJournal(p)
    PROVE  journal = NoFile /\ UNCHANGED <<manifest, ledger, reported>>
    BY CommandFacts DEF WriteJournal, At, Knows

\* The two sides of a journal differ in the pin and the reviews of its source only.
LEMMA SidesDiffer ==
    ASSUME NEW j, Sound(j), NEW s \in Sources \ {j.to.source}
    PROVE  /\ j.after.manifest.pin[s] = j.before.manifest.pin[s]
           /\ j.after.ledger.chain[s] = j.before.ledger.chain[s]
<1>1. /\ j.before.manifest.pin \in [Sources -> Revs]
      /\ j.before.ledger.chain \in [Sources -> Chains]
    BY JournalDocuments DEF Snapshots, Manifests, Ledgers
<1> QED BY <1>1, JournalDocuments

\* A pending journal, and the pins and reviews, are left to commands for its
\* expected head, which move those of its source only
\* (_recover_accept_transaction, _rollback_accept_transaction).
THEOREM JournalsBound == Spec => JournalBound
<1> DEFINE Touched == /\ journal # NoFile
                      /\ \/ journal' # journal \/ manifest'.pin # manifest.pin
                         \/ ledger'.chain # ledger.chain
           Bound == /\ lock # NoFile /\ proc[lock].head = HeadOf(journal.to)
                    /\ \A s \in Sources \ {journal.to.source} :
                          /\ manifest'.pin[s] = manifest.pin[s]
                          /\ ledger'.chain[s] = ledger.chain[s]
<1>1. ASSUME IInv, [Next]_vars, Touched PROVE Bound
  <2>1. CASE UNCHANGED <<manifest, ledger, journal, reported>>
      BY <1>1, <2>1
  <2>2. CASE EditManifest \/ EditLedger
      BY <1>1, <2>2, EditKeeps
  <2>3. ASSUME NEW p \in Procs, WriteJournal(p) PROVE FALSE
      BY <1>1, <2>3, NewJournal
  <2>4. ASSUME NEW p \in Procs, Replacing(p) \/ UndoJournal(p) \/ UnlinkJournal(p)
        PROVE Bound
    <3>1. /\ lock = p /\ lock # NoFile /\ Sound(journal)
          /\ proc[p].head = HeadOf(journal.to)
        BY <1>1, <2>4, OwnersReplace
    <3>2. /\ manifest.pin \in {journal.before.manifest.pin, journal.after.manifest.pin}
          /\ ledger.chain \in {journal.before.ledger.chain, journal.after.ledger.chain}
        BY <1>1 DEF IInv, DocumentsFollow
    <3>3. /\ manifest' \in {manifest, journal.before.manifest, journal.after.manifest}
          /\ ledger' \in {ledger, journal.before.ledger, journal.after.ledger}
        BY <2>4 DEF Replacing, ForwardLedger, ForwardManifest, BackLedger, BackManifest,
                    WriteLedger, WriteManifest, UndoLedger, UndoManifest, UndoJournal,
                    UnlinkJournal
    <3>4. ASSUME NEW s \in Sources \ {journal.to.source}
          PROVE  manifest'.pin[s] = manifest.pin[s] /\ ledger'.chain[s] = ledger.chain[s]
        BY <3>1, <3>2, <3>3, SidesDiffer
    <3> QED BY <3>1, <3>4
  <2> QED BY <1>1, <2>1, <2>2, <2>3, <2>4, FileSteps
<1>2. IInv /\ [Next]_vars => [Touched => Bound]_vars
    BY <1>1
<1> QED BY <1>2, Invariance, PTL DEF Spec, JournalBound

\* A document written at a label where nobody can have edited it keeps its edits.
LEMMA WritersKeepEdits ==
    ASSUME IInv, NEW p \in Procs, Replacing(p),
           proc[p].pc \notin {"back_ledger", "back_manifest"}
    PROVE  manifest'.edits = manifest.edits /\ ledger'.edits = ledger.edits
<1>1. proc[p].pc \in Writing
    BY DEF Replacing, ForwardLedger, ForwardManifest, BackLedger, BackManifest, WriteLedger,
           WriteManifest, UndoLedger, UndoManifest, At, Writing
<1>2. /\ manifest \in {journal.before.manifest, journal.after.manifest}
      /\ ledger \in {journal.before.ledger, journal.after.ledger}
    BY <1>1, CommandFacts DEF Knows
<1>3. /\ journal.after.manifest.edits = journal.before.manifest.edits
      /\ journal.after.ledger.edits = journal.before.ledger.edits
    BY OwnersReplace, JournalDocuments
<1>4. /\ manifest' \in {manifest, journal.before.manifest, journal.after.manifest}
      /\ ledger' \in {ledger, journal.before.ledger, journal.after.ledger}
    BY DEF Replacing, ForwardLedger, ForwardManifest, BackLedger, BackManifest, WriteLedger,
           WriteManifest, UndoLedger, UndoManifest
<1> QED BY <1>2, <1>3, <1>4

\* Only the rollback of a recovery loses an edit of somebody else.
THEOREM EditsSurvive == Spec => EditsKept
<1> DEFINE Lost == manifest'.edits < manifest.edits \/ ledger'.edits < ledger.edits
           Rolling == \E p \in Procs : proc[p].pc \in {"back_ledger", "back_manifest"}
<1>1. ASSUME IInv, [Next]_vars, Lost, ~Rolling PROVE FALSE
  <2>5. manifest.edits \in Int /\ ledger.edits \in Int
      BY <1>1 DEF IInv, TypeOK, Manifests, Ledgers
  <2>1. CASE UNCHANGED <<manifest, ledger>>
      BY <1>1, <2>5, <2>1
  <2>2. CASE EditManifest \/ EditLedger
    <3>1. /\ manifest'.edits >= manifest.edits /\ ledger'.edits >= ledger.edits
          /\ manifest'.edits \in Int /\ ledger'.edits \in Int
        BY <1>1, <2>2, EditKeeps DEF IInv, TypeOK, Manifests, Ledgers
    <3> QED BY <1>1, <2>5, <3>1
  <2>3. ASSUME NEW p \in Procs, Replacing(p) PROVE FALSE
    <3>1. manifest'.edits = manifest.edits /\ ledger'.edits = ledger.edits
        BY <1>1, <2>3, WritersKeepEdits
    <3> QED BY <1>1, <2>5, <3>1
  <2>4. ASSUME NEW p \in Procs, WriteJournal(p) \/ UndoJournal(p) \/ UnlinkJournal(p)
        PROVE UNCHANGED <<manifest, ledger>>
      BY <2>4 DEF WriteJournal, UndoJournal, UnlinkJournal
  <2> QED BY <1>1, <2>1, <2>2, <2>3, <2>4, FileSteps
<1>2. IInv /\ [Next]_vars => [Lost => Rolling]_vars
    BY <1>1
<1> QED BY <1>2, Invariance, PTL DEF Spec, EditsKept

-----------------------------------------------------------------------------
(* The documents implement one reviewed history. *)

\* Whatever can be read is the committed history.
ReadsHistory == ReaderSees = Committed \/ ReaderSees = Closed

LEMMA Readable == IInv => ReadsHistory
<1> SUFFICES ASSUME IInv PROVE ReadsHistory
    OBVIOUS
<1>1. ASSUME Consistent, journal # NoFile PROVE ledger.chain = Committed
  <2>1. Sound(journal) /\ manifest \in Manifests /\ ledger \in Ledgers
        /\ Agree(manifest, ledger)
      BY <1>1 DEF IInv, TypeOK, JournalSound, Consistent
  <2>2. \/ /\ manifest.pin = journal.before.manifest.pin
           /\ ledger.chain = journal.before.ledger.chain
        \/ /\ manifest.pin = journal.after.manifest.pin
           /\ ledger.chain = journal.after.ledger.chain
      BY <1>1, <2>1, MatchingSides DEF IInv, DocumentsFollow
  <2>3. journal.before.manifest.pin # journal.after.manifest.pin
    <3>1. /\ journal.before.manifest.pin[journal.to.source] < journal.to.rev
          /\ journal.after.manifest.pin[journal.to.source] = journal.to.rev
          /\ journal.before.manifest.pin \in [Sources -> Revs] /\ journal.to \in Transitions
        BY <2>1, JournalDocuments DEF Snapshots, Manifests
    <3> QED BY <3>1 DEF Revs, Transitions
  <2> QED BY <1>1, <2>2, <2>3 DEF Committed
<1> QED BY <1>1 DEF ReadsHistory, ReaderSees, Committed

LEMMA StillReadable == IInv' => ReadsHistory'
    BY Readable, PTL

\* A journal is written beside the history as it is.
LEMMA WriteJournalMaps ==
    ASSUME IInv, NEW p \in Procs, WriteJournal(p) PROVE Committed' = Committed
<1>1. proc[p].to \in Transitions
    BY CommandFacts DEF WriteJournal, At, Knows
<1>2. /\ journal' # NoFile /\ Sound(journal') /\ journal'.to = proc[p].to
      /\ journal'.before = [manifest |-> manifest, ledger |-> ledger]
    BY <1>1, JournalWritten DEF WriteJournal, Proven
<1>3. manifest'.pin # journal'.after.manifest.pin
  <2>1. /\ manifest' = manifest /\ manifest.pin \in [Sources -> Revs]
        /\ manifest.pin[proc[p].to.source] < proc[p].to.rev
      BY CommandFacts DEF WriteJournal, Proven, Manifests
  <2>2. ASSUME NEW j, j = journal' PROVE j.after.manifest.pin[j.to.source] = j.to.rev
      BY <1>2, <2>2, JournalDocuments
  <2> QED BY <1>1, <1>2, <2>1, <2>2 DEF Transitions, Revs
<1> QED BY <1>2, <1>3, NewJournal DEF Committed

\* The two histories a journal leads from and to.
LEMMA JournalHistories ==
    ASSUME NEW j, Sound(j)
    PROVE  /\ j.to.source \in Sources /\ j.to.rev \in Revs
           /\ j.before.ledger.chain \in [Sources -> Chains]
           /\ Tip(j.before.ledger.chain[j.to.source]) < j.to.rev
           /\ j.after.ledger.chain =
                 [j.before.ledger.chain EXCEPT ![j.to.source] = Append(@, j.to.rev)]
<1>1. /\ j.to \in Transitions /\ j.before \in Snapshots
      /\ Agree(j.before.manifest, j.before.ledger)
      /\ j.before.manifest.pin[j.to.source] < j.to.rev
    BY JournalDocuments
<1> QED BY <1>1, JournalDocuments DEF Agree, Transitions, Snapshots, Ledgers

LEMMA AdvanceMaps ==
    ASSUME IInv, journal # NoFile, reported' = reported,
           Committed = journal.before.ledger.chain, Committed' = journal.after.ledger.chain,
           ReaderSees' = Committed' \/ ReaderSees' = Closed
    PROVE  History!Advance
<1>1. Sound(journal)
    BY DEF IInv, JournalSound
<1> DEFINE s == journal.to.source
           r == journal.to.rev
<1>2. /\ s \in Sources /\ r \in Revs /\ Committed \in [Sources -> Chains]
      /\ Tip(Committed[s]) < r /\ Committed' = [Committed EXCEPT ![s] = Append(@, r)]
    BY <1>1, JournalHistories
<1>3. r > History!Tip(s)
    BY <1>2 DEF Tip, History!Tip
<1> HIDE DEF s, r
<1>4. \E t \in Sources, rev \in Revs :
          /\ rev > History!Tip(t)
          /\ Committed' = [Committed EXCEPT ![t] = Append(@, rev)]
    BY <1>2, <1>3
<1> QED BY <1>4 DEF History!Advance, History!Sees

LEMMA WithdrawMaps ==
    ASSUME IInv, journal # NoFile, reported' = reported,
           Committed = journal.after.ledger.chain, Committed' = journal.before.ledger.chain,
           ReaderSees' = Committed' \/ ReaderSees' = Closed
    PROVE  History!Withdraw
<1> DEFINE s == journal.to.source
           r == journal.to.rev
           c == journal.before.ledger.chain
<1>1. Sound(journal)
    BY DEF IInv, JournalSound
<1>2. /\ s \in Sources /\ r \in Revs /\ c \in [Sources -> Chains] /\ Tip(c[s]) < r
      /\ Committed = [c EXCEPT ![s] = Append(c[s], r)] /\ Committed' = c
    BY <1>1, JournalHistories
<1>3. [source |-> s, rev |-> r] \in reported => \E i \in 1 .. Len(c[s]) : c[s][i] = r
    BY DEF IInv, ReportedSettled, Settled
<1> HIDE DEF s, r, c
<1>4. c[s] \in Chains
    BY <1>2
<1>5. /\ Committed[s] = Append(c[s], r) /\ c[s] \in Seq(Revs) /\ Len(c[s]) \in Nat
      /\ Len(c[s]) > 0
    BY <1>2, <1>4 DEF Chains
<1>6. [source |-> s, rev |-> r] \notin reported
  <2>1. SUFFICES ASSUME [source |-> s, rev |-> r] \in reported PROVE FALSE
      OBVIOUS
  <2>2. PICK i \in 1 .. Len(c[s]) : c[s][i] = r
      BY <1>3, <2>1
  <2>3. c[s][i] <= Tip(c[s]) /\ Tip(c[s]) \in Revs
      BY <1>4, TipIsLast
  <2> QED BY <1>2, <2>2, <2>3 DEF Revs
<1>7. History!Tip(s) = r /\ Len(Committed[s]) > 1
    BY <1>2, <1>5 DEF History!Tip
<1>8. SubSeq(Committed[s], 1, Len(Committed[s]) - 1) = c[s]
    BY <1>2, <1>5
<1>9. Committed' = [Committed EXCEPT ![s] = SubSeq(@, 1, Len(@) - 1)]
    BY <1>2, <1>8
<1>10. \E t \in Sources :
          /\ Len(Committed[t]) > 1
          /\ [source |-> t, rev |-> History!Tip(t)] \notin reported
          /\ Committed' = [Committed EXCEPT ![t] = SubSeq(@, 1, Len(@) - 1)]
    BY <1>2, <1>6, <1>7, <1>9
<1> QED BY <1>10 DEF History!Withdraw, History!Sees

\* While a journal is pending the history is the one of the manifest's side.
LEMMA JournaledHistory ==
    ASSUME IInv, journal # NoFile
    PROVE  /\ manifest.pin = journal.before.manifest.pin =>
                  Committed = journal.before.ledger.chain
           /\ manifest.pin = journal.after.manifest.pin =>
                  Committed = journal.after.ledger.chain
<1>1. /\ Sound(journal) /\ journal.before.manifest \in Manifests
      /\ journal.to.source \in Sources /\ journal.to.rev \in Revs
    BY JournalDocuments DEF IInv, JournalSound, Snapshots, Transitions
<1>2. journal.before.manifest.pin[journal.to.source] # journal.to.rev
  <2>1. /\ journal.before.manifest.pin \in [Sources -> Revs]
        /\ journal.before.manifest.pin[journal.to.source] < journal.to.rev
      BY <1>1, JournalDocuments DEF Manifests
  <2> QED BY <1>1, <2>1 DEF Revs
<1>3. journal.before.manifest.pin # journal.after.manifest.pin
    BY <1>1, <1>2, JournalDocuments
<1> QED BY <1>3 DEF Committed

\* A replaced document advances the history, withdraws from it, or neither.
LEMMA ReplacingMaps ==
    ASSUME IInv, IInv', NEW p \in Procs, Replacing(p)
    PROVE  History!Advance \/ History!Withdraw \/ History!OpenOrClose
<1>1. journal # NoFile /\ journal' = journal /\ reported' = reported
    BY OwnersReplace
<1>2. ReaderSees' = Committed' \/ ReaderSees' = Closed
    BY StillReadable DEF ReadsHistory
<1>3. manifest.pin \in {journal.before.manifest.pin, journal.after.manifest.pin}
      /\ manifest'.pin \in {journal.before.manifest.pin, journal.after.manifest.pin}
    BY <1>1 DEF IInv, DocumentsFollow
<1>4. Committed \in {journal.before.ledger.chain, journal.after.ledger.chain}
    BY <1>1, <1>3, JournaledHistory
<1>5. Committed' \in {journal.before.ledger.chain, journal.after.ledger.chain}
    BY <1>1 DEF Committed
<1>6. CASE Committed' = Committed
    BY <1>1, <1>2, <1>6 DEF History!OpenOrClose, History!Sees
<1>7. CASE Committed = journal.before.ledger.chain /\ Committed' = journal.after.ledger.chain
    BY <1>1, <1>2, <1>7, AdvanceMaps
<1>8. CASE Committed = journal.after.ledger.chain /\ Committed' = journal.before.ledger.chain
    BY <1>1, <1>2, <1>8, WithdrawMaps
<1> QED BY <1>4, <1>5, <1>6, <1>7, <1>8

\* When the journal goes the documents are the history.
LEMMA JournalGoneMaps ==
    ASSUME IInv, IInv', Consistent, UNCHANGED <<manifest, ledger>>, journal' = NoFile
    PROVE  /\ Committed = ledger.chain /\ Committed' = Committed
           /\ ReaderSees = Committed /\ ReaderSees' = Committed'
<1>1. ReaderSees = ledger.chain /\ ReaderSees' = ledger.chain /\ Committed' = ledger.chain
    BY DEF ReaderSees, Consistent, Agree, Committed
<1>2. CASE journal = NoFile
    BY <1>1, <1>2 DEF Committed
<1>3. CASE journal # NoFile
  <2>1. /\ Sound(journal) /\ manifest \in Manifests /\ ledger \in Ledgers
        /\ Agree(manifest, ledger)
      BY <1>3 DEF IInv, TypeOK, JournalSound, Consistent
  <2>2. \/ /\ manifest.pin = journal.before.manifest.pin
           /\ ledger.chain = journal.before.ledger.chain
        \/ /\ manifest.pin = journal.after.manifest.pin
           /\ ledger.chain = journal.after.ledger.chain
      BY <1>3, <2>1, MatchingSides DEF IInv, DocumentsFollow
  <2>3. Committed = ledger.chain
      BY <1>3, <2>2, JournaledHistory
  <2> QED BY <1>1, <2>3
<1> QED BY <1>2, <1>3

LEMMA UnlinkJournalMaps ==
    ASSUME IInv, IInv', NEW p \in Procs, UnlinkJournal(p)
    PROVE  History!Report \/ UNCHANGED <<Committed, ReaderSees, reported>>
<1>1. proc[p].pc \in Cleaning /\ proc[p].pc \in Owning
    BY DEF UnlinkJournal, At, Cleaning, Owning, Holding, Labels
<1>2. /\ journal # NoFile /\ Sound(journal) /\ Consistent /\ journal.to = proc[p].to
      /\ (proc[p].accepted => ledger.chain = journal.after.ledger.chain)
    BY <1>1, CommandFacts DEF Knows, IInv, JournalSound
<1>3. /\ Committed = ledger.chain /\ Committed' = Committed
      /\ ReaderSees = Committed /\ ReaderSees' = Committed'
    BY <1>2, JournalGoneMaps DEF UnlinkJournal
<1>4. reported' = reported \cup Outcome(p)
    BY DEF UnlinkJournal
<1>5. CASE ~proc[p].accepted
    BY <1>3, <1>4, <1>5 DEF Outcome
<1>6. CASE proc[p].accepted
  <2> DEFINE s == proc[p].to.source
  <2>1. proc[p].to \in Transitions /\ s \in Sources
      BY <1>2, JournalDocuments DEF Transitions
  <2>2. Tip(ledger.chain[s]) = proc[p].to.rev
    <3>1. /\ Agree(journal.after.manifest, journal.after.ledger)
          /\ journal.after.manifest.pin[journal.to.source] = journal.to.rev
        BY <1>2, JournalDocuments
    <3> QED BY <1>2, <1>6, <2>1, <3>1 DEF Agree
  <2>3. proc[p].to = [source |-> s, rev |-> History!Tip(s)]
    <3>1. History!Tip(s) = proc[p].to.rev
        BY <1>3, <2>2 DEF Tip, History!Tip
    <3> QED BY <2>1, <3>1 DEF Transitions
  <2>4. reported' = reported \cup {[source |-> s, rev |-> History!Tip(s)]}
      BY <1>4, <1>6, <2>3 DEF Outcome
  <2> HIDE DEF s
  <2> QED BY <1>3, <2>1, <2>4 DEF History!Report
<1> QED BY <1>5, <1>6

LEMMA HistoryInitMaps == Init => History!HistoryInit
<1> SUFFICES ASSUME Init PROVE History!HistoryInit
    OBVIOUS
<1>1. Consistent
    BY DEF Init, Consistent, Agree, Tip
<1>2. Committed = [s \in Sources |-> <<0>>] /\ ReaderSees = Committed /\ reported = {}
    BY <1>1 DEF Init, Committed, ReaderSees
<1> QED BY <1>2 DEF History!HistoryInit

LEMMA HistoryStepMaps ==
    IInv /\ IInv' /\ [Next]_vars => [History!HistoryNext]_(History!historyVars)
<1> SUFFICES ASSUME IInv, IInv', [Next]_vars
             PROVE  [History!HistoryNext]_(History!historyVars)
    OBVIOUS
<1>1. CASE UNCHANGED <<manifest, ledger, journal, reported>>
    BY <1>1 DEF History!historyVars, Committed, ReaderSees, Consistent, Agree
<1>2. CASE EditManifest \/ EditLedger
  <2>1. /\ manifest'.pin = manifest.pin /\ ledger'.chain = ledger.chain
        /\ UNCHANGED <<journal, reported>>
      BY <1>2, EditKeeps
  <2> QED BY <2>1 DEF History!historyVars, Committed, ReaderSees, Consistent, Agree
<1>3. ASSUME NEW p \in Procs, WriteJournal(p) PROVE UNCHANGED History!historyVars
  <2>1. Committed' = Committed /\ UNCHANGED <<manifest, ledger, reported>>
      BY <1>3, WriteJournalMaps, NewJournal
  <2> QED BY <2>1 DEF History!historyVars, ReaderSees, Consistent, Agree
<1>4. ASSUME NEW p \in Procs, Replacing(p) PROVE History!HistoryNext
    BY <1>4, ReplacingMaps DEF History!HistoryNext
<1>5. ASSUME NEW p \in Procs, UndoJournal(p) PROVE UNCHANGED History!historyVars
  <2>1. /\ proc[p].pc \in Owning /\ proc[p].pc = "undo_journal"
        /\ UNCHANGED <<manifest, ledger, reported>> /\ journal' = NoFile
      BY <1>5 DEF UndoJournal, At, Owning, Holding, Labels
  <2>2. /\ Sound(journal) /\ manifest = journal.before.manifest
        /\ ledger = journal.before.ledger
      BY <2>1, CommandFacts DEF Knows, IInv, JournalSound
  <2>3. Consistent
      BY <2>2, JournalDocuments DEF Consistent
  <2> QED BY <2>1, <2>3, JournalGoneMaps DEF History!historyVars
<1>6. ASSUME NEW p \in Procs, UnlinkJournal(p) PROVE [History!HistoryNext]_(History!historyVars)
    BY <1>6, UnlinkJournalMaps DEF History!HistoryNext, History!historyVars
<1> QED BY <1>1, <1>2, <1>3, <1>4, <1>5, <1>6, FileSteps

\* Two files, a journal and any number of commands, crashes and failed writes
\* implement one reviewed history that advances by whole acceptances.
THEOREM ImplementsReviews == Spec => ImplementsHistory
<1> QED BY HistoryInitMaps, HistoryStepMaps, Invariance, PTL
        DEF Spec, ImplementsHistory, History!HistorySpec
=============================================================================
