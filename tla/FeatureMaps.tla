----------------------------- MODULE FeatureMaps -----------------------------
(***************************************************************************)
(* The feature contracts of powers/pkstack/src/pkstack/features.py as the  *)
(* commands feature generate, generate-map and publish change them.  A     *)
(* command takes a snapshot of its targets, proves a contract for minutes  *)
(* without any lock, and installs its documents if the targets still are   *)
(* as the snapshot had them; a batch that fails half way is rolled back.   *)
(*                                                                         *)
(* Other commands take the same lock; people do not.  A step is one locked *)
(* read of the targets, one proof with the validation after it, one        *)
(* comparison, or the installation or restoration of one document.         *)
(***************************************************************************)
EXTENDS Integers, Sequences, FiniteSets, Functions

CONSTANTS
    Procs,     \* feature commands that may run at the same time
    Slugs,     \* features
    Bodies,    \* contract texts the commands are given
    Hand,      \* a contract text somebody writes by hand
    None,      \* no document; no lock holder
    MaxUpsets  \* bound: changes by hand and commands that are killed

ASSUME FeatureAssumption == Slugs # {} /\ IsFiniteSet(Slugs)
ASSUME MaxUpsetsAssumption == MaxUpsets \in Nat
ASSUME HandAssumption == Hand \notin Bodies

VARIABLES
    docs,   \* the document of each feature: its text, and whether it is a draft
    plan,   \* the text of the feature plan that generate-map reads
    lock,   \* holder of .pkstack/state/feature-map.lock
    proc,   \* what each command is doing
    upsets  \* changes by hand and kills so far

vars == <<docs, plan, lock, proc, upsets>>

-----------------------------------------------------------------------------
(* Documents and commands. *)

Docs == [body : Bodies \cup {Hand}, draft : BOOLEAN]
ASSUME NoneAssumption == None \notin Procs \cup Docs

Maps == UNION {[T -> Docs] : T \in SUBSET Slugs}
Snapshots == UNION {[T -> Docs \cup {None}] : T \in SUBSET Slugs}

Empty == [s \in {} |-> None]

Idle == [op |-> "none", pc |-> "idle", overwrite |-> FALSE, proof |-> FALSE,
         want |-> Empty, expected |-> Empty, passed |-> None, installed |-> <<>>,
         torn |-> FALSE]

Targets(p) == DOMAIN proc[p].want

At(p, label) == proc[p].pc = label

Goto(p, label) == proc' = [proc EXCEPT ![p].pc = label]

Exit(p) == proc' = [proc EXCEPT ![p] = Idle] /\ lock' = IF lock = p THEN None ELSE lock

Ask(p, op, overwrite, proof, want) ==
    /\ At(p, "idle")
    /\ proc' = [proc EXCEPT ![p] = [Idle EXCEPT !.op = op, !.pc = "snapshot",
                   !.overwrite = overwrite, !.proof = proof, !.want = want]]
    /\ UNCHANGED <<docs, plan, lock, upsets>>

\* feature generate, with --ready or for a draft.
Generate(p, s, body, ready, overwrite) ==
    Ask(p, "generate", overwrite, ready,
        [t \in {s} |-> [body |-> body, draft |-> ~ready]])

\* feature generate-map: all but the representative are drafts.
GenerateMap(p, T, representative, overwrite) ==
    Ask(p, "map", overwrite, TRUE,
        [t \in T |-> [body |-> plan, draft |-> t # representative]])

\* feature publish: what to write follows from what is read.
Publish(p, s) ==
    Ask(p, "publish", TRUE, TRUE, [t \in {s} |-> [body |-> Hand, draft |-> TRUE]])

-----------------------------------------------------------------------------
(* The snapshot before the proof. *)

Current(p) == [t \in Targets(p) |-> docs[t]]

Published(doc) == [doc EXCEPT !.draft = FALSE]

CanSnapshot(p) ==
    \A t \in Targets(p) :
        IF proc[p].op = "publish" THEN docs[t] # None /\ docs[t].draft
        ELSE proc[p].overwrite \/ docs[t] = None

Snapshot(p) ==
    /\ At(p, "snapshot") /\ lock = None
    /\ CanSnapshot(p)
    /\ proc' = [proc EXCEPT ![p].pc = IF proc[p].proof THEN "prove" ELSE "write",
                            ![p].expected = Current(p),
                            ![p].want = IF proc[p].op = "publish"
                                        THEN [t \in Targets(p) |-> Published(docs[t])] ELSE @]
    /\ UNCHANGED <<docs, plan, lock, upsets>>

\* Mutant: an early return from the locked section leaves the lock behind.
RefusedKeepsLock(p) ==
    /\ proc' = [proc EXCEPT ![p] = Idle]
    /\ UNCHANGED <<docs, plan, lock, upsets>>

Refused(p) == Exit(p) /\ UNCHANGED <<docs, plan, upsets>>

\* A target is not as the command needs it, or a draft has no command to prove.
SnapshotRefused(p) ==
    /\ At(p, "snapshot") /\ lock = None
    /\ ~CanSnapshot(p) \/ proc[p].op = "publish"
    /\ Refused(p)

-----------------------------------------------------------------------------
(* The proof, and the checks that are repeated after it. *)

\* The contract the command proves: the only one that will not be a draft.
Proved(p) == CHOOSE t \in Targets(p) : ~proc[p].want[t].draft

\* Mutant: the plan that is read again is not compared with the first reading.
RevalidatedUnseen(p) ==
    [t \in Targets(p) |->
        IF proc[p].op = "map" THEN [proc[p].want[t] EXCEPT !.body = plan]
        ELSE proc[p].want[t]]

\* The candidate that the same inputs give now; a batch must still be the plan.
Revalidated(p) ==
    IF proc[p].op = "map" /\ \E t \in Targets(p) : proc[p].want[t].body # plan
    THEN Empty ELSE proc[p].want

\* The verifier passes and the candidate is validated again.
Prove(p) ==
    /\ At(p, "prove")
    /\ Revalidated(p) # Empty
    /\ proc' = [proc EXCEPT ![p].pc = "write",
                            ![p].passed = proc[p].want[Proved(p)].body,
                            ![p].want = Revalidated(p)]
    /\ UNCHANGED <<docs, plan, lock, upsets>>

\* The verifier fails, or the candidate is no longer valid.
ProofFails(p) == At(p, "prove") /\ Refused(p)

-----------------------------------------------------------------------------
(* Compare and install, under the lock. *)

\* Mutant: only absent targets are compared.
UnchangedIfNew(p) ==
    \A t \in Targets(p) : proc[p].expected[t] = None => docs[t] = None

Unchanged(p) == Current(p) = proc[p].expected

\* With the lock taken, every document is compared and staged.
Compare(p) ==
    /\ At(p, "write") /\ lock = None
    /\ Unchanged(p)
    /\ lock' = p
    /\ Goto(p, "install")
    /\ UNCHANGED <<docs, plan, upsets>>

\* A target changed, or staging fails.
CompareFails(p) == At(p, "write") /\ lock = None /\ Refused(p)

Left(p) == Targets(p) \ Range(proc[p].installed)

\* os.replace over a document that was there, otherwise a create-only os.link.
Installs(p, t) == proc[p].expected[t] # None \/ docs[t] = None

Placed(p, t) == docs' = [docs EXCEPT ![t] = proc[p].want[t]]

Install(p, t) ==
    /\ At(p, "install") /\ t \in Left(p)
    /\ Installs(p, t)
    /\ Placed(p, t)
    /\ proc' = [proc EXCEPT ![p].installed = Append(@, t)]
    /\ UNCHANGED <<plan, lock, upsets>>

\* A signal arrives after the replacement and before its path is noted.
InstallInterrupted(p, t) ==
    /\ At(p, "install") /\ t \in Left(p) /\ proc[p].op = "map"
    /\ Installs(p, t)
    /\ Placed(p, t)
    /\ proc' = [proc EXCEPT ![p].pc = "rollback", ![p].torn = TRUE]
    /\ UNCHANGED <<plan, lock, upsets>>

\* An error while a document or, after the last, the directory is written.
InstallFails(p) ==
    /\ At(p, "install")
    /\ IF proc[p].op = "map"
       THEN Goto(p, "rollback") /\ UNCHANGED <<docs, plan, lock, upsets>>
       ELSE Left(p) # {} /\ Refused(p)

Done(p) ==
    /\ At(p, "install") /\ Left(p) = {}
    /\ Exit(p)
    /\ UNCHANGED <<docs, plan, upsets>>

Last(s) == s[Len(s)]
Noted(p) == proc[p].installed

\* Mutant: only what was created is removed again.
RestoredIfNew(p) ==
    docs' = [docs EXCEPT ![Last(Noted(p))] =
                IF proc[p].expected[Last(Noted(p))] = None THEN None ELSE @]

Restored(p) == docs' = [docs EXCEPT ![Last(Noted(p))] = proc[p].expected[Last(Noted(p))]]

\* The latest installed document is put back as it was compared.
RollBack(p) ==
    /\ At(p, "rollback") /\ Noted(p) # <<>>
    /\ Restored(p)
    /\ proc' = [proc EXCEPT ![p].installed = SubSeq(@, 1, Len(@) - 1)]
    /\ UNCHANGED <<plan, lock, upsets>>

\* It cannot be put back; the others still are.
RollBackFails(p) ==
    /\ At(p, "rollback") /\ Noted(p) # <<>>
    /\ proc' = [proc EXCEPT ![p].installed = SubSeq(@, 1, Len(@) - 1), ![p].torn = TRUE]
    /\ UNCHANGED <<docs, plan, lock, upsets>>

RolledBack(p) == At(p, "rollback") /\ Noted(p) = <<>> /\ Refused(p)

-----------------------------------------------------------------------------
(* The environment. *)

\* The process is killed; the kernel drops the lock.
Kill(p) ==
    /\ ~At(p, "idle") /\ upsets < MaxUpsets
    /\ upsets' = upsets + 1
    /\ Exit(p)
    /\ UNCHANGED <<docs, plan>>

\* Nobody is between comparing a target and finishing with it.
Settled(s) ==
    \A p \in Procs : s \in Targets(p) => proc[p].pc \notin {"install", "rollback"}

\* Somebody writes, changes or removes a document.  A hand edit of an existing
\* one in the moment between its comparison and its replacement is left out;
\* a new file may appear even then.
Edit(s, doc) ==
    /\ doc # docs[s] /\ upsets < MaxUpsets
    /\ Settled(s) \/ docs[s] = None
    /\ docs' = [docs EXCEPT ![s] = doc]
    /\ upsets' = upsets + 1
    /\ UNCHANGED <<plan, lock, proc>>

EditPlan(body) ==
    /\ body # plan /\ upsets < MaxUpsets
    /\ plan' = body
    /\ upsets' = upsets + 1
    /\ UNCHANGED <<docs, lock, proc>>

-----------------------------------------------------------------------------

Init ==
    /\ docs = [s \in Slugs |-> None]
    /\ plan \in Bodies
    /\ lock = None
    /\ proc = [p \in Procs |-> Idle]
    /\ upsets = 0

Command(p) ==
    \/ \E s \in Slugs, overwrite \in BOOLEAN :
          \/ \E body \in Bodies, ready \in BOOLEAN : Generate(p, s, body, ready, overwrite)
          \/ \E T \in SUBSET Slugs : s \in T /\ GenerateMap(p, T, s, overwrite)
    \/ \E s \in Slugs : Publish(p, s)

Proceed(p) ==
    \/ Snapshot(p) \/ SnapshotRefused(p)
    \/ Prove(p) \/ ProofFails(p)
    \/ Compare(p) \/ CompareFails(p)
    \/ \E t \in Slugs : Install(p, t) \/ InstallInterrupted(p, t)
    \/ InstallFails(p) \/ Done(p)
    \/ RollBack(p) \/ RollBackFails(p) \/ RolledBack(p)

Next ==
    \/ \E p \in Procs : Command(p) \/ Proceed(p) \/ Kill(p)
    \/ \E s \in Slugs, draft \in BOOLEAN : Edit(s, [body |-> Hand, draft |-> draft])
    \/ \E s \in Slugs : Edit(s, None)
    \/ \E body \in Bodies : EditPlan(body)

Spec == Init /\ [][Next]_vars

-----------------------------------------------------------------------------
(* Properties. *)

Locked == {"install", "rollback"}
Labels == {"idle", "snapshot", "prove", "write"} \cup Locked

\* Type correctness; the lock is held by a command in its locked section and by
\* nobody else, whichever way commands end.
TypeOK ==
    /\ docs \in [Slugs -> Docs \cup {None}]
    /\ plan \in Bodies
    /\ lock \in Procs \cup {None}
    /\ \A p \in Procs :
          /\ proc[p].op \in {"none", "generate", "map", "publish"}
          /\ proc[p].pc \in Labels
          /\ proc[p].want \in Maps
          /\ proc[p].expected \in Snapshots
          /\ Range(proc[p].installed) \subseteq Targets(p)
          /\ proc[p].pc \in Locked <=> lock = p
    /\ upsets \in 0 .. MaxUpsets

\* The documents a step of a command changes.
Changes(s) == docs'[s] # docs[s] /\ upsets' = upsets

\* What a command replaces, removes or puts back is either the document it read
\* before its minutes of proof or its own: no edit and no other command's
\* document is ever lost, and without --overwrite nothing is replaced at all,
\* not even a file that appears between the comparison and the installation.
NothingLost ==
    [][\A s \in Slugs : Changes(s) =>
          \E p \in Procs :
              /\ lock = p /\ s \in Targets(p)
              /\ docs[s] \in {proc[p].expected[s], proc[p].want[s]}
              /\ docs[s] # None /\ ~proc[p].overwrite => docs'[s] = None]_vars

\* A command makes a contract ready only if this command's own verifier run
\* passed for exactly the text it installs.
ReadyIsProven ==
    [][\A s \in Slugs :
          (Changes(s) /\ docs'[s] # None /\ ~docs'[s].draft /\ ~At(lock, "rollback"))
              => proc[lock].passed = docs'[s].body]_vars

\* A batch that ends by itself is installed whole, or nothing of it is there:
\* what existed is as it was read, what did not was at most written by hand.
\* The exceptions are a document that cannot be put back and a signal in the
\* moment between a replacement and its note.
BatchWhole ==
    [][\A p \in Procs :
          (proc[p].op = "map" /\ proc[p].pc \in {"install", "rollback"}
             /\ At(p, "idle")' /\ ~proc[p].torn /\ upsets' = upsets)
          => \/ \A t \in Targets(p) : docs'[t] = proc[p].want[t]
             \/ \A t \in Targets(p) :
                   \/ docs'[t] = proc[p].expected[t]
                   \/ proc[p].expected[t] = None /\ docs'[t].body = Hand]_vars
=============================================================================
