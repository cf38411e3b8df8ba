-------------------------------- MODULE Goal --------------------------------
(***************************************************************************)
(* The verified-goal store of powers/pkstack/src/pkstack/goal.py: one goal *)
(* slot on disk (.pkstack/state/goal.json), two advisory file locks, and   *)
(* any number of concurrent projectctl processes that start, verify,       *)
(* resume and clear the goal or bind a spec bridge.  Editors, crashes and  *)
(* changes of the command policy are the environment.                      *)
(*                                                                         *)
(* A step is what a process does between two points at which another       *)
(* process can observe or change shared state: an unlocked read, a lock    *)
(* acquisition, a whole locked section (load, decide, save, release), the  *)
(* launch and the end of the verifier child.                               *)
(***************************************************************************)
EXTENDS Integers, Sequences, FiniteSets

CONSTANTS
    Procs,          \* projectctl processes
    NoProc,         \* a free lock
    Commands,       \* verifier commands (argv), also the bridge contents
    NoBridge,       \* pkstack-verification.json does not exist
    Natives,        \* contents of a spec's intent and design artifacts
    NoNative,       \* the spec's native artifacts are missing or incomplete
    Ops,            \* the commands the processes are asked to run
    Starts,         \* the contract sources they are asked to start goals from
    Unsteady,       \* the commands the policy may come to reject
    AttemptLimit,   \* the hard cap on max_attempts, 20 in the code
    MaxSaves,       \* bound: goal-state saves in one behaviour
    MaxRuns,        \* bound: verifier launches in one behaviour
    MaxDamage       \* bound: outside writes of an unreadable goal.json

ASSUME ProcsAssumption == NoProc \notin Procs
ASSUME OpsAssumption == Ops \subseteq {"start", "verify", "resume", "clear", "bind"}
ASSUME StartsAssumption == Starts \subseteq {"explicit", "spec"}
ASSUME UnsteadyAssumption == Unsteady \subseteq Commands
ASSUME LimitAssumption == AttemptLimit \in Nat \ {0}
ASSUME BoundAssumption == MaxSaves \in Nat /\ MaxRuns \in Nat /\ MaxDamage \in Nat
ASSUME SpecAssumption == NoBridge \notin Commands /\ NoNative \notin Natives

VARIABLES
    file,        \* goal.json: Absent, unreadable bytes, or a GoalState
    archive,     \* unreadable goal.json contents kept by a forced clear
    stateLock,   \* holder of .goal.lock
    verifyLock,  \* holder of .goal.verify.lock
    proc,        \* what each process is doing
    children,    \* verifier children (process groups) that are alive
    ranFor,      \* history: the stored state each launch was made for
    native,      \* the spec's intent and design artifacts on disk
    bridge,      \* the spec's pkstack-verification.json on disk
    banned,      \* commands enforce_verification_policy rejects now
    clock,       \* stamp of the latest save; also the latest goal id drawn
    damage,      \* number of outside writes so far
    saveRefused  \* history: which commands' saves were refused, and by what

vars == <<file, archive, stateLock, verifyLock, proc, children, ranFor,
          native, bridge, banned, clock, damage, saveRefused>>

specFiles == <<native, bridge, banned>>

-----------------------------------------------------------------------------
(* The stored state (models.GoalState) and what may be in goal.json. *)

GoalStatus == {"active", "passed", "exhausted"}
Verdicts == {"pass", "fail"}

\* A VerificationResult: the launch it reports on (its started_at) and whether
\* it passed; captured output and exit codes are left out.
Results == [run : Nat \ {0}, verdict : Verdicts]
NoResult == [run |-> 0, verdict |-> "fail"]

\* A CommandSpec.  A spec contract carries the snapshot of the native artifacts
\* and, as its command, that of the bridge; other contracts carry no snapshot.
Contracts ==
    [source : {"explicit"}, cmd : Commands, native : {NoNative}]
        \cup [source : {"spec"}, cmd : Commands, native : Natives]

GoalStates ==
    [status : GoalStatus, id : Nat \ {0}, contract : Contracts, count : Nat,
     max : Nat, updated : Nat, history : Seq(Results)]

Absent == [status |-> "absent"]
Unsupported == [status |-> "unsupported"]
Corrupt(n) == [status |-> "corrupt", content |-> n]

Files == GoalStates \cup {Absent, Unsupported}
             \cup [status : {"corrupt"}, content : Nat]

IsGoal(f) == f.status \in GoalStatus

LastPassed(s) == s.count > 0 /\ s.history[s.count].verdict = "pass"

\* _validate_state without the command policy: the evidence supports the status.
Valid(s) ==
    /\ s.max \in 1 .. AttemptLimit
    /\ s.count \in 0 .. s.max
    /\ Len(s.history) = s.count
    /\ \A i \in 1 .. (s.count - 1) : s.history[i].verdict = "fail"
    /\ s.status = "active" => s.count < s.max /\ ~LastPassed(s)
    /\ s.status = "passed" => LastPassed(s)
    /\ s.status = "exhausted" => s.count > 0 /\ s.count = s.max /\ ~LastPassed(s)

Admitted(c) == c.cmd \notin banned

\* GoalStore.load succeeds; checkPolicy is its check_command_policy argument.
Loads(checkPolicy) ==
    \/ file = Absent
    \/ IsGoal(file) /\ Valid(file) /\ (checkPolicy => Admitted(file.contract))

\* _assert_spec_snapshot, applied to spec contracts only.
SnapshotHolds(c) ==
    c.source = "spec" => native = c.native /\ bridge = c.cmd

-----------------------------------------------------------------------------
(* The processes. *)

Sources == {"explicit", "spec"}

Requests ==
    [op : {"none", "start", "verify", "resume", "clear", "bind"},
     source : Sources, cmd : Commands \cup {NoBridge}, n : Nat, flag : BOOLEAN]

NoRequest == [op |-> "none", source |-> "explicit", cmd |-> NoBridge, n |-> 0,
              flag |-> FALSE]

NoContract == [source |-> "explicit", cmd |-> NoBridge, native |-> NoNative]

IdleProc == [pc |-> "idle", req |-> NoRequest, contract |-> NoContract,
             prior |-> Absent, result |-> NoResult]

\* The verifier launches a process has still to make.
MayLaunch(q) == proc[q].req.op = "verify"
                    /\ proc[q].pc \notin {"run", "r_preflight", "r_wait", "record"}

Saving == {"start", "verify", "resume"}

\* Bound: every process in flight can still make its save and its launch.
Room(op) ==
    /\ op \in Saving =>
          clock + Cardinality({q \in Procs : proc[q].req.op \in Saving}) < MaxSaves
    /\ op = "verify" =>
          Len(ranFor) + Cardinality({q \in Procs : MayLaunch(q)}) < MaxRuns

Goto(p, label) == proc' = [proc EXCEPT ![p].pc = label]

Request(p, r, label) ==
    /\ proc[p].pc = "idle"
    /\ r.op \in Ops
    /\ Room(r.op)
    /\ proc' = [proc EXCEPT ![p].pc = label, ![p].req = r]
    /\ UNCHANGED <<file, archive, stateLock, verifyLock, children, ranFor,
                   specFiles, clock, damage, saveRefused>>

\* A max_attempts outside 1 .. AttemptLimit is refused at once.
RequestStart(p, s, c, max) ==
    /\ s \in Starts
    /\ Request(p, [NoRequest EXCEPT !.op = "start", !.source = s, !.cmd = c, !.n = max],
               "resolve")

RequestVerify(p) ==
    Request(p, [NoRequest EXCEPT !.op = "verify"], "v_preflight")

\* flag: n is the new max_attempts; otherwise n is add_attempts, which is refused
\* at once when negative.  An n over the limit fails like a max_attempts of zero.
RequestResume(p, n, absolute) ==
    Request(p, [NoRequest EXCEPT !.op = "resume", !.n = n, !.flag = absolute],
            "preflight")

RequestClear(p, force) ==
    Request(p, [NoRequest EXCEPT !.op = "clear", !.flag = force], "preflight")

\* bind_spec_contract inspects the native artifacts and the policy first.
RequestBind(p, c, overwrite) ==
    /\ native # NoNative /\ c \notin banned
    /\ Request(p, [NoRequest EXCEPT !.op = "bind", !.cmd = c, !.flag = overwrite],
               "bind_check")

\* The process leaves every lock it holds and exits, normally or with an error.
Exit(p) ==
    /\ proc' = [proc EXCEPT ![p] = IdleProc]
    /\ stateLock' = IF stateLock = p THEN NoProc ELSE stateLock
    /\ verifyLock' = IF verifyLock = p THEN NoProc ELSE verifyLock

-----------------------------------------------------------------------------
(* start: the contract is resolved before any lock is taken. *)

Unlocked == <<file, archive, stateLock, verifyLock, children, ranFor,
              specFiles, clock, damage, saveRefused>>

ResolveExplicit(p) ==
    LET c == [source |-> "explicit", cmd |-> proc[p].req.cmd, native |-> NoNative] IN
    /\ proc[p].pc = "resolve" /\ proc[p].req.source = "explicit"
    /\ Admitted(c)
    /\ proc' = [proc EXCEPT ![p].pc = "preflight", ![p].contract = c]
    /\ UNCHANGED Unlocked

\* _load_spec_bridge reads the native artifacts first ...
ResolveNative(p) ==
    /\ proc[p].pc = "resolve" /\ proc[p].req.source = "spec"
    /\ native # NoNative
    /\ proc' = [proc EXCEPT ![p].pc = "resolve_bridge",
                            ![p].contract.native = native]
    /\ UNCHANGED Unlocked

\* ... and the bridge after them.
ResolveBridge(p) ==
    LET c == [source |-> "spec", cmd |-> bridge, native |-> proc[p].contract.native] IN
    /\ proc[p].pc = "resolve_bridge"
    /\ bridge # NoBridge
    /\ Admitted(c)
    /\ proc' = [proc EXCEPT ![p].pc = "preflight", ![p].contract = c]
    /\ UNCHANGED Unlocked

ResolveFails(p) ==
    /\ \/ /\ proc[p].pc = "resolve"
          /\ IF proc[p].req.source = "explicit"
             THEN proc[p].req.cmd \in banned ELSE native = NoNative
       \/ /\ proc[p].pc = "resolve_bridge"
          /\ bridge = NoBridge \/ bridge \in banned
    /\ Exit(p)
    /\ UNCHANGED <<file, archive, children, ranFor, specFiles, clock, damage,
                   saveRefused>>

-----------------------------------------------------------------------------
(* GoalStore._lock: a preflight load outside the lock, then flock. *)

AllowCorrupt(p) == proc[p].req.op = "clear" /\ proc[p].req.flag

PreflightPasses(p) ==
    Loads(FALSE) \/ (AllowCorrupt(p) /\ file # Unsupported)

AfterPreflight ==
    [preflight |-> "wait", v_preflight |-> "v_wait", b_preflight |-> "b_wait",
     r_preflight |-> "r_wait"]

AfterWait == [wait |-> "apply", b_wait |-> "begin", r_wait |-> "record"]

Preflight(p) ==
    /\ proc[p].pc \in DOMAIN AfterPreflight
    /\ PreflightPasses(p)
    /\ Goto(p, AfterPreflight[proc[p].pc])
    /\ UNCHANGED Unlocked

PreflightFails(p) ==
    /\ proc[p].pc \in DOMAIN AfterPreflight
    /\ ~PreflightPasses(p)
    /\ Exit(p)
    /\ UNCHANGED <<file, archive, children, ranFor, specFiles, clock, damage,
                   saveRefused>>

\* Mutant: the verification lock is not waited for.
AcquireVerifyAnyway(p) ==
    /\ proc[p].pc = "v_wait"
    /\ verifyLock' = p
    /\ Goto(p, "b_preflight")
    /\ UNCHANGED <<file, archive, stateLock, children, ranFor, specFiles, clock,
                   damage, saveRefused>>

AcquireVerify(p) ==
    /\ proc[p].pc = "v_wait"
    /\ verifyLock = NoProc
    /\ verifyLock' = p
    /\ Goto(p, "b_preflight")
    /\ UNCHANGED <<file, archive, stateLock, children, ranFor, specFiles, clock,
                   damage, saveRefused>>

AcquireState(p) ==
    /\ proc[p].pc \in DOMAIN AfterWait
    /\ stateLock = NoProc
    /\ stateLock' = p
    /\ Goto(p, AfterWait[proc[p].pc])
    /\ UNCHANGED <<file, archive, verifyLock, children, ranFor, specFiles, clock,
                   damage, saveRefused>>

-----------------------------------------------------------------------------
(* The locked sections.  Save validates what it writes, the command policy    *)
(* included, and replaces the file atomically; a refused or failed section    *)
(* leaves the file alone.                                                     *)

\* The checks of save that refuse s.
Objections(s) ==
    {why \in {"evidence", "policy"} :
        IF why = "evidence" THEN ~Valid(s) ELSE ~Admitted(s.contract)}

Save(op, s) ==
    IF Objections(s) = {}
    THEN file' = s /\ clock' = clock + 1 /\ UNCHANGED saveRefused
    ELSE /\ saveRefused' = saveRefused \cup ({op} \X Objections(s))
         /\ UNCHANGED <<file, clock>>

\* A locked section that raises GoalError.
Refuse(p) ==
    /\ Exit(p)
    /\ UNCHANGED <<file, archive, children, ranFor, specFiles, clock, damage,
                   saveRefused>>

NewGoal(p) ==
    [status |-> "active", id |-> clock + 1, contract |-> proc[p].contract,
     count |-> 0, max |-> proc[p].req.n, updated |-> clock + 1, history |-> <<>>]

\* Mutant: an existing goal is overwritten.
CanStartOverGoal == Loads(TRUE)

\* Mutant: bytes that do not load count as no goal.
CanStartOverUnreadable == ~IsGoal(file)

CanStart == Loads(TRUE) /\ file = Absent

Start(p) ==
    /\ proc[p].pc = "apply" /\ proc[p].req.op = "start"
    /\ CanStart
    /\ Save("start", NewGoal(p))
    /\ Exit(p)
    /\ UNCHANGED <<archive, children, ranFor, specFiles, damage>>

StartRefused(p) ==
    /\ proc[p].pc = "apply" /\ proc[p].req.op = "start"
    /\ ~CanStart
    /\ Refuse(p)

Proposed(p) ==
    IF proc[p].req.flag THEN proc[p].req.n ELSE file.max + proc[p].req.n

CanResume(p) ==
    /\ Loads(TRUE) /\ file # Absent
    /\ file.status # "passed"
    /\ Proposed(p) \in 1 .. AttemptLimit
    /\ Proposed(p) >= file.count
    /\ file.status = "active" => Proposed(p) # file.count
    /\ file.status = "exhausted" => Proposed(p) > file.count

\* Mutant: a resume starts the count and the history afresh.
ResumeAfresh(p) ==
    /\ proc[p].pc = "apply" /\ proc[p].req.op = "resume"
    /\ CanResume(p)
    /\ Save("resume", [file EXCEPT !.max = Proposed(p), !.status = "active",
                                   !.count = 0, !.history = <<>>,
                                   !.updated = clock + 1])
    /\ Exit(p)
    /\ UNCHANGED <<archive, children, ranFor, specFiles, damage>>

Resume(p) ==
    /\ proc[p].pc = "apply" /\ proc[p].req.op = "resume"
    /\ CanResume(p)
    /\ Save("resume", [file EXCEPT !.max = Proposed(p), !.status = "active",
                                   !.updated = clock + 1])
    /\ Exit(p)
    /\ UNCHANGED <<archive, children, ranFor, specFiles, damage>>

ResumeRefused(p) ==
    /\ proc[p].pc = "apply" /\ proc[p].req.op = "resume"
    /\ ~CanResume(p)
    /\ Refuse(p)

\* clear_goal of a readable goal: an active one needs --force.
Clear(p) ==
    /\ proc[p].pc = "apply" /\ proc[p].req.op = "clear"
    /\ Loads(~proc[p].req.flag)
    /\ file.status = "active" => proc[p].req.flag
    /\ file' = Absent
    /\ Exit(p)
    /\ UNCHANGED <<archive, children, ranFor, specFiles, clock, damage, saveRefused>>

ClearRefused(p) ==
    /\ proc[p].pc = "apply" /\ proc[p].req.op = "clear"
    /\ \/ file = Unsupported
       \/ ~Loads(~proc[p].req.flag) /\ ~proc[p].req.flag
       \/ file.status = "active" /\ ~proc[p].req.flag
    /\ Refuse(p)

\* A forced clear of unreadable bytes links them under a name of their own ...
Archive(p) ==
    /\ proc[p].pc = "apply" /\ proc[p].req.op = "clear" /\ proc[p].req.flag
    /\ ~Loads(FALSE) /\ file # Unsupported
    /\ archive' = archive \cup {file}
    /\ Goto(p, "archived")
    /\ UNCHANGED <<file, stateLock, verifyLock, children, ranFor, specFiles,
                   clock, damage, saveRefused>>

\* ... and only then unlinks goal.json.
UnlinkArchived(p) ==
    /\ proc[p].pc = "archived"
    /\ file' = Absent
    /\ Exit(p)
    /\ UNCHANGED <<archive, children, ranFor, specFiles, clock, damage, saveRefused>>

-----------------------------------------------------------------------------
(* verify_goal: capture under the state lock, run without it, record under  *)
(* it again; the verification lock is held throughout.                      *)

CanBegin == Loads(TRUE) /\ file.status = "active" /\ SnapshotHolds(file.contract)

Begin(p) ==
    /\ proc[p].pc = "begin"
    /\ CanBegin
    /\ proc' = [proc EXCEPT ![p].pc = "launch", ![p].prior = file]
    /\ stateLock' = NoProc
    /\ UNCHANGED <<file, archive, verifyLock, children, ranFor, specFiles, clock,
                   damage, saveRefused>>

\* Mutant: the early error path leaves its locks behind.
BeginRefusedKeepsLocks(p) ==
    /\ proc[p].pc = "begin"
    /\ ~CanBegin
    /\ proc' = [proc EXCEPT ![p] = IdleProc]
    /\ UNCHANGED <<file, archive, stateLock, verifyLock, children, ranFor, specFiles,
                   clock, damage, saveRefused>>

BeginRefused(p) ==
    /\ proc[p].pc = "begin"
    /\ ~CanBegin
    /\ Refuse(p)

\* Mutant: the launched child is tracked under the wrong number.
LaunchOffByOne(p) ==
    LET run == Len(ranFor) + 1 IN
    /\ proc[p].pc = "launch"
    /\ Admitted(proc[p].prior.contract)
    /\ ranFor' = Append(ranFor, proc[p].prior)
    /\ children' = children \cup {run + 1}
    /\ proc' = [proc EXCEPT ![p].pc = "run", ![p].result.run = run]
    /\ UNCHANGED <<file, archive, stateLock, verifyLock, specFiles, clock, damage,
                   saveRefused>>

\* run_command screens the captured command again and starts the child in a
\* session of its own.
Launch(p) ==
    LET run == Len(ranFor) + 1 IN
    /\ proc[p].pc = "launch"
    /\ Admitted(proc[p].prior.contract)
    /\ ranFor' = Append(ranFor, proc[p].prior)
    /\ children' = children \cup {run}
    /\ proc' = [proc EXCEPT ![p].pc = "run", ![p].result.run = run]
    /\ UNCHANGED <<file, archive, stateLock, verifyLock, specFiles, clock, damage,
                   saveRefused>>

LaunchRejected(p) ==
    /\ proc[p].pc = "launch"
    /\ ~Admitted(proc[p].prior.contract)
    /\ Refuse(p)

\* The child exits or its timeout expires; either way its group is killed.
RunEnds(p, v) ==
    /\ proc[p].pc = "run"
    /\ children' = children \ {proc[p].result.run}
    /\ proc' = [proc EXCEPT ![p].pc = "r_preflight", ![p].result.verdict = v]
    /\ UNCHANGED <<file, archive, stateLock, verifyLock, ranFor, specFiles, clock,
                   damage, saveRefused>>

\* Mutant: the goal is not compared with the captured one.
UnchangedNever(p) == TRUE

\* Mutant: only the goal id is compared.
UnchangedId(p) == file.id = proc[p].prior.id

Unchanged(p) == file.id = proc[p].prior.id /\ file = proc[p].prior

\* Mutant: the spec snapshot is checked before the run only.
CanRecordNoSnapshot(p) == Loads(TRUE) /\ file # Absent /\ Unchanged(p)

CanRecord(p) ==
    /\ Loads(TRUE) /\ file # Absent
    /\ Unchanged(p)
    /\ SnapshotHolds(file.contract)

\* Mutant: off by one at the end of the budget.
StatusAfterLate(s, v) ==
    IF v = "pass" THEN "passed"
    ELSE IF s.count + 1 > s.max THEN "exhausted" ELSE "active"

StatusAfter(s, v) ==
    IF v = "pass" THEN "passed"
    ELSE IF s.count + 1 >= s.max THEN "exhausted" ELSE "active"

Attempted(s, r) ==
    [s EXCEPT !.count = s.count + 1, !.history = Append(s.history, r),
              !.status = StatusAfter(s, r.verdict), !.updated = clock + 1]

Record(p) ==
    /\ proc[p].pc = "record"
    /\ CanRecord(p)
    /\ Save("verify", Attempted(file, proc[p].result))
    /\ Exit(p)
    /\ UNCHANGED <<archive, children, ranFor, specFiles, damage>>

Discard(p) ==
    /\ proc[p].pc = "record"
    /\ ~CanRecord(p)
    /\ Refuse(p)

-----------------------------------------------------------------------------
(* bind_spec_contract: no lock; the final link or replace decides. *)

BindCheck(p) ==
    /\ proc[p].pc = "bind_check"
    /\ bridge = NoBridge \/ (bridge # proc[p].req.cmd /\ proc[p].req.flag)
    /\ Goto(p, "bind_write")
    /\ UNCHANGED Unlocked

\* The same bytes are there already, or others are and --overwrite was not given.
BindDone(p) ==
    /\ proc[p].pc = "bind_check"
    /\ bridge = proc[p].req.cmd \/ (bridge # NoBridge /\ ~proc[p].req.flag)
    /\ Exit(p)
    /\ UNCHANGED <<file, archive, children, ranFor, specFiles, clock, damage,
                   saveRefused>>

\* Mutant: the bridge is always moved into place.
BindInstallsAlways(p) == TRUE

\* os.replace with --overwrite, otherwise a create-only os.link.
BindInstalls(p) == proc[p].req.flag \/ bridge = NoBridge

BindWrite(p) ==
    /\ proc[p].pc = "bind_write"
    /\ bridge' = IF BindInstalls(p) THEN proc[p].req.cmd ELSE bridge
    /\ Exit(p)
    /\ UNCHANGED <<file, archive, children, ranFor, native, banned, clock, damage,
                   saveRefused>>

-----------------------------------------------------------------------------
(* The environment. *)

\* SIGKILL: the kernel drops the locks; the child's session lives on.
Crash(p) ==
    /\ proc[p].pc # "idle"
    /\ Exit(p)
    /\ UNCHANGED <<file, archive, children, ranFor, specFiles, clock, damage,
                   saveRefused>>

\* SIGTERM while the child runs: the handler unwinds run_command, which kills
\* the child's group, and both locks are released on the way out.
Terminate(p) ==
    /\ proc[p].pc = "run"
    /\ children' = children \ {proc[p].result.run}
    /\ Exit(p)
    /\ UNCHANGED <<file, archive, ranFor, specFiles, clock, damage, saveRefused>>

Owned == {proc[p].result.run : p \in {q \in Procs : proc[q].pc = "run"}}

OrphanEnds(run) ==
    /\ run \in children \ Owned
    /\ children' = children \ {run}
    /\ UNCHANGED <<file, archive, stateLock, verifyLock, proc, ranFor, specFiles,
                   clock, damage, saveRefused>>

EditNative(n) ==
    /\ n # native
    /\ native' = n
    /\ UNCHANGED <<file, archive, stateLock, verifyLock, proc, children, ranFor,
                   bridge, banned, clock, damage, saveRefused>>

\* The policy reads the workspace (what a token resolves to), so a file change
\* can turn an accepted command into a rejected one; a change between the load
\* and the save of one locked section is left out.
PolicyChanges(c) ==
    /\ c \notin banned
    /\ banned' = banned \cup {c}
    /\ UNCHANGED <<file, archive, stateLock, verifyLock, proc, children, ranFor,
                   native, bridge, clock, damage, saveRefused>>

\* A hand edit, a merge or another controller version writes goal.json.  Such a
\* writer takes no lock; writes that fall inside a locked section are left out.
Damage(f) ==
    /\ stateLock = NoProc
    /\ damage < MaxDamage
    /\ file' = f
    /\ damage' = damage + 1
    /\ UNCHANGED <<archive, stateLock, verifyLock, proc, children, ranFor,
                   specFiles, clock, saveRefused>>

-----------------------------------------------------------------------------

Init ==
    /\ file = Absent
    /\ archive = {}
    /\ stateLock = NoProc
    /\ verifyLock = NoProc
    /\ proc = [p \in Procs |-> IdleProc]
    /\ children = {}
    /\ ranFor = <<>>
    /\ native \in Natives \cup {NoNative}
    /\ bridge = NoBridge
    /\ banned = {}
    /\ clock = 0
    /\ damage = 0
    /\ saveRefused = {}

Ask(p) ==
    \/ \E m \in 1 .. AttemptLimit :
        \/ \E c \in Commands : RequestStart(p, "explicit", c, m)
        \/ RequestStart(p, "spec", NoBridge, m)
    \/ RequestVerify(p)
    \/ \E n \in 0 .. AttemptLimit, b \in BOOLEAN : RequestResume(p, n, b)
    \/ \E b \in BOOLEAN : RequestClear(p, b)
    \/ \E c \in Commands, b \in BOOLEAN : RequestBind(p, c, b)

\* Everything a process does on its own once asked, the lock waits apart.
Proceed(p) ==
    \/ ResolveExplicit(p) \/ ResolveNative(p) \/ ResolveBridge(p) \/ ResolveFails(p)
    \/ Preflight(p) \/ PreflightFails(p)
    \/ Start(p) \/ StartRefused(p)
    \/ Resume(p) \/ ResumeRefused(p)
    \/ Clear(p) \/ ClearRefused(p) \/ Archive(p) \/ UnlinkArchived(p)
    \/ Begin(p) \/ BeginRefused(p) \/ Launch(p) \/ LaunchRejected(p)
    \/ \E v \in Verdicts : RunEnds(p, v)
    \/ Record(p) \/ Discard(p)
    \/ BindCheck(p) \/ BindDone(p) \/ BindWrite(p)

Environment ==
    \/ \E run \in children : OrphanEnds(run)
    \/ \E n \in Natives \cup {NoNative} : EditNative(n)
    \/ \E c \in Unsteady : PolicyChanges(c)
    \/ Damage(Unsupported)
    \/ Damage(Corrupt(damage))

\* Nobody is running a command, and nobody need ever run one again.
Quiet == (\A p \in Procs : proc[p].pc = "idle") /\ UNCHANGED vars

Next ==
    \/ \E p \in Procs :
        \/ Ask(p) \/ Proceed(p) \/ AcquireVerify(p) \/ AcquireState(p)
        \/ Crash(p) \/ Terminate(p)
    \/ Environment
    \/ Quiet

Spec == Init /\ [][Next]_vars

\* A process keeps running, a verifier run ends (its timeout is finite), and a
\* blocked flock is granted if the lock keeps becoming free: the kernel wakes
\* the waiters of a lock in order.
Fairness ==
    \A p \in Procs : SF_vars(Proceed(p) \/ AcquireVerify(p) \/ AcquireState(p))

FairSpec == Spec /\ Fairness

-----------------------------------------------------------------------------
(* Properties. *)

Labels ==
    {"idle", "resolve", "resolve_bridge", "preflight", "wait", "apply", "archived",
     "v_preflight", "v_wait", "b_preflight", "b_wait", "begin", "launch", "run",
     "r_preflight", "r_wait", "record", "bind_check", "bind_write"}

HoldsState == {"apply", "archived", "begin", "record"}
HoldsVerify == {"b_preflight", "b_wait", "begin", "launch", "run", "r_preflight",
                "r_wait", "record"}
HasRun == {"run", "r_preflight", "r_wait", "record"}

ProcStates ==
    [pc : Labels, req : Requests,
     contract : [source : Sources, cmd : Commands \cup {NoBridge},
                 native : Natives \cup {NoNative}],
     prior : GoalStates \cup {Absent},
     result : [run : Nat, verdict : Verdicts]]

\* Type correctness of the store, the locks, the processes and the spec files.
TypeOK ==
    /\ file \in Files
    /\ archive \subseteq Files
    /\ stateLock \in Procs \cup {NoProc}
    /\ verifyLock \in Procs \cup {NoProc}
    /\ proc \in [Procs -> ProcStates]
    /\ children \subseteq 1 .. Len(ranFor)
    /\ ranFor \in Seq(GoalStates)
    /\ native \in Natives \cup {NoNative}
    /\ bridge \in Commands \cup {NoBridge}
    /\ banned \subseteq Commands
    /\ clock \in Nat
    /\ damage \in Nat
    /\ saveRefused \subseteq {"start", "verify", "resume"} \X {"evidence", "policy"}

\* Save's own validation refuses one thing only: the start of a goal whose
\* command the policy has rejected since the start resolved it.  No verdict and
\* no resume that passed the checks of its locked section is lost to it, whatever
\* other commands did meanwhile, and the evidence in goal.json always supports
\* its status, so that the next load accepts it.
StoredStateValid ==
    /\ saveRefused \subseteq {<<"start", "policy">>}
    /\ IsGoal(file) => Valid(file)

\* Both flocks exclude: one process in a locked section, one in verify_goal
\* past its verification lock, and so one verifier child with a live parent.
Exclusion ==
    \A p, q \in Procs :
        p # q => /\ ~(proc[p].pc \in HoldsState /\ proc[q].pc \in HoldsState)
                 /\ ~(proc[p].pc \in HoldsVerify /\ proc[q].pc \in HoldsVerify)

\* Every entry of the stored history reports a verifier launch made for this
\* very goal and contract, no launch is charged twice, and the entries are in
\* launch order, whatever was cleared, restarted, resumed or killed meanwhile.
EvidenceIsOwn ==
    IsGoal(file) =>
        \A i \in 1 .. Len(file.history) :
            LET run == file.history[i].run IN
            /\ run \in 1 .. Len(ranFor)
            /\ ranFor[run].id = file.id
            /\ ranFor[run].contract = file.contract
            /\ \A j \in 1 .. (i - 1) : file.history[j].run < run

\* Recording: the stored goal stays the same one and gains history entries.
Recorded ==
    /\ IsGoal(file) /\ IsGoal(file') /\ file'.id = file.id
    /\ Len(file'.history) > Len(file.history)

\* While a goal lives, its contract and identity are fixed, its evidence only
\* grows at the end, by one entry a step, and a passed goal never changes.
EvidenceGrows ==
    [][(IsGoal(file) /\ IsGoal(file') /\ file'.id = file.id) =>
          /\ file'.contract = file.contract
          /\ file.status = "passed" => file' = file
          /\ Len(file'.history) <= Len(file.history) + 1
          /\ Len(file'.history) >= Len(file.history)
          /\ \A i \in 1 .. Len(file.history) : file'.history[i] = file.history[i]]_vars

\* A verdict is recorded only onto the exact state its run was launched for: a
\* resume, clear or restart while the verifier ran discards the verdict, even
\* when it left the goal id, the status and the budget as they were.
NoStaleVerdict ==
    [][Recorded => ranFor[file'.history[Len(file'.history)].run] = file]_vars

\* A spec goal records a verdict only while the intent, design and bridge on
\* disk are the ones it was started with, even if its own snapshot was taken
\* while they were being edited.
RecordedOnSnapshot ==
    [][Recorded => SnapshotHolds(file.contract)]_vars

\* goal.json bytes this controller cannot read leave the slot only through the
\* archive, and a goal of another schema version is never touched at all
\* (outside writers excepted, who replace the file themselves).
UnreadablePreserved ==
    [][(~IsGoal(file) /\ file # Absent /\ file' # file /\ damage' = damage)
          => file # Unsupported /\ file \in archive']_vars

\* spec bind without --overwrite never replaces a bridge, even one that another
\* process installs after the existence check.
BridgeCreateOnly ==
    [][(bridge # NoBridge /\ bridge' # bridge)
          => \E p \in Procs : proc[p].pc = "bind_write" /\ proc[p].req.flag]_vars

\* Every command that was asked for ends: the two locks cannot deadlock, and no
\* error path leaves a lock behind that another command waits for.
CommandsEnd == \A p \in Procs : []<>(proc[p].pc = "idle")

\* What a reader of goal.json sees of the goal.
AbstractSlot ==
    IF IsGoal(file)
    THEN [status |-> file.status, id |-> file.id, count |-> file.count, max |-> file.max]
    ELSE [status |-> IF file = Absent THEN "empty" ELSE "unreadable",
          id |-> 0, count |-> 0, max |-> 0]

Lifecycle == INSTANCE GoalLifecycle WITH slot <- AbstractSlot, time <- clock

\* All interleavings of the processes together implement the documented state
\* diagram: a goal starts only in an empty slot under a fresh id, each recorded
\* attempt is charged once against the budget, passed is final, exhausted needs
\* a larger budget.
ImplementsLifecycle == Lifecycle!LifecycleSpec

=============================================================================
