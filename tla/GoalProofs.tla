----------------------------- MODULE GoalProofs -----------------------------
(***************************************************************************)
(* Proofs about Goal for any number of processes, any contracts, any       *)
(* budget and any bounds.                                                  *)
(***************************************************************************)
EXTENDS Goal, TLAPS

-----------------------------------------------------------------------------
(* The inductive invariant. *)

StartLabels == {"resolve", "resolve_bridge", "preflight", "wait", "apply"}
SharedLabels == {"preflight", "wait", "apply", "archived"}
BindLabels == {"bind_check", "bind_write"}
VerifyLabels == Labels \ (StartLabels \cup SharedLabels \cup BindLabels \cup {"idle"})

\* What a process state s carries fits where it is: the arguments of its command,
\* the contract it resolved, the state it captured and the launch, among those
\* in runs, that it made.
Fits(s, runs) ==
    /\ s.req.op = "start" => s.pc \in StartLabels /\ s.req.n \in 1 .. AttemptLimit
    /\ s.pc \in {"resolve", "resolve_bridge"} => s.req.op = "start"
    /\ s.pc = "resolve" /\ s.req.source = "explicit" => s.req.cmd \in Commands
    /\ s.pc = "resolve_bridge" => s.contract.native \in Natives
    /\ s.req.op = "start" /\ s.pc \in SharedLabels => s.contract \in Contracts
    /\ s.pc \in BindLabels => s.req.cmd \in Commands
    /\ s.pc \in VerifyLabels => s.req.op = "verify"
    /\ s.pc \in HasRun \cup {"launch"} =>
          s.prior \in GoalStates /\ s.prior.status = "active" /\ Valid(s.prior)
    /\ s.pc = "launch" =>
          \A i \in 1 .. Len(s.prior.history) : s.prior.history[i].run <= Len(runs)
    /\ s.pc \in HasRun =>
          /\ s.result.run \in 1 .. Len(runs)
          /\ runs[s.result.run] = s.prior
          /\ \A i \in 1 .. Len(s.prior.history) : s.prior.history[i].run < s.result.run

LocalOK == \A p \in Procs : Fits(proc[p], ranFor)

\* A process in a locked section holds the lock of that section.
LocksHeld ==
    \A p \in Procs :
        /\ proc[p].pc \in HoldsState => stateLock = p
        /\ proc[p].pc \in HoldsVerify => verifyLock = p

IInv ==
    /\ TypeOK
    /\ LocalOK
    /\ LocksHeld
    /\ StoredStateValid
    /\ EvidenceIsOwn

-----------------------------------------------------------------------------
(* Lemmas about the goal states that the transitions compute. *)

\* Before a valid active goal is attempted all its evidence is failures.
LEMMA ActiveHistory ==
    ASSUME NEW s \in GoalStates, Valid(s), s.status = "active"
    PROVE  /\ s.history \in Seq(Results) /\ s.count \in Nat /\ Len(s.history) = s.count
           /\ s.max \in 1 .. AttemptLimit /\ s.count < s.max
           /\ \A i \in 1 .. s.count : s.history[i].verdict = "fail"
<1>1. s.history \in Seq(Results) /\ s.count \in Nat /\ Len(s.history) = s.count
      /\ s.max \in 1 .. AttemptLimit /\ s.count < s.max /\ ~LastPassed(s)
    BY LimitAssumption DEF GoalStates, Valid
<1>2. ASSUME NEW i \in 1 .. s.count PROVE s.history[i].verdict = "fail"
  <2>1. s.history[i] \in Results
      BY <1>1
  <2>2. s.history[i].verdict \in {"pass", "fail"}
      BY <2>1 DEF Results, Verdicts
  <2>3. CASE i = s.count
      BY <1>1, <2>2, <2>3 DEF LastPassed
  <2>4. CASE i < s.count
      BY <1>1, <2>4 DEF Valid
  <2> QED BY <1>1, <2>3, <2>4
<1> QED BY <1>1, <1>2

\* An attempt on a valid active goal gives a valid goal state.
LEMMA AttemptValid ==
    ASSUME NEW s \in GoalStates, Valid(s), s.status = "active",
           NEW r \in Results, clock \in Nat
    PROVE  /\ Attempted(s, r) \in GoalStates
           /\ Valid(Attempted(s, r))
           /\ Attempted(s, r).history = Append(s.history, r)
           /\ Attempted(s, r).count = s.count + 1
           /\ Attempted(s, r).max = s.max
           /\ Attempted(s, r).status = StatusAfter(s, r.verdict)
           /\ Attempted(s, r).id = s.id
           /\ Attempted(s, r).contract = s.contract
<1> DEFINE h == Append(s.history, r)
           a == StatusAfter(s, r.verdict)
           c == s.count + 1
           u == clock + 1
           t == Attempted(s, r)
<1>1. /\ s.history \in Seq(Results) /\ s.count \in Nat /\ Len(s.history) = s.count
      /\ s.max \in 1 .. AttemptLimit /\ s.count < s.max
      /\ \A i \in 1 .. s.count : s.history[i].verdict = "fail"
    BY ActiveHistory
<1>2. h \in Seq(Results) /\ a \in GoalStatus /\ c \in Nat /\ u \in Nat
    BY <1>1 DEF StatusAfter, GoalStatus
<1>3. Len(h) = c /\ h[c] = r /\ \A i \in 1 .. (c - 1) : h[i].verdict = "fail"
    BY <1>1
<1>4. r.verdict \in {"pass", "fail"}
    BY DEF Results, Verdicts
<1>5. /\ r.verdict = "pass" => a = "passed"
      /\ r.verdict = "fail" /\ c = s.max => a = "exhausted"
      /\ r.verdict = "fail" /\ c # s.max => a = "active"
    BY <1>1 DEF StatusAfter
<1>6. t = [s EXCEPT !.count = c, !.history = h, !.status = a, !.updated = u]
    BY DEF Attempted
<1>7. c \in 1 .. s.max /\ s.max \in Nat
    BY <1>1
<1> HIDE DEF h, a, c, u, t
<1>8. /\ t \in GoalStates /\ t.count = c /\ t.history = h /\ t.status = a
      /\ t.max = s.max /\ t.id = s.id /\ t.contract = s.contract
    BY <1>2, <1>6 DEF GoalStates
<1>9. LastPassed(t) <=> r.verdict = "pass"
    BY <1>3, <1>7, <1>8 DEF LastPassed
<1>10. Valid(t)
    BY <1>1, <1>3, <1>4, <1>5, <1>7, <1>8, <1>9 DEF Valid
<1> QED BY <1>8, <1>10 DEF t, h, a, c

\* A resume that passes its checks gives a valid goal state.
LEMMA ResumeValid ==
    ASSUME NEW s \in GoalStates, Valid(s), s.status # "passed", NEW m \in 1 .. AttemptLimit,
           m > s.count, clock \in Nat
    PROVE  LET t == [s EXCEPT !.max = m, !.status = "active", !.updated = clock + 1] IN
           t \in GoalStates /\ Valid(t)
<1> DEFINE u == clock + 1
           t == [s EXCEPT !.max = m, !.status = "active", !.updated = u]
<1>1. /\ s.status \in {"active", "exhausted"} /\ s.count \in Nat /\ ~LastPassed(s)
      /\ Len(s.history) = s.count /\ u \in Nat /\ m \in Nat
      /\ \A i \in 1 .. (s.count - 1) : s.history[i].verdict = "fail"
    BY LimitAssumption DEF GoalStates, Valid, GoalStatus
<1> HIDE DEF u
<1>2. /\ t \in GoalStates /\ t.count = s.count /\ t.history = s.history
      /\ t.status = "active" /\ t.max = m
    BY <1>1 DEF GoalStates, GoalStatus
<1> HIDE DEF t
<1>3. ~LastPassed(t)
    BY <1>1, <1>2 DEF LastPassed
<1>4. Valid(t)
    BY <1>1, <1>2, <1>3 DEF Valid
<1> QED BY <1>2, <1>4 DEF t, u

\* A freshly started goal is valid.
LEMMA NewValid ==
    ASSUME NEW p \in Procs, proc[p].contract \in Contracts,
           proc[p].req.n \in 1 .. AttemptLimit, clock \in Nat
    PROVE  NewGoal(p) \in GoalStates /\ Valid(NewGoal(p))
    BY LimitAssumption DEF NewGoal, GoalStates, Valid, LastPassed, GoalStatus

-----------------------------------------------------------------------------
(* Lemmas about the ways a step changes the processes and the locks. *)

ProcsOK == proc \in [Procs -> ProcStates] /\ LocalOK /\ LocksHeld

\* A process that moves to a fitting state with the locks its place needs, and
\* takes no lock from another process, keeps all processes fitting.
LEMMA Moves ==
    ASSUME NEW p \in Procs, NEW STATE s, s \in ProcStates, ProcsOK,
           proc' = [proc EXCEPT ![p] = s], ranFor' = ranFor, Fits(s, ranFor),
           s.pc \in HoldsState => stateLock' = p,
           s.pc \in HoldsVerify => verifyLock' = p,
           \A q \in Procs \ {p} : stateLock = q => stateLock' = q,
           \A q \in Procs \ {p} : verifyLock = q => verifyLock' = q
    PROVE  ProcsOK'
<1>1. proc' \in [Procs -> ProcStates]
    BY DEF ProcsOK
<1>2. \A q \in Procs : proc'[q] = IF q = p THEN s ELSE proc[q]
    BY DEF ProcsOK
<1>3. \A q \in Procs : Fits(proc'[q], ranFor')
    BY <1>2 DEF ProcsOK, LocalOK
<1>4. LocksHeld'
    BY <1>2 DEF ProcsOK, LocksHeld
<1> QED BY <1>1, <1>3, <1>4 DEF ProcsOK, LocalOK

\* The state that exit leaves fits.
LEMMA IdleFits == IdleProc \in ProcStates /\ \A r : Fits(IdleProc, r) /\ IdleProc.pc = "idle"
<1>1. NoRequest \in Requests
    BY DEF NoRequest, Requests, Sources
<1>2. IdleProc \in ProcStates
    BY <1>1 DEF IdleProc, ProcStates, NoContract, NoResult, Labels, Sources, Verdicts
<1>3. ASSUME NEW r PROVE Fits(IdleProc, r)
    BY DEF Fits, IdleProc, NoRequest, BindLabels, VerifyLabels, HasRun
<1> QED BY <1>2, <1>3 DEF IdleProc

\* Exit keeps all processes fitting and the locks well typed.
LEMMA Exits ==
    ASSUME NEW p \in Procs, ProcsOK, Exit(p), ranFor' = ranFor,
           stateLock \in Procs \cup {NoProc}, verifyLock \in Procs \cup {NoProc}
    PROVE  ProcsOK' /\ stateLock' \in Procs \cup {NoProc}
                    /\ verifyLock' \in Procs \cup {NoProc}
<1>1. proc' = [proc EXCEPT ![p] = IdleProc]
    BY DEF Exit
<1>2. IdleProc.pc \notin HoldsState /\ IdleProc.pc \notin HoldsVerify
    BY IdleFits DEF HoldsState, HoldsVerify
<1>3. /\ \A q \in Procs \ {p} : stateLock = q => stateLock' = q
      /\ \A q \in Procs \ {p} : verifyLock = q => verifyLock' = q
    BY DEF Exit
<1>4. ProcsOK'
    BY <1>1, <1>2, <1>3, IdleFits, Moves
<1> QED BY <1>4 DEF Exit

\* A new label leaves the rest of a process state alone.
LEMMA Relabel ==
    ASSUME NEW s \in ProcStates, NEW l \in Labels
    PROVE  LET t == [s EXCEPT !.pc = l] IN
           /\ t \in ProcStates /\ t.pc = l /\ t.req = s.req
           /\ t.contract = s.contract /\ t.prior = s.prior /\ t.result = s.result
    BY DEF ProcStates

\* As long as the file and the launches stay, so does what is true of them.
LEMMA FileStays ==
    ASSUME TypeOK, StoredStateValid, EvidenceIsOwn, file' = file, ranFor' = ranFor,
           saveRefused' = saveRefused
    PROVE  StoredStateValid' /\ EvidenceIsOwn'
    BY DEF StoredStateValid, EvidenceIsOwn, IsGoal, Valid, LastPassed

-----------------------------------------------------------------------------
(* The four kinds of steps, each preserving the inductive invariant. *)

\* A process moves and touches nothing but the locks.
LEMMA MoveStep ==
    ASSUME NEW p \in Procs, NEW STATE s, s \in ProcStates, IInv,
           proc' = [proc EXCEPT ![p] = s], Fits(s, ranFor),
           s.pc \in HoldsState => stateLock' = p,
           s.pc \in HoldsVerify => verifyLock' = p,
           \A q \in Procs \ {p} : stateLock = q => stateLock' = q,
           \A q \in Procs \ {p} : verifyLock = q => verifyLock' = q,
           stateLock' \in Procs \cup {NoProc}, verifyLock' \in Procs \cup {NoProc},
           archive' \subseteq Files,
           UNCHANGED <<file, children, ranFor, specFiles, clock, damage, saveRefused>>
    PROVE  IInv'
<1>1. ProcsOK'
    BY Moves DEF IInv, TypeOK, ProcsOK
<1>2. StoredStateValid' /\ EvidenceIsOwn'
    BY FileStays DEF IInv
<1>3. TypeOK'
    BY <1>1 DEF IInv, TypeOK, ProcsOK, specFiles
<1> QED BY <1>1, <1>2, <1>3 DEF IInv, ProcsOK

\* A process exits without having touched the file.
LEMMA QuitStep ==
    ASSUME NEW p \in Procs, IInv, Exit(p), children' \subseteq children,
           bridge' \in Commands \cup {NoBridge},
           UNCHANGED <<file, archive, ranFor, native, banned, clock, damage, saveRefused>>
    PROVE  IInv'
<1>1. ProcsOK' /\ stateLock' \in Procs \cup {NoProc} /\ verifyLock' \in Procs \cup {NoProc}
    BY Exits DEF IInv, TypeOK, ProcsOK
<1>2. StoredStateValid' /\ EvidenceIsOwn'
    BY FileStays DEF IInv
<1>3. TypeOK'
    BY <1>1 DEF IInv, TypeOK, ProcsOK
<1> QED BY <1>1, <1>2, <1>3 DEF IInv, ProcsOK

\* The evidence of g reports launches made for g's goal, in launch order.
OwnEvidence(g) ==
    \A i \in 1 .. Len(g.history) :
        /\ g.history[i].run \in 1 .. Len(ranFor)
        /\ ranFor[g.history[i].run].id = g.id
        /\ ranFor[g.history[i].run].contract = g.contract
        /\ \A j \in 1 .. (i - 1) : g.history[j].run < g.history[i].run

\* Save stores a valid goal, unless the policy rejects its command.
LEMMA SaveResult ==
    ASSUME NEW op, NEW g, Valid(g), Save(op, g)
    PROVE  \/ /\ Admitted(g.contract)
              /\ file' = g /\ clock' = clock + 1 /\ saveRefused' = saveRefused
           \/ /\ ~Admitted(g.contract)
              /\ file' = file /\ clock' = clock
              /\ saveRefused' = saveRefused \cup {<<op, "policy">>}
<1>1. Objections(g) = IF Admitted(g.contract) THEN {} ELSE {"policy"}
    BY DEF Objections
<1>2. CASE Admitted(g.contract)
    BY <1>1, <1>2 DEF Save
<1>3. CASE ~Admitted(g.contract)
  <2>1. Objections(g) = {"policy"} /\ Objections(g) # {}
      BY <1>1, <1>3
  <2>2. {op} \X {"policy"} = {<<op, "policy">>}
      OBVIOUS
  <2> QED BY <1>3, <2>1, <2>2 DEF Save
<1> QED BY <1>2, <1>3

\* A process saves a valid goal with evidence of its own and exits.
LEMMA SaveStep ==
    ASSUME NEW p \in Procs, NEW STATE g, IInv, g \in GoalStates, Valid(g), OwnEvidence(g),
           file' = g, clock' = clock + 1, saveRefused' = saveRefused,
           Exit(p), UNCHANGED <<archive, children, ranFor, specFiles, damage>>
    PROVE  IInv'
<1>1. file' = g /\ clock' = clock + 1 /\ saveRefused' = saveRefused
    OBVIOUS
<1>2. ProcsOK' /\ stateLock' \in Procs \cup {NoProc} /\ verifyLock' \in Procs \cup {NoProc}
    BY Exits DEF IInv, TypeOK, ProcsOK
<1>3. TypeOK'
    BY <1>1, <1>2 DEF IInv, TypeOK, ProcsOK, specFiles, Files
<1>4. StoredStateValid'
    BY <1>1 DEF IInv, StoredStateValid, Valid, LastPassed
<1>5. EvidenceIsOwn'
    BY <1>1 DEF OwnEvidence, EvidenceIsOwn
<1> QED BY <1>2, <1>3, <1>4, <1>5 DEF IInv, ProcsOK

\* The save of a start is refused by the policy and the process exits.
LEMMA RefusedStep ==
    ASSUME NEW p \in Procs, IInv, Exit(p),
           saveRefused' = saveRefused \cup {<<"start", "policy">>},
           UNCHANGED <<file, archive, children, ranFor, specFiles, clock, damage>>
    PROVE  IInv'
<1>1. ProcsOK' /\ stateLock' \in Procs \cup {NoProc} /\ verifyLock' \in Procs \cup {NoProc}
    BY Exits DEF IInv, TypeOK, ProcsOK
<1>2. StoredStateValid' /\ EvidenceIsOwn'
    BY DEF IInv, StoredStateValid, EvidenceIsOwn, IsGoal, Valid, LastPassed
<1>3. TypeOK'
  <2>1. <<"start", "policy">> \in {"start", "verify", "resume"} \X {"evidence", "policy"}
      OBVIOUS
  <2> QED BY <1>1, <2>1 DEF IInv, TypeOK, ProcsOK, specFiles
<1> QED BY <1>1, <1>2, <1>3 DEF IInv, ProcsOK

\* A process empties the slot and exits.
LEMMA EmptyStep ==
    ASSUME NEW p \in Procs, IInv, Exit(p), file' = Absent,
           UNCHANGED <<archive, children, ranFor, specFiles, clock, damage, saveRefused>>
    PROVE  IInv'
<1>1. ProcsOK' /\ stateLock' \in Procs \cup {NoProc} /\ verifyLock' \in Procs \cup {NoProc}
    BY Exits DEF IInv, TypeOK, ProcsOK
<1>2. ~IsGoal(file')
    BY DEF IsGoal, Absent, GoalStatus
<1>3. StoredStateValid' /\ EvidenceIsOwn'
    BY <1>2 DEF IInv, StoredStateValid, EvidenceIsOwn, IsGoal
<1>4. TypeOK'
    BY <1>1 DEF IInv, TypeOK, ProcsOK, specFiles, Files
<1> QED BY <1>1, <1>3, <1>4 DEF IInv, ProcsOK

-----------------------------------------------------------------------------
(* The steps of the commands. *)

LEMMA GoalFile == ASSUME TypeOK, IsGoal(file) PROVE file \in GoalStates
    BY DEF TypeOK, Files, IsGoal, Absent, Unsupported, GoalStatus

\* A process that is asked for a command carries arguments that fit it.
LEMMA RequestStep ==
    ASSUME NEW p \in Procs, IInv, NEW r \in Requests, NEW l \in Labels, Request(p, r, l),
           \/ r.op = "start" /\ l = "resolve" /\ r.n \in 1 .. AttemptLimit
              /\ (r.source = "explicit" => r.cmd \in Commands)
           \/ r.op = "verify" /\ l = "v_preflight"
           \/ r.op \in {"resume", "clear"} /\ l = "preflight"
           \/ r.op = "bind" /\ l = "bind_check" /\ r.cmd \in Commands
    PROVE  IInv'
<1> DEFINE s == [proc[p] EXCEPT !.pc = l, !.req = r]
<1>1. proc[p] \in ProcStates
    BY DEF IInv, TypeOK
<1>2. proc' = [proc EXCEPT ![p] = s]
    BY DEF Request
<1>3. s \in ProcStates /\ s.pc = l /\ s.req = r
    BY <1>1 DEF ProcStates
<1> HIDE DEF s
<1>4. Fits(s, ranFor)
    BY <1>3 DEF Fits, StartLabels, SharedLabels, BindLabels, VerifyLabels, HasRun, Labels
<1>5. s.pc \notin HoldsState /\ s.pc \notin HoldsVerify
    BY <1>3 DEF HoldsState, HoldsVerify
<1> QED BY <1>2, <1>3, <1>4, <1>5, MoveStep DEF Request, IInv, TypeOK

LEMMA EmptyRequest == NoRequest \in Requests
    BY DEF NoRequest, Requests, Sources

LEMMA AskStep == ASSUME NEW p \in Procs, IInv, Ask(p) PROVE IInv'
<1>1. CASE \E m \in 1 .. AttemptLimit : \E c \in Commands : RequestStart(p, "explicit", c, m)
  <2> PICK m \in 1 .. AttemptLimit, c \in Commands : RequestStart(p, "explicit", c, m)
      BY <1>1
  <2> DEFINE r == [NoRequest EXCEPT !.op = "start", !.source = "explicit", !.cmd = c, !.n = m]
  <2>0. m \in Nat /\ m \in 1 .. AttemptLimit
      BY LimitAssumption
  <2>1. r \in Requests /\ r.op = "start" /\ r.n = m /\ r.cmd = c
      BY <2>0, EmptyRequest DEF Requests, Sources
  <2>2. Request(p, r, "resolve") /\ "resolve" \in Labels
      BY DEF RequestStart, Labels
  <2> HIDE DEF r
  <2> QED BY <2>0, <2>1, <2>2, RequestStep
<1>2. CASE \E m \in 1 .. AttemptLimit : RequestStart(p, "spec", NoBridge, m)
  <2> PICK m \in 1 .. AttemptLimit : RequestStart(p, "spec", NoBridge, m)
      BY <1>2
  <2> DEFINE r == [NoRequest EXCEPT !.op = "start", !.source = "spec", !.cmd = NoBridge, !.n = m]
  <2>0. m \in Nat /\ m \in 1 .. AttemptLimit
      BY LimitAssumption
  <2>1. r \in Requests /\ r.op = "start" /\ r.n = m /\ r.source = "spec"
      BY <2>0, EmptyRequest DEF Requests, Sources
  <2>2. Request(p, r, "resolve") /\ "resolve" \in Labels
      BY DEF RequestStart, Labels
  <2> HIDE DEF r
  <2> QED BY <2>0, <2>1, <2>2, RequestStep
<1>3. CASE RequestVerify(p)
  <2> DEFINE r == [NoRequest EXCEPT !.op = "verify"]
  <2>1. r \in Requests /\ r.op = "verify"
      BY EmptyRequest DEF Requests
  <2>2. Request(p, r, "v_preflight") /\ "v_preflight" \in Labels
      BY <1>3 DEF RequestVerify, Labels
  <2> HIDE DEF r
  <2> QED BY <2>1, <2>2, RequestStep
<1>4. CASE \E n \in 0 .. AttemptLimit, b \in BOOLEAN : RequestResume(p, n, b)
  <2> PICK n \in 0 .. AttemptLimit, b \in BOOLEAN : RequestResume(p, n, b)
      BY <1>4
  <2> DEFINE r == [NoRequest EXCEPT !.op = "resume", !.n = n, !.flag = b]
  <2>0. n \in Nat
      BY LimitAssumption
  <2>1. r \in Requests /\ r.op = "resume"
      BY <2>0, EmptyRequest DEF Requests
  <2>2. Request(p, r, "preflight") /\ "preflight" \in Labels
      BY DEF RequestResume, Labels
  <2> HIDE DEF r
  <2> QED BY <2>1, <2>2, RequestStep
<1>5. CASE \E b \in BOOLEAN : RequestClear(p, b)
  <2> PICK b \in BOOLEAN : RequestClear(p, b)
      BY <1>5
  <2> DEFINE r == [NoRequest EXCEPT !.op = "clear", !.flag = b]
  <2>1. r \in Requests /\ r.op = "clear"
      BY EmptyRequest DEF Requests
  <2>2. Request(p, r, "preflight") /\ "preflight" \in Labels
      BY DEF RequestClear, Labels
  <2> HIDE DEF r
  <2> QED BY <2>1, <2>2, RequestStep
<1>6. CASE \E c \in Commands, b \in BOOLEAN : RequestBind(p, c, b)
  <2> PICK c \in Commands, b \in BOOLEAN : RequestBind(p, c, b)
      BY <1>6
  <2> DEFINE r == [NoRequest EXCEPT !.op = "bind", !.cmd = c, !.flag = b]
  <2>1. r \in Requests /\ r.op = "bind" /\ r.cmd = c
      BY EmptyRequest DEF Requests
  <2>2. Request(p, r, "bind_check") /\ "bind_check" \in Labels
      BY DEF RequestBind, Labels
  <2> HIDE DEF r
  <2> QED BY <2>1, <2>2, RequestStep
<1> QED BY <1>1, <1>2, <1>3, <1>4, <1>5, <1>6 DEF Ask

\* A new label that the process state still fits, with the lock it needs.
LEMMA GotoStep ==
    ASSUME NEW p \in Procs, NEW l \in Labels, IInv, Goto(p, l),
           Fits([proc[p] EXCEPT !.pc = l], ranFor),
           l \in HoldsState => stateLock' = p,
           l \in HoldsVerify => verifyLock' = p,
           \A q \in Procs \ {p} : stateLock = q => stateLock' = q,
           \A q \in Procs \ {p} : verifyLock = q => verifyLock' = q,
           stateLock' \in Procs \cup {NoProc}, verifyLock' \in Procs \cup {NoProc},
           archive' \subseteq Files,
           UNCHANGED <<file, children, ranFor, specFiles, clock, damage, saveRefused>>
    PROVE  IInv'
<1> DEFINE s == [proc[p] EXCEPT !.pc = l]
<1>1. proc[p] \in ProcStates
    BY DEF IInv, TypeOK
<1>2. s \in ProcStates /\ s.pc = l
    BY <1>1, Relabel
<1>3. proc' = [proc EXCEPT ![p] = s]
    BY DEF Goto
<1>4. Fits(s, ranFor)
    OBVIOUS
<1> HIDE DEF s
<1> QED BY <1>2, <1>3, <1>4, MoveStep

\* A relabelling from k to l keeps a process state fitting in these cases.
LEMMA RelabelFits ==
    ASSUME NEW s \in ProcStates, NEW r, NEW l \in Labels, Fits(s, r),
           \/ s.pc = "preflight" /\ l = "wait"
           \/ s.pc = "wait" /\ l = "apply"
           \/ s.pc = "apply" /\ s.req.op # "start" /\ l = "archived"
           \/ s.pc = "v_preflight" /\ l = "v_wait"
           \/ s.pc = "v_wait" /\ l = "b_preflight"
           \/ s.pc = "b_preflight" /\ l = "b_wait"
           \/ s.pc = "b_wait" /\ l = "begin"
           \/ s.pc = "r_preflight" /\ l = "r_wait"
           \/ s.pc = "r_wait" /\ l = "record"
           \/ s.pc = "bind_check" /\ l = "bind_write"
    PROVE  Fits([s EXCEPT !.pc = l], r)
<1> DEFINE t == [s EXCEPT !.pc = l]
<1>1. /\ t.pc = l /\ t.req = s.req /\ t.contract = s.contract
      /\ t.prior = s.prior /\ t.result = s.result
    BY Relabel
<1> HIDE DEF t
<1>2. Fits(t, r)
    BY <1>1 DEF Fits, StartLabels, SharedLabels, BindLabels, VerifyLabels, HasRun, Labels
<1> QED BY <1>2 DEF t

LEMMA PreflightStep == ASSUME NEW p \in Procs, IInv, Preflight(p) PROVE IInv'
<1>1. proc[p] \in ProcStates /\ Fits(proc[p], ranFor)
    BY DEF IInv, TypeOK, LocalOK
<1>2. LocksHeld /\ archive \subseteq Files /\ stateLock \in Procs \cup {NoProc}
      /\ verifyLock \in Procs \cup {NoProc}
    BY DEF IInv, TypeOK
<1>3. PICK l \in Labels : /\ Goto(p, l)
                          /\ \/ proc[p].pc = "preflight" /\ l = "wait"
                             \/ proc[p].pc = "v_preflight" /\ l = "v_wait"
                             \/ proc[p].pc = "b_preflight" /\ l = "b_wait"
                             \/ proc[p].pc = "r_preflight" /\ l = "r_wait"
    BY DEF Preflight, AfterPreflight, Labels
<1>4. Fits([proc[p] EXCEPT !.pc = l], ranFor)
    BY <1>1, <1>3, RelabelFits
<1>5. l \notin HoldsState /\ (l \in HoldsVerify => proc[p].pc \in HoldsVerify)
    BY <1>3 DEF HoldsState, HoldsVerify
<1>6. UNCHANGED <<file, archive, stateLock, verifyLock, children, ranFor, specFiles, clock,
                  damage, saveRefused>>
    BY DEF Preflight, Unlocked
<1> QED BY <1>2, <1>3, <1>4, <1>5, <1>6, GotoStep DEF LocksHeld

LEMMA AcquireVerifyStep == ASSUME NEW p \in Procs, IInv, AcquireVerify(p) PROVE IInv'
<1>1. proc[p] \in ProcStates /\ Fits(proc[p], ranFor) /\ "b_preflight" \in Labels
    BY DEF IInv, TypeOK, LocalOK, Labels
<1>2. archive \subseteq Files /\ stateLock \in Procs \cup {NoProc}
    BY DEF IInv, TypeOK
<1>3. Fits([proc[p] EXCEPT !.pc = "b_preflight"], ranFor)
    BY <1>1, RelabelFits DEF AcquireVerify
<1>4. "b_preflight" \notin HoldsState
    BY DEF HoldsState
<1> QED BY <1>1, <1>2, <1>3, <1>4, GotoStep, ProcsAssumption DEF AcquireVerify

LEMMA AcquireStateStep == ASSUME NEW p \in Procs, IInv, AcquireState(p) PROVE IInv'
<1>1. proc[p] \in ProcStates /\ Fits(proc[p], ranFor)
    BY DEF IInv, TypeOK, LocalOK
<1>2. LocksHeld /\ archive \subseteq Files /\ verifyLock \in Procs \cup {NoProc}
    BY DEF IInv, TypeOK
<1>3. PICK l \in Labels : /\ Goto(p, l)
                          /\ \/ proc[p].pc = "wait" /\ l = "apply"
                             \/ proc[p].pc = "b_wait" /\ l = "begin"
                             \/ proc[p].pc = "r_wait" /\ l = "record"
    BY DEF AcquireState, AfterWait, Labels
<1>4. Fits([proc[p] EXCEPT !.pc = l], ranFor)
    BY <1>1, <1>3, RelabelFits
<1>5. l \in HoldsVerify => proc[p].pc \in HoldsVerify
    BY <1>3 DEF HoldsVerify
<1> QED BY <1>2, <1>3, <1>4, <1>5, GotoStep, ProcsAssumption DEF AcquireState, LocksHeld

LEMMA ArchiveStep == ASSUME NEW p \in Procs, IInv, Archive(p) PROVE IInv'
<1>1. proc[p] \in ProcStates /\ Fits(proc[p], ranFor) /\ "archived" \in Labels
    BY DEF IInv, TypeOK, LocalOK, Labels
<1>2. LocksHeld /\ archive' \subseteq Files /\ stateLock \in Procs \cup {NoProc}
      /\ verifyLock \in Procs \cup {NoProc} /\ proc[p].pc \in HoldsState
    BY DEF IInv, TypeOK, Archive, HoldsState
<1>3. Fits([proc[p] EXCEPT !.pc = "archived"], ranFor)
    BY <1>1, RelabelFits DEF Archive
<1>4. "archived" \notin HoldsVerify
    BY DEF HoldsVerify
<1> QED BY <1>1, <1>2, <1>3, <1>4, GotoStep DEF Archive, LocksHeld

LEMMA BindCheckStep == ASSUME NEW p \in Procs, IInv, BindCheck(p) PROVE IInv'
<1>1. proc[p] \in ProcStates /\ Fits(proc[p], ranFor) /\ "bind_write" \in Labels
    BY DEF IInv, TypeOK, LocalOK, Labels
<1>2. archive \subseteq Files /\ stateLock \in Procs \cup {NoProc}
      /\ verifyLock \in Procs \cup {NoProc}
    BY DEF IInv, TypeOK
<1>3. Fits([proc[p] EXCEPT !.pc = "bind_write"], ranFor)
    BY <1>1, RelabelFits DEF BindCheck
<1>4. "bind_write" \notin HoldsVerify /\ "bind_write" \notin HoldsState
    BY DEF HoldsVerify, HoldsState
<1> QED BY <1>1, <1>2, <1>3, <1>4, GotoStep DEF BindCheck, Unlocked

\* start: the contract is resolved.
LEMMA ResolveStep ==
    ASSUME NEW p \in Procs, IInv,
           ResolveExplicit(p) \/ ResolveNative(p) \/ ResolveBridge(p)
    PROVE  IInv'
<1>1. proc[p] \in ProcStates /\ Fits(proc[p], ranFor)
    BY DEF IInv, TypeOK, LocalOK
<1>2. archive \subseteq Files /\ stateLock \in Procs \cup {NoProc}
      /\ verifyLock \in Procs \cup {NoProc} /\ native \in Natives \cup {NoNative}
      /\ bridge \in Commands \cup {NoBridge}
    BY DEF IInv, TypeOK
<1>3. CASE ResolveExplicit(p)
  <2> DEFINE c == [source |-> "explicit", cmd |-> proc[p].req.cmd, native |-> NoNative]
             s == [proc[p] EXCEPT !.pc = "preflight", !.contract = c]
  <2>1. proc[p].req.op = "start" /\ proc[p].req.cmd \in Commands
      BY <1>1, <1>3 DEF ResolveExplicit, Fits
  <2>2. c \in Contracts /\ c \in [source : Sources, cmd : Commands \cup {NoBridge},
                                  native : Natives \cup {NoNative}]
      BY <2>1 DEF Contracts, Sources
  <2> HIDE DEF c
  <2>3. s \in ProcStates /\ s.pc = "preflight" /\ s.contract = c /\ s.req = proc[p].req
      BY <1>1, <2>2 DEF ProcStates, Labels
  <2>4. proc' = [proc EXCEPT ![p] = s]
      BY <1>3 DEF ResolveExplicit, c
  <2> HIDE DEF s
  <2>5. Fits(s, ranFor)
      BY <1>1, <2>1, <2>2, <2>3
      DEF Fits, StartLabels, SharedLabels, BindLabels, VerifyLabels, HasRun
  <2>6. s.pc \notin HoldsState /\ s.pc \notin HoldsVerify
      BY <2>3 DEF HoldsState, HoldsVerify
  <2> QED BY <1>2, <1>3, <2>3, <2>4, <2>5, <2>6, MoveStep DEF ResolveExplicit, Unlocked
<1>4. CASE ResolveNative(p)
  <2> DEFINE c == [proc[p].contract EXCEPT !.native = native]
             s == [proc[p] EXCEPT !.pc = "resolve_bridge", !.contract = c]
  <2>1. proc[p].req.op = "start" /\ native \in Natives
      BY <1>1, <1>2, <1>4 DEF ResolveNative, Fits
  <2>2. c.native = native /\ c \in [source : Sources, cmd : Commands \cup {NoBridge},
                                    native : Natives \cup {NoNative}]
      BY <1>1, <1>2 DEF ProcStates
  <2>3. proc' = [proc EXCEPT ![p] = s]
      BY <1>4 DEF ResolveNative
  <2> HIDE DEF c
  <2>4. s \in ProcStates /\ s.pc = "resolve_bridge" /\ s.contract = c /\ s.req = proc[p].req
      BY <1>1, <2>2 DEF ProcStates, Labels
  <2> HIDE DEF s
  <2>5. Fits(s, ranFor)
      BY <1>1, <2>1, <2>2, <2>4
      DEF Fits, StartLabels, SharedLabels, BindLabels, VerifyLabels, HasRun
  <2>6. s.pc \notin HoldsState /\ s.pc \notin HoldsVerify
      BY <2>4 DEF HoldsState, HoldsVerify
  <2> QED BY <1>2, <1>4, <2>3, <2>4, <2>5, <2>6, MoveStep DEF ResolveNative, Unlocked
<1>5. CASE ResolveBridge(p)
  <2> DEFINE c == [source |-> "spec", cmd |-> bridge, native |-> proc[p].contract.native]
             s == [proc[p] EXCEPT !.pc = "preflight", !.contract = c]
  <2>1. proc[p].req.op = "start" /\ bridge \in Commands /\ proc[p].contract.native \in Natives
      BY <1>1, <1>2, <1>5 DEF ResolveBridge, Fits
  <2>2. c \in Contracts /\ c \in [source : Sources, cmd : Commands \cup {NoBridge},
                                  native : Natives \cup {NoNative}]
      BY <2>1 DEF Contracts, Sources
  <2> HIDE DEF c
  <2>3. s \in ProcStates /\ s.pc = "preflight" /\ s.contract = c /\ s.req = proc[p].req
      BY <1>1, <2>2 DEF ProcStates, Labels
  <2>4. proc' = [proc EXCEPT ![p] = s]
      BY <1>5 DEF ResolveBridge, c
  <2> HIDE DEF s
  <2>5. Fits(s, ranFor)
      BY <1>1, <2>1, <2>2, <2>3
      DEF Fits, StartLabels, SharedLabels, BindLabels, VerifyLabels, HasRun
  <2>6. s.pc \notin HoldsState /\ s.pc \notin HoldsVerify
      BY <2>3 DEF HoldsState, HoldsVerify
  <2> QED BY <1>2, <1>5, <2>3, <2>4, <2>5, <2>6, MoveStep DEF ResolveBridge, Unlocked
<1> QED BY <1>3, <1>4, <1>5

\* Every way a command ends without a save.
LEMMA EndStep ==
    ASSUME NEW p \in Procs, IInv,
           \/ ResolveFails(p) \/ PreflightFails(p) \/ StartRefused(p) \/ ResumeRefused(p)
           \/ ClearRefused(p) \/ BeginRefused(p) \/ LaunchRejected(p) \/ Discard(p)
           \/ BindDone(p) \/ BindWrite(p) \/ Crash(p) \/ Terminate(p)
    PROVE  IInv'
<1>1. bridge \in Commands \cup {NoBridge} /\ Fits(proc[p], ranFor)
    BY DEF IInv, TypeOK, LocalOK
<1>2. BindWrite(p) => proc[p].req.cmd \in Commands
    BY <1>1 DEF BindWrite, Fits, BindLabels
<1>3. bridge' \in Commands \cup {NoBridge}
    BY <1>1, <1>2
    DEF ResolveFails, PreflightFails, StartRefused, ResumeRefused, ClearRefused, BeginRefused,
        LaunchRejected, Discard, BindDone, BindWrite, Crash, Terminate, Refuse, specFiles
<1>4. Exit(p) /\ children' \subseteq children
      /\ UNCHANGED <<file, archive, ranFor, native, banned, clock, damage, saveRefused>>
    BY DEF ResolveFails, PreflightFails, StartRefused, ResumeRefused, ClearRefused, BeginRefused,
        LaunchRejected, Discard, BindDone, BindWrite, Crash, Terminate, Refuse, specFiles
<1> QED BY <1>3, <1>4, QuitStep

LEMMA StartStep ==
    ASSUME NEW p \in Procs, IInv, Start(p)
    PROVE  IInv' /\ NewGoal(p) \in GoalStates /\ Valid(NewGoal(p))
<1>1. Fits(proc[p], ranFor) /\ clock \in Nat
    BY DEF IInv, TypeOK, LocalOK
<1>2. proc[p].contract \in Contracts /\ proc[p].req.n \in 1 .. AttemptLimit
    BY <1>1 DEF Start, Fits, SharedLabels
<1>3. NewGoal(p) \in GoalStates /\ Valid(NewGoal(p))
    BY <1>1, <1>2, NewValid
<1>4. OwnEvidence(NewGoal(p))
    BY DEF OwnEvidence, NewGoal
<1>5. Save("start", NewGoal(p)) /\ Exit(p)
      /\ UNCHANGED <<archive, children, ranFor, specFiles, damage>>
    BY DEF Start
<1>6. CASE Admitted(NewGoal(p).contract)
    BY <1>3, <1>4, <1>5, <1>6, SaveResult, SaveStep
<1>7. CASE ~Admitted(NewGoal(p).contract)
    BY <1>3, <1>5, <1>7, SaveResult, RefusedStep
<1> QED BY <1>3, <1>6, <1>7

\* What a resume saves.
Resumed(p) == [file EXCEPT !.max = Proposed(p), !.status = "active", !.updated = clock + 1]

LEMMA ResumeStep ==
    ASSUME NEW p \in Procs, IInv, Resume(p)
    PROVE  /\ IInv'
           /\ file \in GoalStates /\ file.status \in {"active", "exhausted"}
           /\ Proposed(p) \in (file.count + 1) .. AttemptLimit
           /\ Resumed(p) \in GoalStates /\ Valid(Resumed(p))
           /\ file' = Resumed(p) /\ clock' = clock + 1
<1>1. clock \in Nat /\ EvidenceIsOwn /\ StoredStateValid /\ TypeOK
    BY DEF IInv, TypeOK
<1>2. IsGoal(file) /\ Valid(file) /\ Admitted(file.contract)
    BY DEF Resume, CanResume, Loads
<1>3. file \in GoalStates
    BY <1>1, <1>2, GoalFile
<1>4. file.count \in Nat /\ file.status \in GoalStatus
    BY <1>3 DEF GoalStates
<1>5. /\ file.status # "passed" /\ Proposed(p) \in 1 .. AttemptLimit
      /\ Proposed(p) >= file.count
      /\ file.status = "active" => Proposed(p) # file.count
      /\ file.status = "exhausted" => Proposed(p) > file.count
    BY DEF Resume, CanResume
<1>6. Proposed(p) > file.count /\ file.status \in {"active", "exhausted"}
    BY <1>4, <1>5, LimitAssumption DEF GoalStatus
<1>7. Resumed(p) \in GoalStates /\ Valid(Resumed(p))
    BY <1>1, <1>2, <1>3, <1>5, <1>6, ResumeValid DEF Resumed
<1>8. /\ Resumed(p).history = file.history /\ Resumed(p).id = file.id
      /\ Resumed(p).contract = file.contract
    BY <1>3 DEF Resumed, GoalStates
<1>9. OwnEvidence(Resumed(p))
    BY <1>1, <1>2, <1>8 DEF EvidenceIsOwn, OwnEvidence
<1>10. Save("resume", Resumed(p)) /\ Exit(p)
       /\ UNCHANGED <<archive, children, ranFor, specFiles, damage>>
    BY DEF Resume, Resumed
<1>13. file' = Resumed(p) /\ clock' = clock + 1 /\ saveRefused' = saveRefused
    BY <1>2, <1>7, <1>8, <1>10, SaveResult
<1>11. IInv'
    BY <1>7, <1>9, <1>10, <1>13, SaveStep
<1>12. Proposed(p) \in (file.count + 1) .. AttemptLimit
    BY <1>4, <1>5, <1>6, LimitAssumption
<1> QED BY <1>3, <1>6, <1>7, <1>11, <1>12, <1>13

LEMMA ClearStep ==
    ASSUME NEW p \in Procs, IInv, Clear(p) \/ UnlinkArchived(p) PROVE IInv'
    BY EmptyStep DEF Clear, UnlinkArchived

LEMMA BeginStep == ASSUME NEW p \in Procs, IInv, Begin(p) PROVE IInv'
<1>1. proc[p] \in ProcStates /\ Fits(proc[p], ranFor) /\ TypeOK /\ EvidenceIsOwn /\ LocksHeld
    BY DEF IInv, TypeOK, LocalOK
<1>2. IsGoal(file) /\ Valid(file) /\ file.status = "active"
    BY DEF Begin, CanBegin, Loads, Absent
<1>3. file \in GoalStates
    BY <1>1, <1>2, GoalFile
<1>4. file.history \in Seq(Results)
    BY <1>3 DEF GoalStates
<1>5. ranFor \in Seq(GoalStates) /\ Len(ranFor) \in Nat
    BY <1>1 DEF TypeOK
<1>6. \A i \in 1 .. Len(file.history) : file.history[i].run <= Len(ranFor)
    BY <1>1, <1>2, <1>5 DEF EvidenceIsOwn
<1> DEFINE s == [proc[p] EXCEPT !.pc = "launch", !.prior = file]
<1>7. s \in ProcStates /\ s.pc = "launch" /\ s.prior = file /\ s.req = proc[p].req
    BY <1>1, <1>3 DEF ProcStates, Labels
<1>8. proc' = [proc EXCEPT ![p] = s] /\ proc[p].pc = "begin"
    BY DEF Begin
<1> HIDE DEF s
<1>9. Fits(s, ranFor)
    BY <1>1, <1>2, <1>3, <1>6, <1>7, <1>8
    DEF Fits, StartLabels, SharedLabels, BindLabels, VerifyLabels, HasRun, Labels
<1>10. s.pc \notin HoldsState /\ proc[p].pc \in HoldsVerify /\ proc[p].pc \in HoldsState
    BY <1>7, <1>8 DEF HoldsState, HoldsVerify
<1>11. stateLock = p /\ verifyLock = p
    BY <1>1, <1>10 DEF LocksHeld
<1> QED BY <1>1, <1>7, <1>8, <1>9, <1>10, <1>11, MoveStep DEF Begin, TypeOK

LEMMA LaunchStep == ASSUME NEW p \in Procs, IInv, Launch(p) PROVE IInv'
<1> DEFINE run == Len(ranFor) + 1
           g == proc[p].prior
           s == [proc[p] EXCEPT !.pc = "run", !.result = [proc[p].result EXCEPT !.run = run]]
<1>1. proc[p] \in ProcStates /\ Fits(proc[p], ranFor) /\ TypeOK /\ LocksHeld
      /\ StoredStateValid /\ EvidenceIsOwn
    BY DEF IInv, TypeOK, LocalOK
<1>2. proc[p].pc = "launch" /\ g \in GoalStates /\ g.status = "active" /\ Valid(g)
      /\ \A i \in 1 .. Len(g.history) : g.history[i].run <= Len(ranFor)
    BY <1>1 DEF Launch, Fits
<1>3. ranFor \in Seq(GoalStates) /\ Len(ranFor) \in Nat /\ run \in Nat \ {0}
    BY <1>1 DEF TypeOK
<1>4. /\ ranFor' \in Seq(GoalStates) /\ Len(ranFor') = run /\ ranFor'[run] = g
      /\ \A i \in 1 .. Len(ranFor) : ranFor'[i] = ranFor[i]
    BY <1>2, <1>3 DEF Launch
<1>5. proc' = [proc EXCEPT ![p] = s] /\ children' = children \cup {run}
    BY DEF Launch
<1>6. [proc[p].result EXCEPT !.run = run] \in [run : Nat, verdict : Verdicts]
      /\ [proc[p].result EXCEPT !.run = run].run = run
    BY <1>1, <1>3 DEF ProcStates
<1>7. s \in ProcStates /\ s.pc = "run" /\ s.result.run = run /\ s.prior = g
      /\ s.req = proc[p].req
    BY <1>1, <1>6 DEF ProcStates, Labels
<1>8. \A i \in 1 .. Len(g.history) : g.history[i].run \in Nat
  <2>1. g.history \in Seq(Results)
      BY <1>2 DEF GoalStates
  <2>2. \A i \in 1 .. Len(g.history) : g.history[i] \in Results
      BY <2>1
  <2> QED BY <2>2 DEF Results
<1> HIDE DEF run, g, s
<1>9. Fits(s, ranFor')
  <2>1. \A i \in 1 .. Len(g.history) : g.history[i].run < run
      BY <1>2, <1>3, <1>8 DEF run
  <2>2. run \in 1 .. Len(ranFor')
      BY <1>3, <1>4
  <2>3. proc[p].req.op = "verify"
      BY <1>1, <1>2 DEF Fits, VerifyLabels, StartLabels, SharedLabels, BindLabels, Labels
  <2> QED BY <1>2, <1>4, <1>7, <2>1, <2>2, <2>3
          DEF Fits, StartLabels, SharedLabels, BindLabels, VerifyLabels, HasRun, Labels
<1>10. ASSUME NEW q \in Procs PROVE Fits(proc'[q], ranFor')
  <2>1. CASE q = p
      BY <1>1, <1>5, <1>9, <2>1 DEF TypeOK
  <2>2. CASE q # p
    <3> DEFINE t == proc[q]
    <3>1. proc'[q] = t /\ Fits(t, ranFor) /\ t \in ProcStates
        BY <1>1, <1>5, <2>2 DEF TypeOK, IInv, LocalOK
    <3> HIDE DEF t
    <3>2. t.pc = "launch" =>
              /\ t.prior.history \in Seq(Results)
              /\ \A i \in 1 .. Len(t.prior.history) : t.prior.history[i].run <= Len(ranFor')
      <4>1. SUFFICES ASSUME t.pc = "launch"
                     PROVE  /\ t.prior.history \in Seq(Results)
                            /\ \A i \in 1 .. Len(t.prior.history) :
                                  t.prior.history[i].run <= Len(ranFor')
          OBVIOUS
      <4>2. t.prior \in GoalStates
            /\ \A i \in 1 .. Len(t.prior.history) : t.prior.history[i].run <= Len(ranFor)
          BY <3>1, <4>1 DEF Fits
      <4>3. t.prior.history \in Seq(Results)
          BY <4>2 DEF GoalStates
      <4>4. \A i \in 1 .. Len(t.prior.history) : t.prior.history[i] \in Results
          BY <4>3
      <4>5. \A i \in 1 .. Len(t.prior.history) : t.prior.history[i].run <= Len(ranFor')
          BY <1>3, <1>4, <4>2, <4>4 DEF run, Results
      <4> QED BY <4>3, <4>5
    <3>3. t.pc \in HasRun => /\ t.result.run \in 1 .. Len(ranFor')
                             /\ ranFor'[t.result.run] = t.prior
        BY <1>3, <1>4, <3>1 DEF Fits, run
    <3>4. Fits(t, ranFor')
        BY <3>1, <3>2, <3>3 DEF Fits
    <3> QED BY <3>1, <3>4
  <2> QED BY <2>1, <2>2
<1>11. LocksHeld'
  <2>1. s.pc \in HoldsVerify /\ proc[p].pc \in HoldsVerify /\ s.pc \notin HoldsState
      BY <1>2, <1>7 DEF HoldsState, HoldsVerify
  <2>2. UNCHANGED <<stateLock, verifyLock>>
      BY DEF Launch
  <2>3. \A q \in Procs : proc'[q] = IF q = p THEN s ELSE proc[q]
      BY <1>1, <1>5 DEF TypeOK
  <2> QED BY <1>1, <2>1, <2>2, <2>3 DEF LocksHeld
<1>12. TypeOK'
  <2>1. proc' \in [Procs -> ProcStates]
      BY <1>1, <1>5, <1>7 DEF TypeOK
  <2>2. children' \subseteq 1 .. Len(ranFor')
    <3>1. children \subseteq 1 .. Len(ranFor)
        BY <1>1 DEF TypeOK
    <3>2. \A c \in children' : c \in 1 .. run
        BY <1>3, <1>5, <3>1 DEF run
    <3> QED BY <1>4, <3>2
  <2> QED BY <1>1, <1>4, <2>1, <2>2 DEF TypeOK, Launch, specFiles
<1>13. StoredStateValid'
    BY <1>1 DEF StoredStateValid, Launch, Valid, LastPassed
<1>14. EvidenceIsOwn'
  <2>1. file' = file
      BY DEF Launch
  <2>2. SUFFICES ASSUME IsGoal(file), NEW i \in 1 .. Len(file.history)
                 PROVE  /\ file.history[i].run \in 1 .. Len(ranFor')
                        /\ ranFor'[file.history[i].run].id = file.id
                        /\ ranFor'[file.history[i].run].contract = file.contract
                        /\ \A j \in 1 .. (i - 1) : file.history[j].run < file.history[i].run
      BY <2>1 DEF EvidenceIsOwn, IsGoal
  <2> QED BY <1>1, <1>3, <1>4, <2>2 DEF EvidenceIsOwn, run
<1> QED BY <1>10, <1>11, <1>12, <1>13, <1>14 DEF IInv, LocalOK

LEMMA RunEndsStep == ASSUME NEW p \in Procs, NEW v \in Verdicts, IInv, RunEnds(p, v) PROVE IInv'
<1> DEFINE r == [proc[p].result EXCEPT !.verdict = v]
           s == [proc[p] EXCEPT !.pc = "r_preflight", !.result = r]
<1>1. proc[p] \in ProcStates /\ Fits(proc[p], ranFor) /\ TypeOK /\ LocksHeld
      /\ StoredStateValid /\ EvidenceIsOwn
    BY DEF IInv, TypeOK, LocalOK
<1>2. proc[p].pc = "run" /\ proc' = [proc EXCEPT ![p] = s]
    BY DEF RunEnds
<1>3. r \in [run : Nat, verdict : Verdicts] /\ r.run = proc[p].result.run
    BY <1>1 DEF ProcStates
<1>4. s \in ProcStates /\ s.pc = "r_preflight" /\ s.result.run = proc[p].result.run
      /\ s.prior = proc[p].prior /\ s.req = proc[p].req
    BY <1>1, <1>3 DEF ProcStates, Labels
<1> HIDE DEF r, s
<1>5. Fits(s, ranFor)
    BY <1>1, <1>2, <1>4
    DEF Fits, StartLabels, SharedLabels, BindLabels, VerifyLabels, HasRun, Labels
<1>6. s.pc \in HoldsVerify /\ proc[p].pc \in HoldsVerify /\ s.pc \notin HoldsState
    BY <1>2, <1>4 DEF HoldsState, HoldsVerify
<1>7. verifyLock = p /\ UNCHANGED <<stateLock, verifyLock, ranFor, file, saveRefused>>
    BY <1>1, <1>6 DEF LocksHeld, RunEnds
<1>8. ProcsOK'
    BY <1>1, <1>2, <1>4, <1>5, <1>6, <1>7, Moves DEF ProcsOK, IInv, TypeOK
<1>9. StoredStateValid' /\ EvidenceIsOwn'
    BY <1>1, <1>7, FileStays
<1>10. TypeOK'
    BY <1>1, <1>8 DEF TypeOK, ProcsOK, RunEnds, specFiles
<1> QED BY <1>8, <1>9, <1>10 DEF IInv, ProcsOK

\* Recording finds the very state that was captured before the launch, and
\* appends the verdict of that launch.
LEMMA RecordStep ==
    ASSUME NEW p \in Procs, IInv, Record(p)
    PROVE  /\ IInv'
           /\ file \in GoalStates /\ file.status = "active" /\ Valid(file)
           /\ proc[p].result \in Results
           /\ ranFor[proc[p].result.run] = file
           /\ SnapshotHolds(file.contract)
           /\ file' = Attempted(file, proc[p].result) /\ clock' = clock + 1
<1> DEFINE r == proc[p].result
<1>1. proc[p] \in ProcStates /\ Fits(proc[p], ranFor) /\ clock \in Nat /\ EvidenceIsOwn
    BY DEF IInv, TypeOK, LocalOK
<1>2. file = proc[p].prior /\ proc[p].pc = "record" /\ SnapshotHolds(file.contract)
    BY DEF Record, CanRecord, Unchanged
<1>3. /\ file \in GoalStates /\ file.status = "active" /\ Valid(file)
      /\ r.run \in 1 .. Len(ranFor) /\ ranFor[r.run] = file
      /\ \A i \in 1 .. Len(file.history) : file.history[i].run < r.run
    BY <1>1, <1>2 DEF Fits, HasRun
<1>4. r \in Results
  <2>1. ranFor \in Seq(GoalStates)
      BY DEF IInv, TypeOK
  <2>2. r.run \in Nat \ {0} /\ r \in [run : Nat, verdict : Verdicts]
      BY <1>1, <1>3, <2>1 DEF ProcStates
  <2> QED BY <2>2 DEF Results
<1> DEFINE t == Attempted(file, r)
<1>5. /\ t \in GoalStates /\ Valid(t) /\ t.history = Append(file.history, r)
      /\ t.id = file.id /\ t.contract = file.contract
    BY <1>1, <1>3, <1>4, AttemptValid
<1>6. file.history \in Seq(Results) /\ Len(file.history) \in Nat
    BY <1>3 DEF GoalStates
<1> HIDE DEF r, t
<1>7. /\ Len(t.history) = Len(file.history) + 1 /\ t.history[Len(file.history) + 1] = r
      /\ \A i \in 1 .. Len(file.history) : t.history[i] = file.history[i]
    BY <1>4, <1>5, <1>6
<1>8. IsGoal(file)
    BY <1>3 DEF IsGoal, GoalStatus
<1>9. \A i \in 1 .. Len(file.history) :
          /\ file.history[i].run \in 1 .. Len(ranFor)
          /\ ranFor[file.history[i].run].id = file.id
          /\ ranFor[file.history[i].run].contract = file.contract
          /\ \A j \in 1 .. (i - 1) : file.history[j].run < file.history[i].run
    BY <1>1, <1>8 DEF EvidenceIsOwn
<1>10. OwnEvidence(t)
  <2>1. SUFFICES ASSUME NEW i \in 1 .. Len(t.history)
                 PROVE  /\ t.history[i].run \in 1 .. Len(ranFor)
                        /\ ranFor[t.history[i].run].id = t.id
                        /\ ranFor[t.history[i].run].contract = t.contract
                        /\ \A j \in 1 .. (i - 1) : t.history[j].run < t.history[i].run
      BY DEF OwnEvidence
  <2>2. CASE i = Len(file.history) + 1
    <3>1. \A j \in 1 .. (i - 1) : t.history[j].run < r.run
        BY <1>3, <1>6, <1>7, <2>2 DEF r
    <3> QED BY <1>3, <1>5, <1>7, <2>2, <3>1 DEF r
  <2>3. CASE i \in 1 .. Len(file.history)
    <3>1. t.history[i] = file.history[i]
        BY <1>7, <2>3
    <3>2. \A j \in 1 .. (i - 1) : t.history[j] = file.history[j]
        BY <1>6, <1>7, <2>3
    <3> QED BY <1>5, <1>9, <2>3, <3>1, <3>2
  <2> QED BY <1>6, <1>7, <2>1, <2>2, <2>3
<1>11. Save("verify", t) /\ Exit(p) /\ UNCHANGED <<archive, children, ranFor, specFiles, damage>>
    BY DEF Record, t, r
<1>14. Admitted(t.contract)
    BY <1>5 DEF Record, CanRecord, Loads
<1>13. file' = t /\ clock' = clock + 1 /\ saveRefused' = saveRefused
    BY <1>5, <1>11, <1>14, SaveResult
<1>12. IInv'
    BY <1>5, <1>10, <1>11, <1>13, SaveStep
<1> QED BY <1>2, <1>3, <1>4, <1>12, <1>13 DEF r, t

\* The environment.
LEMMA EnvironmentStep == ASSUME IInv, Environment PROVE IInv'
<1>1. UNCHANGED <<proc, stateLock, verifyLock, ranFor>>
    BY DEF Environment, OrphanEnds, EditNative, PolicyChanges, Damage, specFiles
<1>2. LocalOK' /\ LocksHeld'
    BY <1>1 DEF IInv, LocalOK, LocksHeld
<1>3. TypeOK'
  <2>1. CASE \E run \in children : OrphanEnds(run)
      BY <2>1 DEF IInv, TypeOK, OrphanEnds, specFiles
  <2>2. CASE \E n \in Natives \cup {NoNative} : EditNative(n)
      BY <2>2 DEF IInv, TypeOK, EditNative
  <2>3. CASE \E c \in Unsteady : PolicyChanges(c)
      BY <2>3, UnsteadyAssumption DEF IInv, TypeOK, PolicyChanges
  <2>4. CASE Damage(Unsupported) \/ Damage(Corrupt(damage))
    <3>1. damage \in Nat
        BY DEF IInv, TypeOK
    <3>2. Corrupt(damage) \in [status : {"corrupt"}, content : Nat]
        BY <3>1 DEF Corrupt
    <3>3. Unsupported \in Files /\ Corrupt(damage) \in Files
        BY <3>2 DEF Files
    <3>4. file' \in Files /\ damage' \in Nat
        BY <2>4, <3>1, <3>3 DEF Damage
    <3> QED BY <2>4, <3>4 DEF IInv, TypeOK, Damage, specFiles
  <2> QED BY <2>1, <2>2, <2>3, <2>4 DEF Environment
<1>4. CASE UNCHANGED <<file, saveRefused>>
    BY <1>1, <1>2, <1>3, <1>4, FileStays DEF IInv
<1>5. CASE Damage(Unsupported) \/ Damage(Corrupt(damage))
  <2>1. ~IsGoal(file') /\ saveRefused' = saveRefused
      BY <1>5 DEF Damage, IsGoal, GoalStatus, Unsupported, Corrupt
  <2>2. StoredStateValid' /\ EvidenceIsOwn'
      BY <2>1 DEF IInv, StoredStateValid, EvidenceIsOwn, IsGoal
  <2> QED BY <1>2, <1>3, <2>2 DEF IInv
<1> QED BY <1>4, <1>5 DEF Environment, OrphanEnds, EditNative, PolicyChanges

\* The invariant is inductive.
LEMMA Initially == Init => IInv
<1> SUFFICES ASSUME Init PROVE IInv
    OBVIOUS
<1>1. TypeOK
  <2>1. Absent \in Files
      BY DEF Files
  <2>2. proc \in [Procs -> ProcStates]
      BY IdleFits DEF Init
  <2>3. <<>> \in Seq(GoalStates)
      OBVIOUS
  <2> QED BY <2>1, <2>2, <2>3 DEF Init, TypeOK
<1>2. \A p \in Procs : proc[p] = IdleProc /\ proc[p].pc = "idle"
    BY IdleFits DEF Init
<1>3. LocalOK /\ LocksHeld
    BY <1>2, IdleFits DEF LocalOK, LocksHeld, HoldsState, HoldsVerify
<1>4. StoredStateValid /\ EvidenceIsOwn
    BY DEF Init, StoredStateValid, EvidenceIsOwn, IsGoal, Absent, GoalStatus
<1> QED BY <1>1, <1>3, <1>4 DEF IInv

LEMMA Stuttering == ASSUME IInv, UNCHANGED vars PROVE IInv'
<1>1. StoredStateValid' /\ EvidenceIsOwn'
    BY FileStays DEF IInv, vars
<1> QED BY <1>1 DEF IInv, vars, specFiles, TypeOK, LocalOK, LocksHeld

LEMMA Inductive == IInv /\ [Next]_vars => IInv'
<1> SUFFICES ASSUME IInv, [Next]_vars PROVE IInv'
    OBVIOUS
<1>1. CASE UNCHANGED vars
    BY <1>1, Stuttering
<1>2. ASSUME NEW p \in Procs, Ask(p) PROVE IInv'
    BY <1>2, AskStep
<1>3. ASSUME NEW p \in Procs, Proceed(p) PROVE IInv'
  <2>1. CASE ResolveExplicit(p) \/ ResolveNative(p) \/ ResolveBridge(p)
      BY <2>1, ResolveStep
  <2>2. CASE Preflight(p)
      BY <2>2, PreflightStep
  <2>3. CASE Start(p)
      BY <2>3, StartStep
  <2>4. CASE Resume(p)
      BY <2>4, ResumeStep
  <2>5. CASE Clear(p) \/ UnlinkArchived(p)
      BY <2>5, ClearStep
  <2>6. CASE Archive(p)
      BY <2>6, ArchiveStep
  <2>7. CASE Begin(p)
      BY <2>7, BeginStep
  <2>8. CASE Launch(p)
      BY <2>8, LaunchStep
  <2>9. CASE \E v \in Verdicts : RunEnds(p, v)
      BY <2>9, RunEndsStep
  <2>10. CASE Record(p)
      BY <2>10, RecordStep
  <2>11. CASE BindCheck(p)
      BY <2>11, BindCheckStep
  <2>12. CASE \/ ResolveFails(p) \/ PreflightFails(p) \/ StartRefused(p) \/ ResumeRefused(p)
              \/ ClearRefused(p) \/ BeginRefused(p) \/ LaunchRejected(p) \/ Discard(p)
              \/ BindDone(p) \/ BindWrite(p)
      BY <2>12, EndStep
  <2> QED BY <1>3, <2>1, <2>2, <2>3, <2>4, <2>5, <2>6, <2>7, <2>8, <2>9, <2>10, <2>11, <2>12
          DEF Proceed
<1>4. ASSUME NEW p \in Procs, AcquireVerify(p) \/ AcquireState(p) PROVE IInv'
    BY <1>4, AcquireVerifyStep, AcquireStateStep
<1>5. ASSUME NEW p \in Procs, Crash(p) \/ Terminate(p) PROVE IInv'
    BY <1>5, EndStep
<1>6. CASE Environment
    BY <1>6, EnvironmentStep
<1>7. CASE Quiet
    BY <1>7, Stuttering DEF Quiet
<1> QED BY <1>1, <1>2, <1>3, <1>4, <1>5, <1>6, <1>7 DEF Next

-----------------------------------------------------------------------------
(* The invariants, for every instance. *)

LEMMA Invariance == Spec => []IInv
<1> QED BY Initially, Inductive, PTL DEF Spec

\* The store, the locks and the processes keep their types.
THEOREM TypeCorrect == Spec => []TypeOK
<1>1. IInv => TypeOK
    BY DEF IInv
<1> QED BY <1>1, Invariance, PTL

\* GoalStore.save refuses nothing but the start of a goal whose command the policy
\* has come to reject, and a later load never rejects the evidence it stored.
THEOREM StoredAlwaysValid == Spec => []StoredStateValid
<1>1. IInv => StoredStateValid
    BY DEF IInv
<1> QED BY <1>1, Invariance, PTL

\* One process in a locked section and one past the verification lock.
THEOREM MutualExclusion == Spec => []Exclusion
<1>1. IInv => Exclusion
    BY DEF IInv, LocksHeld, Exclusion
<1> QED BY <1>1, Invariance, PTL

\* The stored history reports launches made for this goal, each at most once and
\* in launch order.
THEOREM EvidenceAlwaysOwn == Spec => []EvidenceIsOwn
<1>1. IInv => EvidenceIsOwn
    BY DEF IInv
<1> QED BY <1>1, Invariance, PTL

-----------------------------------------------------------------------------
(* What a step may do to goal.json. *)

\* Who writes goal.json: the saves, the two ways of a clear, and the outside.
LEMMA FileWriters ==
    ASSUME [Next]_vars
    PROVE  \/ file' = file /\ clock' = clock
           \/ \E p \in Procs : Start(p) \/ Resume(p) \/ Record(p)
           \/ \E p \in Procs : Clear(p) \/ UnlinkArchived(p)
           \/ Damage(Unsupported) \/ Damage(Corrupt(damage))
<1>1. CASE UNCHANGED vars
    BY <1>1 DEF vars
<1>2. CASE \E p \in Procs : Ask(p)
  <2>1. ASSUME NEW p, NEW r, NEW label, Request(p, r, label) PROVE UNCHANGED <<file, clock>>
      BY <2>1 DEF Request
  <2> QED BY <1>2, <2>1, Zenon DEF Ask, RequestStart, RequestVerify, RequestResume,
                                   RequestClear, RequestBind
<1>3. CASE \E p \in Procs : Proceed(p)
  <2>1. PICK p \in Procs : Proceed(p)
      BY <1>3
  <2>2. CASE \/ ResolveExplicit(p) \/ ResolveNative(p) \/ ResolveBridge(p) \/ Preflight(p)
             \/ BindCheck(p)
      BY <2>2 DEF ResolveExplicit, ResolveNative, ResolveBridge, Preflight, BindCheck, Unlocked
  <2>3. CASE Archive(p) \/ Begin(p) \/ Launch(p) \/ \E v \in Verdicts : RunEnds(p, v)
      BY <2>3 DEF Archive, Begin, Launch, RunEnds
  <2>4. CASE \/ ResolveFails(p) \/ PreflightFails(p) \/ StartRefused(p) \/ ResumeRefused(p)
             \/ ClearRefused(p) \/ BeginRefused(p) \/ LaunchRejected(p) \/ Discard(p)
             \/ BindDone(p) \/ BindWrite(p)
      BY <2>4 DEF ResolveFails, PreflightFails, StartRefused, ResumeRefused, ClearRefused,
                  BeginRefused, LaunchRejected, Discard, BindDone, BindWrite, Refuse
  <2>5. CASE Clear(p) \/ UnlinkArchived(p)
      BY <2>5
  <2>6. CASE Start(p) \/ Resume(p) \/ Record(p)
      BY <2>6
  <2> QED BY <2>1, <2>2, <2>3, <2>4, <2>5, <2>6 DEF Proceed
<1>4. CASE \E p \in Procs : AcquireVerify(p) \/ AcquireState(p) \/ Crash(p) \/ Terminate(p)
    BY <1>4 DEF AcquireVerify, AcquireState, Crash, Terminate
<1>5. CASE Environment
    BY <1>5 DEF Environment, OrphanEnds, EditNative, PolicyChanges
<1>6. CASE Quiet
    BY <1>6 DEF Quiet, vars
<1> QED BY <1>1, <1>2, <1>3, <1>4, <1>5, <1>6 DEF Next

\* A step leaves goal.json alone, or it is the save of a start, a resume or a
\* record, or it leaves no goal there.
LEMMA FileSteps ==
    ASSUME IInv, [Next]_vars
    PROVE  \/ file' = file /\ clock' = clock
           \/ \E p \in Procs : Start(p)
           \/ \E p \in Procs : Resume(p)
           \/ \E p \in Procs : Record(p)
           \/ file' = Absent /\ clock' = clock
           \/ file' \in {Unsupported, Corrupt(damage)} /\ clock' = clock
    BY FileWriters DEF Clear, UnlinkArchived, Damage

LEMMA StartFile ==
    ASSUME NEW p \in Procs, IInv, Start(p)
    PROVE  /\ file = Absent /\ proc[p].req.n \in 1 .. AttemptLimit
           /\ \/ file' = NewGoal(p) /\ clock' = clock + 1
              \/ file' = file /\ clock' = clock
<1>1. Valid(NewGoal(p)) /\ Fits(proc[p], ranFor) /\ Save("start", NewGoal(p))
    BY StartStep DEF IInv, LocalOK, Start
<1>2. file = Absent /\ proc[p].req.n \in 1 .. AttemptLimit
    BY <1>1 DEF Start, CanStart, Fits
<1> QED BY <1>1, <1>2, SaveResult

LEMMA ResumeFile ==
    ASSUME NEW p \in Procs, IInv, Resume(p)
    PROVE  file' = Resumed(p) /\ clock' = clock + 1
    BY ResumeStep

LEMMA NoGoalStatus ==
    /\ ~IsGoal(Absent) /\ ~IsGoal(Unsupported) /\ \A n : ~IsGoal(Corrupt(n))
    /\ \A n : Corrupt(n) # Absent
    /\ Unsupported # Absent
    BY DEF IsGoal, Absent, Unsupported, Corrupt, GoalStatus

\* What a record appends.
LEMMA RecordFile ==
    ASSUME NEW p \in Procs, IInv, Record(p)
    PROVE  /\ file'.contract = file.contract /\ file'.id = file.id /\ file.status = "active"
           /\ file.history \in Seq(Results)
           /\ Len(file'.history) = Len(file.history) + 1
           /\ \A i \in 1 .. Len(file.history) : file'.history[i] = file.history[i]
           /\ ranFor[file'.history[Len(file'.history)].run] = file
           /\ SnapshotHolds(file.contract)
<1>1. /\ file \in GoalStates /\ file.status = "active" /\ Valid(file)
      /\ proc[p].result \in Results
      /\ ranFor[proc[p].result.run] = file
      /\ SnapshotHolds(file.contract)
      /\ file' = Attempted(file, proc[p].result)
    BY RecordStep
<1>2. /\ file'.history = Append(file.history, proc[p].result)
      /\ file'.id = file.id /\ file'.contract = file.contract
    BY <1>1, AttemptValid DEF IInv, TypeOK
<1>3. file.history \in Seq(Results)
    BY <1>1 DEF GoalStates
<1> QED BY <1>1, <1>2, <1>3

\* A resume keeps identity, contract and evidence.
LEMMA ResumedKeeps ==
    ASSUME NEW p \in Procs, IInv, Resume(p)
    PROVE  /\ file'.contract = file.contract /\ file'.history = file.history
           /\ file.history \in Seq(Results) /\ file.status # "passed"
<1>1. file \in GoalStates /\ file.status \in {"active", "exhausted"} /\ file' = Resumed(p)
    BY ResumeStep, ResumeFile
<1> QED BY <1>1 DEF Resumed, GoalStates

\* While a goal lives its contract is fixed and its evidence only grows at the end.
THEOREM EvidenceOnlyGrows == Spec => EvidenceGrows
<1> DEFINE A == (IsGoal(file) /\ IsGoal(file') /\ file'.id = file.id) =>
                   /\ file'.contract = file.contract
                   /\ file.status = "passed" => file' = file
                   /\ Len(file'.history) <= Len(file.history) + 1
                   /\ Len(file'.history) >= Len(file.history)
                   /\ \A i \in 1 .. Len(file.history) : file'.history[i] = file.history[i]
<1>1. IInv /\ [Next]_vars => [A]_vars
  <2> SUFFICES ASSUME IInv, [Next]_vars, IsGoal(file), IsGoal(file')
               PROVE  /\ file'.contract = file.contract
                      /\ file.status = "passed" => file' = file
                      /\ Len(file'.history) <= Len(file.history) + 1
                      /\ Len(file'.history) >= Len(file.history)
                      /\ \A i \in 1 .. Len(file.history) : file'.history[i] = file.history[i]
      OBVIOUS
  <2>1. file.history \in Seq(Results) /\ Len(file.history) \in Nat
      BY GoalFile DEF IInv, GoalStates
  <2>2. CASE file' = file
      BY <2>1, <2>2
  <2>3. CASE \E p \in Procs : Start(p)
      BY <2>3, StartFile, NoGoalStatus
  <2>4. CASE \E p \in Procs : Resume(p)
      BY <2>1, <2>4, ResumedKeeps
  <2>5. CASE \E p \in Procs : Record(p)
      BY <2>1, <2>5, RecordFile
  <2>6. CASE file' \in {Absent, Unsupported, Corrupt(damage)}
      BY <2>6, NoGoalStatus
  <2> QED BY <2>2, <2>3, <2>4, <2>5, <2>6, FileSteps
<1> QED BY <1>1, Invariance, PTL DEF Spec, EvidenceGrows

\* A step that records appends the verdict of a launch made for the very state
\* that is stored.
LEMMA RecordedOnlyByRecord ==
    ASSUME IInv, [Next]_vars, Recorded
    PROVE  /\ ranFor[file'.history[Len(file'.history)].run] = file
           /\ SnapshotHolds(file.contract)
<1>1. IsGoal(file) /\ IsGoal(file') /\ Len(file'.history) > Len(file.history)
    BY DEF Recorded
<1>2. file.history \in Seq(Results) /\ Len(file.history) \in Nat
    BY <1>1, GoalFile DEF IInv, GoalStates
<1>3. CASE file' = file
    BY <1>1, <1>2, <1>3
<1>4. CASE \E p \in Procs : Start(p)
    BY <1>1, <1>4, StartFile, NoGoalStatus
<1>5. CASE \E p \in Procs : Resume(p)
    BY <1>1, <1>2, <1>5, ResumedKeeps
<1>6. CASE \E p \in Procs : Record(p)
    BY <1>6, RecordFile
<1>7. CASE file' \in {Absent, Unsupported, Corrupt(damage)}
    BY <1>1, <1>7, NoGoalStatus
<1> QED BY <1>3, <1>4, <1>5, <1>6, <1>7, FileSteps

\* A verdict is recorded only onto the exact state its run was launched for.
THEOREM VerdictsNeverStale == Spec => NoStaleVerdict
<1>1. IInv /\ [Next]_vars =>
        [Recorded => ranFor[file'.history[Len(file'.history)].run] = file]_vars
    BY RecordedOnlyByRecord
<1> QED BY <1>1, Invariance, PTL DEF Spec, NoStaleVerdict

\* A spec goal records a verdict only on the snapshot it was started with.
THEOREM RecordsOnSnapshot == Spec => RecordedOnSnapshot
<1>1. IInv /\ [Next]_vars => [Recorded => SnapshotHolds(file.contract)]_vars
    BY RecordedOnlyByRecord
<1> QED BY <1>1, Invariance, PTL DEF Spec, RecordedOnSnapshot

-----------------------------------------------------------------------------
(* Unreadable bytes, and the bridge of a spec. *)

\* Only the archiving step of a forced clear leads to the unlink of what it archived.
LEMMA ArchivedBy ==
    ASSUME IInv, [Next]_vars, NEW p \in Procs, proc'[p].pc = "archived"
    PROVE  proc[p].pc = "archived" \/ Archive(p)
<1>1. proc \in [Procs -> ProcStates] /\ IdleProc.pc # "archived"
    BY IdleFits DEF IInv, TypeOK
<1>2. ASSUME NEW q \in Procs, proc' = [proc EXCEPT ![q] = IdleProc] PROVE proc[p].pc = "archived"
    BY <1>1, <1>2
<1>3. ASSUME NEW q \in Procs, NEW label, Goto(q, label), label # "archived"
      PROVE  proc[p].pc = "archived"
    BY <1>1, <1>3 DEF Goto, ProcStates
<1>4. CASE UNCHANGED vars
    BY <1>4 DEF vars
<1>5. ASSUME NEW q \in Procs, Ask(q) PROVE proc[p].pc = "archived"
  <2>1. \/ \E r : Request(q, r, "resolve")
        \/ \E r : Request(q, r, "v_preflight")
        \/ \E r : Request(q, r, "preflight")
        \/ \E r : Request(q, r, "bind_check")
      BY <1>5, Zenon DEF Ask, RequestStart, RequestVerify, RequestResume, RequestClear, RequestBind
  <2>2. PICK r, label : Request(q, r, label) /\ label # "archived"
      BY <2>1
  <2>3. proc' = [proc EXCEPT ![q].pc = label, ![q].req = r]
      BY <2>2 DEF Request
  <2> QED BY <1>1, <2>2, <2>3 DEF ProcStates
<1>6. ASSUME NEW q \in Procs, Proceed(q) PROVE proc[p].pc = "archived" \/ Archive(p)
  <2>1. CASE ResolveExplicit(q) \/ ResolveNative(q) \/ ResolveBridge(q)
    <3>1. ASSUME NEW label, NEW c, label # "archived",
                 \/ proc' = [proc EXCEPT ![q].pc = label, ![q].contract = c]
                 \/ proc' = [proc EXCEPT ![q].pc = label, ![q].contract.native = c]
          PROVE  proc[p].pc = "archived"
        BY <1>1, <3>1 DEF ProcStates
    <3> QED BY <2>1, <3>1 DEF ResolveExplicit, ResolveNative, ResolveBridge
  <2>2. CASE Preflight(q)
      BY <1>3, <2>2 DEF Preflight, AfterPreflight
  <2>3. CASE BindCheck(q)
      BY <1>3, <2>3 DEF BindCheck
  <2>4. CASE Archive(q)
      BY <1>1, <2>4 DEF Archive, Goto, ProcStates
  <2>5. CASE Begin(q) \/ Launch(q) \/ \E v \in Verdicts : RunEnds(q, v)
      BY <1>1, <2>5 DEF Begin, Launch, RunEnds, ProcStates
  <2>6. CASE \/ ResolveFails(q) \/ PreflightFails(q) \/ StartRefused(q) \/ ResumeRefused(q)
             \/ ClearRefused(q) \/ BeginRefused(q) \/ LaunchRejected(q) \/ Discard(q)
             \/ BindDone(q) \/ BindWrite(q)
      BY <1>2, <2>6 DEF ResolveFails, PreflightFails, StartRefused, ResumeRefused, ClearRefused,
                  BeginRefused, LaunchRejected, Discard, BindDone, BindWrite, Refuse, Exit
  <2>7. CASE Clear(q) \/ UnlinkArchived(q) \/ Start(q) \/ Resume(q) \/ Record(q)
      BY <1>2, <2>7 DEF Clear, UnlinkArchived, Start, Resume, Record, Exit
  <2> QED BY <1>6, <2>1, <2>2, <2>3, <2>4, <2>5, <2>6, <2>7 DEF Proceed
<1>7. ASSUME NEW q \in Procs, AcquireVerify(q) \/ AcquireState(q) \/ Crash(q) \/ Terminate(q)
      PROVE  proc[p].pc = "archived"
    BY <1>2, <1>3, <1>7 DEF AcquireVerify, AcquireState, AfterWait, Crash, Terminate, Exit
<1>8. CASE Environment
    BY <1>8 DEF Environment, OrphanEnds, EditNative, PolicyChanges, Damage
<1> QED BY <1>4, <1>5, <1>6, <1>7, <1>8 DEF Next, Quiet

\* Names are only added to the archive.
LEMMA ArchiveGrows == ASSUME [Next]_vars PROVE archive \subseteq archive'
<1>1. ASSUME NEW p, NEW r, NEW label, Request(p, r, label) PROVE archive' = archive
    BY <1>1 DEF Request
<1>2. ASSUME NEW p \in Procs, Ask(p) PROVE archive' = archive
    BY <1>1, <1>2, Zenon DEF Ask, RequestStart, RequestVerify, RequestResume, RequestClear, RequestBind
<1>3. ASSUME NEW p \in Procs, Proceed(p) PROVE archive \subseteq archive'
    BY <1>3 DEF Proceed, ResolveExplicit, ResolveNative, ResolveBridge, ResolveFails, Preflight,
                PreflightFails, Start, StartRefused, Resume, ResumeRefused, Clear, ClearRefused,
                Archive, UnlinkArchived, Begin, BeginRefused, Launch, LaunchRejected, RunEnds,
                Record, Discard, BindCheck, BindDone, BindWrite, Refuse, Unlocked
<1>4. ASSUME NEW p \in Procs, AcquireVerify(p) \/ AcquireState(p) \/ Crash(p) \/ Terminate(p)
      PROVE  archive' = archive
    BY <1>4 DEF AcquireVerify, AcquireState, Crash, Terminate
<1>5. ASSUME Environment PROVE archive' = archive
    BY <1>5 DEF Environment, OrphanEnds, EditNative, PolicyChanges, Damage
<1> QED BY <1>2, <1>3, <1>4, <1>5 DEF Next, Quiet, vars

\* What a forced clear is about to unlink has its name in the archive, and nobody
\* else replaces it meanwhile, as the process holds the state lock.
ArchivedKept ==
    \A p \in Procs :
        proc[p].pc = "archived" =>
            file \in archive /\ ~IsGoal(file) /\ file \notin {Absent, Unsupported}

LEMMA ArchivedKeeps == ASSUME IInv, ArchivedKept, [Next]_vars PROVE ArchivedKept'
<1> SUFFICES ASSUME NEW p \in Procs, proc'[p].pc = "archived"
             PROVE  file' \in archive' /\ ~IsGoal(file') /\ file' \notin {Absent, Unsupported}
    BY DEF ArchivedKept
<1>1. CASE Archive(p)
    BY <1>1, NoGoalStatus DEF Archive, Loads, IInv, TypeOK, StoredStateValid
<1>2. CASE proc[p].pc = "archived"
  <2>1. stateLock = p /\ p # NoProc /\ proc \in [Procs -> ProcStates]
      BY <1>2, ProcsAssumption DEF IInv, LocksHeld, HoldsState, TypeOK
  <2>2. ASSUME NEW q \in Procs, Start(q) \/ Resume(q) \/ Record(q) \/ Clear(q) PROVE FALSE
    <3>1. proc[q].pc \in {"apply", "record"}
        BY <2>2 DEF Start, Resume, Record, Clear
    <3> QED BY <1>2, <2>1, <3>1 DEF IInv, LocksHeld, HoldsState
  <2>3. ASSUME NEW q \in Procs, UnlinkArchived(q) PROVE FALSE
    <3>1. q = p
        BY <2>1, <2>3 DEF UnlinkArchived, IInv, LocksHeld, HoldsState
    <3>2. proc'[p] = IdleProc
        BY <2>1, <2>3, <3>1 DEF UnlinkArchived, Exit
    <3> QED BY <3>2, IdleFits
  <2>4. ~Damage(Unsupported) /\ ~Damage(Corrupt(damage))
      BY <2>1 DEF Damage
  <2>5. file' = file
      BY <2>2, <2>3, <2>4, FileWriters
  <2> QED BY <1>2, <2>5, ArchiveGrows DEF ArchivedKept
<1> QED BY <1>1, <1>2, ArchivedBy

\* Bytes that cannot be read leave the slot only through the archive, and a goal of
\* another schema version stays (clear_goal with --force, GoalStore._load).
THEOREM UnreadableNeverLost == Spec => UnreadablePreserved
<1> DEFINE A == (~IsGoal(file) /\ file # Absent /\ file' # file /\ damage' = damage)
                    => file # Unsupported /\ file \in archive'
<1>1. Init => ArchivedKept
    BY IdleFits DEF Init, ArchivedKept
<1>2. IInv /\ ArchivedKept /\ [Next]_vars => ArchivedKept'
    BY ArchivedKeeps
<1>3. IInv /\ ArchivedKept /\ [Next]_vars => [A]_vars
  <2> SUFFICES ASSUME IInv, ArchivedKept, [Next]_vars, ~IsGoal(file), file # Absent,
                      file' # file, damage' = damage
               PROVE  file # Unsupported /\ file \in archive'
      OBVIOUS
  <2>1. ~Loads(TRUE) /\ ~Loads(FALSE)
      BY DEF Loads
  <2>2. ASSUME NEW p \in Procs, Start(p) \/ Resume(p) \/ Record(p) \/ Clear(p) PROVE FALSE
    <3>1. Loads(TRUE) \/ Loads(~proc[p].req.flag)
        BY <2>2 DEF Start, CanStart, Resume, CanResume, Record, CanRecord, Clear
    <3> QED BY <3>1 DEF Loads
  <2>3. damage \in Nat
      BY DEF IInv, TypeOK
  <2>4. ~Damage(Unsupported) /\ ~Damage(Corrupt(damage))
      BY <2>3 DEF Damage
  <2>5. PICK p \in Procs : UnlinkArchived(p)
      BY <2>2, <2>4, FileWriters
  <2> QED BY <2>5, ArchiveGrows DEF UnlinkArchived, ArchivedKept
<1> QED BY <1>1, <1>2, <1>3, Invariance, PTL DEF Spec, UnreadablePreserved

\* A bridge is replaced only by a bind with --overwrite (os.link is create-only).
THEOREM BridgeNeverReplaced == Spec => BridgeCreateOnly
<1> DEFINE A == (bridge # NoBridge /\ bridge' # bridge)
                    => \E p \in Procs : proc[p].pc = "bind_write" /\ proc[p].req.flag
<1>1. [Next]_vars => [A]_vars
  <2> SUFFICES ASSUME [Next]_vars, bridge # NoBridge, bridge' # bridge
               PROVE  \E p \in Procs : proc[p].pc = "bind_write" /\ proc[p].req.flag
      OBVIOUS
  <2>1. ASSUME NEW p, NEW r, NEW label, Request(p, r, label) PROVE FALSE
      BY <2>1 DEF Request, specFiles
  <2>2. ASSUME NEW p \in Procs, Ask(p) PROVE FALSE
      BY <2>1, <2>2, Zenon DEF Ask, RequestStart, RequestVerify, RequestResume, RequestClear,
                               RequestBind
  <2>3. ASSUME NEW p \in Procs, Proceed(p) PROVE BindWrite(p)
      BY <2>3 DEF Proceed, ResolveExplicit, ResolveNative, ResolveBridge, ResolveFails,
                  Preflight, PreflightFails, Start, StartRefused, Resume, ResumeRefused, Clear,
                  ClearRefused, Archive, UnlinkArchived, Begin, BeginRefused, Launch,
                  LaunchRejected, RunEnds, Record, Discard, BindCheck, BindDone, Refuse,
                  Unlocked, specFiles
  <2>4. ASSUME NEW p \in Procs, AcquireVerify(p) \/ AcquireState(p) \/ Crash(p) \/ Terminate(p)
        PROVE  FALSE
      BY <2>4 DEF AcquireVerify, AcquireState, Crash, Terminate, specFiles
  <2>5. ~Environment
      BY DEF Environment, OrphanEnds, EditNative, PolicyChanges, Damage, specFiles
  <2>6. PICK p \in Procs : BindWrite(p)
      BY <2>2, <2>3, <2>4, <2>5 DEF Next, Quiet, vars
  <2> QED BY <2>6 DEF BindWrite, BindInstalls
<1> QED BY <1>1, PTL DEF Spec, BridgeCreateOnly

-----------------------------------------------------------------------------
(* The store implements the goal state diagram. *)

\* What a reader sees of a goal, and of anything else.
LEMMA SlotOfGoal ==
    ASSUME IsGoal(file)
    PROVE  AbstractSlot = [status |-> file.status, id |-> file.id, count |-> file.count,
                           max |-> file.max]
    BY DEF AbstractSlot

LEMMA StartMaps ==
    ASSUME NEW p \in Procs, IInv, Start(p)
    PROVE  Lifecycle!StartGoal \/ (file' = file /\ clock' = clock)
<1> SUFFICES ASSUME ~(file' = file /\ clock' = clock) PROVE Lifecycle!StartGoal
    OBVIOUS
<1>1. /\ file = Absent /\ file' = NewGoal(p) /\ clock' = clock + 1
      /\ proc[p].req.n \in 1 .. AttemptLimit
    BY StartFile
<1>2. AbstractSlot = Lifecycle!Empty
    BY <1>1, NoGoalStatus DEF AbstractSlot, Lifecycle!Empty, Lifecycle!Slot
<1>3. /\ file'.status = "active" /\ file'.id = clock' /\ file'.count = 0
      /\ file'.max = proc[p].req.n /\ IsGoal(file')
    BY <1>1 DEF NewGoal, IsGoal, GoalStatus
<1>4. AbstractSlot' = [status |-> "active", id |-> clock', count |-> 0,
                       max |-> proc[p].req.n]
    BY <1>3 DEF AbstractSlot, IsGoal
<1> QED BY <1>1, <1>2, <1>4 DEF Lifecycle!StartGoal, Lifecycle!Slot

LEMMA ResumeMaps ==
    ASSUME NEW p \in Procs, IInv, Resume(p) PROVE Lifecycle!ResumeGoal
<1>1. /\ file \in GoalStates /\ file.status \in {"active", "exhausted"}
      /\ Proposed(p) \in (file.count + 1) .. AttemptLimit
      /\ file' = Resumed(p) /\ clock' = clock + 1
    BY ResumeStep, ResumeFile
<1>2. /\ file'.status = "active" /\ file'.id = file.id /\ file'.count = file.count
      /\ file'.max = Proposed(p)
    BY <1>1 DEF Resumed, GoalStates
<1>3. IsGoal(file) /\ IsGoal(file')
    BY <1>1, <1>2 DEF IsGoal, GoalStatus
<1>4. AbstractSlot = [status |-> file.status, id |-> file.id, count |-> file.count,
                      max |-> file.max]
    BY <1>3 DEF AbstractSlot
<1>5. AbstractSlot' = [status |-> "active", id |-> file.id, count |-> file.count,
                       max |-> Proposed(p)]
    BY <1>2, <1>3 DEF AbstractSlot, IsGoal
<1> QED BY <1>1, <1>4, <1>5 DEF Lifecycle!ResumeGoal, Lifecycle!Slot

LEMMA RecordMaps ==
    ASSUME NEW p \in Procs, IInv, Record(p)
    PROVE  Lifecycle!PassAttempt \/ Lifecycle!FailAttempt
<1> DEFINE r == proc[p].result
           a == StatusAfter(file, r.verdict)
<1>1. /\ file \in GoalStates /\ file.status = "active" /\ Valid(file) /\ r \in Results
      /\ file' = Attempted(file, r) /\ clock' = clock + 1
    BY RecordStep
<1>2. /\ file'.count = file.count + 1 /\ file'.max = file.max /\ file'.status = a
      /\ file'.id = file.id /\ file' \in GoalStates
    BY <1>1, AttemptValid DEF IInv, TypeOK
<1>3. IsGoal(file) /\ IsGoal(file')
    BY <1>1, <1>2 DEF IsGoal, GoalStatus, GoalStates
<1>4. AbstractSlot = [status |-> "active", id |-> file.id, count |-> file.count,
                      max |-> file.max]
    BY <1>1, <1>3 DEF AbstractSlot
<1>5. AbstractSlot' = [status |-> a, id |-> file.id, count |-> file.count + 1,
                       max |-> file.max]
    BY <1>2, <1>3 DEF AbstractSlot, IsGoal
<1>6. file.count \in Nat /\ file.max \in Nat /\ file.count < file.max
    BY <1>1, ActiveHistory, LimitAssumption DEF GoalStates
<1>7. r.verdict = "pass" => a = "passed"
    BY DEF StatusAfter
<1>8. r.verdict # "pass" =>
        a = IF file.count + 1 = file.max THEN "exhausted" ELSE "active"
    BY <1>6 DEF StatusAfter
<1> HIDE DEF a, r
<1>9. CASE r.verdict = "pass"
    BY <1>1, <1>4, <1>5, <1>7, <1>9 DEF Lifecycle!PassAttempt, Lifecycle!Slot
<1>10. CASE r.verdict # "pass"
    BY <1>1, <1>4, <1>5, <1>8, <1>10 DEF Lifecycle!FailAttempt, Lifecycle!Slot
<1> QED BY <1>9, <1>10

LEMMA InitMaps == Init => Lifecycle!LifecycleInit
    BY NoGoalStatus DEF Init, AbstractSlot, Lifecycle!LifecycleInit, Lifecycle!Empty,
                        Lifecycle!Slot

LEMMA StepMaps ==
    IInv /\ [Next]_vars => [Lifecycle!LifecycleNext]_(Lifecycle!lifecycleVars)
<1> SUFFICES ASSUME IInv, [Next]_vars
             PROVE  [Lifecycle!LifecycleNext]_(Lifecycle!lifecycleVars)
    OBVIOUS
<1>1. CASE file' = file /\ clock' = clock
    BY <1>1 DEF Lifecycle!lifecycleVars, AbstractSlot, IsGoal
<1>2. CASE \E p \in Procs : Start(p)
    BY <1>1, <1>2, StartMaps DEF Lifecycle!LifecycleNext
<1>3. CASE \E p \in Procs : Resume(p)
    BY <1>3, ResumeMaps DEF Lifecycle!LifecycleNext
<1>4. CASE \E p \in Procs : Record(p)
    BY <1>4, RecordMaps DEF Lifecycle!LifecycleNext
<1>5. CASE file' = Absent /\ clock' = clock
  <2>1. AbstractSlot' = Lifecycle!Empty
      BY <1>5, NoGoalStatus DEF AbstractSlot, IsGoal, Lifecycle!Empty, Lifecycle!Slot
  <2> QED BY <1>5, <2>1 DEF Lifecycle!LifecycleNext, Lifecycle!Empties
<1>6. CASE file' \in {Unsupported, Corrupt(damage)} /\ clock' = clock
  <2>1. ~IsGoal(file') /\ file' # Absent
      BY <1>6, NoGoalStatus
  <2>2. AbstractSlot' = Lifecycle!Unreadable
      BY <2>1 DEF AbstractSlot, IsGoal, Lifecycle!Unreadable, Lifecycle!Slot
  <2> QED BY <1>6, <2>2 DEF Lifecycle!LifecycleNext, Lifecycle!Spoil
<1> QED BY <1>1, <1>2, <1>3, <1>4, <1>5, <1>6, FileSteps

\* Any number of processes in any interleaving implement the state diagram.
THEOREM Implements == Spec => ImplementsLifecycle
<1> QED BY InitMaps, StepMaps, Invariance, PTL
        DEF Spec, ImplementsLifecycle, Lifecycle!LifecycleSpec
=============================================================================
