---------------------------- MODULE FeatureProofs ----------------------------
(***************************************************************************)
(* Proofs about FeatureMaps for any commands, features and texts.          *)
(***************************************************************************)
EXTENDS FeatureMaps, SequenceTheorems, TLAPS

-----------------------------------------------------------------------------
(* The inductive invariant. *)

Ops == {"none", "generate", "map", "publish"}

Commands == [op : Ops, pc : Labels, overwrite : BOOLEAN, proof : BOOLEAN, want : Maps,
             expected : Snapshots, passed : Bodies \cup {Hand, None}, installed : Seq(Slugs),
             torn : BOOLEAN]

Shape ==
    /\ docs \in [Slugs -> Docs \cup {None}]
    /\ plan \in Bodies
    /\ lock \in Procs \cup {None}
    /\ proc \in [Procs -> Commands]
    /\ upsets \in 0 .. MaxUpsets

IsReady(doc) == doc.draft = FALSE

\* At most one contract of a command is ready, and it is the one it proves.
OneReady(c) == \A t, u \in DOMAIN c.want : IsReady(c.want[t]) /\ IsReady(c.want[u]) => t = u
NoneReady(c) == \A t \in DOMAIN c.want : ~IsReady(c.want[t])
ReadyPassed(c) == \A t \in DOMAIN c.want : IsReady(c.want[t]) => c.passed = c.want[t].body
SomeReady(c) == \E t \in DOMAIN c.want : IsReady(c.want[t])
Sole(c) == DOMAIN c.want # {} /\ \A t, u \in DOMAIN c.want : t = u

\* What a command knows before it takes the lock.
Prepared(c) ==
    /\ c.pc \in {"idle", "snapshot", "prove", "write"} => c.installed = <<>> /\ c.torn = FALSE
    /\ c.op = "publish" => Sole(c) /\ c.overwrite = TRUE /\ c.proof = TRUE
    /\ OneReady(c)
    /\ c.pc = "snapshot" /\ c.proof = FALSE /\ c.op # "publish" => NoneReady(c)
    /\ c.pc = "snapshot" /\ c.proof = TRUE /\ c.op # "publish" => SomeReady(c)
    /\ c.pc = "prove" => SomeReady(c)
    /\ c.pc \in {"prove", "write"} \cup Locked =>
          /\ DOMAIN c.expected = DOMAIN c.want
          /\ c.overwrite = FALSE => \A t \in DOMAIN c.want : c.expected[t] = None
    /\ c.pc \in {"write", "install"} => ReadyPassed(c)

Noting(c) ==
    /\ \A i \in 1 .. Len(c.installed) : c.installed[i] \in DOMAIN c.want
    /\ \A i, j \in 1 .. Len(c.installed) : c.installed[i] = c.installed[j] => i = j

\* A document is as it was compared, or appeared where there was none.
Untouched(doc, expected) ==
    \/ doc = expected
    \/ expected = None /\ doc # None /\ doc.body = Hand

\* How far a command in its locked section has brought the documents.
Placing(c) ==
    /\ Noting(c)
    /\ \A i \in 1 .. Len(c.installed) : docs[c.installed[i]] = c.want[c.installed[i]]
    /\ c.torn = FALSE => \A t \in DOMAIN c.want \ Range(c.installed) :
                               Untouched(docs[t], c.expected[t])
    /\ c.pc = "install" => c.torn = FALSE

Holds(p) == proc[p].pc \in Locked <=> lock = p

CommandOK(p) ==
    /\ Prepared(proc[p])
    /\ Holds(p)
    /\ proc[p].pc \in Locked => Placing(proc[p])

IInv == Shape /\ \A p \in Procs : CommandOK(p)

-----------------------------------------------------------------------------
(* What keeps it. *)

LEMMA DocFacts ==
    /\ None \notin Docs /\ None \notin Procs
    /\ \A b \in BOOLEAN : [body |-> Hand, draft |-> b] \in Docs
    BY NoneAssumption DEF Docs

LEMMA MapFacts ==
    ASSUME NEW m \in Maps
    PROVE  DOMAIN m \subseteq Slugs /\ m \in [DOMAIN m -> Docs]
    BY DEF Maps

LEMMA SnapshotFacts ==
    ASSUME NEW m \in Snapshots
    PROVE  DOMAIN m \subseteq Slugs /\ m \in [DOMAIN m -> Docs \cup {None}]
    BY DEF Snapshots

LEMMA MapMember == ASSUME NEW T \in SUBSET Slugs, NEW m \in [T -> Docs] PROVE m \in Maps
    BY DEF Maps

LEMMA SnapshotMember ==
    ASSUME NEW T \in SUBSET Slugs, NEW m \in [T -> Docs \cup {None}] PROVE m \in Snapshots
    BY DEF Snapshots

LEMMA IdleFacts ==
    /\ Idle \in Commands /\ Prepared(Idle)
    /\ Idle.pc = "idle" /\ Idle.op = "none" /\ Idle.installed = <<>> /\ Idle.torn = FALSE
<1>1. Empty \in Maps /\ Empty \in Snapshots /\ DOMAIN Empty = {}
  <2>1. {} \in SUBSET Slugs
      OBVIOUS
  <2>2. Empty \in [{} -> Docs] /\ DOMAIN Empty = {}
      BY DEF Empty
  <2>3. Empty \in [{} -> Docs \cup {None}]
      BY DEF Empty
  <2> QED BY <2>1, <2>2, <2>3, MapMember, SnapshotMember
<1>2. FALSE \in BOOLEAN
    BY Zenon
<1>3. <<>> \in Seq(Slugs)
    OBVIOUS
<1>4. Idle \in Commands
    BY <1>1, <1>2, <1>3 DEF Idle, Commands, Ops, Labels, Locked
<1>5. /\ Idle.pc = "idle" /\ Idle.op = "none" /\ Idle.installed = <<>> /\ Idle.torn = FALSE
      /\ DOMAIN Idle.want = {}
    BY <1>1 DEF Idle
<1> QED BY <1>4, <1>5 DEF Prepared, OneReady, Locked

\* A step of one command: its new record, and documents only under its lock.
LEMMA StepKeeps ==
    ASSUME IInv, NEW p \in Procs, NEW c \in Commands, proc' = [proc EXCEPT ![p] = c],
           docs' \in [Slugs -> Docs \cup {None}], docs' = docs \/ lock = p,
           plan' \in Bodies, upsets' \in 0 .. MaxUpsets,
           \/ lock' = lock /\ (c.pc \in Locked <=> proc[p].pc \in Locked)
           \/ lock = None /\ lock' = p /\ c.pc \in Locked
           \/ lock' = (IF lock = p THEN None ELSE lock) /\ c.pc \notin Locked,
           Prepared(c), c.pc \in Locked => Placing(proc[p])'
    PROVE  IInv'
<1>1. proc \in [Procs -> Commands] /\ lock \in Procs \cup {None} /\ None \notin Procs
    BY DocFacts DEF IInv, Shape
<1>2. proc'[p] = c /\ \A q \in Procs \ {p} : proc'[q] = proc[q]
    BY <1>1
<1>3. Shape'
    BY <1>1 DEF IInv, Shape
<1>4. ASSUME NEW q \in Procs, q # p PROVE CommandOK(q)'
  <2>1. CommandOK(q) /\ proc'[q] = proc[q] /\ (lock' = q <=> lock = q)
      BY <1>1, <1>2, <1>4 DEF IInv, CommandOK, Holds
  <2>2. proc[q].pc \in Locked => docs' = docs
      BY <1>4, <2>1 DEF CommandOK, Holds
  <2> QED BY <2>1, <2>2 DEF CommandOK, Holds, Placing, Untouched
<1>5. CommandOK(p)'
  <2>1. Holds(p)'
      BY <1>1, <1>2 DEF IInv, CommandOK, Holds
  <2> QED BY <1>2, <2>1 DEF CommandOK
<1> QED BY <1>3, <1>4, <1>5 DEF IInv

\* The fields of a command.
LEMMA Fields ==
    ASSUME NEW c \in Commands
    PROVE  /\ c.op \in Ops /\ c.pc \in Labels /\ c.overwrite \in BOOLEAN /\ c.proof \in BOOLEAN
           /\ c.want \in Maps /\ c.expected \in Snapshots /\ c.passed \in Bodies \cup {Hand, None}
           /\ c.installed \in Seq(Slugs) /\ c.torn \in BOOLEAN
    BY DEF Commands

\* What a command may be asked to write: one ready contract, or drafts.
Askable(op, overwrite, proof, want) ==
    /\ \A t, u \in DOMAIN want : IsReady(want[t]) /\ IsReady(want[u]) => t = u
    /\ proof = FALSE => \A t \in DOMAIN want : ~IsReady(want[t])
    /\ proof = TRUE /\ op # "publish" => \E t \in DOMAIN want : IsReady(want[t])
    /\ op = "publish" => /\ DOMAIN want # {} /\ \A t, u \in DOMAIN want : t = u
                         /\ overwrite = TRUE /\ proof = TRUE

\* Asking: a command starts with what it is to write.
LEMMA AskKeeps ==
    ASSUME IInv, NEW p \in Procs, NEW op \in Ops, NEW overwrite \in BOOLEAN,
           NEW proof \in BOOLEAN, NEW want \in Maps, Ask(p, op, overwrite, proof, want),
           Askable(op, overwrite, proof, want)
    PROVE  IInv'
<1> DEFINE c == [Idle EXCEPT !.op = op, !.pc = "snapshot", !.overwrite = overwrite,
                     !.proof = proof, !.want = want]
<1>1. proc' = [proc EXCEPT ![p] = c] /\ UNCHANGED <<docs, plan, lock, upsets>> /\ At(p, "idle")
    BY DEF Ask
<1>2. c \in Commands /\ c.pc = "snapshot" /\ c.op = op /\ c.overwrite = overwrite
      /\ c.proof = proof /\ c.want = want /\ c.installed = <<>> /\ c.torn = FALSE
    BY IdleFacts DEF Commands, Labels
<1>3. Prepared(c)
  <2> HIDE DEF c
  <2> QED BY <1>2 DEF Askable, Prepared, OneReady, NoneReady, SomeReady, Sole, Locked
<1>4. c.pc \notin Locked /\ proc[p].pc \notin Locked
    BY <1>1, <1>2 DEF At, Locked
<1>5. docs \in [Slugs -> Docs \cup {None}] /\ plan \in Bodies /\ upsets \in 0 .. MaxUpsets
    BY DEF IInv, Shape
<1> HIDE DEF c
<1> QED BY <1>1, <1>2, <1>3, <1>4, <1>5, StepKeeps

LEMMA CommandKeeps ==
    ASSUME IInv, NEW p \in Procs, Command(p)
    PROVE  IInv'
<1>1. plan \in Bodies
    BY DEF IInv, Shape
<1>2. ASSUME NEW s \in Slugs, NEW overwrite \in BOOLEAN, NEW body \in Bodies,
             NEW ready \in BOOLEAN, Generate(p, s, body, ready, overwrite)
      PROVE  IInv'
  <2> DEFINE w == [t \in {s} |-> [body |-> body, draft |-> ~ready]]
  <2>1. (~ready) \in BOOLEAN
      BY SMT
  <2>2. w \in [{s} -> Docs]
      BY <2>1 DEF Docs
  <2>3. w \in Maps
      BY <2>2 DEF Maps
  <2>4. ready = FALSE => w[s].draft # FALSE
    <3>1. w[s].draft = ~ready
        OBVIOUS
    <3> QED BY <3>1, Zenon
  <2>5. DOMAIN w = {s}
      OBVIOUS
  <2>6. Ask(p, "generate", overwrite, ready, w)
      BY <1>2 DEF Generate
  <2> HIDE DEF w
  <2>7. \A t, u \in DOMAIN w : IsReady(w[t]) /\ IsReady(w[u]) => t = u
      BY <2>5
  <2>8. ready = FALSE => \A t \in DOMAIN w : ~IsReady(w[t])
      BY <2>4, <2>5, Zenon DEF IsReady
  <2>9. "generate" # "publish" /\ "generate" \in Ops
      BY DEF Ops
  <2>10. ready = TRUE => w[s].draft = FALSE
    <3>1. w[s].draft = ~ready
        BY DEF w
    <3> QED BY <3>1, Zenon
  <2>11. ready = TRUE => s \in DOMAIN w /\ IsReady(w[s])
      BY <2>5, <2>10, Zenon DEF IsReady
  <2>12. Askable("generate", overwrite, ready, w)
    <3>1. CASE ready = TRUE
      <4>1. s \in DOMAIN w /\ IsReady(w[s]) /\ ready # FALSE
          BY <3>1, <2>11, Zenon
      <4> QED BY <4>1, <2>7, <2>9 DEF Askable
    <3>2. CASE ready = FALSE
      <4>1. ready # TRUE
          BY <3>2, Zenon
      <4> QED BY <3>2, <4>1, <2>7, <2>8, <2>9 DEF Askable
    <3> QED BY <3>1, <3>2, Zenon
  <2> QED BY <2>3, <2>6, <2>9, <2>12, AskKeeps
<1>3. ASSUME NEW s \in Slugs, NEW overwrite \in BOOLEAN, NEW T \in SUBSET Slugs,
             s \in T, GenerateMap(p, T, s, overwrite)
      PROVE  IInv'
  <2> DEFINE w == [t \in T |-> [body |-> plan, draft |-> t # s]]
  <2>1. \A t : (t # s) \in BOOLEAN
      BY Zenon
  <2>2. w \in [T -> Docs]
      BY <1>1, <2>1 DEF Docs
  <2>3. w \in Maps
      BY <2>2, MapMember
  <2>4. \A t \in T : IsReady(w[t]) => t = s
      BY DEF IsReady
  <2>5. DOMAIN w = T
      OBVIOUS
  <2>6. Ask(p, "map", overwrite, TRUE, w)
      BY <1>3 DEF GenerateMap
  <2>8. w[s].draft = FALSE
    <3>1. ~w[s].draft /\ w[s] \in Docs
        BY <1>3, <2>2
    <3>2. w[s].draft \in BOOLEAN
        BY <3>1 DEF Docs
    <3> QED BY <3>1, <3>2, Zenon
  <2>9. s \in DOMAIN w /\ IsReady(w[s])
      BY <1>3, <2>5, <2>8 DEF IsReady
  <2>7. TRUE \in BOOLEAN /\ TRUE # FALSE
      BY Zenon
  <2> HIDE DEF w
  <2>10. Askable("map", overwrite, TRUE, w)
      BY <2>4, <2>5, <2>7, <2>9 DEF Askable
  <2> QED BY <2>3, <2>6, <2>7, <2>10, AskKeeps DEF Ops
<1>4. ASSUME NEW s \in Slugs, Publish(p, s) PROVE IInv'
  <2> DEFINE w == [t \in {s} |-> [body |-> Hand, draft |-> TRUE]]
  <2>1. TRUE \in BOOLEAN /\ TRUE # FALSE
      BY Zenon
  <2>2. w \in [{s} -> Docs]
      BY <2>1 DEF Docs
  <2>3. w \in Maps
      BY <2>2 DEF Maps
  <2>4. DOMAIN w = {s}
      OBVIOUS
  <2>5. Ask(p, "publish", TRUE, TRUE, w)
      BY <1>4 DEF Publish
  <2> HIDE DEF w
  <2>6. Askable("publish", TRUE, TRUE, w)
      BY <2>1, <2>4 DEF Askable
  <2> QED BY <2>1, <2>3, <2>5, <2>6, AskKeeps DEF Ops
<1> QED BY <1>2, <1>3, <1>4 DEF Command

\* Whatever ends a command leaves its record idle and its lock free.
LEMMA ExitKeeps ==
    ASSUME IInv, NEW p \in Procs, Exit(p), docs' = docs, plan' = plan,
           upsets' \in 0 .. MaxUpsets
    PROVE  IInv'
<1>1. proc' = [proc EXCEPT ![p] = Idle] /\ lock' = IF lock = p THEN None ELSE lock
    BY DEF Exit
<1>2. Idle.pc \notin Locked
    BY IdleFacts DEF Locked
<1>3. docs \in [Slugs -> Docs \cup {None}] /\ plan \in Bodies
    BY DEF IInv, Shape
<1> QED BY <1>1, <1>2, <1>3, IdleFacts, StepKeeps

LEMMA RefusedKeeps == ASSUME IInv, NEW p \in Procs, Refused(p) PROVE IInv'
    BY ExitKeeps DEF Refused, IInv, Shape

\* The snapshot: what is compared later is what is read now.
LEMMA SnapshotKeeps ==
    ASSUME IInv, NEW p \in Procs, Snapshot(p)
    PROVE  IInv'
<1> DEFINE now == Current(p)
           new == [t \in Targets(p) |-> Published(docs[t])]
           want == IF proc[p].op = "publish" THEN new ELSE proc[p].want
           c == [proc[p] EXCEPT !.pc = IF proc[p].proof THEN "prove" ELSE "write",
                                !.expected = now, !.want = want]
<1>1. proc[p] \in Commands /\ proc \in [Procs -> Commands] /\ plan \in Bodies
      /\ docs \in [Slugs -> Docs \cup {None}] /\ upsets \in 0 .. MaxUpsets
    BY DEF IInv, Shape
<1>2. proc[p].pc = "snapshot" /\ CanSnapshot(p) /\ UNCHANGED <<docs, plan, lock, upsets>>
      /\ proc' = [proc EXCEPT ![p] = c]
    BY <1>1 DEF Snapshot, At, Commands
<1>3. proc[p].want \in Maps /\ Targets(p) \subseteq Slugs /\ DOMAIN proc[p].want = Targets(p)
    BY <1>1, Fields, MapFacts DEF Targets
<1>4. now \in Snapshots /\ DOMAIN now = Targets(p) /\ \A t \in Targets(p) : now[t] = docs[t]
    BY <1>1, <1>3 DEF Current, Snapshots
<1>5. ASSUME proc[p].op = "publish"
      PROVE  new \in Maps
  <2>1. ASSUME NEW t \in Targets(p) PROVE Published(docs[t]) \in Docs
    <3>1. docs[t] \in Docs
        BY <1>1, <1>2, <1>3, <1>5 DEF CanSnapshot
    <3>2. FALSE \in BOOLEAN
        BY Zenon
    <3> QED BY <3>1, <3>2 DEF Published, Docs
  <2>2. new \in [Targets(p) -> Docs]
      BY <2>1
  <2> HIDE DEF new
  <2> QED BY <2>2, <1>3, MapMember
<1>6. want \in Maps /\ DOMAIN want = Targets(p)
    BY <1>3, <1>5
<1>7. c \in Commands /\ c.pc = (IF proc[p].proof THEN "prove" ELSE "write")
      /\ c.expected = now /\ c.want = want /\ c.op = proc[p].op
      /\ c.overwrite = proc[p].overwrite /\ c.proof = proc[p].proof
      /\ c.installed = proc[p].installed /\ c.torn = proc[p].torn
  <2> HIDE DEF want, now
  <2> QED BY <1>1, <1>4, <1>6 DEF Commands, Labels
<1> HIDE DEF c, now
<1>8. Prepared(c)
  <2>1. Prepared(proc[p]) /\ proc[p].overwrite \in BOOLEAN /\ proc[p].proof \in BOOLEAN
      BY <1>1, Fields DEF IInv, CommandOK
  <2>2. c.installed = <<>> /\ c.torn = FALSE
      BY <1>2, <1>7, <2>1 DEF Prepared
  <2>3. c.op = "publish" => Sole(c) /\ c.overwrite = TRUE /\ c.proof = TRUE
      BY <1>3, <1>6, <1>7, <2>1 DEF Prepared, Sole
  <2>4. OneReady(c)
    <3>1. CASE proc[p].op = "publish"
        BY <3>1, <1>7, <2>3 DEF Sole, OneReady
    <3>2. CASE proc[p].op # "publish"
        BY <3>2, <1>7, <2>1 DEF Prepared, OneReady
    <3> QED BY <3>1, <3>2
  <2>5. DOMAIN c.expected = DOMAIN c.want
      BY <1>4, <1>6, <1>7
  <2>6. ASSUME c.overwrite = FALSE PROVE \A t \in DOMAIN c.want : c.expected[t] = None
    <3>1. c.op # "publish"
        BY <2>3, <2>6, Zenon
    <3> QED BY <3>1, <2>6, <1>2, <1>4, <1>6, <1>7 DEF CanSnapshot
  <2>7. c.pc = "write" => ReadyPassed(c)
    <3>1. ASSUME c.pc = "write" PROVE proc[p].proof = FALSE
        BY <3>1, <1>7, <2>1
    <3>2. ASSUME c.pc = "write" PROVE NoneReady(c)
      <4>1. c.op # "publish"
          BY <3>1, <3>2, <1>7, <2>3, Zenon
      <4> QED BY <4>1, <3>1, <3>2, <1>2, <1>7, <2>1 DEF Prepared, NoneReady
    <3> QED BY <3>2 DEF NoneReady, ReadyPassed
  <2>8. c.pc \in {"prove", "write"}
      BY <1>7
  <2>9. c.pc = "prove" => SomeReady(c)
    <3> SUFFICES ASSUME c.pc = "prove" PROVE SomeReady(c)
        OBVIOUS
    <3>1. proc[p].proof = TRUE
        BY <1>7, <2>1
    <3>2. CASE c.op = "publish"
      <4>1. PICK t \in Targets(p) : TRUE
          BY <1>6, <1>7, <2>3, <3>2 DEF Sole
      <4>2. c.want = new /\ new[t].draft = FALSE
        <5>1. docs[t] \in Docs
            BY <1>1, <1>2, <1>3, <1>7, <3>2, <4>1 DEF CanSnapshot
        <5> QED BY <1>7, <3>2, <4>1, <5>1 DEF Published, Docs
      <4> QED BY <1>6, <1>7, <4>1, <4>2 DEF SomeReady, IsReady
    <3>3. CASE c.op # "publish"
        BY <3>1, <3>3, <1>2, <1>7, <2>1 DEF Prepared, SomeReady
    <3> QED BY <3>2, <3>3
  <2> QED BY <2>2, <2>3, <2>4, <2>5, <2>6, <2>7, <2>8, <2>9 DEF Prepared, Locked
<1>9. c.pc \notin Locked /\ proc[p].pc \notin Locked
    BY <1>2, <1>7 DEF Locked
<1> QED BY <1>1, <1>2, <1>7, <1>8, <1>9, StepKeeps

\* The proof: the ready contract is the one whose text has passed.
LEMMA ProveKeeps ==
    ASSUME IInv, NEW p \in Procs, Prove(p)
    PROVE  IInv'
<1> DEFINE text == proc[p].want[Proved(p)].body
           c == [proc[p] EXCEPT !.pc = "write", !.passed = text]
<1>1. proc[p] \in Commands /\ proc \in [Procs -> Commands] /\ plan \in Bodies
      /\ docs \in [Slugs -> Docs \cup {None}] /\ upsets \in 0 .. MaxUpsets
    BY DEF IInv, Shape
<1>2. Revalidated(p) = proc[p].want
    BY DEF Prove, Revalidated
<1>3. proc[p].pc = "prove" /\ UNCHANGED <<docs, plan, lock, upsets>>
      /\ proc' = [proc EXCEPT ![p] = c]
    BY <1>1, <1>2 DEF Prove, At, Commands
<1>4. Prepared(proc[p])
    BY DEF IInv, CommandOK
<1>5. proc[p].want \in [Targets(p) -> Docs] /\ Targets(p) = DOMAIN proc[p].want
    BY <1>1, Fields, MapFacts DEF Targets
<1>6. Proved(p) \in Targets(p) /\ IsReady(proc[p].want[Proved(p)])
  <2>1. \A t \in Targets(p) : IsReady(proc[p].want[t]) <=> ~proc[p].want[t].draft
    <3> TAKE t \in Targets(p)
    <3>1. proc[p].want[t].draft \in BOOLEAN
        BY <1>5 DEF Docs
    <3> QED BY <3>1, Zenon DEF IsReady
  <2>2. PICK t \in Targets(p) : ~proc[p].want[t].draft
      BY <1>3, <1>4, <1>5, <2>1 DEF Prepared, SomeReady
  <2>3. Proved(p) \in Targets(p) /\ ~proc[p].want[Proved(p)].draft
      BY <2>2, Zenon DEF Proved
  <2> QED BY <2>1, <2>3
<1>7. text \in Bodies \cup {Hand, None}
    BY <1>5, <1>6 DEF Docs
<1>8. c \in Commands /\ c.pc = "write" /\ c.passed = text /\ c.expected = proc[p].expected
      /\ c.want = proc[p].want /\ c.op = proc[p].op /\ c.overwrite = proc[p].overwrite
      /\ c.proof = proc[p].proof /\ c.installed = proc[p].installed /\ c.torn = proc[p].torn
  <2> HIDE DEF text
  <2> QED BY <1>1, <1>7 DEF Commands, Labels
<1> HIDE DEF c
<1>9. Prepared(c)
  <2>1. ReadyPassed(c)
      BY <1>4, <1>5, <1>6, <1>8 DEF Prepared, OneReady, ReadyPassed
  <2> QED BY <1>3, <1>4, <1>8, <2>1 DEF Prepared, OneReady, Sole, Locked
<1>10. c.pc \notin Locked /\ proc[p].pc \notin Locked
    BY <1>3, <1>8 DEF Locked
<1> QED BY <1>1, <1>3, <1>8, <1>9, <1>10, StepKeeps

\* The comparison: under the lock every document is still as it was read.
LEMMA CompareKeeps ==
    ASSUME IInv, NEW p \in Procs, Compare(p)
    PROVE  IInv'
<1> DEFINE c == [proc[p] EXCEPT !.pc = "install"]
<1>1. proc[p] \in Commands /\ proc \in [Procs -> Commands] /\ plan \in Bodies
      /\ docs \in [Slugs -> Docs \cup {None}] /\ upsets \in 0 .. MaxUpsets
    BY DEF IInv, Shape
<1>2. proc[p].pc = "write" /\ UNCHANGED <<docs, plan, upsets>> /\ lock = None /\ lock' = p
      /\ Unchanged(p) /\ proc' = [proc EXCEPT ![p] = c]
    BY <1>1 DEF Compare, At, Goto, Commands
<1>3. Prepared(proc[p])
    BY DEF IInv, CommandOK
<1>4. c \in Commands /\ c.pc = "install" /\ c.passed = proc[p].passed
      /\ c.expected = proc[p].expected /\ c.want = proc[p].want /\ c.op = proc[p].op
      /\ c.overwrite = proc[p].overwrite /\ c.proof = proc[p].proof
      /\ c.installed = proc[p].installed /\ c.torn = proc[p].torn
    BY <1>1 DEF Commands, Labels, Locked
<1> HIDE DEF c
<1>5. Prepared(c)
    BY <1>2, <1>3, <1>4 DEF Prepared, OneReady, Sole, ReadyPassed, Locked
<1>6. Placing(proc[p])'
  <2>1. proc'[p] = c /\ c.installed = <<>> /\ c.torn = FALSE
      BY <1>1, <1>2, <1>3, <1>4 DEF Prepared
  <2>2. \A t \in DOMAIN c.want : docs[t] = c.expected[t]
      BY <1>2, <1>4 DEF Unchanged, Current, Targets
  <2> QED BY <1>2, <2>1, <2>2 DEF Placing, Noting, Untouched
<1>7. c.pc \in Locked
    BY <1>4 DEF Locked
<1> QED BY <1>1, <1>2, <1>4, <1>5, <1>6, <1>7, StepKeeps

-----------------------------------------------------------------------------
(* The locked section. *)

\* What is known of a command that holds the lock.
LEMMA LockedFacts ==
    ASSUME IInv, NEW p \in Procs, proc[p].pc \in Locked
    PROVE  /\ lock = p /\ Prepared(proc[p]) /\ Placing(proc[p])
           /\ proc \in [Procs -> Commands] /\ proc[p] \in Commands
           /\ proc[p].installed \in Seq(Slugs) /\ proc[p].torn \in BOOLEAN
           /\ Targets(p) = DOMAIN proc[p].want /\ Targets(p) \subseteq Slugs
           /\ DOMAIN proc[p].expected = Targets(p)
           /\ proc[p].want \in [Targets(p) -> Docs]
           /\ proc[p].expected \in [Targets(p) -> Docs \cup {None}]
           /\ docs \in [Slugs -> Docs \cup {None}]
           /\ plan \in Bodies /\ upsets \in 0 .. MaxUpsets
<1>1. proc[p] \in Commands /\ proc \in [Procs -> Commands] /\ plan \in Bodies
      /\ docs \in [Slugs -> Docs \cup {None}] /\ upsets \in 0 .. MaxUpsets
    BY DEF IInv, Shape
<1>2. lock = p /\ Prepared(proc[p]) /\ Placing(proc[p])
    BY DEF IInv, CommandOK, Holds
<1>3. proc[p].want \in Maps /\ proc[p].expected \in Snapshots
      /\ proc[p].installed \in Seq(Slugs) /\ proc[p].torn \in BOOLEAN
    BY <1>1, Fields
<1>4. DOMAIN proc[p].expected = DOMAIN proc[p].want
    BY <1>2 DEF Prepared
<1>5. proc[p].want \in [Targets(p) -> Docs] /\ Targets(p) \subseteq Slugs
    BY <1>3, MapFacts DEF Targets
<1>6. proc[p].expected \in [DOMAIN proc[p].expected -> Docs \cup {None}]
    BY <1>3, SnapshotFacts
<1> QED BY <1>1, <1>2, <1>3, <1>4, <1>5, <1>6 DEF Targets

\* A step that stays in the locked section.
LEMMA LockedKeeps ==
    ASSUME IInv, NEW p \in Procs, proc[p].pc \in Locked, NEW c \in Commands,
           proc' = [proc EXCEPT ![p] = c], docs' \in [Slugs -> Docs \cup {None}],
           UNCHANGED <<plan, lock, upsets>>, c.pc \in Locked, Prepared(c), Placing(proc[p])'
    PROVE  IInv'
    BY LockedFacts, StepKeeps

\* Placing one more document leaves those already placed, and the rest, as they are.
LEMMA PlacedFacts ==
    ASSUME IInv, NEW p \in Procs, proc[p].pc \in Locked, NEW t \in Left(p), Placed(p, t)
    PROVE  /\ docs' \in [Slugs -> Docs \cup {None}] /\ t \in Slugs /\ t \in Targets(p)
           /\ docs'[t] = proc[p].want[t] /\ \A u \in Slugs \ {t} : docs'[u] = docs[u]
           /\ \A i \in 1 .. Len(proc[p].installed) : proc[p].installed[i] # t
<1>1. t \in Targets(p) /\ t \notin Range(proc[p].installed)
    BY DEF Left
<1>2. t \in Slugs /\ proc[p].want[t] \in Docs
    BY <1>1, LockedFacts
<1>3. docs' = [docs EXCEPT ![t] = proc[p].want[t]] /\ docs \in [Slugs -> Docs \cup {None}]
    BY LockedFacts DEF Placed
<1>4. \A i \in 1 .. Len(proc[p].installed) : proc[p].installed[i] # t
    BY <1>1, LockedFacts DEF Range
<1> QED BY <1>1, <1>2, <1>3, <1>4

LEMMA InstallKeeps ==
    ASSUME IInv, NEW p \in Procs, NEW t \in Slugs, Install(p, t)
    PROVE  IInv'
<1> DEFINE noted == proc[p].installed
           c == [proc[p] EXCEPT !.installed = Append(noted, t)]
<1>1. proc[p].pc = "install" /\ proc[p].pc \in Locked /\ t \in Left(p) /\ Placed(p, t)
      /\ UNCHANGED <<plan, lock, upsets>>
    BY DEF Install, At, Locked
<1>2. proc[p] \in Commands /\ proc \in [Procs -> Commands] /\ noted \in Seq(Slugs)
    BY <1>1, LockedFacts
<1>3. proc' = [proc EXCEPT ![p] = c]
    BY <1>2 DEF Install, Commands
<1>4. c \in Commands /\ c.pc = "install" /\ c.passed = proc[p].passed
      /\ c.expected = proc[p].expected /\ c.want = proc[p].want /\ c.op = proc[p].op
      /\ c.overwrite = proc[p].overwrite /\ c.proof = proc[p].proof
      /\ c.installed = Append(noted, t) /\ c.torn = proc[p].torn
  <2>1. Append(noted, t) \in Seq(Slugs)
      BY <1>2
  <2> HIDE DEF noted
  <2> QED BY <1>1, <1>2, <2>1 DEF Commands
<1> HIDE DEF c
<1>5. Prepared(c)
  <2>1. Prepared(proc[p])
      BY <1>1, LockedFacts
  <2> QED BY <1>1, <1>4, <2>1 DEF Prepared, OneReady, Sole, ReadyPassed, Locked
<1>6. Placing(proc[p])'
  <2>1. proc'[p] = c
      BY <1>2, <1>3
  <2>2. /\ Len(c.installed) = Len(noted) + 1 /\ c.installed[Len(noted) + 1] = t
        /\ \A i \in 1 .. Len(noted) : c.installed[i] = noted[i]
        /\ DOMAIN c.installed = 1 .. Len(noted) + 1 /\ DOMAIN noted = 1 .. Len(noted)
        /\ Len(noted) \in Nat
      BY <1>2, <1>4
  <2>3. Placing(proc[p]) /\ proc[p].torn = FALSE
      BY <1>1, LockedFacts DEF Placing
  <2>4. Targets(p) = DOMAIN c.want /\ Targets(p) \subseteq Slugs
      BY <1>1, <1>4, LockedFacts
  <2>5. Noting(c)
    <3>1. \A i \in 1 .. Len(c.installed) : i \in 1 .. Len(noted) \/ i = Len(noted) + 1
        BY <2>2
    <3>2. \A i \in 1 .. Len(c.installed) : c.installed[i] \in DOMAIN c.want
        BY <3>1, <1>1, <1>4, <2>2, <2>3, <2>4, PlacedFacts DEF Placing, Noting
    <3>3. ASSUME NEW i \in 1 .. Len(c.installed), NEW j \in 1 .. Len(c.installed),
                 c.installed[i] = c.installed[j]
          PROVE  i = j
      <4>1. /\ \A k \in 1 .. Len(noted) : noted[k] # t
            /\ \A k, l \in 1 .. Len(noted) : noted[k] = noted[l] => k = l
          BY <1>1, <2>3, PlacedFacts DEF Placing, Noting
      <4>2. CASE i \in 1 .. Len(noted) /\ j \in 1 .. Len(noted)
          BY <3>3, <4>1, <4>2, <2>2
      <4>3. CASE i \in 1 .. Len(noted) /\ j = Len(noted) + 1
          BY <3>3, <4>1, <4>3, <2>2
      <4>4. CASE i = Len(noted) + 1 /\ j \in 1 .. Len(noted)
          BY <3>3, <4>1, <4>4, <2>2
      <4> QED BY <3>1, <4>2, <4>3, <4>4
    <3> QED BY <3>2, <3>3 DEF Noting
  <2>6. \A i \in 1 .. Len(c.installed) : docs'[c.installed[i]] = c.want[c.installed[i]]
    <3> TAKE i \in 1 .. Len(c.installed)
    <3>1. CASE i \in 1 .. Len(noted)
      <4>1. noted[i] \in Targets(p) /\ docs[noted[i]] = proc[p].want[noted[i]]
          BY <3>1, <1>4, <2>3, <2>4 DEF Placing, Noting
      <4>2. noted[i] # t
          BY <3>1, <1>1, PlacedFacts
      <4>3. docs'[noted[i]] = docs[noted[i]]
          BY <1>1, <2>4, <4>1, <4>2, PlacedFacts
      <4> QED BY <3>1, <1>4, <2>2, <4>1, <4>3
    <3>2. CASE i = Len(noted) + 1
        BY <3>2, <1>1, <1>4, <2>2, PlacedFacts
    <3> QED BY <3>1, <3>2, <2>2
  <2>7. \A u \in DOMAIN c.want \ Range(c.installed) : Untouched(docs'[u], c.expected[u])
    <3> TAKE u \in DOMAIN c.want \ Range(c.installed)
    <3>1. u # t /\ u \notin Range(noted)
      <4>1. \A i \in 1 .. Len(noted) + 1 : u # c.installed[i]
          BY <2>2 DEF Range
      <4>2. Len(noted) + 1 \in 1 .. Len(noted) + 1
            /\ \A i \in 1 .. Len(noted) : i \in 1 .. Len(noted) + 1
          BY <2>2
      <4>3. u # t
          BY <2>2, <4>1, <4>2
      <4>4. \A i \in 1 .. Len(noted) : u # noted[i]
          BY <2>2, <4>1, <4>2
      <4> QED BY <2>2, <4>3, <4>4 DEF Range
    <3>2. Untouched(docs[u], proc[p].expected[u])
        BY <3>1, <1>4, <2>3 DEF Placing
    <3>3. docs'[u] = docs[u]
        BY <3>1, <1>1, <2>4, PlacedFacts
    <3> QED BY <3>2, <3>3, <1>4
  <2> QED BY <2>1, <2>3, <2>5, <2>6, <2>7, <1>4 DEF Placing
<1>7. c.pc \in Locked
    BY <1>4 DEF Locked
<1> QED BY <1>1, <1>3, <1>4, <1>5, <1>6, <1>7, PlacedFacts, LockedKeeps

LEMMA InstallInterruptedKeeps ==
    ASSUME IInv, NEW p \in Procs, NEW t \in Slugs, InstallInterrupted(p, t)
    PROVE  IInv'
<1> DEFINE c == [proc[p] EXCEPT !.pc = "rollback", !.torn = TRUE]
<1>1. proc[p].pc = "install" /\ proc[p].pc \in Locked /\ t \in Left(p) /\ Placed(p, t)
      /\ UNCHANGED <<plan, lock, upsets>>
    BY DEF InstallInterrupted, At, Locked
<1>2. proc[p] \in Commands /\ proc \in [Procs -> Commands] /\ TRUE \in BOOLEAN
    BY <1>1, LockedFacts, Zenon
<1>3. proc' = [proc EXCEPT ![p] = c]
    BY <1>2 DEF InstallInterrupted, Commands
<1>4. c \in Commands /\ c.pc = "rollback" /\ c.torn = TRUE /\ c.passed = proc[p].passed
      /\ c.expected = proc[p].expected /\ c.want = proc[p].want /\ c.op = proc[p].op
      /\ c.overwrite = proc[p].overwrite /\ c.proof = proc[p].proof
      /\ c.installed = proc[p].installed
    BY <1>2 DEF Commands, Labels, Locked
<1> HIDE DEF c
<1>5. Prepared(c)
  <2>1. Prepared(proc[p])
      BY <1>1, LockedFacts
  <2> QED BY <1>1, <1>4, <2>1 DEF Prepared, OneReady, Sole, ReadyPassed, Locked
<1>6. Placing(proc[p])'
  <2>1. proc'[p] = c /\ Placing(proc[p]) /\ Targets(p) = DOMAIN c.want
        /\ Targets(p) \subseteq Slugs
      BY <1>1, <1>2, <1>3, <1>4, LockedFacts
  <2>2. \A i \in 1 .. Len(c.installed) : docs'[c.installed[i]] = c.want[c.installed[i]]
      BY <1>1, <1>4, <2>1, PlacedFacts DEF Placing, Noting
  <2>3. c.torn # FALSE
      BY <1>4, Zenon
  <2> QED BY <1>4, <2>1, <2>2, <2>3 DEF Placing, Noting
<1>7. c.pc \in Locked
    BY <1>4 DEF Locked
<1> QED BY <1>1, <1>3, <1>4, <1>5, <1>6, <1>7, PlacedFacts, LockedKeeps

LEMMA InstallFailsKeeps ==
    ASSUME IInv, NEW p \in Procs, InstallFails(p)
    PROVE  IInv'
<1> DEFINE c == [proc[p] EXCEPT !.pc = "rollback"]
<1>1. proc[p].pc = "install" /\ proc[p].pc \in Locked
    BY DEF InstallFails, At, Locked
<1>2. CASE Refused(p)
    BY <1>2, RefusedKeeps
<1>3. CASE Goto(p, "rollback") /\ UNCHANGED <<docs, plan, lock, upsets>>
  <2>1. proc[p] \in Commands /\ proc \in [Procs -> Commands]
      BY <1>1, LockedFacts
  <2>2. proc' = [proc EXCEPT ![p] = c]
      BY <1>3, <2>1 DEF Goto, Commands
  <2>3. c \in Commands /\ c.pc = "rollback" /\ c.torn = proc[p].torn
        /\ c.passed = proc[p].passed /\ c.expected = proc[p].expected
        /\ c.want = proc[p].want /\ c.op = proc[p].op /\ c.overwrite = proc[p].overwrite
        /\ c.proof = proc[p].proof /\ c.installed = proc[p].installed
      BY <2>1 DEF Commands, Labels, Locked
  <2> HIDE DEF c
  <2>4. Prepared(c)
    <3>1. Prepared(proc[p])
        BY <1>1, LockedFacts
    <3> QED BY <1>1, <2>3, <3>1 DEF Prepared, OneReady, Sole, ReadyPassed, Locked
  <2>5. Placing(proc[p])'
    <3>1. proc'[p] = c /\ Placing(proc[p]) /\ docs' = docs
        BY <1>1, <1>3, <2>1, <2>2, LockedFacts
    <3> QED BY <2>3, <3>1 DEF Placing, Noting
  <2>6. c.pc \in Locked
      BY <2>3 DEF Locked
  <2> QED BY <1>1, <1>3, <2>2, <2>3, <2>4, <2>5, <2>6, LockedFacts, LockedKeeps
<1> QED BY <1>2, <1>3 DEF InstallFails

\* What is left of the notes when the latest is taken away.
LEMMA FrontFacts ==
    ASSUME NEW s \in Seq(Slugs), s # <<>>
    PROVE  /\ SubSeq(s, 1, Len(s) - 1) \in Seq(Slugs)
           /\ Len(SubSeq(s, 1, Len(s) - 1)) = Len(s) - 1
           /\ \A i \in 1 .. Len(s) - 1 : SubSeq(s, 1, Len(s) - 1)[i] = s[i]
           /\ Len(s) \in Nat \ {0} /\ Last(s) = s[Len(s)]
           /\ Range(s) = Range(SubSeq(s, 1, Len(s) - 1)) \cup {Last(s)}
<1>1. Len(s) \in Nat \ {0} /\ DOMAIN s = 1 .. Len(s)
    BY EmptySeq
<1>2. /\ SubSeq(s, 1, Len(s) - 1) \in Seq(Slugs)
      /\ Len(SubSeq(s, 1, Len(s) - 1)) = Len(s) - 1
      /\ \A i \in 1 .. Len(s) - 1 : SubSeq(s, 1, Len(s) - 1)[i] = s[i]
    BY <1>1, SubSeqProperties
<1>3. DOMAIN SubSeq(s, 1, Len(s) - 1) = 1 .. Len(s) - 1
    BY <1>2
<1>4. Range(s) = Range(SubSeq(s, 1, Len(s) - 1)) \cup {Last(s)}
  <2> DEFINE front == SubSeq(s, 1, Len(s) - 1)
  <2>1. DOMAIN front = 1 .. Len(s) - 1 /\ \A i \in 1 .. Len(s) - 1 : front[i] = s[i]
      BY <1>2, <1>3
  <2> HIDE DEF front
  <2>2. Range(front) = {s[i] : i \in 1 .. Len(s) - 1}
      BY <2>1 DEF Range
  <2>3. Range(s) = {s[i] : i \in 1 .. Len(s)}
      BY <1>1 DEF Range
  <2>4. \A i \in 1 .. Len(s) : i \in 1 .. Len(s) - 1 \/ i = Len(s)
    <3>1. \A n \in Nat : \A i \in 1 .. n : i \in 1 .. n - 1 \/ i = n
        OBVIOUS
    <3> QED BY <1>1, <3>1
  <2>5. \A i \in 1 .. Len(s) - 1 : i \in 1 .. Len(s)
      BY <1>1
  <2>6. Len(s) \in 1 .. Len(s)
      BY <1>1
  <2>7. Range(s) = Range(front) \cup {s[Len(s)]}
      BY <2>2, <2>3, <2>4, <2>5, <2>6
  <2> QED BY <2>7 DEF front, Last
<1> QED BY <1>1, <1>2, <1>4 DEF Last

\* Taking back the latest note: with its document restored, or torn.
LEMMA UnnoteKeeps ==
    ASSUME IInv, NEW p \in Procs, proc[p].pc = "rollback", Noted(p) # <<>>,
           NEW torn \in BOOLEAN,
           torn = FALSE => proc[p].torn = FALSE /\ Restored(p),
           Restored(p) \/ docs' = docs,
           UNCHANGED <<plan, lock, upsets>>,
           proc' = [proc EXCEPT ![p] = [proc[p] EXCEPT
                       !.installed = SubSeq(Noted(p), 1, Len(Noted(p)) - 1), !.torn = torn]]
    PROVE  IInv'
<1> DEFINE front == SubSeq(Noted(p), 1, Len(Noted(p)) - 1)
           c == [proc[p] EXCEPT !.installed = front, !.torn = torn]
           last == Last(Noted(p))
<1>1. proc[p].pc \in Locked
    BY DEF Locked
<1>2. proc[p] \in Commands /\ proc \in [Procs -> Commands] /\ Noted(p) \in Seq(Slugs)
      /\ Placing(proc[p]) /\ Prepared(proc[p])
    BY <1>1, LockedFacts DEF Noted
<1>3. proc' = [proc EXCEPT ![p] = c]
    OBVIOUS
<1>4. /\ front \in Seq(Slugs) /\ Len(front) = Len(Noted(p)) - 1
      /\ \A i \in 1 .. Len(Noted(p)) - 1 : front[i] = Noted(p)[i]
      /\ Len(Noted(p)) \in Nat \ {0} /\ last = Noted(p)[Len(Noted(p))]
      /\ Range(Noted(p)) = Range(front) \cup {last}
    BY <1>2, FrontFacts
<1> HIDE DEF front, last
<1>5. c \in Commands /\ c.pc = "rollback" /\ c.torn = torn /\ c.passed = proc[p].passed
      /\ c.expected = proc[p].expected /\ c.want = proc[p].want /\ c.op = proc[p].op
      /\ c.overwrite = proc[p].overwrite /\ c.proof = proc[p].proof
      /\ c.installed = front
    BY <1>2, <1>4 DEF Commands
<1> HIDE DEF c
<1>6. Prepared(c)
    BY <1>2, <1>5 DEF Prepared, OneReady, Sole, ReadyPassed, Locked
<1>7. last \in Targets(p) /\ \A i \in 1 .. Len(front) : front[i] # last
  <2>1. Noting(proc[p]) /\ Noted(p) = proc[p].installed
      BY <1>2 DEF Placing, Noted
  <2> QED BY <1>4, <2>1 DEF Noting, Targets
<1>8. /\ docs' \in [Slugs -> Docs \cup {None}]
      /\ \A u \in Slugs \ {last} : docs'[u] = docs[u]
      /\ torn = FALSE => docs'[last] = proc[p].expected[last]
  <2>1. docs \in [Slugs -> Docs \cup {None}] /\ last \in Slugs
        /\ proc[p].expected[last] \in Docs \cup {None}
      BY <1>1, <1>7, LockedFacts
  <2>2. Restored(p) => docs' = [docs EXCEPT ![last] = proc[p].expected[last]]
      BY DEF Restored, last
  <2> QED BY <2>1, <2>2
<1>9. Placing(proc[p])'
  <2>1. proc'[p] = c /\ Targets(p) = DOMAIN c.want /\ Targets(p) \subseteq Slugs
      BY <1>1, <1>2, <1>3, <1>5, LockedFacts
  <2>2. Noting(c)
    <3>1. /\ \A i \in 1 .. Len(Noted(p)) : Noted(p)[i] \in DOMAIN c.want
          /\ \A i, j \in 1 .. Len(Noted(p)) : Noted(p)[i] = Noted(p)[j] => i = j
        BY <1>2, <1>5 DEF Placing, Noting, Noted
    <3>2. \A i \in 1 .. Len(front) : i \in 1 .. Len(Noted(p)) /\ front[i] = Noted(p)[i]
        BY <1>4
    <3> QED BY <3>1, <3>2, <1>5 DEF Noting
  <2>3. \A i \in 1 .. Len(c.installed) : docs'[c.installed[i]] = c.want[c.installed[i]]
    <3> TAKE i \in 1 .. Len(c.installed)
    <3>1. front[i] = Noted(p)[i] /\ i \in 1 .. Len(Noted(p)) /\ front[i] # last
        BY <1>4, <1>5, <1>7
    <3>2. docs[front[i]] = c.want[front[i]] /\ front[i] \in Slugs
        BY <1>2, <1>5, <2>1, <2>2, <3>1 DEF Placing, Noting, Noted
    <3> QED BY <1>5, <1>8, <3>1, <3>2
  <2>4. ASSUME c.torn = FALSE, NEW u \in DOMAIN c.want \ Range(c.installed)
        PROVE  Untouched(docs'[u], c.expected[u])
    <3>1. CASE u = last
        BY <3>1, <2>4, <1>5, <1>8 DEF Untouched
    <3>2. CASE u # last
      <4>1. u \notin Range(proc[p].installed) /\ proc[p].torn = FALSE
          BY <3>2, <2>4, <1>4, <1>5 DEF Noted
      <4>2. Untouched(docs[u], proc[p].expected[u])
          BY <4>1, <2>4, <1>2, <1>5 DEF Placing
      <4> QED BY <4>2, <3>2, <1>5, <1>8, <2>1, <2>4
    <3> QED BY <3>1, <3>2
  <2>5. c.pc # "install"
      BY <1>5
  <2> QED BY <2>1, <2>2, <2>3, <2>4, <2>5 DEF Placing
<1>10. c.pc \in Locked
    BY <1>5 DEF Locked
<1> QED BY <1>1, <1>3, <1>5, <1>6, <1>8, <1>9, <1>10, LockedKeeps

LEMMA RollBackKeeps ==
    ASSUME IInv, NEW p \in Procs, RollBack(p) \/ RollBackFails(p)
    PROVE  IInv'
<1>1. proc[p].pc = "rollback" /\ proc[p].pc \in Locked /\ Noted(p) # <<>>
      /\ UNCHANGED <<plan, lock, upsets>>
    BY DEF RollBack, RollBackFails, At, Locked
<1>2. proc[p] \in Commands /\ proc \in [Procs -> Commands] /\ proc[p].torn \in BOOLEAN
    BY <1>1, LockedFacts
<1>3. CASE RollBack(p)
  <2>1. proc' = [proc EXCEPT ![p] = [proc[p] EXCEPT
                    !.installed = SubSeq(Noted(p), 1, Len(Noted(p)) - 1),
                    !.torn = proc[p].torn]]
      BY <1>2, <1>3 DEF RollBack, Noted, Commands
  <2>2. Restored(p)
      BY <1>3 DEF RollBack
  <2> QED BY <1>1, <1>2, <2>1, <2>2, UnnoteKeeps
<1>4. CASE RollBackFails(p)
  <2>1. proc' = [proc EXCEPT ![p] = [proc[p] EXCEPT
                    !.installed = SubSeq(Noted(p), 1, Len(Noted(p)) - 1), !.torn = TRUE]]
      BY <1>2, <1>4 DEF RollBackFails, Noted, Commands
  <2>2. TRUE \in BOOLEAN /\ TRUE # FALSE
      BY Zenon
  <2>3. docs' = docs
      BY <1>4 DEF RollBackFails
  <2> QED BY <1>1, <2>1, <2>2, <2>3, UnnoteKeeps
<1> QED BY <1>3, <1>4

-----------------------------------------------------------------------------
(* The environment, and every step. *)

\* An edit meets a command in its locked section only where there was nothing.
LEMMA EditKeeps ==
    ASSUME IInv, NEW s \in Slugs, NEW doc \in Docs \cup {None},
           doc = None \/ doc.body = Hand, Edit(s, doc)
    PROVE  IInv'
<1>1. docs \in [Slugs -> Docs \cup {None}] /\ upsets \in 0 .. MaxUpsets /\ None \notin Docs
    BY DocFacts DEF IInv, Shape
<1>2. /\ docs' = [docs EXCEPT ![s] = doc] /\ doc # docs[s] /\ upsets < MaxUpsets
      /\ upsets' = upsets + 1 /\ UNCHANGED <<plan, lock, proc>>
      /\ Settled(s) \/ docs[s] = None
    BY DEF Edit
<1>3. Shape'
  <2>1. upsets' \in 0 .. MaxUpsets
      BY <1>1, <1>2, MaxUpsetsAssumption
  <2>2. docs' \in [Slugs -> Docs \cup {None}]
      BY <1>1, <1>2
  <2> QED BY <1>2, <2>1, <2>2 DEF IInv, Shape
<1>4. docs'[s] = doc /\ \A u \in Slugs \ {s} : docs'[u] = docs[u]
    BY <1>1, <1>2
<1>5. ASSUME NEW q \in Procs, proc[q].pc \in Locked PROVE Placing(proc[q])'
  <2>1. /\ Placing(proc[q]) /\ Targets(q) = DOMAIN proc[q].want /\ Targets(q) \subseteq Slugs
        /\ proc[q].want \in [Targets(q) -> Docs]
        /\ proc[q].installed \in Seq(Slugs)
      BY <1>5, LockedFacts
  <2>2. s \in Targets(q) => docs[s] = None
      BY <1>2, <1>5 DEF Settled, Locked
  <2>3. \A i \in 1 .. Len(proc[q].installed) :
            docs'[proc[q].installed[i]] = proc[q].want[proc[q].installed[i]]
    <3> TAKE i \in 1 .. Len(proc[q].installed)
    <3>1. /\ proc[q].installed[i] \in Targets(q)
          /\ docs[proc[q].installed[i]] = proc[q].want[proc[q].installed[i]]
        BY <2>1 DEF Placing, Noting
    <3>2. proc[q].installed[i] # s
        BY <1>1, <2>1, <2>2, <3>1
    <3> QED BY <1>4, <2>1, <3>1, <3>2
  <2>4. ASSUME proc[q].torn = FALSE, NEW u \in Targets(q) \ Range(proc[q].installed)
        PROVE  Untouched(docs'[u], proc[q].expected[u])
    <3>1. Untouched(docs[u], proc[q].expected[u])
        BY <2>1, <2>4 DEF Placing
    <3>2. CASE u = s
      <4>1. doc # None /\ doc.body = Hand
          BY <1>2, <2>2, <2>4, <3>2
      <4>2. proc[q].expected[u] = None
          BY <2>2, <2>4, <3>1, <3>2 DEF Untouched
      <4> QED BY <1>4, <3>2, <4>1, <4>2 DEF Untouched
    <3>3. CASE u # s
        BY <1>4, <2>1, <2>4, <3>1, <3>3
    <3> QED BY <3>2, <3>3
  <2>5. Noting(proc[q]) /\ (proc[q].pc = "install" => proc[q].torn = FALSE)
      BY <2>1 DEF Placing
  <2> QED BY <1>2, <2>1, <2>3, <2>4, <2>5 DEF Placing, Noting
<1>6. ASSUME NEW q \in Procs PROVE CommandOK(q)'
  <2>1. Prepared(proc[q])' /\ Holds(q)'
      BY <1>2 DEF IInv, CommandOK, Holds, Prepared, OneReady, NoneReady, SomeReady,
                  ReadyPassed, Sole
  <2> QED BY <1>2, <1>5, <2>1 DEF CommandOK
<1> QED BY <1>3, <1>6 DEF IInv

\* Nothing else matters to the invariant but the plan's type and the bound.
LEMMA StillKeeps ==
    ASSUME IInv, UNCHANGED <<docs, lock, proc>>, plan' \in Bodies, upsets' \in 0 .. MaxUpsets
    PROVE  IInv'
<1>1. Shape'
    BY DEF IInv, Shape
<1>2. ASSUME NEW q \in Procs PROVE CommandOK(q)'
    BY DEF IInv, CommandOK, Holds, Prepared, OneReady, NoneReady, SomeReady, ReadyPassed,
           Sole, Placing, Noting, Untouched
<1> QED BY <1>1, <1>2 DEF IInv

LEMMA InitHolds == Init => IInv
<1> SUFFICES ASSUME Init PROVE IInv
    OBVIOUS
<1>1. Shape
    BY IdleFacts, MaxUpsetsAssumption DEF Init, Shape
<1>2. ASSUME NEW p \in Procs PROVE CommandOK(p)
  <2>1. proc[p] = Idle /\ lock = None
      BY DEF Init
  <2>2. proc[p].pc \notin Locked /\ lock # p /\ Prepared(proc[p])
      BY <2>1, IdleFacts, DocFacts DEF Locked
  <2> QED BY <2>2 DEF CommandOK, Holds
<1> QED BY <1>1, <1>2 DEF IInv

LEMMA ProceedKeeps ==
    ASSUME IInv, NEW p \in Procs, Proceed(p)
    PROVE  IInv'
<1>1. upsets \in 0 .. MaxUpsets
    BY DEF IInv, Shape
<1>2. CASE Snapshot(p)
    BY <1>2, SnapshotKeeps
<1>3. CASE Prove(p)
    BY <1>3, ProveKeeps
<1>4. CASE Compare(p)
    BY <1>4, CompareKeeps
<1>5. CASE \E t \in Slugs : Install(p, t) \/ InstallInterrupted(p, t)
    BY <1>5, InstallKeeps, InstallInterruptedKeeps
<1>6. CASE InstallFails(p)
    BY <1>6, InstallFailsKeeps
<1>7. CASE RollBack(p) \/ RollBackFails(p)
    BY <1>7, RollBackKeeps
<1>8. CASE Done(p)
    BY <1>1, <1>8, ExitKeeps DEF Done
<1>9. CASE SnapshotRefused(p) \/ ProofFails(p) \/ CompareFails(p) \/ RolledBack(p)
  <2>1. Refused(p)
      BY <1>9 DEF SnapshotRefused, ProofFails, CompareFails, RolledBack
  <2> QED BY <2>1, RefusedKeeps
<1> QED BY <1>2, <1>3, <1>4, <1>5, <1>6, <1>7, <1>8, <1>9 DEF Proceed

LEMMA NextKeeps == IInv /\ [Next]_vars => IInv'
<1> SUFFICES ASSUME IInv, [Next]_vars PROVE IInv'
    OBVIOUS
<1>1. upsets \in 0 .. MaxUpsets /\ plan \in Bodies
    BY DEF IInv, Shape
<1>2. ASSUME NEW p \in Procs, Command(p) \/ Proceed(p) PROVE IInv'
    BY <1>2, CommandKeeps, ProceedKeeps
<1>3. ASSUME NEW p \in Procs, Kill(p) PROVE IInv'
  <2>1. upsets' \in 0 .. MaxUpsets
      BY <1>1, <1>3, MaxUpsetsAssumption DEF Kill
  <2> QED BY <1>3, <2>1, ExitKeeps DEF Kill
<1>4. ASSUME NEW s \in Slugs, NEW draft \in BOOLEAN, Edit(s, [body |-> Hand, draft |-> draft])
      PROVE  IInv'
  <2> DEFINE doc == [body |-> Hand, draft |-> draft]
  <2>1. doc \in Docs \cup {None} /\ doc.body = Hand /\ Edit(s, doc)
      BY <1>4, DocFacts
  <2> HIDE DEF doc
  <2> QED BY <2>1, EditKeeps
<1>5. ASSUME NEW s \in Slugs, Edit(s, None) PROVE IInv'
    BY <1>5, EditKeeps
<1>6. ASSUME NEW body \in Bodies, EditPlan(body) PROVE IInv'
  <2>1. upsets' \in 0 .. MaxUpsets
      BY <1>1, <1>6, MaxUpsetsAssumption DEF EditPlan
  <2> QED BY <1>6, <2>1, StillKeeps DEF EditPlan
<1>7. CASE UNCHANGED vars
    BY <1>1, <1>7, StillKeeps DEF vars
<1> QED BY <1>2, <1>3, <1>4, <1>5, <1>6, <1>7 DEF Next

\* The invariant holds in every reachable state.
THEOREM Invariance == Spec => []IInv
BY InitHolds, NextKeeps, PTL DEF Spec

-----------------------------------------------------------------------------
(* What the invariant gives. *)

LEMMA TypesHold == IInv => TypeOK
<1> SUFFICES ASSUME IInv PROVE TypeOK
    OBVIOUS
<1>1. ASSUME NEW p \in Procs
      PROVE  /\ proc[p].op \in {"none", "generate", "map", "publish"}
             /\ proc[p].pc \in Labels
             /\ proc[p].want \in Maps
             /\ proc[p].expected \in Snapshots
             /\ Range(proc[p].installed) \subseteq Targets(p)
             /\ proc[p].pc \in Locked <=> lock = p
  <2>1. proc[p] \in Commands /\ CommandOK(p)
      BY DEF IInv, Shape
  <2>2. Range(proc[p].installed) \subseteq Targets(p)
    <3>1. CASE proc[p].pc \in Locked
      <4>1. Noting(proc[p]) /\ proc[p].installed \in Seq(Slugs)
          BY <2>1, <3>1, Fields DEF CommandOK, Placing
      <4> QED BY <4>1 DEF Noting, Range, Targets
    <3>2. CASE proc[p].pc \notin Locked
      <4>1. proc[p].pc \in Labels
          BY <2>1, Fields
      <4>2. proc[p].installed = <<>>
          BY <2>1, <3>2, <4>1 DEF CommandOK, Prepared, Labels
      <4> QED BY <4>2 DEF Range
    <3> QED BY <3>1, <3>2
  <2> QED BY <2>1, <2>2, Fields DEF Ops, CommandOK, Holds
<1> QED BY <1>1 DEF IInv, Shape, TypeOK

\* Commands keep their types, and the lock is held by exactly the command that is
\* in its locked section, however commands end (TypeOK).
THEOREM Types == Spec => []TypeOK
BY Invariance, TypesHold, PTL

\* A command that changes a document: it installs it, or puts it back.
Writes(p, s) ==
    /\ lock = p /\ s \in Targets(p)
    /\ \/ /\ proc[p].pc = "install" /\ s \in Left(p) /\ Installs(p, s)
          /\ docs'[s] = proc[p].want[s]
       \/ /\ proc[p].pc = "rollback" /\ docs[s] = proc[p].want[s]
          /\ docs'[s] = proc[p].expected[s]

LEMMA WhoWrites ==
    ASSUME IInv, [Next]_vars, NEW s \in Slugs, Changes(s)
    PROVE  \E p \in Procs : proc[p].pc \in Locked /\ Writes(p, s)
<1>1. docs'[s] # docs[s] /\ upsets' = upsets /\ upsets \in 0 .. MaxUpsets
      /\ docs \in [Slugs -> Docs \cup {None}]
    BY DEF Changes, IInv, Shape
<1>2. \A p \in Procs : ~Kill(p)
    BY <1>1, MaxUpsetsAssumption DEF Kill
<1>3. \A u \in Slugs, doc \in Docs \cup {None} : ~Edit(u, doc)
    BY <1>1, MaxUpsetsAssumption DEF Edit
<1>4. \A draft \in BOOLEAN : [body |-> Hand, draft |-> draft] \in Docs
    BY DocFacts
<1>5. \A body : ~EditPlan(body)
    BY <1>1 DEF EditPlan
<1>6. PICK p \in Procs : Command(p) \/ Proceed(p)
    BY <1>1, <1>2, <1>3, <1>4, <1>5 DEF Next, vars
<1>7. ~Command(p)
    BY <1>1 DEF Command, Generate, GenerateMap, Publish, Ask
<1>8. (\E t \in Slugs : Install(p, t) \/ InstallInterrupted(p, t)) \/ RollBack(p)
    BY <1>1, <1>6, <1>7 DEF Proceed, Snapshot, SnapshotRefused, Prove, ProofFails, Compare,
          CompareFails, InstallFails, Done, RollBackFails, RolledBack, Refused, Exit
<1>9. CASE \E t \in Slugs : Install(p, t) \/ InstallInterrupted(p, t)
  <2>1. PICK t \in Slugs : Install(p, t) \/ InstallInterrupted(p, t)
      BY <1>9
  <2>2. /\ proc[p].pc = "install" /\ proc[p].pc \in Locked /\ t \in Left(p)
        /\ Installs(p, t) /\ Placed(p, t)
      BY <2>1 DEF Install, InstallInterrupted, At, Locked
  <2>3. s = t /\ docs'[s] = proc[p].want[s] /\ lock = p /\ s \in Targets(p)
      BY <1>1, <2>2, PlacedFacts, LockedFacts
  <2> QED BY <2>2, <2>3 DEF Writes
<1>10. CASE RollBack(p)
  <2>1. proc[p].pc = "rollback" /\ proc[p].pc \in Locked /\ Noted(p) # <<>> /\ Restored(p)
      BY <1>10 DEF RollBack, At, Locked
  <2>2. Placing(proc[p]) /\ Noted(p) \in Seq(Slugs) /\ lock = p
      BY <2>1, LockedFacts DEF Noted
  <2>3. s = Last(Noted(p)) /\ docs'[s] = proc[p].expected[s]
      BY <1>1, <2>1 DEF Restored
  <2>4. Len(Noted(p)) \in Nat \ {0} /\ s = Noted(p)[Len(Noted(p))]
      BY <2>1, <2>2, <2>3, FrontFacts
  <2>5. Len(Noted(p)) \in 1 .. Len(Noted(p))
      BY <2>4
  <2>6. s \in Targets(p) /\ docs[s] = proc[p].want[s]
      BY <2>2, <2>4, <2>5 DEF Placing, Noting, Noted, Targets
  <2> QED BY <2>1, <2>2, <2>3, <2>6 DEF Writes
<1> QED BY <1>8, <1>9, <1>10

LEMMA OnlyItsOwn ==
    ASSUME IInv, NEW p \in Procs, NEW s \in Slugs, proc[p].pc \in Locked, Writes(p, s)
    PROVE  /\ docs[s] \in {proc[p].expected[s], proc[p].want[s]}
           /\ docs[s] # None /\ ~proc[p].overwrite => docs'[s] = None
<1>1. /\ Prepared(proc[p]) /\ Placing(proc[p]) /\ Targets(p) = DOMAIN proc[p].want
      /\ s \in Targets(p) /\ proc[p].overwrite \in BOOLEAN
    BY LockedFacts, Fields DEF Writes
<1>2. ~proc[p].overwrite => proc[p].expected[s] = None
  <2>1. ~proc[p].overwrite => proc[p].overwrite = FALSE
      BY <1>1, Zenon
  <2> QED BY <1>1, <2>1 DEF Prepared
<1>3. CASE proc[p].pc = "rollback"
    BY <1>2, <1>3 DEF Writes
<1>4. CASE proc[p].pc = "install"
  <2>1. s \in Left(p) /\ Installs(p, s) /\ proc[p].torn = FALSE
      BY <1>1, <1>4 DEF Writes, Placing
  <2>2. Untouched(docs[s], proc[p].expected[s])
      BY <1>1, <2>1 DEF Placing, Left
  <2>3. docs[s] = proc[p].expected[s]
      BY <2>1, <2>2 DEF Untouched, Installs
  <2> QED BY <1>2, <2>3
<1> QED BY <1>3, <1>4 DEF Locked

\* What a command replaces, removes or puts back is what it read before its
\* proof or its own document; without --overwrite nothing is ever replaced
\* (NothingLost, about the comparison, os.link and the rollback).
THEOREM EditsAreKept == Spec => NothingLost
<1> DEFINE Body == \A s \in Slugs : Changes(s) =>
          \E p \in Procs :
              /\ lock = p /\ s \in Targets(p)
              /\ docs[s] \in {proc[p].expected[s], proc[p].want[s]}
              /\ docs[s] # None /\ ~proc[p].overwrite => docs'[s] = None
<1>1. IInv /\ [Next]_vars => [Body]_vars
  <2> SUFFICES ASSUME IInv, [Next]_vars, NEW s \in Slugs, Changes(s)
               PROVE  \E p \in Procs :
                         /\ lock = p /\ s \in Targets(p)
                         /\ docs[s] \in {proc[p].expected[s], proc[p].want[s]}
                         /\ docs[s] # None /\ ~proc[p].overwrite => docs'[s] = None
      OBVIOUS
  <2>1. PICK p \in Procs : proc[p].pc \in Locked /\ Writes(p, s)
      BY WhoWrites
  <2>2. lock = p /\ s \in Targets(p)
      BY <2>1 DEF Writes
  <2> QED BY <2>1, <2>2, OnlyItsOwn
<1> QED BY <1>1, Invariance, PTL DEF Spec, NothingLost

\* A contract becomes ready only by the command whose own verifier run passed
\* for exactly the text that is installed (ReadyIsProven).
THEOREM ReadyWasProven == Spec => ReadyIsProven
<1> DEFINE Body == \A s \in Slugs :
          (Changes(s) /\ docs'[s] # None /\ ~docs'[s].draft /\ ~At(lock, "rollback"))
              => proc[lock].passed = docs'[s].body
<1>1. IInv /\ [Next]_vars => [Body]_vars
  <2> SUFFICES ASSUME IInv, [Next]_vars, NEW s \in Slugs, Changes(s), ~docs'[s].draft,
                      ~At(lock, "rollback")
               PROVE  proc[lock].passed = docs'[s].body
      OBVIOUS
  <2>1. PICK p \in Procs : proc[p].pc \in Locked /\ Writes(p, s)
      BY WhoWrites
  <2>2. lock = p /\ proc[p].pc = "install" /\ docs'[s] = proc[p].want[s]
      BY <2>1 DEF Writes, At
  <2>3. /\ Prepared(proc[p]) /\ s \in DOMAIN proc[p].want
        /\ proc[p].want \in [Targets(p) -> Docs] /\ s \in Targets(p)
      BY <2>1, LockedFacts DEF Writes
  <2>4. proc[p].want[s].draft \in BOOLEAN
      BY <2>3 DEF Docs
  <2>5. IsReady(proc[p].want[s])
      BY <2>2, <2>4, Zenon DEF IsReady
  <2> QED BY <2>2, <2>3, <2>5 DEF Prepared, ReadyPassed
<1> QED BY <1>1, Invariance, PTL DEF Spec, ReadyIsProven

\* A batch that ends by itself is installed whole, or every document is as it
\* was compared; only a torn batch is excepted (BatchWhole, about the rollback).
THEOREM BatchesAreWhole == Spec => BatchWhole
<1> DEFINE Body == \A p \in Procs :
          (proc[p].op = "map" /\ proc[p].pc \in {"install", "rollback"}
             /\ At(p, "idle")' /\ ~proc[p].torn /\ upsets' = upsets)
          => \/ \A t \in Targets(p) : docs'[t] = proc[p].want[t]
             \/ \A t \in Targets(p) :
                   \/ docs'[t] = proc[p].expected[t]
                   \/ proc[p].expected[t] = None /\ docs'[t].body = Hand
<1>1. IInv /\ [Next]_vars => [Body]_vars
  <2> SUFFICES ASSUME IInv, [Next]_vars, NEW p \in Procs, proc[p].op = "map",
                      proc[p].pc \in {"install", "rollback"}, At(p, "idle")',
                      ~proc[p].torn, upsets' = upsets
               PROVE  \/ \A t \in Targets(p) : docs'[t] = proc[p].want[t]
                      \/ \A t \in Targets(p) :
                            \/ docs'[t] = proc[p].expected[t]
                            \/ proc[p].expected[t] = None /\ docs'[t].body = Hand
      OBVIOUS
  <2>1. /\ proc[p].pc \in Locked /\ Placing(proc[p]) /\ proc \in [Procs -> Commands]
        /\ proc[p].torn = FALSE /\ Targets(p) = DOMAIN proc[p].want
        /\ proc[p].installed \in Seq(Slugs) /\ proc'[p].pc = "idle"
    <3>1. proc[p].pc \in Locked
        BY DEF Locked
    <3>2. proc[p].torn = FALSE
        BY <3>1, LockedFacts, Zenon
    <3> QED BY <3>1, <3>2, LockedFacts DEF At
  <2>2. Done(p) \/ RolledBack(p)
    <3>1. upsets \in 0 .. MaxUpsets
        BY DEF IInv, Shape
    <3>2. \A q \in Procs : ~Kill(q)
        BY <3>1, MaxUpsetsAssumption DEF Kill
    <3>3. proc' # proc
        BY <2>1
    <3>4. PICK q \in Procs : Command(q) \/ Proceed(q)
        BY <3>2, <3>3 DEF Next, Edit, EditPlan, vars
    <3>5. q = p
        BY <2>1, <3>4 DEF Command, Generate, GenerateMap, Publish, Ask, Proceed, Snapshot,
           SnapshotRefused, Prove, ProofFails, Compare, CompareFails, Install,
           InstallInterrupted, InstallFails, Done, RollBack, RollBackFails, RolledBack,
           Refused, Exit, Goto
    <3>6. ~Command(p)
        BY <2>1 DEF Command, Generate, GenerateMap, Publish, Ask, At, Locked
    <3>7. ~Snapshot(p) /\ ~SnapshotRefused(p) /\ ~Prove(p) /\ ~ProofFails(p) /\ ~Compare(p)
          /\ ~CompareFails(p)
        BY <2>1 DEF Snapshot, SnapshotRefused, Prove, ProofFails, Compare, CompareFails, At,
                    Locked
    <3>8. \A t \in Slugs : ~Install(p, t) /\ ~InstallInterrupted(p, t)
        BY <2>1 DEF Install, InstallInterrupted, Commands, At
    <3>9. ~InstallFails(p)
        BY <2>1 DEF InstallFails, Goto, Commands
    <3>10. ~RollBack(p) /\ ~RollBackFails(p)
      <4>1. proc[p] \in Commands /\ proc[p].pc # "idle"
          BY <2>1 DEF Locked
      <4>2. RollBack(p) => proc'[p].pc = proc[p].pc
          BY <2>1, <4>1 DEF RollBack, Commands
      <4>3. RollBackFails(p) => proc'[p].pc = proc[p].pc
          BY <2>1, <4>1 DEF RollBackFails, Commands
      <4> QED BY <2>1, <4>1, <4>2, <4>3
    <3> QED BY <3>4, <3>5, <3>6, <3>7, <3>8, <3>9, <3>10 DEF Proceed
  <2>3. CASE Done(p)
    <3>1. docs' = docs /\ Left(p) = {}
        BY <2>3 DEF Done
    <3>2. \A t \in Targets(p) : docs'[t] = proc[p].want[t]
      <4> TAKE t \in Targets(p)
      <4>1. PICK i \in 1 .. Len(proc[p].installed) : proc[p].installed[i] = t
          BY <2>1, <3>1 DEF Left, Range
      <4> QED BY <2>1, <3>1, <4>1 DEF Placing
    <3> QED BY <3>2
  <2>4. CASE RolledBack(p)
    <3>1. docs' = docs /\ Range(proc[p].installed) = {}
        BY <2>4 DEF RolledBack, Refused, Noted, Range
    <3>2. \A t \in Targets(p) : Untouched(docs'[t], proc[p].expected[t])
        BY <2>1, <3>1 DEF Placing
    <3> QED BY <3>2 DEF Untouched
  <2> QED BY <2>2, <2>3, <2>4
<1> QED BY <1>1, Invariance, PTL DEF Spec, BatchWhole
=============================================================================
