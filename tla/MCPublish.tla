----------------------------- MODULE MCPublish -----------------------------
EXTENDS VisualCheck, TLC
Sym == Permutations(Procs)

\* Bound: the check runs beside commands that do not overlap each other.
OneBeside == check.pc = "idle" \/ ~overlap
=============================================================================
