---------------------------- MODULE ReviewHistory ----------------------------
(***************************************************************************)
(* What acceptance promises a reader of the two upstream documents: one    *)
(* reviewed history per source, advanced by whole acceptances, of which    *)
(* only the latest unreported one can be withdrawn.  A reader sees the     *)
(* complete history or, while the documents disagree, none at all.         *)
(***************************************************************************)
EXTENDS Integers, Sequences

CONSTANTS Sources, Revs, Closed

VARIABLES
    history,   \* the reviewed revisions of each source
    seen,      \* what a reader gets: the history, or Closed
    reported   \* acceptances some command has reported as done

historyVars == <<history, seen, reported>>

Tip(s) == history[s][Len(history[s])]

HistoryInit ==
    /\ history = [s \in Sources |-> <<0>>]
    /\ seen = history
    /\ reported = {}

Sees == seen' = history' \/ seen' = Closed

\* One source advances to a later revision.
Advance ==
    /\ \E s \in Sources, rev \in Revs :
          /\ rev > Tip(s)
          /\ history' = [history EXCEPT ![s] = Append(@, rev)]
    /\ Sees
    /\ UNCHANGED reported

\* The latest revision of one source is withdrawn, unless it was reported.
Withdraw ==
    /\ \E s \in Sources :
          /\ Len(history[s]) > 1
          /\ [source |-> s, rev |-> Tip(s)] \notin reported
          /\ history' = [history EXCEPT ![s] = SubSeq(@, 1, Len(@) - 1)]
    /\ Sees
    /\ UNCHANGED reported

\* Only the tip of a readable history is reported.
Report ==
    /\ \E s \in Sources : reported' = reported \cup {[source |-> s, rev |-> Tip(s)]}
    /\ seen = history
    /\ UNCHANGED <<history, seen>>

OpenOrClose == Sees /\ UNCHANGED <<history, reported>>

HistoryNext == Advance \/ Withdraw \/ Report \/ OpenOrClose

HistorySpec == HistoryInit /\ [][HistoryNext]_historyVars
=============================================================================
