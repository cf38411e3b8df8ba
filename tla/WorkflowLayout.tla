--------------------------- MODULE WorkflowLayout ---------------------------
(***************************************************************************)
(* The layout loop of the readable-v2 workflow compiler                    *)
(* (renderers/workflow/workflow-compiler.mjs): columns are placed from      *)
(* minimum distances, the edges are routed one by one, an edge without a    *)
(* route may ask for a wider gap between two columns or between the lanes,  *)
(* and the whole compilation starts again with that request, a bounded      *)
(* number of times.                                                        *)
(*                                                                         *)
(* Whether some of the candidate routes of an edge is feasible depends on   *)
(* the whole drawing; here it may or may not be, whatever the layout.       *)
(* What an edge that has none may ask for follows from the layout, as in    *)
(* the code.  Lengths are pixels.  Columns are distances to the first one:  *)
(* the shifts that follow their placement move all of them alike.  Edges    *)
(* carry no authored pins, and nodes no vertical offset.                    *)
(***************************************************************************)
EXTENDS Integers, Sequences, FiniteSets, FiniteSetsExt

CONSTANTS
    Diagrams,   \* documents: [nodes : id -> [lane, col, width],
                \*             edges : sequence of [from, to, label]],
                \* label is the width of the label's mask, 0 without one
    MaxRounds   \* MAX_READABLE_LAYOUT_FEEDBACK_ROUNDS

ASSUME RoundsAssumption == MaxRounds \in Nat

VARIABLES
    diagram,   \* the document that is compiled
    feedback,  \* what earlier rounds asked for: [ranks : pairs of columns
               \* -> distance (0 when never asked), lanes : distance]
    round,     \* retries so far
    placed,    \* the layout of this round, or NotPlaced
    routed,    \* how many edges have their route in this round
    request,   \* what the edge that failed asks for, or NoRequest
    outcome    \* "compiling", "routed", "no route" or "budget"

vars == <<diagram, feedback, round, placed, routed, request, outcome>>

Columns == 0 .. 5
Pairs == {p \in Columns \X Columns : p[1] < p[2]}
Pitch == 120
DirectClearance == 28
RouteClearance == 32
ChannelDetourBudget == 4 * DirectClearance

NotPlaced == [columns |-> <<>>, laneGap |-> 0]
NoRequest == [kind |-> "none"]

\* Documents whose nodes and edges validation accepts.
ASSUME DiagramsAssumption ==
    \A m \in Diagrams :
        /\ IsFiniteSet(DOMAIN m.nodes)
        /\ \A id \in DOMAIN m.nodes : m.nodes[id].col \in Columns /\ m.nodes[id].width \in Nat
        /\ m.edges \in Seq([from : DOMAIN m.nodes, to : DOMAIN m.nodes, label : Nat])

Larger(a, b) == IF a >= b THEN a ELSE b

-----------------------------------------------------------------------------
(* Placement *)

Node(id) == diagram.nodes[id]
SameLane(n, m) == n.lane = m.lane /\ n.col # m.col
HalfWidths(n, m) == (n.width + m.width) \div 2
Between(n, m, clearance) ==
    [from |-> IF n.col < m.col THEN n.col ELSE m.col,
     to |-> IF n.col < m.col THEN m.col ELSE n.col,
     minimum |-> HalfWidths(n, m) + clearance]

\* The room a straight labelled edge wants; a label so long that a detour is
\* cheaper goes to a channel above the nodes and wants none.
LabelClearance(e) == IF e.label > 0 THEN Larger(DirectClearance, e.label + 8) ELSE DirectClearance
PrefersChannel(e) ==
    e.label > 0 /\ LabelClearance(e) - DirectClearance > ChannelDetourBudget

EdgesOf == {diagram.edges[i] : i \in DOMAIN diagram.edges}
DirectEdges == {e \in EdgesOf : SameLane(Node(e.from), Node(e.to))}

Neighbours == {p \in (DOMAIN diagram.nodes) \X (DOMAIN diagram.nodes) :
                  SameLane(Node(p[1]), Node(p[2]))}

Constraints(asked) ==
    {[from |-> c, to |-> c + 1, minimum |-> Pitch] : c \in Columns \ {5}}
    \cup {[from |-> p[1], to |-> p[2], minimum |-> asked.ranks[p]]
             : p \in {q \in Pairs : asked.ranks[q] > 0}}
    \cup {Between(Node(p[1]), Node(p[2]), 8) : p \in Neighbours}
    \cup {Between(Node(e.from), Node(e.to), DirectClearance) : e \in DirectEdges}
    \cup {Between(Node(e.from), Node(e.to), LabelClearance(e))
             : e \in {d \in DirectEdges : ~PrefersChannel(d)}}

\* Each column stands as far right as its constraints push it, from left to
\* right, so that a constraint counts from where its first column ended up.
Place(constraints) ==
    LET x[to \in Columns] ==
          Max({to * Pitch} \cup {x[c.from] + c.minimum : c \in {d \in constraints : d.to = to}})
    IN [c \in Columns |-> x[c]]

Layouts(asked) ==
    {[columns |-> Place(constraints), laneGap |-> Larger(20, asked.lanes)] :
        constraints \in {Constraints(asked)}}

-----------------------------------------------------------------------------
(* The rounds *)

NothingAsked == [ranks |-> [p \in Pairs |-> 0], lanes |-> 0]

Init ==
    /\ diagram \in Diagrams
    /\ feedback = NothingAsked
    /\ round = 0
    /\ placed = NotPlaced
    /\ routed = 0
    /\ request = NoRequest
    /\ outcome = "compiling"

Routing == outcome = "compiling" /\ placed # NotPlaced /\ request = NoRequest
Current == diagram.edges[routed + 1]

LayOut ==
    /\ outcome = "compiling" /\ placed = NotPlaced
    /\ placed' \in Layouts(feedback)
    /\ routed' = 0
    /\ UNCHANGED <<diagram, feedback, round, request, outcome>>

\* Some side pair of the edge has a feasible candidate; the cheapest is kept.
Route ==
    /\ Routing /\ routed < Len(diagram.edges)
    /\ routed' = routed + 1
    /\ UNCHANGED <<diagram, feedback, round, placed, request, outcome>>

Finish ==
    /\ Routing /\ routed = Len(diagram.edges)
    /\ outcome' = "routed"
    /\ UNCHANGED <<diagram, feedback, round, placed, routed, request>>

\* The edge leaves and enters on the sides that face each other, but its two
\* columns are too close for a route between them.
RankIsTight(e) ==
    LET n == Node(e.from)
        m == Node(e.to)
        c == Between(n, m, RouteClearance)
        gap == placed.columns[c.to] - placed.columns[c.from]
    IN n.col # m.col /\ HalfWidths(n, m) < gap /\ gap < c.minimum

LaneIsTight(e) == Node(e.from).lane # Node(e.to).lane /\ placed.laneGap < RouteClearance

\* Mutant: the request is for the room of a straight edge.
AskRankGapTooLittle ==
    /\ Routing /\ routed < Len(diagram.edges)
    /\ RankIsTight(Current)
    /\ LET c == Between(Node(Current.from), Node(Current.to), DirectClearance)
       IN request' = [kind |-> "rank", pair |-> <<c.from, c.to>>, minimum |-> c.minimum]
    /\ UNCHANGED <<diagram, feedback, round, placed, routed, outcome>>

\* No side pair has a candidate.  All of them are tried before the request
\* that a wider rank answers, else the one that a wider lane gap answers.
AskRankGap ==
    /\ Routing /\ routed < Len(diagram.edges)
    /\ RankIsTight(Current)
    /\ LET c == Between(Node(Current.from), Node(Current.to), RouteClearance)
       IN request' = [kind |-> "rank", pair |-> <<c.from, c.to>>, minimum |-> c.minimum]
    /\ UNCHANGED <<diagram, feedback, round, placed, routed, outcome>>

AskLaneGap ==
    /\ Routing /\ routed < Len(diagram.edges)
    /\ ~RankIsTight(Current)
    /\ LaneIsTight(Current)
    /\ request' = [kind |-> "lane", minimum |-> RouteClearance]
    /\ UNCHANGED <<diagram, feedback, round, placed, routed, outcome>>

NoRoute ==
    /\ Routing /\ routed < Len(diagram.edges)
    /\ ~RankIsTight(Current) /\ ~LaneIsTight(Current)
    /\ outcome' = "no route"
    /\ UNCHANGED <<diagram, feedback, round, placed, routed, request>>

Recorded(r) == IF r.kind = "rank" THEN feedback.ranks[r.pair] ELSE feedback.lanes
Progress(r) == r.minimum > Recorded(r)

\* Mutant: a request replaces the ones of earlier rounds.
MergeAlone(asked, r) ==
    IF r.kind = "rank" THEN [NothingAsked EXCEPT !.ranks[r.pair] = r.minimum]
    ELSE [NothingAsked EXCEPT !.lanes = r.minimum]

Merge(asked, r) ==
    IF r.kind = "rank" THEN [asked EXCEPT !.ranks[r.pair] = r.minimum]
    ELSE [asked EXCEPT !.lanes = r.minimum]

\* Mutant: the compilation starts again with what this round was given.
RetryUnchanged ==
    /\ request # NoRequest
    /\ Progress(request) /\ round < MaxRounds
    /\ placed' = NotPlaced /\ routed' = 0 /\ request' = NoRequest
    /\ UNCHANGED <<diagram, feedback, round, outcome>>

Retry ==
    /\ request # NoRequest
    /\ Progress(request) /\ round < MaxRounds
    /\ feedback' = Merge(feedback, request)
    /\ round' = round + 1
    /\ placed' = NotPlaced /\ routed' = 0 /\ request' = NoRequest
    /\ UNCHANGED <<diagram, outcome>>

GiveUp ==
    /\ request # NoRequest /\ outcome = "compiling"
    /\ ~(Progress(request) /\ round < MaxRounds)
    /\ outcome' = "budget"
    /\ UNCHANGED <<diagram, feedback, round, placed, routed, request>>

Next == LayOut \/ Route \/ Finish \/ AskRankGap \/ AskLaneGap \/ NoRoute \/ Retry \/ GiveUp
Spec == Init /\ [][Next]_vars
FairSpec == Spec /\ WF_vars(Next)

-----------------------------------------------------------------------------
(* Properties *)

\* A request always asks for more than was granted before: the next layout
\* honours what is recorded, so the compiler never gives up because an edge
\* asks in vain, only because its rounds are used up.
RequestsAreNew ==
    /\ request # NoRequest => Progress(request)
    /\ outcome = "budget" => round = MaxRounds

\* What a round granted stays granted: a request of a later round takes back
\* none of the earlier ones, and every layout gives each of them its room,
\* so an edge cannot lose its route to the request of another edge.
GrantsLast ==
    [][/\ feedback'.lanes >= feedback.lanes
       /\ \A p \in Pairs : feedback'.ranks[p] >= feedback.ranks[p]
       /\ placed' # placed /\ placed' # NotPlaced =>
              /\ placed'.laneGap >= feedback.lanes
              /\ \A p \in Pairs :
                    placed'.columns[p[2]] - placed'.columns[p[1]] >= feedback.ranks[p]]_vars

\* Every compilation ends, whatever the routes turn out to be.
CompileEnds == <>(outcome # "compiling")
=============================================================================
