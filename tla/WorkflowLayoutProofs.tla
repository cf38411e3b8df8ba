------------------------ MODULE WorkflowLayoutProofs ------------------------
(***************************************************************************)
(* Proofs about WorkflowLayout for any documents and any number of rounds.  *)
(***************************************************************************)
EXTENDS WorkflowLayout, FiniteSetTheorems, WellFoundedInduction, TLAPS

-----------------------------------------------------------------------------
(* Finite sets of integers have a largest element. *)

\* The image of a finite set under a function is finite.
LEMMA FiniteImage ==
    ASSUME NEW S, NEW f, IsFiniteSet(S)
    PROVE  IsFiniteSet({f[s] : s \in S})
<1> DEFINE T == {f[s] : s \in S}
           g == [s \in S |-> f[s]]
<1>1. g \in Surjection(S, T)
    BY DEF Surjection
<1> HIDE DEF g, T
<1>2. IsFiniteSet(T)
    BY <1>1, FS_Surjection
<1> QED BY <1>2 DEF T

LEMMA SmallestNumber ==
    ASSUME NEW S, S \subseteq Nat, S # {}
    PROVE  \E s \in S : \A t \in S : s <= t
<1> DEFINE R == {p \in Nat \X Nat : p[1] < p[2]}
<1>1. IsWellFoundedOn(R, Nat)
    BY NatLessThanWellFounded DEF OpToRel
<1>2. PICK s \in S : \A t \in S : ~(<<t, s>> \in R)
    BY <1>1, WFMin
<1>3. ASSUME NEW t \in S PROVE s <= t
  <2>1. s \in Nat /\ t \in Nat /\ <<t, s>> \in Nat \X Nat
      OBVIOUS
  <2>2. ~(<<t, s>>[1] < <<t, s>>[2])
      BY <1>2, <2>1
  <2> QED BY <2>1, <2>2
<1> QED BY <1>3

Top(S, m) == m \in S /\ \A y \in S : m >= y

LEMMA LargestNumber ==
    ASSUME NEW S, S \subseteq Int, IsFiniteSet(S), S # {}
    PROVE  Max(S) \in S /\ \A y \in S : Max(S) >= y
<1> DEFINE Topless(W) == W \subseteq Int /\ IsFiniteSet(W) /\ W # {} /\ \A m : ~Top(W, m)
           Sizes == {n \in Nat : \E W : Topless(W) /\ Cardinality(W) = n}
<1>1. Sizes = {}
  <2> SUFFICES ASSUME Sizes # {} PROVE FALSE
      OBVIOUS
  <2>1. Sizes \subseteq Nat
      OBVIOUS
  <2>2. PICK n \in Sizes : \A t \in Sizes : n <= t
      BY <2>1, SmallestNumber
  <2>3. PICK W : Topless(W) /\ Cardinality(W) = n
      OBVIOUS
  <2>4. PICK e \in W : e \in Int
      BY <2>3
  <2> DEFINE V == W \ {e}
  <2>5. IsFiniteSet(V) /\ Cardinality(V) = n - 1 /\ V \subseteq Int /\ n \in Nat
      BY <2>3, FS_RemoveElement
  <2>6. n - 1 \in Nat
      BY <2>5, FS_CardinalityType
  <2>7. ~Topless(V)
    <3>1. n - 1 \notin Sizes
        BY <2>2, <2>5, <2>6
    <3> QED BY <2>5, <2>6, <3>1
  <2>8. CASE V = {}
    <3>1. Top(W, e)
        BY <2>4, <2>8 DEF Top
    <3> QED BY <2>3, <3>1
  <2>9. CASE V # {}
    <3>1. PICK m : Top(V, m)
        BY <2>5, <2>7, <2>9
    <3>2. Top(W, Larger(m, e))
        BY <2>3, <2>4, <3>1 DEF Top, Larger
    <3> QED BY <2>3, <3>2
  <2> QED BY <2>8, <2>9
<1>2. Cardinality(S) \in Nat
    BY FS_CardinalityType
<1>3. PICK m : Top(S, m)
    BY <1>1, <1>2
<1> QED BY <1>3 DEF Max, Top

-----------------------------------------------------------------------------
(* Placement. *)

Demands == {c \in [from : Columns, to : Columns, minimum : Int] : c.from < c.to}

\* The columns once more, from where those to their left stand.
Wanted(constraints, x, to) == {to * Pitch} \cup {x[c.from] + c.minimum : c \in {d \in constraints : d.to = to}}
Push(constraints, x) == [to \in Columns |-> Max(Wanted(constraints, x, to))]

LEMMA PushAgrees ==
    ASSUME NEW constraints \in SUBSET Demands, NEW x, NEW y, NEW k \in Nat,
           \A c \in Columns : c < k => x[c] = y[c]
    PROVE  \A c \in Columns : c < k + 1 =>
               Push(constraints, x)[c] = Push(constraints, y)[c]
<1> SUFFICES ASSUME NEW to \in Columns, to < k + 1
             PROVE  Wanted(constraints, x, to) = Wanted(constraints, y, to)
    BY DEF Push
<1>1. \A c \in {d \in constraints : d.to = to} : x[c.from] = y[c.from]
  <2> SUFFICES ASSUME NEW c \in constraints, c.to = to PROVE x[c.from] = y[c.from]
      OBVIOUS
  <2>1. c.from \in Columns /\ c.from < to
      BY DEF Demands
  <2> QED BY <2>1 DEF Columns
<1> QED BY <1>1 DEF Wanted

\* Every column is what its left neighbours make of it.
LEMMA PlaceIsPushed ==
    ASSUME NEW constraints \in SUBSET Demands
    PROVE  Place(constraints) = Push(constraints, Place(constraints))
<1> DEFINE P(x) == Push(constraints, x)
           start == [c \in Columns |-> 0]
           one == P(start)
           two == P(one)
           three == P(two)
           four == P(three)
           five == P(four)
           six == P(five)
<1>1. \A c \in Columns : c < 0 => start[c] = one[c]
    BY DEF Columns
<1> HIDE DEF one, two, three, four, five, six, start
<1>2. \A c \in Columns : c < 1 => one[c] = two[c]
    BY <1>1, PushAgrees DEF one, two
<1>3. \A c \in Columns : c < 2 => two[c] = three[c]
    BY <1>2, PushAgrees DEF two, three
<1>4. \A c \in Columns : c < 3 => three[c] = four[c]
    BY <1>3, PushAgrees DEF three, four
<1>5. \A c \in Columns : c < 4 => four[c] = five[c]
    BY <1>4, PushAgrees DEF four, five
<1>6. \A c \in Columns : c < 5 => five[c] = six[c]
    BY <1>5, PushAgrees DEF five, six
<1>7. \A c \in Columns : c < 6 => six[c] = P(six)[c]
    BY <1>6, PushAgrees DEF six
<1>8. six = P(six)
  <2>1. \A c \in Columns : c < 6
      BY DEF Columns
  <2>2. six = [c \in Columns |-> six[c]] /\ P(six) = [c \in Columns |-> P(six)[c]]
      BY DEF six, Push
  <2> QED BY <1>7, <2>1, <2>2
<1>9. \E x : x = [to \in Columns |->
          Max({to * Pitch} \cup {x[c.from] + c.minimum : c \in {d \in constraints : d.to = to}})]
    BY <1>8 DEF Push, Wanted
<1> DEFINE y == CHOOSE x : x = [to \in Columns |->
          Max({to * Pitch} \cup {x[c.from] + c.minimum : c \in {d \in constraints : d.to = to}})]
<1>10. y = P(y) /\ y = [c \in Columns |-> y[c]]
    BY <1>9 DEF Push, Wanted
<1>11. Place(constraints) = [c \in Columns |-> y[c]]
    BY DEF Place
<1> QED BY <1>10, <1>11

LEMMA WantedFacts ==
    ASSUME NEW constraints \in SUBSET Demands, IsFiniteSet(constraints), NEW to \in Columns, NEW x,
           \A c \in Columns : c < to => x[c] \in Int
    PROVE  /\ Wanted(constraints, x, to) \subseteq Int
           /\ IsFiniteSet(Wanted(constraints, x, to))
           /\ Push(constraints, x)[to] \in Int
           /\ \A v \in Wanted(constraints, x, to) : Push(constraints, x)[to] >= v
<1> DEFINE D == {d \in constraints : d.to = to}
           f == [c \in D |-> x[c.from] + c.minimum]
<1>1. ASSUME NEW c \in D PROVE x[c.from] + c.minimum \in Int
  <2>1. c.from \in Columns /\ c.from < to /\ c.minimum \in Int
      BY DEF Demands
  <2> QED BY <2>1
<1>2. IsFiniteSet({f[c] : c \in D})
  <2>1. IsFiniteSet(D)
      BY FS_Subset
  <2> HIDE DEF D, f
  <2> QED BY <2>1, FiniteImage
<1>3. {f[c] : c \in D} = {x[c.from] + c.minimum : c \in D}
    OBVIOUS
<1>4. to * Pitch \in Int
    BY DEF Columns, Pitch
<1>5. Wanted(constraints, x, to) = {f[c] : c \in D} \cup {to * Pitch}
    BY <1>3 DEF Wanted
<1>6. Wanted(constraints, x, to) \subseteq Int /\ Wanted(constraints, x, to) # {}
    BY <1>1, <1>4, <1>5
<1>7. IsFiniteSet(Wanted(constraints, x, to))
  <2> HIDE DEF f, D
  <2> QED BY <1>2, <1>5, FS_AddElement
<1>8. Push(constraints, x)[to] = Max(Wanted(constraints, x, to))
    BY DEF Push
<1> QED BY <1>6, <1>7, <1>8, LargestNumber

\* The placement gives every constraint its room.
LEMMA PlaceFacts ==
    ASSUME NEW constraints \in SUBSET Demands, IsFiniteSet(constraints)
    PROVE  /\ Place(constraints) \in [Columns -> Int]
           /\ \A c \in constraints :
                 Place(constraints)[c.to] >= Place(constraints)[c.from] + c.minimum
<1> DEFINE x == Place(constraints)
           Odd == {c \in Columns : x[c] \notin Int}
<1>1. x = Push(constraints, x)
    BY PlaceIsPushed
<1> HIDE DEF x
<1>2. Odd = {}
  <2> SUFFICES ASSUME Odd # {} PROVE FALSE
      OBVIOUS
  <2>1. Odd \subseteq Nat
      BY DEF Columns
  <2>2. PICK to \in Odd : \A c \in Odd : to <= c
      BY <2>1, SmallestNumber
  <2>3. \A c \in Columns : c < to => x[c] \in Int
      BY <2>2 DEF Columns
  <2>4. Push(constraints, x)[to] \in Int
      BY <2>3, WantedFacts
  <2> QED BY <1>1, <2>4
<1>3. x \in [Columns -> Int]
  <2>1. Push(constraints, x) = [to \in Columns |-> Push(constraints, x)[to]]
      BY DEF Push
  <2>2. x = [to \in Columns |-> x[to]]
      BY <1>1, <2>1
  <2> QED BY <1>2, <2>2
<1>4. ASSUME NEW c \in constraints PROVE x[c.to] >= x[c.from] + c.minimum
  <2>1. c.to \in Columns /\ x[c.from] + c.minimum \in Wanted(constraints, x, c.to)
      BY DEF Wanted, Demands
  <2>2. Push(constraints, x)[c.to] >= x[c.from] + c.minimum
      BY <1>3, <2>1, WantedFacts
  <2> QED BY <1>1, <2>2
<1> QED BY <1>3, <1>4 DEF x

\* Columns y are another placement within the constraints.
Fits(constraints, y) ==
    /\ y \in [Columns -> Int]
    /\ \A c \in Columns : y[c] >= c * Pitch
    /\ \A c \in constraints : y[c.to] >= y[c.from] + c.minimum

\* Whatever a document asks for, columns are placed as it asks and as far left as that
\* allows: no placement within the same constraints is narrower (createReadableLayout).
THEOREM PlacementIsTightest ==
    ASSUME NEW constraints \in SUBSET Demands, IsFiniteSet(constraints)
    PROVE  /\ Fits(constraints, Place(constraints))
           /\ \A y : Fits(constraints, y) => \A c \in Columns : Place(constraints)[c] <= y[c]
<1> DEFINE x == Place(constraints)
<1>1. /\ x \in [Columns -> Int]
      /\ \A c \in constraints : x[c.to] >= x[c.from] + c.minimum
    BY PlaceFacts
<1>2. x = Push(constraints, x)
    BY PlaceIsPushed
<1> HIDE DEF x
<1>3. ASSUME NEW to \in Columns
      PROVE  /\ x[to] \in Wanted(constraints, x, to)
             /\ x[to] >= to * Pitch
  <2>1. /\ Wanted(constraints, x, to) \subseteq Int /\ IsFiniteSet(Wanted(constraints, x, to))
        /\ Push(constraints, x)[to] \in Int
        /\ \A v \in Wanted(constraints, x, to) : Push(constraints, x)[to] >= v
      BY <1>1, WantedFacts
  <2>2. to * Pitch \in Wanted(constraints, x, to)
      BY DEF Wanted
  <2>3. Max(Wanted(constraints, x, to)) \in Wanted(constraints, x, to)
      BY <2>1, <2>2, LargestNumber
  <2>4. Push(constraints, x)[to] = Max(Wanted(constraints, x, to))
      BY DEF Push
  <2> QED BY <1>2, <2>1, <2>2, <2>3, <2>4
<1>4. Fits(constraints, x)
    BY <1>1, <1>3 DEF Fits
<1>5. ASSUME NEW y, Fits(constraints, y) PROVE \A c \in Columns : x[c] <= y[c]
  <2> DEFINE Wide == {c \in Columns : ~(x[c] <= y[c])}
  <2>1. SUFFICES ASSUME Wide # {} PROVE FALSE
      OBVIOUS
  <2>2. Wide \subseteq Nat
      BY DEF Columns
  <2>3. PICK to \in Wide : \A c \in Wide : to <= c
      BY <2>1, <2>2, SmallestNumber
  <2>4. to \in Columns /\ x[to] \in Int /\ y[to] \in Int /\ y[to] >= to * Pitch
      BY <1>1, <1>5 DEF Fits
  <2>5. CASE x[to] = to * Pitch
      BY <2>4, <2>5
  <2>6. ASSUME NEW c \in constraints, c.to = to, x[to] = x[c.from] + c.minimum PROVE FALSE
    <3>1. c.from \in Columns /\ c.from < to /\ c.minimum \in Int
        BY <2>6 DEF Demands
    <3>2. x[c.from] <= y[c.from]
      <4>1. c.from \notin Wide
          BY <2>3, <2>4, <3>1 DEF Columns
      <4> QED BY <3>1, <4>1
    <3>3. y[to] >= y[c.from] + c.minimum
        BY <1>5, <2>6 DEF Fits
    <3>4. x[c.from] \in Int /\ y[c.from] \in Int
        BY <1>1, <1>5, <3>1 DEF Fits
    <3> QED BY <2>4, <2>6, <3>1, <3>2, <3>3, <3>4
  <2>7. x[to] \in Wanted(constraints, x, to)
      BY <1>3, <2>4
  <2> QED BY <2>5, <2>6, <2>7 DEF Wanted
<1> QED BY <1>4, <1>5 DEF x

-----------------------------------------------------------------------------
(* What a document and the requests ask for. *)

Requests == [ranks : [Pairs -> Nat], lanes : Nat]

EdgeRecords == [from : DOMAIN diagram.nodes, to : DOMAIN diagram.nodes, label : Nat]

LEMMA DiagramFacts ==
    ASSUME diagram \in Diagrams
    PROVE  /\ IsFiniteSet(DOMAIN diagram.nodes)
           /\ \A id \in DOMAIN diagram.nodes : Node(id).col \in Columns /\ Node(id).width \in Nat
           /\ diagram.edges \in Seq(EdgeRecords)
           /\ EdgesOf \subseteq EdgeRecords /\ IsFiniteSet(EdgesOf) /\ IsFiniteSet(DirectEdges)
<1>1. /\ IsFiniteSet(DOMAIN diagram.nodes)
      /\ \A id \in DOMAIN diagram.nodes : Node(id).col \in Columns /\ Node(id).width \in Nat
      /\ diagram.edges \in Seq(EdgeRecords)
    BY DiagramsAssumption DEF Node, EdgeRecords
<1>2. /\ DOMAIN diagram.edges = 1 .. Len(diagram.edges) /\ Len(diagram.edges) \in Nat
      /\ \A i \in DOMAIN diagram.edges : diagram.edges[i] \in EdgeRecords
    BY <1>1
<1>3. IsFiniteSet(DOMAIN diagram.edges)
    BY <1>2, FS_Interval
<1>4. EdgesOf \subseteq EdgeRecords /\ IsFiniteSet(EdgesOf)
    BY <1>2, <1>3, FiniteImage DEF EdgesOf
<1>5. IsFiniteSet(DirectEdges)
    BY <1>4, FS_Subset DEF DirectEdges
<1> QED BY <1>1, <1>4, <1>5

\* The distance between two columns is asked for from the left one to the right one.
LEMMA BetweenFacts ==
    ASSUME NEW n, NEW m, n.col \in Columns, m.col \in Columns, n.width \in Nat, m.width \in Nat,
           n.col # m.col, NEW clearance \in Int
    PROVE  /\ Between(n, m, clearance) \in Demands
           /\ <<Between(n, m, clearance).from, Between(n, m, clearance).to>> \in Pairs
           /\ HalfWidths(n, m) \in Nat
<1>1. HalfWidths(n, m) \in Nat
    BY DEF HalfWidths
<1> QED BY <1>1 DEF Between, Demands, Pairs, Columns

LEMMA ConstraintsFacts ==
    ASSUME diagram \in Diagrams, NEW asked \in Requests
    PROVE  Constraints(asked) \in SUBSET Demands /\ IsFiniteSet(Constraints(asked))
<1> DEFINE Steps == Columns \ {5}
           Asked == {q \in Pairs : asked.ranks[q] > 0}
           Labelled == {d \in DirectEdges : ~PrefersChannel(d)}
           f1 == [c \in Steps |-> [from |-> c, to |-> c + 1, minimum |-> Pitch]]
           f2 == [p \in Asked |-> [from |-> p[1], to |-> p[2], minimum |-> asked.ranks[p]]]
           f3 == [p \in Neighbours |-> Between(Node(p[1]), Node(p[2]), 8)]
           f4 == [e \in DirectEdges |-> Between(Node(e.from), Node(e.to), DirectClearance)]
           f5 == [e \in Labelled |-> Between(Node(e.from), Node(e.to), LabelClearance(e))]
           R1 == {f1[c] : c \in Steps}
           R2 == {f2[p] : p \in Asked}
           R3 == {f3[p] : p \in Neighbours}
           R4 == {f4[e] : e \in DirectEdges}
           R5 == {f5[e] : e \in Labelled}
<1>1. Constraints(asked) = R1 \cup R2 \cup R3 \cup R4 \cup R5
    BY DEF Constraints
<1>2. IsFiniteSet(Columns) /\ IsFiniteSet(Steps) /\ IsFiniteSet(Asked)
  <2>1. IsFiniteSet(Columns)
    <3>1. 0 \in Int /\ 5 \in Int
        OBVIOUS
    <3> QED BY <3>1, FS_Interval, Zenon DEF Columns
  <2>2. IsFiniteSet(Columns \X Columns)
      BY <2>1, FS_Product
  <2> QED BY <2>1, <2>2, FS_Subset DEF Pairs
<1>3. IsFiniteSet(Neighbours) /\ IsFiniteSet(DirectEdges) /\ IsFiniteSet(Labelled)
  <2>1. IsFiniteSet((DOMAIN diagram.nodes) \X (DOMAIN diagram.nodes))
      BY DiagramFacts, FS_Product
  <2> QED BY <2>1, DiagramFacts, FS_Subset DEF Neighbours
<1>4. ASSUME NEW c \in Steps PROVE f1[c] \in Demands
    BY DEF Demands, Columns, Pitch
<1>5. ASSUME NEW p \in Asked PROVE f2[p] \in Demands
    BY DEF Demands, Pairs, Requests
<1>6. ASSUME NEW p \in Neighbours PROVE f3[p] \in Demands
  <2>1. /\ p[1] \in DOMAIN diagram.nodes /\ p[2] \in DOMAIN diagram.nodes
        /\ Node(p[1]).col # Node(p[2]).col
      BY DEF Neighbours, SameLane
  <2>2. /\ Node(p[1]).col \in Columns /\ Node(p[1]).width \in Nat
        /\ Node(p[2]).col \in Columns /\ Node(p[2]).width \in Nat /\ 8 \in Int
      BY <2>1, DiagramFacts
  <2>3. Between(Node(p[1]), Node(p[2]), 8) \in Demands
      BY <2>1, <2>2, BetweenFacts
  <2> QED BY <2>3
<1>7. ASSUME NEW e \in DirectEdges
      PROVE  /\ f4[e] \in Demands /\ LabelClearance(e) \in Int
             /\ Between(Node(e.from), Node(e.to), LabelClearance(e)) \in Demands
  <2>1. /\ e \in EdgeRecords /\ e.label \in Nat
        /\ e.from \in DOMAIN diagram.nodes /\ e.to \in DOMAIN diagram.nodes
        /\ Node(e.from).col # Node(e.to).col
      BY DiagramFacts DEF DirectEdges, EdgeRecords, SameLane
  <2>2. LabelClearance(e) \in Int /\ DirectClearance \in Int
      BY <2>1 DEF LabelClearance, Larger, DirectClearance
  <2> QED BY <2>1, <2>2, DiagramFacts, BetweenFacts
<1>8. ASSUME NEW e \in Labelled PROVE f5[e] \in Demands
    BY <1>7
<1> HIDE DEF Steps, Asked, Labelled, f1, f2, f3, f4, f5
<1>9. /\ IsFiniteSet(R1) /\ IsFiniteSet(R2) /\ IsFiniteSet(R3) /\ IsFiniteSet(R4)
      /\ IsFiniteSet(R5)
    BY <1>2, <1>3, FiniteImage
<1>10. IsFiniteSet(R1 \cup R2 \cup R3 \cup R4 \cup R5)
    BY <1>9, FS_Union
<1> QED BY <1>1, <1>4, <1>5, <1>6, <1>7, <1>8, <1>10

-----------------------------------------------------------------------------
(* The inductive invariant. *)

\* A layout gives every earlier request its room.
Honours(l, asked) ==
    /\ l.columns \in [Columns -> Int] /\ l.laneGap \in Int
    /\ l.laneGap >= asked.lanes
    /\ \A p \in Pairs : l.columns[p[2]] - l.columns[p[1]] >= asked.ranks[p]

Asks(r) ==
    /\ r.kind \in {"rank", "lane"} /\ r.minimum \in Nat
    /\ r.kind = "rank" => r.pair \in Pairs

LInv ==
    /\ diagram \in Diagrams
    /\ feedback \in Requests
    /\ round \in 0 .. MaxRounds
    /\ routed \in 0 .. Len(diagram.edges)
    /\ placed # NotPlaced => Honours(placed, feedback)
    /\ request # NoRequest => Asks(request) /\ Progress(request)
    /\ request # NoRequest => placed # NotPlaced /\ outcome \in {"compiling", "budget"}
    /\ outcome = "budget" => round = MaxRounds

\* What the loop lays out honours what was asked for.
LEMMA LayoutHonours ==
    ASSUME diagram \in Diagrams, NEW asked \in Requests, NEW l \in Layouts(asked)
    PROVE  Honours(l, asked)
<1> DEFINE x == Place(Constraints(asked))
<1>1. l.columns = x /\ l.laneGap = Larger(20, asked.lanes)
    BY DEF Layouts
<1>2. /\ x \in [Columns -> Int]
      /\ \A c \in Constraints(asked) : x[c.to] >= x[c.from] + c.minimum
    BY ConstraintsFacts, PlaceFacts
<1> HIDE DEF x
<1>3. ASSUME NEW c \in Columns \ {5} PROVE x[c + 1] >= x[c] + Pitch
  <2>1. [from |-> c, to |-> c + 1, minimum |-> Pitch] \in Constraints(asked)
      BY DEF Constraints
  <2> QED BY <1>2, <2>1
<1>4. ASSUME NEW p \in Pairs PROVE x[p[2]] - x[p[1]] >= asked.ranks[p]
  <2>1. p[1] \in Columns /\ p[2] \in Columns /\ p[1] < p[2] /\ asked.ranks[p] \in Nat
      BY DEF Pairs, Requests
  <2>2. x[p[1]] \in Int /\ x[p[2]] \in Int
      BY <1>2, <2>1
  <2>3. CASE asked.ranks[p] > 0
    <3>1. [from |-> p[1], to |-> p[2], minimum |-> asked.ranks[p]] \in Constraints(asked)
        BY <2>3 DEF Constraints
    <3>2. x[p[2]] >= x[p[1]] + asked.ranks[p]
        BY <1>2, <3>1
    <3> QED BY <2>1, <2>2, <3>2
  <2>4. CASE asked.ranks[p] = 0
    <3>1. /\ x[1] >= x[0] /\ x[2] >= x[1] /\ x[3] >= x[2] /\ x[4] >= x[3] /\ x[5] >= x[4]
          /\ x[0] \in Int /\ x[1] \in Int /\ x[2] \in Int /\ x[3] \in Int /\ x[4] \in Int
          /\ x[5] \in Int
      <4>1. ASSUME NEW c \in Columns \ {5} PROVE x[c + 1] >= x[c]
        <5>1. x[c] \in Int /\ x[c + 1] \in Int
            BY <1>2 DEF Columns
        <5> QED BY <1>3, <5>1 DEF Pitch
      <4> QED BY <1>2, <4>1 DEF Columns
    <3>2. x[p[2]] >= x[p[1]]
        BY <2>1, <3>1 DEF Columns
    <3> QED BY <2>2, <2>4, <3>2
  <2> QED BY <2>1, <2>3, <2>4
<1>5. Larger(20, asked.lanes) \in Int /\ Larger(20, asked.lanes) >= asked.lanes
    BY DEF Larger, Requests
<1> QED BY <1>1, <1>2, <1>4, <1>5 DEF Honours

LEMMA MergeFacts ==
    ASSUME NEW asked \in Requests, NEW r, Asks(r),
           r.minimum > IF r.kind = "rank" THEN asked.ranks[r.pair] ELSE asked.lanes
    PROVE  /\ Merge(asked, r) \in Requests
           /\ Merge(asked, r).lanes >= asked.lanes
           /\ \A p \in Pairs : Merge(asked, r).ranks[p] >= asked.ranks[p]
<1>1. asked.lanes \in Nat /\ asked.ranks \in [Pairs -> Nat]
    BY DEF Requests
<1>2. CASE r.kind = "rank"
  <2>1. Merge(asked, r) = [asked EXCEPT !.ranks = [asked.ranks EXCEPT ![r.pair] = r.minimum]]
      BY <1>2 DEF Merge, Requests
  <2>2. [asked.ranks EXCEPT ![r.pair] = r.minimum] \in [Pairs -> Nat]
      BY <1>1, <1>2 DEF Asks
  <2>3. ASSUME NEW p \in Pairs
        PROVE  [asked.ranks EXCEPT ![r.pair] = r.minimum][p] >= asked.ranks[p]
      BY <1>1, <1>2 DEF Asks
  <2> QED BY <1>1, <2>1, <2>2, <2>3 DEF Requests
<1>3. CASE r.kind # "rank"
  <2>1. Merge(asked, r) = [asked EXCEPT !.lanes = r.minimum]
      BY <1>3 DEF Merge
  <2>2. r.minimum \in Nat /\ r.minimum > asked.lanes
      BY <1>3 DEF Asks
  <2> QED BY <1>1, <2>1, <2>2 DEF Requests
<1> QED BY <1>2, <1>3

\* What the edge that has no route may ask for.
LEMMA AskFacts ==
    ASSUME LInv, AskRankGap \/ AskLaneGap
    PROVE  Asks(request') /\ Progress(request')
<1>1. Routing /\ routed < Len(diagram.edges) /\ Honours(placed, feedback) /\ feedback' = feedback
    BY DEF LInv, AskRankGap, AskLaneGap, Routing
<1>2. Current \in EdgeRecords
  <2>1. diagram.edges \in Seq(EdgeRecords)
      BY DiagramFacts DEF LInv
  <2> QED BY <1>1, <2>1 DEF Current, LInv
<1>3. CASE AskRankGap
  <2> DEFINE n == Node(Current.from)
             m == Node(Current.to)
             c == Between(n, m, RouteClearance)
             gap == placed.columns[c.to] - placed.columns[c.from]
  <2>1. request' = [kind |-> "rank", pair |-> <<c.from, c.to>>, minimum |-> c.minimum]
      BY <1>3 DEF AskRankGap
  <2>2. n.col # m.col /\ gap < c.minimum
      BY <1>3 DEF AskRankGap, RankIsTight
  <2>3. /\ n.col \in Columns /\ n.width \in Nat /\ m.col \in Columns /\ m.width \in Nat
        /\ RouteClearance \in Int
      BY <1>2, DiagramFacts DEF LInv, EdgeRecords, RouteClearance
  <2>4. /\ <<c.from, c.to>> \in Pairs /\ c.from \in Columns /\ c.to \in Columns
        /\ HalfWidths(n, m) \in Nat
      BY <2>2, <2>3, BetweenFacts DEF Demands
  <2>5. c.minimum \in Nat
      BY <2>4 DEF Between, RouteClearance
  <2> HIDE DEF n, m, c
  <2>6. gap >= feedback.ranks[<<c.from, c.to>>] /\ gap \in Int
      BY <1>1, <2>4 DEF Honours
  <2>7. feedback.ranks[<<c.from, c.to>>] \in Nat
      BY <2>4 DEF LInv, Requests
  <2>8. c.minimum > feedback.ranks[<<c.from, c.to>>]
      BY <2>2, <2>5, <2>6, <2>7
  <2>9. /\ request'.kind = "rank" /\ request'.pair = <<c.from, c.to>>
        /\ request'.minimum = c.minimum
      BY <2>1
  <2> QED BY <2>4, <2>5, <2>8, <2>9 DEF Asks, Progress, Recorded
<1>4. CASE AskLaneGap
  <2>1. request' = [kind |-> "lane", minimum |-> RouteClearance] /\ placed.laneGap < RouteClearance
      BY <1>4 DEF AskLaneGap, LaneIsTight
  <2>2. placed.laneGap >= feedback.lanes /\ placed.laneGap \in Int /\ feedback.lanes \in Nat
      BY <1>1 DEF Honours, LInv, Requests
  <2>3. request'.kind = "lane" /\ request'.minimum = RouteClearance
      BY <2>1
  <2>4. RouteClearance \in Nat /\ RouteClearance > feedback.lanes
      BY <2>1, <2>2 DEF RouteClearance
  <2> QED BY <2>3, <2>4 DEF Asks, Progress, Recorded
<1> QED BY <1>3, <1>4

LEMMA LayoutInit == Init => LInv
<1> SUFFICES ASSUME Init PROVE LInv
    OBVIOUS
<1>1. NothingAsked \in Requests
    BY DEF NothingAsked, Requests
<1> QED BY <1>1, RoundsAssumption DEF Init, LInv

LEMMA LayoutKeeps == ASSUME LInv, [Next]_vars PROVE LInv'
<1>1. CASE LayOut
  <2>1. Honours(placed', feedback)
      BY <1>1, LayoutHonours DEF LayOut, LInv
  <2> QED BY <1>1, <2>1 DEF LayOut, LInv, Progress, Recorded
<1>2. CASE Route \/ Finish \/ NoRoute
  <2>1. /\ UNCHANGED <<diagram, feedback, round, placed>>
        /\ request' = NoRequest /\ outcome' # "budget"
        /\ routed' = routed \/ (routed' = routed + 1 /\ routed < Len(diagram.edges))
      BY <1>2 DEF Route, Finish, NoRoute, Routing
  <2>2. Len(diagram.edges) \in Nat /\ routed \in 0 .. Len(diagram.edges)
      BY DiagramFacts DEF LInv
  <2>3. routed' \in 0 .. Len(diagram.edges)
      BY <2>1, <2>2
  <2> QED BY <2>1, <2>3 DEF LInv, Honours
<1>3. CASE AskRankGap \/ AskLaneGap
  <2>1. Asks(request') /\ Progress(request') /\ feedback' = feedback
      BY <1>3, AskFacts DEF AskRankGap, AskLaneGap
  <2>2. Asks(request)' /\ Progress(request)'
      BY <2>1 DEF Asks, Progress, Recorded
  <2> QED BY <1>3, <2>2 DEF AskRankGap, AskLaneGap, Routing, LInv
<1>4. CASE Retry
  <2>1. feedback' \in Requests
      BY <1>4, MergeFacts DEF Retry, LInv, Progress, Recorded
  <2> QED BY <1>4, <2>1, RoundsAssumption DEF Retry, LInv
<1>5. CASE GiveUp
    BY <1>5, RoundsAssumption DEF GiveUp, LInv, Progress, Recorded
<1>6. CASE UNCHANGED vars
    BY <1>6 DEF vars, LInv, Progress, Recorded
<1> QED BY <1>1, <1>2, <1>3, <1>4, <1>5, <1>6 DEF Next

-----------------------------------------------------------------------------
(* What is left to do. *)

\* Steps that a round can still take, and those of the rounds that are left.
StepsOfRound ==
    IF request # NoRequest THEN 0
    ELSE IF placed = NotPlaced THEN Len(diagram.edges) + 2
    ELSE 1 + (Len(diagram.edges) - routed)

StepsLeft ==
    IF outcome # "compiling" THEN 0
    ELSE 1 + (MaxRounds - round) * (Len(diagram.edges) + 3) + StepsOfRound

LEMMA LaterRounds ==
    ASSUME NEW a \in Nat, NEW b \in Nat, NEW n \in Nat, a = b + 1
    PROVE  /\ a * n \in Nat /\ b * n \in Nat
           /\ a * n = b * n + n
<1>1. (b + 1) * n = b * n + n
    OBVIOUS
<1> QED BY <1>1

LEMMA LessSteps == ASSUME NEW a \in Nat, NEW b \in Nat, NEW c \in Nat, b < a PROVE c + b < c + a
OBVIOUS

LEMMA StepsFacts ==
    ASSUME LInv
    PROVE  /\ Len(diagram.edges) \in Nat /\ MaxRounds - round \in Nat
           /\ (MaxRounds - round) * (Len(diagram.edges) + 3) \in Nat
           /\ StepsOfRound \in Nat /\ StepsLeft \in Nat
           /\ outcome = "compiling" => StepsLeft > 0
<1>1. Len(diagram.edges) \in Nat /\ MaxRounds - round \in Nat
    BY DiagramFacts, RoundsAssumption DEF LInv
<1>2. (MaxRounds - round) * (Len(diagram.edges) + 3) \in Nat
  <2> DEFINE a == MaxRounds - round
             n == Len(diagram.edges) + 3
  <2>1. a \in Nat /\ n \in Nat
      BY <1>1
  <2> HIDE DEF a, n
  <2>2. a * n \in Nat
      BY <2>1
  <2> QED BY <2>2 DEF a, n
<1>3. StepsOfRound \in Nat
    BY <1>1 DEF StepsOfRound, LInv
<1> QED BY <1>1, <1>2, <1>3 DEF StepsLeft

\* A round that goes on has fewer steps left.
LEMMA RoundShrinks ==
    ASSUME LInv, LInv', LayOut \/ Route \/ AskRankGap \/ AskLaneGap
    PROVE  StepsLeft' < StepsLeft
<1>1. /\ UNCHANGED <<diagram, round>> /\ outcome = "compiling" /\ outcome' = "compiling"
      /\ MaxRounds' = MaxRounds
    BY DEF LayOut, Route, AskRankGap, AskLaneGap, Routing
<1>2. StepsOfRound' < StepsOfRound /\ StepsOfRound' \in Nat
  <2>1. Len(diagram.edges) \in Nat /\ routed \in 0 .. Len(diagram.edges)
      BY StepsFacts DEF LInv
  <2>2. CASE LayOut
    <3>1. placed' # NotPlaced
      <4>1. placed'.columns \in [Columns -> Int]
          BY <2>2, LayoutHonours DEF LayOut, LInv, Honours
      <4>2. DOMAIN placed'.columns = Columns /\ DOMAIN NotPlaced.columns = {}
          BY <4>1 DEF NotPlaced
      <4> QED BY <4>2 DEF Columns
    <3> QED BY <1>1, <2>1, <2>2, <3>1 DEF StepsOfRound, LayOut, LInv
  <2>3. CASE Route
      BY <1>1, <2>1, <2>3 DEF StepsOfRound, Route, Routing
  <2>4. CASE AskRankGap \/ AskLaneGap
    <3>1. request' # NoRequest
      <4>1. request'.kind # "none"
          BY <2>4 DEF AskRankGap, AskLaneGap
      <4> QED BY <4>1 DEF NoRequest
    <3> QED BY <1>1, <2>1, <2>4, <3>1 DEF StepsOfRound, AskRankGap, AskLaneGap, Routing
  <2> QED BY <2>2, <2>3, <2>4
<1>3. /\ StepsLeft = 1 + (MaxRounds - round) * (Len(diagram.edges) + 3) + StepsOfRound
      /\ StepsLeft' = 1 + (MaxRounds - round) * (Len(diagram.edges) + 3) + StepsOfRound'
    BY <1>1 DEF StepsLeft
<1> DEFINE p == 1 + (MaxRounds - round) * (Len(diagram.edges) + 3)
<1>4. p \in Nat /\ StepsOfRound \in Nat
    BY StepsFacts
<1> HIDE DEF p
<1>5. StepsLeft = p + StepsOfRound /\ StepsLeft' = p + StepsOfRound'
    BY <1>3 DEF p
<1>6. p + StepsOfRound' < p + StepsOfRound
    BY <1>2, <1>4, LessSteps
<1> QED BY <1>5, <1>6

LEMMA RetryShrinks ==
    ASSUME LInv, LInv', Retry
    PROVE  StepsLeft' < StepsLeft
<1> DEFINE n == Len(diagram.edges) + 3
           a == MaxRounds - round
           b == MaxRounds - round'
<1>1. outcome = "compiling" /\ outcome' = "compiling"
    BY RoundsAssumption DEF Retry, LInv
<1>2. n \in Nat /\ a \in Nat /\ b \in Nat /\ a = b + 1
  <2>1. round \in Int /\ MaxRounds \in Int /\ round < MaxRounds /\ round' = round + 1
      BY RoundsAssumption DEF Retry, LInv
  <2> QED BY <2>1, StepsFacts
<1>3. StepsLeft >= 1 + a * n
    BY <1>1, StepsFacts DEF StepsLeft
<1>4. StepsLeft' = 1 + b * n + (n - 1)
  <2>1. diagram' = diagram /\ StepsOfRound' = Len(diagram.edges) + 2
      BY DEF Retry, StepsOfRound
  <2> QED BY <1>1, <2>1, StepsFacts DEF StepsLeft
<1> HIDE DEF a, b, n
<1>5. a * n \in Nat /\ b * n \in Nat /\ a * n = b * n + n
    BY <1>2, LaterRounds
<1>6. StepsLeft' \in Nat /\ StepsLeft \in Nat
    BY <1>2, <1>4, <1>5, StepsFacts
<1> QED BY <1>2, <1>3, <1>4, <1>5, <1>6

-----------------------------------------------------------------------------
(* The theorems. *)

LEMMA LayoutInvariance == Spec => []LInv
<1>1. LInv /\ [Next]_vars => LInv'
    BY LayoutKeeps
<1> QED BY LayoutInit, <1>1, PTL DEF Spec

\* For any document no edge asks in vain: what it asks for exceeds what was granted, and
\* the compiler gives up for lack of rounds only (compileReadableWorkflow).
THEOREM NoRequestInVain == Spec => []RequestsAreNew
<1>1. LInv => RequestsAreNew
    BY DEF LInv, RequestsAreNew
<1> QED BY <1>1, LayoutInvariance, PTL

\* For any document a later round takes back nothing that an earlier one granted, and its
\* layout has all of that room (compileWorkflowWithFeedback, createReadableLayout).
THEOREM GrantsStay == Spec => GrantsLast
<1> DEFINE Lasts ==
       /\ feedback'.lanes >= feedback.lanes
       /\ \A p \in Pairs : feedback'.ranks[p] >= feedback.ranks[p]
       /\ placed' # placed /\ placed' # NotPlaced =>
              /\ placed'.laneGap >= feedback.lanes
              /\ \A p \in Pairs :
                    placed'.columns[p[2]] - placed'.columns[p[1]] >= feedback.ranks[p]
<1>1. LInv /\ [Next]_vars => [Lasts]_vars
  <2> SUFFICES ASSUME LInv, [Next]_vars PROVE Lasts
      OBVIOUS
  <2>1. CASE Retry
    <3>1. /\ feedback'.lanes >= feedback.lanes
          /\ \A p \in Pairs : feedback'.ranks[p] >= feedback.ranks[p]
        BY <2>1, MergeFacts DEF Retry, LInv, Progress, Recorded
    <3> QED BY <2>1, <3>1 DEF Retry
  <2>2. CASE UNCHANGED feedback
    <3>1. /\ feedback'.lanes >= feedback.lanes
          /\ \A p \in Pairs : feedback'.ranks[p] >= feedback.ranks[p]
        BY <2>2 DEF LInv, Requests
    <3>2. CASE LayOut
      <4>1. Honours(placed', feedback)
          BY <3>2, LayoutHonours DEF LayOut, LInv
      <4> QED BY <3>1, <4>1 DEF Honours
    <3>3. CASE ~LayOut
      <4>1. placed' = placed \/ placed' = NotPlaced
          BY <3>3 DEF Next, Route, Finish, AskRankGap, AskLaneGap, NoRoute, Retry, GiveUp, vars
      <4> QED BY <3>1, <4>1
    <3> QED BY <3>2, <3>3
  <2>3. Retry \/ UNCHANGED feedback
      BY DEF Next, LayOut, Route, Finish, AskRankGap, AskLaneGap, NoRoute, GiveUp, vars
  <2> QED BY <2>1, <2>2, <2>3
<1> QED BY <1>1, LayoutInvariance, PTL DEF Spec, GrantsLast

\* For any document every step of the loop leaves fewer to do, and none is left only when
\* the compilation has ended: rounds cannot go on for ever (compileWorkflowWithFeedback).
THEOREM RoundsRunOut ==
    Spec => [](StepsLeft \in Nat /\ (StepsLeft = 0 <=> outcome # "compiling"))
            /\ [][StepsLeft' < StepsLeft]_vars
<1>1. LInv => StepsLeft \in Nat /\ (StepsLeft = 0 <=> outcome # "compiling")
    BY StepsFacts DEF StepsLeft
<1>2. LInv /\ LInv' /\ [Next]_vars => [StepsLeft' < StepsLeft]_vars
  <2> SUFFICES ASSUME LInv, LInv', Next PROVE StepsLeft' < StepsLeft
      OBVIOUS
  <2>1. CASE LayOut \/ Route \/ AskRankGap \/ AskLaneGap
      BY <2>1, RoundShrinks
  <2>2. CASE Retry
      BY <2>2, RetryShrinks
  <2>3. CASE Finish \/ NoRoute \/ GiveUp
    <3>1. outcome = "compiling" /\ outcome' # "compiling"
        BY <2>3 DEF Finish, NoRoute, GiveUp, Routing
    <3> QED BY <3>1, StepsFacts DEF StepsLeft
  <2> QED BY <2>1, <2>2, <2>3 DEF Next
<1> QED BY <1>1, <1>2, LayoutInvariance, PTL DEF Spec
=============================================================================
