------------------------- MODULE NeighborhoodProofs -------------------------
(***************************************************************************)
(* The two traversals of Neighborhood find the same subgraph, for every    *)
(* graph, start and depth.  What both find is described by the walks of    *)
(* the graph: the breadth-first search keeps, at every round, all nodes    *)
(* that as many steps reach.  Then what both find, deeper, within a graph  *)
(* and under a map of graphs.                                              *)
(***************************************************************************)
EXTENDS Neighborhood, Induction

(* All that a search from n can meet.                                      *)
Field(g, n) == {n} \cup {e[1] : e \in g.edges} \cup {e[2] : e \in g.edges}

-----------------------------------------------------------------------------
(* The recursive definitions, unfolded.                                    *)

SearchStates(g, n) == [visited : SUBSET Field(g, n), frontier : SUBSET Field(g, n)]
PathMatches(g, n) == [end : Field(g, n), used : SUBSET g.edges]

LEMMA ExpandIn ==
    ASSUME NEW g, NEW n, NEW before \in SearchStates(g, n)
    PROVE  Expand(g, before) \in SearchStates(g, n)
<1>1. \A m : Adjacent(g.edges, m) \subseteq Field(g, n)
  BY DEF Adjacent, Field
<1>2. UNION {Adjacent(g.edges, m) : m \in before.frontier} \subseteq Field(g, n)
  BY <1>1
<1> QED
  BY <1>2 DEF Expand, SearchStates

LEMMA LongerIn ==
    ASSUME NEW g, NEW n, NEW ts \in SUBSET PathMatches(g, n)
    PROVE  UNION {Longer(g, t) : t \in ts} \in SUBSET PathMatches(g, n)
<1> SUFFICES ASSUME NEW t \in ts, NEW e \in g.edges
             PROVE  Follow(t, e) \in PathMatches(g, n)
  BY DEF Longer
<1> QED
  BY DEF Follow, PathMatches, Field

LEMMA RoundsUnfold ==
    ASSUME NEW g, NEW n
    PROVE  Rounds(g, n) = [i \in Nat |-> IF i = 0
                                         THEN [visited |-> {n}, frontier |-> {n}]
                                         ELSE Expand(g, Rounds(g, n)[i - 1])]
<1> DEFINE S == SearchStates(g, n)
           s0 == [visited |-> {n}, frontier |-> {n}]
           F == [s \in S |-> Expand(g, s)]
<1>1. s0 \in S /\ F \in [S -> S]
  BY ExpandIn DEF SearchStates, Field
<1>2. PICK f : f = [i \in Nat |-> IF i = 0 THEN s0 ELSE F[f[i - 1]]]
  <2> HIDE DEF S, s0, F
  <2> QED
    BY <1>1, IterationExists
<1>3. \A i \in Nat : f[i] \in S
  <2> DEFINE T == {i \in Nat : f[i] \in S}
  <2> HIDE DEF S, s0, F
  <2>1. 0 \in T
    BY <1>1, <1>2
  <2>2. ASSUME NEW i \in Nat, i \in T
        PROVE  i + 1 \in T
    BY <1>1, <1>2, <2>2
  <2>3. Nat \subseteq T
    <3> HIDE DEF T
    <3> QED
      BY <2>1, <2>2, SetInduction
  <2> QED
    BY <2>3
<1>4. f = [i \in Nat |-> IF i = 0 THEN s0 ELSE Expand(g, f[i - 1])]
  <2>1. ASSUME NEW i \in Nat
        PROVE  f[i] = IF i = 0 THEN s0 ELSE Expand(g, f[i - 1])
    <3>1. i # 0 => i - 1 \in Nat
      OBVIOUS
    <3>2. f[i] = IF i = 0 THEN s0 ELSE F[f[i - 1]]
      BY <1>2
    <3> QED
      BY <1>3, <3>1, <3>2
  <2>2. DOMAIN f = Nat /\ f = [i \in Nat |-> f[i]]
    BY <1>2
  <2> QED
    BY <2>1, <2>2
<1> QED
  BY <1>4 DEF Rounds

(* What the rounds are, and that they stay in the graph.                   *)
LEMMA RoundStart ==
    ASSUME NEW g, NEW n
    PROVE  Rounds(g, n)[0] = [visited |-> {n}, frontier |-> {n}]
<1> DEFINE R == Rounds(g, n)
<1>1. R = [i \in Nat |-> IF i = 0 THEN [visited |-> {n}, frontier |-> {n}]
                         ELSE Expand(g, R[i - 1])]
  BY RoundsUnfold
<1> HIDE DEF R
<1>2. R[0] = [visited |-> {n}, frontier |-> {n}]
  BY <1>1
<1> QED
  BY <1>2 DEF R

LEMMA RoundNext ==
    ASSUME NEW g, NEW n, NEW i \in Nat
    PROVE  Rounds(g, n)[i + 1] = Expand(g, Rounds(g, n)[i])
<1> DEFINE R == Rounds(g, n)
<1>1. R = [k \in Nat |-> IF k = 0 THEN [visited |-> {n}, frontier |-> {n}]
                         ELSE Expand(g, R[k - 1])]
  BY RoundsUnfold
<1> HIDE DEF R
<1>2. i + 1 \in Nat /\ i + 1 # 0 /\ (i + 1) - 1 = i
  OBVIOUS
<1>3. R[i + 1] = Expand(g, R[i])
  BY <1>1, <1>2, Zenon
<1> QED
  BY <1>3 DEF R

LEMMA RoundType ==
    ASSUME NEW g, NEW n, NEW i \in Nat
    PROVE  Rounds(g, n)[i] \in SearchStates(g, n)
<1> DEFINE S == SearchStates(g, n)
           T == {k \in Nat : Rounds(g, n)[k] \in S}
<1>0. \A k \in Nat : Rounds(g, n)[k + 1] = Expand(g, Rounds(g, n)[k])
  BY RoundNext
<1>1. 0 \in T
  <2>1. [visited |-> {n}, frontier |-> {n}] \in S
    BY DEF SearchStates, Field
  <2>2. Rounds(g, n)[0] \in S
    BY <2>1, RoundStart, Zenon
  <2> QED
    BY <2>2
<1>2. ASSUME NEW k \in Nat, k \in T
      PROVE  k + 1 \in T
  <2> QED
    BY <1>0, <1>2, ExpandIn
<1>3. Nat \subseteq T
  <2> HIDE DEF T
  <2> QED
    BY <1>1, <1>2, SetInduction
<1> QED
  BY <1>3

LEMMA TrailsUnfold ==
    ASSUME NEW g, NEW n
    PROVE  Trails(g, n) = [k \in Nat |-> IF k = 0 THEN {[end |-> n, used |-> {}]}
                                         ELSE UNION {Longer(g, t) : t \in Trails(g, n)[k - 1]}]
<1> DEFINE S == SUBSET PathMatches(g, n)
           s0 == {[end |-> n, used |-> {}]}
           Step(ts) == UNION {Longer(g, t) : t \in ts}
           F == [ts \in S |-> Step(ts)]
<1>1. s0 \in S
  BY DEF PathMatches, Field
<1>2. \A ts \in S : Step(ts) \in S
  BY LongerIn
<1> HIDE DEF S, s0, Step
<1>3. F \in [S -> S]
  BY <1>2
<1>4. PICK f : f = [i \in Nat |-> IF i = 0 THEN s0 ELSE F[f[i - 1]]]
  <2> HIDE DEF F
  <2> QED
    BY <1>1, <1>3, IterationExists
<1>5. \A i \in Nat : f[i] \in S
  <2> DEFINE T == {i \in Nat : f[i] \in S}
  <2> HIDE DEF F
  <2>1. 0 \in T
    BY <1>1, <1>4
  <2>2. ASSUME NEW i \in Nat, i \in T
        PROVE  i + 1 \in T
    BY <1>3, <1>4, <2>2
  <2>3. Nat \subseteq T
    <3> HIDE DEF T
    <3> QED
      BY <2>1, <2>2, SetInduction
  <2> QED
    BY <2>3
<1>6. f = [i \in Nat |-> IF i = 0 THEN s0 ELSE Step(f[i - 1])]
  <2>1. ASSUME NEW i \in Nat
        PROVE  f[i] = IF i = 0 THEN s0 ELSE Step(f[i - 1])
    <3>1. i # 0 => i - 1 \in Nat
      OBVIOUS
    <3>2. f[i] = IF i = 0 THEN s0 ELSE F[f[i - 1]]
      BY <1>4
    <3> QED
      BY <1>5, <3>1, <3>2
  <2>2. DOMAIN f = Nat /\ f = [i \in Nat |-> f[i]]
    BY <1>4
  <2> QED
    BY <2>1, <2>2
<1> QED
  BY <1>6 DEF Trails, s0, Step

LEMMA TrailSteps ==
    ASSUME NEW g, NEW n
    PROVE  /\ Trails(g, n)[0] = {[end |-> n, used |-> {}]}
           /\ \A k \in Nat :
                 Trails(g, n)[k + 1] = UNION {Longer(g, t) : t \in Trails(g, n)[k]}
<1> DEFINE R == Trails(g, n)
<1>1. R = [k \in Nat |-> IF k = 0 THEN {[end |-> n, used |-> {}]}
                         ELSE UNION {Longer(g, t) : t \in R[k - 1]}]
  BY TrailsUnfold
<1> HIDE DEF R
<1>2. R[0] = {[end |-> n, used |-> {}]}
  BY <1>1
<1>3. ASSUME NEW i \in Nat
      PROVE  R[i + 1] = UNION {Longer(g, t) : t \in R[i]}
  <2>1. i + 1 \in Nat /\ i + 1 # 0 /\ (i + 1) - 1 = i
    OBVIOUS
  <2> QED
    BY <1>1, <2>1, Zenon
<1> QED
  BY <1>2, <1>3 DEF R

LEMMA TrailType ==
    ASSUME NEW g, NEW n, NEW i \in Nat
    PROVE  Trails(g, n)[i] \subseteq PathMatches(g, n)
<1> DEFINE T == {k \in Nat : Trails(g, n)[k] \subseteq PathMatches(g, n)}
<1>1. 0 \in T
  BY TrailSteps DEF PathMatches, Field
<1>2. ASSUME NEW k \in Nat, k \in T
      PROVE  k + 1 \in T
  BY <1>2, TrailSteps, LongerIn
<1>3. Nat \subseteq T
  <2> HIDE DEF T
  <2> QED
    BY <1>1, <1>2, SetInduction
<1> QED
  BY <1>3

-----------------------------------------------------------------------------
(* The breadth-first search.                                               *)

(* A round keeps what was visited, and takes in all its neighbours.        *)
SearchInv(g, n, round) ==
    /\ n \in round.visited
    /\ round.frontier \subseteq round.visited
    /\ \A m \in round.visited \ round.frontier :
          Adjacent(g.edges, m) \subseteq round.visited

LEMMA SearchStep ==
    ASSUME NEW g, NEW n, NEW round, SearchInv(g, n, round)
    PROVE  /\ SearchInv(g, n, Expand(g, round))
           /\ round.visited \subseteq Expand(g, round).visited
           /\ \A m \in round.visited :
                 Adjacent(g.edges, m) \subseteq Expand(g, round).visited
<1> DEFINE found == UNION {Adjacent(g.edges, m) : m \in round.frontier}
           next == found \ round.visited
<1>1. Expand(g, round) = [visited |-> round.visited \cup next, frontier |-> next]
  BY DEF Expand
<1>2. ASSUME NEW m \in round.visited
      PROVE  Adjacent(g.edges, m) \subseteq round.visited \cup next
  <2>1. CASE m \in round.frontier
    <3>1. Adjacent(g.edges, m) \subseteq found
      BY <2>1
    <3> QED
      BY <3>1
  <2>2. CASE m \notin round.frontier
    BY <2>2 DEF SearchInv
  <2> QED
    BY <2>1, <2>2
<1> HIDE DEF next, found
<1> QED
  BY <1>1, <1>2 DEF SearchInv

LEMMA SearchInvariant ==
    ASSUME NEW g, NEW n, NEW i \in Nat
    PROVE  SearchInv(g, n, Rounds(g, n)[i])
<1> DEFINE T == {k \in Nat : SearchInv(g, n, Rounds(g, n)[k])}
<1>1. 0 \in T
  <2>1. Rounds(g, n)[0] = [visited |-> {n}, frontier |-> {n}]
    BY RoundStart, Zenon
  <2> QED
    BY <2>1 DEF SearchInv
<1>2. ASSUME NEW k \in Nat, k \in T
      PROVE  k + 1 \in T
  <2>1. SearchInv(g, n, Expand(g, Rounds(g, n)[k]))
    BY <1>2, SearchStep
  <2>2. Rounds(g, n)[k + 1] = Expand(g, Rounds(g, n)[k])
    BY RoundNext
  <2> QED
    BY <2>1, <2>2
<1>3. Nat \subseteq T
  <2> HIDE DEF T
  <2> QED
    BY <1>1, <1>2, SetInduction
<1> QED
  BY <1>3

(* Depth 0 is the start; one step deeper takes in the neighbours.          *)
LEMMA VisitedSteps ==
    ASSUME NEW g, NEW n
    PROVE  /\ Visited(g, n, 0) = {n}
           /\ \A d \in Nat : /\ n \in Visited(g, n, d)
                            /\ Visited(g, n, d) \subseteq Visited(g, n, d + 1)
                            /\ \A m \in Visited(g, n, d) :
                                  Adjacent(g.edges, m) \subseteq Visited(g, n, d + 1)
<1>1. Visited(g, n, 0) = {n}
  <2>1. Rounds(g, n)[0] = [visited |-> {n}, frontier |-> {n}]
    BY RoundStart, Zenon
  <2> QED
    BY <2>1 DEF Visited
<1>2. ASSUME NEW d \in Nat
      PROVE  /\ n \in Visited(g, n, d)
             /\ Visited(g, n, d) \subseteq Visited(g, n, d + 1)
             /\ \A m \in Visited(g, n, d) :
                   Adjacent(g.edges, m) \subseteq Visited(g, n, d + 1)
  <2> DEFINE round == Rounds(g, n)[d]
  <2>1. SearchInv(g, n, round)
    BY SearchInvariant
  <2>2. Rounds(g, n)[d + 1] = Expand(g, round)
    BY RoundNext
  <2> HIDE DEF round
  <2>3. /\ round.visited \subseteq Expand(g, round).visited
        /\ \A m \in round.visited :
              Adjacent(g.edges, m) \subseteq Expand(g, round).visited
    BY <2>1, SearchStep
  <2>4. n \in round.visited
    BY <2>1 DEF SearchInv
  <2> QED
    BY <2>2, <2>3, <2>4 DEF Visited, round
<1> QED
  BY <1>1, <1>2

(* Deeper searches find no less.                                           *)
LEMMA VisitedGrows ==
    ASSUME NEW g, NEW n, NEW c \in Nat, NEW d \in Nat, c <= d
    PROVE  Visited(g, n, c) \subseteq Visited(g, n, d)
<1> DEFINE T == {k \in Nat : Visited(g, n, c) \subseteq Visited(g, n, c + k)}
<1>1. 0 \in T
  OBVIOUS
<1>2. ASSUME NEW k \in Nat, k \in T
      PROVE  k + 1 \in T
  <2>1. Visited(g, n, c + k) \subseteq Visited(g, n, (c + k) + 1)
    BY VisitedSteps
  <2>2. (c + k) + 1 = c + (k + 1)
    OBVIOUS
  <2> QED
    BY <1>2, <2>1, <2>2
<1>3. Nat \subseteq T
  <2> HIDE DEF T
  <2> QED
    BY <1>1, <1>2, SetInduction
<1>4. d - c \in Nat /\ c + (d - c) = d
  OBVIOUS
<1>5. d - c \in T
  BY <1>3, <1>4
<1> QED
  BY <1>4, <1>5

(* What is visited was in the frontier of some round.                      *)
LEMMA VisitedByRounds ==
    ASSUME NEW g, NEW n, NEW d \in Nat
    PROVE  \A m \in Visited(g, n, d) : \E k \in 0..d : m \in Rounds(g, n)[k].frontier
<1> DEFINE F(k) == Rounds(g, n)[k].frontier
           T == {i \in Nat : \A m \in Visited(g, n, i) : \E k \in 0..i : m \in F(k)}
<1>1. 0 \in T
  <2>1. Rounds(g, n)[0] = [visited |-> {n}, frontier |-> {n}]
    BY RoundStart, Zenon
  <2>2. Visited(g, n, 0) = {n} /\ F(0) = {n}
    BY <2>1 DEF Visited
  <2> QED
    BY <2>2
<1>2. ASSUME NEW i \in Nat, i \in T
      PROVE  i + 1 \in T
  <2>1. Visited(g, n, i + 1) \subseteq Visited(g, n, i) \cup F(i + 1)
    <3>1. Rounds(g, n)[i + 1] = Expand(g, Rounds(g, n)[i])
      BY RoundNext
    <3> QED
      BY <3>1 DEF Visited, Expand
  <2> HIDE DEF F
  <2> QED
    BY <1>2, <2>1
<1>3. Nat \subseteq T
  <2> HIDE DEF T
  <2> QED
    BY <1>1, <1>2, SetInduction
<1> QED
  BY <1>3

(* A search that starts in a graph stays in it.                            *)
LEMMA VisitedIn ==
    ASSUME NEW g, NEW N, NEW n \in N, \A e \in g.edges : e[1] \in N /\ e[2] \in N,
           NEW d \in Nat
    PROVE  Visited(g, n, d) \subseteq N
<1>1. Field(g, n) \subseteq N
  BY DEF Field
<1>2. Rounds(g, n)[d] \in SearchStates(g, n)
  BY RoundType
<1> QED
  BY <1>1, <1>2 DEF SearchStates, Visited

-----------------------------------------------------------------------------
(* The path pattern.                                                       *)

(* A match of k relationships ends where k rounds have been.               *)
LEMMA MatchesVisited ==
    ASSUME NEW g, NEW n, NEW k \in Nat
    PROVE  \A t \in Trails(g, n)[k] : t.end \in Visited(g, n, k)
<1> DEFINE T == {i \in Nat : \A t \in Trails(g, n)[i] : t.end \in Visited(g, n, i)}
<1>1. 0 \in T
  BY TrailSteps, VisitedSteps
<1>2. ASSUME NEW i \in Nat, i \in T
      PROVE  i + 1 \in T
  <2> SUFFICES ASSUME NEW t \in Trails(g, n)[i + 1]
               PROVE  t.end \in Visited(g, n, i + 1)
    OBVIOUS
  <2>1. t \in UNION {Longer(g, s) : s \in Trails(g, n)[i]}
    BY TrailSteps
  <2>2. PICK s \in Trails(g, n)[i], e \in g.edges :
          t = Follow(s, e) /\ s.end \in {e[1], e[2]}
    BY <2>1 DEF Longer
  <2>3. t.end \in Adjacent(g.edges, s.end)
    BY <2>2 DEF Follow, Adjacent
  <2>4. s.end \in Visited(g, n, i)
    BY <1>2, <2>2
  <2> QED
    BY <2>3, <2>4, VisitedSteps
<1>3. Nat \subseteq T
  <2> HIDE DEF T
  <2> QED
    BY <1>1, <1>2, SetInduction
<1> QED
  BY <1>3

(* A node that a round meets for the first time ends a match of as many    *)
(* relationships, all of them between nodes visited by then: the last one  *)
(* is new, since one of its ends is.                                       *)
MatchedBy(t, m, visited) ==
    t.end = m /\ \A e \in t.used : e[1] \in visited /\ e[2] \in visited

LEMMA FrontierMatched ==
    ASSUME NEW g, NEW n, NEW k \in Nat
    PROVE  \A m \in Rounds(g, n)[k].frontier :
              \E t \in Trails(g, n)[k] : MatchedBy(t, m, Visited(g, n, k))
<1> DEFINE T == {i \in Nat : \A m \in Rounds(g, n)[i].frontier :
                               \E t \in Trails(g, n)[i] : MatchedBy(t, m, Visited(g, n, i))}
<1>1. 0 \in T
  <2>1. Rounds(g, n)[0].frontier = {n}
    <3>1. Rounds(g, n)[0] = [visited |-> {n}, frontier |-> {n}]
      BY RoundStart, Zenon
    <3> QED
      BY <3>1
  <2>2. [end |-> n, used |-> {}] \in Trails(g, n)[0]
    BY TrailSteps
  <2>3. MatchedBy([end |-> n, used |-> {}], n, Visited(g, n, 0))
    BY DEF MatchedBy
  <2> QED
    BY <2>1, <2>2, <2>3
<1>2. ASSUME NEW i \in Nat, i \in T
      PROVE  i + 1 \in T
  <2> SUFFICES ASSUME NEW m \in Rounds(g, n)[i + 1].frontier
               PROVE  \E t \in Trails(g, n)[i + 1] :
                         MatchedBy(t, m, Visited(g, n, i + 1))
    OBVIOUS
  <2>1. Rounds(g, n)[i + 1] = Expand(g, Rounds(g, n)[i])
    BY RoundNext
  <2>2. PICK x \in Rounds(g, n)[i].frontier : m \in Adjacent(g.edges, x)
    BY <2>1 DEF Expand
  <2>3. m \notin Visited(g, n, i) /\ m \in Visited(g, n, i + 1)
    BY <2>1 DEF Expand, Visited
  <2>4. PICK t \in Trails(g, n)[i] : MatchedBy(t, x, Visited(g, n, i))
    BY <1>2, <2>2
  <2>5. PICK e \in g.edges : (e[1] = x /\ e[2] = m) \/ (e[2] = x /\ e[1] = m)
    BY <2>2 DEF Adjacent
  <2>6. x \in Visited(g, n, i)
    <3>1. SearchInv(g, n, Rounds(g, n)[i])
      BY SearchInvariant
    <3> QED
      BY <2>2, <3>1 DEF SearchInv, Visited
  <2>7. e \notin t.used
    BY <2>3, <2>4, <2>5 DEF MatchedBy
  <2>8. Follow(t, e) \in Trails(g, n)[i + 1]
    <3>1. Follow(t, e) \in Longer(g, t)
      BY <2>4, <2>5, <2>7 DEF Longer, MatchedBy
    <3> QED
      BY <2>4, <3>1, TrailSteps
  <2>9. MatchedBy(Follow(t, e), m, Visited(g, n, i + 1))
    <3>1. Follow(t, e).end = m /\ Follow(t, e).used = t.used \cup {e}
      BY <2>3, <2>4, <2>5, <2>6 DEF Follow, MatchedBy
    <3>2. Visited(g, n, i) \subseteq Visited(g, n, i + 1)
      BY VisitedSteps
    <3> QED
      BY <2>3, <2>4, <2>5, <2>6, <3>1, <3>2 DEF MatchedBy
  <2> QED
    BY <2>8, <2>9
<1>3. Nat \subseteq T
  <2> HIDE DEF T
  <2> QED
    BY <1>1, <1>2, SetInduction
<1> QED
  BY <1>3

LEMMA VisitedIsMatched ==
    ASSUME NEW g, NEW n, NEW d \in Nat
    PROVE  Visited(g, n, d) = {n} \cup CypherOthers(g, n, d)
<1>1. ASSUME NEW k \in 1..d, NEW t \in Trails(g, n)[k]
      PROVE  t.end \in Visited(g, n, d)
  <2>1. k \in Nat /\ k <= d
    OBVIOUS
  <2>2. t.end \in Visited(g, n, k)
    BY <2>1, MatchesVisited
  <2> QED
    BY <2>1, <2>2, VisitedGrows
<1>2. ASSUME NEW m \in Visited(g, n, d), m # n
      PROVE  m \in CypherOthers(g, n, d)
  <2>1. PICK k \in 0..d : m \in Rounds(g, n)[k].frontier
    BY VisitedByRounds
  <2>2. k # 0
    <3>1. Rounds(g, n)[0] = [visited |-> {n}, frontier |-> {n}]
      BY RoundStart, Zenon
    <3>2. Rounds(g, n)[0].frontier = {n}
      BY <3>1
    <3> QED
      BY <1>2, <2>1, <3>2
  <2>3. k \in Nat /\ k \in 1..d
    BY <2>2
  <2>4. PICK t \in Trails(g, n)[k] : t.end = m
    BY <2>1, <2>3, FrontierMatched DEF MatchedBy
  <2> QED
    BY <2>3, <2>4 DEF CypherOthers
<1>3. n \in Visited(g, n, d)
  BY VisitedSteps
<1>4. CypherOthers(g, n, d) \subseteq Visited(g, n, d)
  BY <1>1 DEF CypherOthers
<1> QED
  BY <1>2, <1>3, <1>4

-----------------------------------------------------------------------------
(* "Identical across the memory and Neo4j backends": the breadth-first     *)
(* search of InMemoryGraphStore.neighborhood and the path pattern of       *)
(* Neo4jGraphStore.neighborhood return the same subgraph, for every graph  *)
(* whose edges are pairs, every start and every depth.  Only at depth 0    *)
(* would they differ on an edge from a node to itself, which ingest.py     *)
(* never makes: the search returns it, get_node does not.                  *)
THEOREM TraversalsAgree ==
    ASSUME NEW g, \A e \in g.edges : e = <<e[1], e[2]>>, NEW n, NEW d \in Nat,
           d = 0 => \A e \in g.edges : e[1] # e[2]
    PROVE  Hood(g, n, d) = CypherHood(g, n, d)
<1>1. Visited(g, n, d) = {n} \cup CypherOthers(g, n, d)
  BY VisitedIsMatched
<1>2. ASSUME NEW found
      PROVE  {e \in g.edges : e[1] \in found /\ e[2] \in found}
               = {e \in g.edges : \E a, b \in found : e = <<a, b>>}
  <2>1. ASSUME NEW e \in g.edges
        PROVE  e[1] \in found /\ e[2] \in found <=> \E a, b \in found : e = <<a, b>>
    OBVIOUS
  <2> QED
    BY <2>1
<1>3. Induced(g, Visited(g, n, d))
        = Subgraph(Visited(g, n, d),
                   {e \in g.edges : \E a, b \in Visited(g, n, d) : e = <<a, b>>})
  BY <1>2, Zenon DEF Induced
<1>4. ASSUME d = 0
      PROVE  Induced(g, Visited(g, n, d)) = Subgraph({n}, {})
  <2>1. Visited(g, n, d) = {n}
    BY <1>4, VisitedSteps
  <2>2. {e \in g.edges : e[1] \in {n} /\ e[2] \in {n}} = {}
    BY <1>4
  <2> QED
    BY <2>1, <2>2, Zenon DEF Induced
<1> QED
  BY <1>1, <1>3, <1>4, Zenon DEF Hood, CypherHood

(* A neighbourhood has nodes of the graph only.                            *)
LEMMA HoodIn ==
    ASSUME NEW g, \A e \in g.edges : e[1] \in g.nodes /\ e[2] \in g.nodes,
           NEW n, NEW d \in Nat
    PROVE  /\ Hood(g, n, d).nodes \subseteq g.nodes
           /\ Hood(g, n, d).edges \subseteq g.edges
  BY VisitedIn DEF Hood, Induced, Subgraph, EmptySubgraph

-----------------------------------------------------------------------------
(* One step deeper is the neighbours, and nothing else.                    *)
LEMMA VisitedNext ==
    ASSUME NEW g, NEW n, NEW d \in Nat
    PROVE  Visited(g, n, d + 1)
              = Visited(g, n, d) \cup UNION {Adjacent(g.edges, m) : m \in Visited(g, n, d)}
<1> DEFINE round == Rounds(g, n)[d]
<1>1. Rounds(g, n)[d + 1] = Expand(g, round)
  BY RoundNext
<1>2. SearchInv(g, n, round)
  BY SearchInvariant
<1> HIDE DEF round
<1>3. /\ round.visited \subseteq Expand(g, round).visited
      /\ \A m \in round.visited : Adjacent(g.edges, m) \subseteq Expand(g, round).visited
  BY <1>2, SearchStep
<1>4. ASSUME NEW m \in Expand(g, round).visited, m \notin round.visited
      PROVE  \E x \in round.visited : m \in Adjacent(g.edges, x)
  BY <1>2, <1>4 DEF Expand, SearchInv
<1>5. Expand(g, round).visited
        = round.visited \cup UNION {Adjacent(g.edges, m) : m \in round.visited}
  BY <1>3, <1>4
<1> QED
  BY <1>1, <1>5 DEF Visited, round

(* A map that takes the edges of one graph to edges of another takes what  *)
(* a search finds to what a search finds.                                  *)
LEMMA VisitedMapped ==
    ASSUME NEW g, NEW h, NEW f, NEW n, NEW d \in Nat,
           \A e \in g.edges : <<f[e[1]], f[e[2]]>> \in h.edges
    PROVE  \A m \in Visited(g, n, d) : f[m] \in Visited(h, f[n], d)
<1> DEFINE V(k) == Visited(g, n, k)
           W(k) == Visited(h, f[n], k)
           T == {k \in Nat : \A m \in V(k) : f[m] \in W(k)}
<1>1. 0 \in T
  BY VisitedSteps
<1>2. ASSUME NEW k \in Nat, k \in T
      PROVE  k + 1 \in T
  <2>1. V(k + 1) = V(k) \cup UNION {Adjacent(g.edges, m) : m \in V(k)}
    BY VisitedNext
  <2>2. /\ W(k) \subseteq W(k + 1)
        /\ \A x \in W(k) : Adjacent(h.edges, x) \subseteq W(k + 1)
    BY VisitedSteps
  <2>3. ASSUME NEW x, NEW m \in Adjacent(g.edges, x)
        PROVE  f[m] \in Adjacent(h.edges, f[x])
    <3>1. PICK e \in g.edges : (e[1] = x /\ e[2] = m) \/ (e[2] = x /\ e[1] = m)
      BY <2>3 DEF Adjacent
    <3>2. <<f[e[1]], f[e[2]]>> \in h.edges
      OBVIOUS
    <3> QED
      BY <3>1, <3>2 DEF Adjacent
  <2> HIDE DEF V, W
  <2> QED
    BY <1>2, <2>1, <2>2, <2>3
<1>3. Nat \subseteq T
  <2> HIDE DEF T
  <2> QED
    BY <1>1, <1>2, SetInduction
<1> QED
  BY <1>3
=============================================================================
