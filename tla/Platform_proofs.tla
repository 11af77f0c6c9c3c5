--------------------------- MODULE Platform_proofs ---------------------------
(***************************************************************************)
(* Proofs about the graph of a workflow (the searches for cycles, the      *)
(* pipeline that makes it and the chat that edits it), the daemon's        *)
(* processes and the files beside the state of a workflow: each part       *)
(* alone, and all of them as MCPlatform runs them.                         *)
(***************************************************************************)
EXTENDS MCPlatform, SequenceTheorems, FiniteSetTheorems, WellFoundedInduction, TLAPS

-----------------------------------------------------------------------------
(* The search for cycles: validateDag                                      *)

\* The nodes that Kahn's algorithm takes next, and what it is to compute it.
NextSeen(g, visited) == {n \in g.nodes \ visited : Predecessors(g, n) \subseteq visited}
IsKahn(g, f) ==
  f = [visited \in SUBSET g.nodes |->
         IF NextSeen(g, visited) = {} THEN visited ELSE f[visited \cup NextSeen(g, visited)]]
\* Nodes that wait for each other.
IsKnot(g, S) == \A n \in S : Predecessors(g, n) \cap S # {}

\* The recursion has a solution: it sees all that is not in, or behind, such a knot.
LEMMA KahnExists == ASSUME NEW g PROVE \E f : IsKahn(g, f)
<1> DEFINE Knots(visited) == {S \in SUBSET (g.nodes \ visited) : IsKnot(g, S)}
           f == [visited \in SUBSET g.nodes |-> g.nodes \ UNION Knots(visited)]
<1>1. ASSUME NEW visited \in SUBSET g.nodes, NextSeen(g, visited) = {} PROVE f[visited] = visited
  <2>1. \A n \in g.nodes \ visited : \E m \in Predecessors(g, n) : m \notin visited
    BY <1>1 DEF NextSeen
  <2>2. IsKnot(g, g.nodes \ visited)
    BY <2>1 DEF IsKnot, Predecessors
  <2>3. g.nodes \ visited \in Knots(visited)
    BY <2>2
  <2>4. UNION Knots(visited) = g.nodes \ visited
    BY <2>3
  <2> HIDE DEF Knots
  <2> QED BY <2>4
<1>2. ASSUME NEW visited \in SUBSET g.nodes PROVE f[visited] = f[visited \cup NextSeen(g, visited)]
  <2> DEFINE more == visited \cup NextSeen(g, visited)
  <2>1. more \in SUBSET g.nodes
    BY DEF NextSeen
  <2>2. ASSUME NEW S \in Knots(visited) PROVE S \in Knots(more)
    <3>1. ASSUME NEW n \in S, n \in NextSeen(g, visited) PROVE FALSE
      BY <3>1, <2>2 DEF NextSeen, IsKnot
    <3> QED BY <3>1, <2>2
  <2>3. Knots(visited) = Knots(more)
    BY <2>2
  <2> HIDE DEF Knots
  <2>4. f[visited] = g.nodes \ UNION Knots(visited) /\ f[more] = g.nodes \ UNION Knots(more)
    BY <2>1
  <2> QED BY <2>3, <2>4
<1> HIDE DEF Knots
<1>3. f = [visited \in SUBSET g.nodes |-> f[visited]]
  OBVIOUS
<1>4. \A visited \in SUBSET g.nodes :
        f[visited] = IF NextSeen(g, visited) = {} THEN visited ELSE f[visited \cup NextSeen(g, visited)]
  BY <1>1, <1>2
<1> HIDE DEF f
<1>5. f = [visited \in SUBSET g.nodes |->
             IF NextSeen(g, visited) = {} THEN visited ELSE f[visited \cup NextSeen(g, visited)]]
  BY <1>3, <1>4
<1> QED BY <1>5 DEF IsKahn

LEMMA VisitedIs == ASSUME NEW g PROVE \E f : IsKahn(g, f) /\ Visited(g) = f[{}]
<1> DEFINE f == CHOOSE f : f = [visited \in SUBSET g.nodes |->
        LET next == {n \in g.nodes \ visited : Predecessors(g, n) \subseteq visited} IN
        IF next = {} THEN visited ELSE f[visited \cup next]]
<1>0. PICK f0 : IsKahn(g, f0)
  BY KahnExists
<1>1. f = [visited \in SUBSET g.nodes |->
             IF NextSeen(g, visited) = {} THEN visited ELSE f[visited \cup NextSeen(g, visited)]]
  BY <1>0, Zenon DEF IsKahn, NextSeen
<1>2. Visited(g) = f[{}]
  BY Zenon DEF Visited
<1> HIDE DEF f
<1> QED BY <1>1, <1>2 DEF IsKahn

\* Of some sets of nodes one is in no other.
LEMMA LargestExists ==
  ASSUME NEW N, IsFiniteSet(N), NEW T \in SUBSET SUBSET N, T # {}
  PROVE  \E x \in T : \A y \in T : x \subseteq y => y = x
<1> DEFINE R == StrictSubsetOrdering(N)
           C == {N \ x : x \in T}
<1>1. IsWellFoundedOn(R, SUBSET N)
  BY FS_StrictSubsetOrderingWellFounded, FS_FiniteSubsetsOfFinite
<1>2. C \subseteq SUBSET N /\ C # {}
  <2>1. C \subseteq SUBSET N
    OBVIOUS
  <2>2. \A x \in T : N \ x \in C
    OBVIOUS
  <2> HIDE DEF C
  <2> QED BY <2>1, <2>2
<1> HIDE DEF R, C
<1>3. PICK c \in C : \A d \in C : ~(<<d, c>> \in R)
  BY <1>1, <1>2, WFMin
<1>4. PICK x \in T : c = N \ x
  BY <1>3 DEF C
<1>5. ASSUME NEW y \in T, x \subseteq y PROVE y = x
  <2>1. N \ y \in C /\ N \ y \subseteq c
    BY <1>4, <1>5 DEF C
  <2>2. N \ y = c
    BY <1>2, <1>3, <2>1 DEF R, StrictSubsetOrdering
  <2> QED BY <1>4, <2>2
<1> QED BY <1>5

\* validateDag accepts the graphs without a cycle, and only these.
THEOREM KahnFindsCycles ==
  ASSUME NEW g, IsFiniteSet(g.nodes) PROVE ValidateDag(g) <=> ~HasCycle(g)
<1>1. PICK f : IsKahn(g, f) /\ Visited(g) = f[{}]
  BY VisitedIs
<1>2. \A visited \in SUBSET g.nodes :
        f[visited] = IF NextSeen(g, visited) = {} THEN visited ELSE f[visited \cup NextSeen(g, visited)]
  BY <1>1 DEF IsKahn
<1>3. \A visited \in SUBSET g.nodes :
        /\ visited \cup NextSeen(g, visited) \in SUBSET g.nodes
        /\ NextSeen(g, visited) # {} => visited \cup NextSeen(g, visited) # visited
  BY DEF NextSeen
<1>4. ASSUME HasCycle(g), f[{}] = g.nodes PROVE FALSE
  <2>1. PICK S \in SUBSET g.nodes : S # {} /\ IsKnot(g, S)
    BY <1>4 DEF HasCycle, IsKnot
  <2> DEFINE T == {visited \in SUBSET g.nodes : visited \cap S = {} /\ f[visited] \cap S # {}}
  <2>2. {} \in T /\ T \in SUBSET SUBSET g.nodes
    BY <1>4, <2>1
  <2>3. PICK x \in T : \A y \in T : x \subseteq y => y = x
    <3> HIDE DEF T
    <3> QED BY <2>2, LargestExists
  <2>4. NextSeen(g, x) \cap S = {}
    BY <2>1, <2>3 DEF NextSeen, IsKnot
  <2>5. NextSeen(g, x) # {}
    BY <1>2, <2>3
  <2>6. x \cup NextSeen(g, x) \in T
    BY <1>2, <1>3, <2>3, <2>4, <2>5
  <2> QED BY <1>3, <2>3, <2>5, <2>6
<1>5. ASSUME ~HasCycle(g), f[{}] # g.nodes PROVE FALSE
  <2> DEFINE T == {visited \in SUBSET g.nodes : f[visited] # g.nodes}
  <2>1. {} \in T /\ T \in SUBSET SUBSET g.nodes
    BY <1>5
  <2>2. PICK x \in T : \A y \in T : x \subseteq y => y = x
    <3> HIDE DEF T
    <3> QED BY <2>1, LargestExists
  <2>3. NextSeen(g, x) # {}
    <3> SUFFICES ASSUME NextSeen(g, x) = {} PROVE FALSE
      OBVIOUS
    <3>1. f[x] = x /\ x \subseteq g.nodes /\ x # g.nodes
      BY <1>2, <2>2
    <3>3. g.nodes \ x # {}
      BY <3>1
    <3>2. IsKnot(g, g.nodes \ x)
      BY DEF NextSeen, IsKnot, Predecessors
    <3> QED BY <1>5, <3>3, <3>2 DEF HasCycle, IsKnot
  <2>4. x \cup NextSeen(g, x) \in T
    BY <1>2, <1>3, <2>2, <2>3
  <2> QED BY <1>3, <2>2, <2>3, <2>4
<1> QED BY <1>1, <1>4, <1>5 DEF ValidateDag

-----------------------------------------------------------------------------
(* The search for cycles: detectCycles                                     *)

\* The calls of dfs at a walk w, of which m is the next node.
NextNode(w) == CHOOSE m \in w.todo : TRUE
Rest(w, m) == [w EXCEPT !.todo = @ \ {m}]
Down(g, w, m) == [w EXCEPT !.gray = @ \cup {m}, !.todo = Successors(g, m)]
Back(w, m, came) == [Rest(w, m) EXCEPT !.gray = came.gray \ {m}, !.black = came.black \cup {m}]
Walked(g, h, w) ==
  IF w.cycle \/ w.todo = {} THEN w
  ELSE LET m == NextNode(w) IN
       IF m \in w.gray THEN [w EXCEPT !.cycle = TRUE]
       ELSE IF m \in w.black THEN h[Rest(w, m)]
       ELSE IF h[Down(g, w, m)].cycle THEN h[Down(g, w, m)]
       ELSE h[Back(w, m, h[Down(g, w, m)])]
IsDfs(g, f) == f = [w \in Walks(g) |-> Walked(g, f, w)]

\* A call has more nodes coloured, or as many and fewer to visit.
Place(w) == <<w.gray \cup w.black, w.todo>>
Spots(g) == (SUBSET g.nodes) \X (SUBSET g.nodes)
Later(q, p) == /\ p[1] \subseteq q[1]
               /\ p[1] # q[1] \/ (q[2] \subseteq p[2] /\ q[2] # p[2])
Grown(g, w, r) == r \in Walks(g) /\ w.gray \subseteq r.gray /\ w.black \subseteq r.black

LEMMA LatestExists ==
  ASSUME NEW g, IsFiniteSet(g.nodes), NEW T \in SUBSET Spots(g), T # {}
  PROVE  \E p \in T : \A q \in T : ~Later(q, p)
<1> DEFINE T1 == {p[1] : p \in T}
<1>1. T1 \in SUBSET SUBSET g.nodes /\ T1 # {}
  <2>1. \A p \in T : p[1] \in SUBSET g.nodes /\ p[1] \in T1
    BY DEF Spots
  <2> QED BY <2>1
<1> HIDE DEF T1
<1>2. PICK s \in T1 : \A t \in T1 : s \subseteq t => t = s
  BY <1>1, LargestExists
<1> DEFINE T2 == {g.nodes \ p[2] : p \in {p \in T : p[1] = s}}
<1>3. T2 \in SUBSET SUBSET g.nodes /\ T2 # {}
  <2>1. PICK p \in T : p[1] = s
    BY <1>2 DEF T1
  <2>2. g.nodes \ p[2] \in T2
    BY <2>1
  <2>3. T2 \in SUBSET SUBSET g.nodes
    OBVIOUS
  <2> HIDE DEF T2
  <2> QED BY <2>2, <2>3
<1>4. PICK c \in T2 : \A d \in T2 : c \subseteq d => d = c
  <2> HIDE DEF T2
  <2> QED BY <1>3, LargestExists
<1>5. PICK p \in T : p[1] = s /\ c = g.nodes \ p[2]
  BY <1>4
<1>6. ASSUME NEW q \in T, Later(q, p) PROVE FALSE
  <2>1. q[1] \in T1 /\ p[2] \in SUBSET g.nodes /\ q[2] \in SUBSET g.nodes
    BY DEF T1, Spots
  <2>2. q[1] = s
    BY <1>2, <1>5, <1>6, <2>1 DEF Later
  <2>3. g.nodes \ q[2] \in T2
    BY <2>2
  <2>4. q[2] \subseteq p[2] /\ q[2] # p[2]
    BY <1>5, <1>6, <2>2 DEF Later
  <2>5. g.nodes \ q[2] = c
    BY <1>4, <1>5, <2>3, <2>4
  <2> QED BY <1>5, <2>1, <2>4, <2>5
<1> QED BY <1>6

LEMMA WalkIs ==
  ASSUME NEW g, NEW w \in Walks(g)
  PROVE  /\ w.gray \subseteq g.nodes /\ w.black \subseteq g.nodes /\ w.todo \subseteq g.nodes
         /\ w.cycle \in BOOLEAN /\ Place(w) \in Spots(g)
BY DEF Walks, Place, Spots

LEMMA WalkFlagged ==
  ASSUME NEW g, NEW w \in Walks(g)
  PROVE  /\ [w EXCEPT !.cycle = TRUE] \in Walks(g)
         /\ [w EXCEPT !.cycle = TRUE].gray = w.gray /\ [w EXCEPT !.cycle = TRUE].black = w.black
         /\ [w EXCEPT !.cycle = TRUE].cycle
BY DEF Walks

LEMMA WalkFields ==
  ASSUME NEW g, NEW w \in Walks(g), w.todo # {}, NEW m, m = NextNode(w)
  PROVE  /\ m \in w.todo /\ m \in g.nodes
         /\ Rest(w, m) \in Walks(g)
         /\ Rest(w, m).gray = w.gray /\ Rest(w, m).black = w.black
         /\ Rest(w, m).todo = w.todo \ {m} /\ Rest(w, m).cycle = w.cycle
         /\ Down(g, w, m) \in Walks(g)
         /\ Down(g, w, m).gray = w.gray \cup {m} /\ Down(g, w, m).black = w.black
         /\ Down(g, w, m).todo = Successors(g, m) /\ Down(g, w, m).cycle = w.cycle
<1>1. m \in w.todo
  BY DEF NextNode
<1>2. w.gray \subseteq g.nodes /\ w.black \subseteq g.nodes /\ w.todo \subseteq g.nodes
  BY DEF Walks
<1>3. m \in g.nodes /\ Successors(g, m) \in SUBSET g.nodes
  BY <1>1, <1>2 DEF Successors
<1>5. /\ Rest(w, m) \in Walks(g)
      /\ Rest(w, m).gray = w.gray /\ Rest(w, m).black = w.black
      /\ Rest(w, m).todo = w.todo \ {m} /\ Rest(w, m).cycle = w.cycle
  BY DEF Walks, Rest
<1>6. /\ Down(g, w, m) \in Walks(g)
      /\ Down(g, w, m).gray = w.gray \cup {m} /\ Down(g, w, m).black = w.black
      /\ Down(g, w, m).todo = Successors(g, m) /\ Down(g, w, m).cycle = w.cycle
  BY <1>3 DEF Walks, Down
<1> QED BY <1>1, <1>3, <1>5, <1>6

LEMMA BackFields ==
  ASSUME NEW g, NEW w \in Walks(g), w.todo # {}, NEW m, m = NextNode(w), NEW came \in Walks(g)
  PROVE  /\ Back(w, m, came) \in Walks(g)
         /\ Back(w, m, came).gray = came.gray \ {m}
         /\ Back(w, m, came).black = came.black \cup {m}
         /\ Back(w, m, came).todo = w.todo \ {m} /\ Back(w, m, came).cycle = w.cycle
<1> DEFINE r == Rest(w, m)
<1>1. r \in Walks(g) /\ r.todo = w.todo \ {m} /\ r.cycle = w.cycle /\ m \in g.nodes
  BY WalkFields
<1>2. came.gray \ {m} \in SUBSET g.nodes /\ came.black \cup {m} \in SUBSET g.nodes
  BY <1>1 DEF Walks
<1>3. Back(w, m, came) = [r EXCEPT !.gray = came.gray \ {m}, !.black = came.black \cup {m}]
  BY DEF Back
<1> HIDE DEF r
<1> QED BY <1>1, <1>2, <1>3 DEF Walks

LEMMA CallsAreLater ==
  ASSUME NEW g, NEW w \in Walks(g), w.todo # {}, NEW m, m = NextNode(w)
  PROVE  /\ Later(Place(Rest(w, m)), Place(w))
         /\ m \notin w.gray \cup w.black => Later(Place(Down(g, w, m)), Place(w))
         /\ \A came \in Walks(g) :
              m \notin w.gray /\ Grown(g, Down(g, w, m), came)
                => Later(Place(Back(w, m, came)), Place(w))
<1>1. Later(Place(Rest(w, m)), Place(w))
  BY WalkFields DEF Later, Place
<1>2. ASSUME m \notin w.gray \cup w.black PROVE Later(Place(Down(g, w, m)), Place(w))
  BY <1>2, WalkFields DEF Later, Place
<1>3. ASSUME NEW came \in Walks(g), m \notin w.gray, Grown(g, Down(g, w, m), came)
      PROVE  Later(Place(Back(w, m, came)), Place(w))
  <2>1. w.gray \subseteq came.gray \ {m} /\ w.black \subseteq came.black /\ m \in w.todo
    BY <1>3, WalkFields DEF Grown
  <2>2. /\ Back(w, m, came).gray = came.gray \ {m} /\ Back(w, m, came).black = came.black \cup {m}
        /\ Back(w, m, came).todo = w.todo \ {m}
    BY BackFields
  <2> QED BY <2>1, <2>2 DEF Later, Place
<1> QED BY <1>1, <1>2, <1>3

\* A call depends on later ones only, and grows what it is given if they do.
LEMMA WalkedSame ==
  ASSUME NEW g, NEW h, NEW k, NEW w \in Walks(g),
         \A v \in Walks(g) : Later(Place(v), Place(w)) => h[v] = k[v] /\ Grown(g, v, h[v])
  PROVE  Walked(g, h, w) = Walked(g, k, w) /\ Grown(g, w, Walked(g, h, w))
<1>1. CASE w.cycle \/ w.todo = {}
  BY <1>1 DEF Walked, Grown
<1>2. CASE ~w.cycle /\ w.todo # {}
  <2> DEFINE m == NextNode(w)
             d == Down(g, w, m)
             b == Back(w, m, h[d])
  <2>1. CASE m \in w.gray
    <3>1. Walked(g, h, w) = [w EXCEPT !.cycle = TRUE] /\ Walked(g, k, w) = [w EXCEPT !.cycle = TRUE]
      BY <1>2, <2>1 DEF Walked
    <3> DEFINE r == [w EXCEPT !.cycle = TRUE]
    <3>2. r \in Walks(g) /\ r.gray = w.gray /\ r.black = w.black
      BY DEF Walks
    <3> HIDE DEF r
    <3>3. Walked(g, h, w) = r /\ Walked(g, k, w) = r
      BY <3>1 DEF r
    <3> QED BY <3>2, <3>3 DEF Grown
  <2>2. CASE m \notin w.gray /\ m \in w.black
    <3>1. Walked(g, h, w) = h[Rest(w, m)] /\ Walked(g, k, w) = k[Rest(w, m)]
      BY <1>2, <2>2 DEF Walked
    <3>2. /\ Rest(w, m) \in Walks(g) /\ Later(Place(Rest(w, m)), Place(w))
          /\ Rest(w, m).gray = w.gray /\ Rest(w, m).black = w.black
      BY <1>2, WalkFields, CallsAreLater
    <3>3. h[Rest(w, m)] = k[Rest(w, m)] /\ Grown(g, Rest(w, m), h[Rest(w, m)])
      BY <3>2
    <3> QED BY <3>1, <3>2, <3>3 DEF Grown
  <2>3. CASE m \notin w.gray /\ m \notin w.black
    <3>1. /\ d \in Walks(g) /\ Later(Place(d), Place(w))
          /\ d.gray = w.gray \cup {m} /\ d.black = w.black
      BY <1>2, <2>3, WalkFields, CallsAreLater
    <3>2. h[d] = k[d] /\ Grown(g, d, h[d])
      BY <3>1
    <3>3. CASE h[d].cycle
      <4>1. Walked(g, h, w) = h[d] /\ Walked(g, k, w) = k[d]
        BY <1>2, <2>3, <3>2, <3>3 DEF Walked
      <4> QED BY <3>1, <3>2, <4>1 DEF Grown
    <3>4. CASE ~h[d].cycle
      <4>1. Walked(g, h, w) = h[b] /\ Walked(g, k, w) = k[b]
        BY <1>2, <2>3, <3>2, <3>4 DEF Walked
      <4>2. h[d] \in Walks(g)
        BY <3>2 DEF Grown
      <4>3. /\ b \in Walks(g) /\ Later(Place(b), Place(w))
            /\ b.gray = h[d].gray \ {m} /\ b.black = h[d].black \cup {m}
        BY <1>2, <2>3, <3>2, <4>2, BackFields, CallsAreLater
      <4>4. h[b] = k[b] /\ Grown(g, b, h[b])
        BY <4>3
      <4>5. w.gray \subseteq b.gray /\ w.black \subseteq b.black
        BY <2>3, <3>1, <3>2, <4>3 DEF Grown
      <4> QED BY <4>1, <4>4, <4>5 DEF Grown
    <3> QED BY <3>3, <3>4
  <2> QED BY <2>1, <2>2, <2>3
<1>3. w.cycle \in BOOLEAN
  BY DEF Walks
<1> QED BY <1>1, <1>2, <1>3

\* The recursion has a solution: a largest set of places up to which it has one is all of them.
LEMMA DfsExists == ASSUME NEW g, IsFiniteSet(g.nodes) PROVE \E f : IsDfs(g, f)
<1> DEFINE Solves(h, F) == /\ \A w \in Walks(g) : Grown(g, w, h[w])
                           /\ \A w \in Walks(g) : Place(w) \in F => h[w] = Walked(g, h, w)
           Whole(F) == \A p \in F, q \in Spots(g) : Later(q, p) => q \in F
           T == {F \in SUBSET Spots(g) : Whole(F) /\ \E h : Solves(h, F)}
<1>1. IsFiniteSet(Spots(g))
  BY FS_SUBSET, FS_Product DEF Spots
<1>2. T # {}
  <2> DEFINE id == [w \in Walks(g) |-> w]
  <2>1. \A w \in Walks(g) : Grown(g, w, id[w])
    BY DEF Grown
  <2> HIDE DEF id
  <2>2. Solves(id, {})
    BY <2>1
  <2>3. {} \in T
    BY <2>2
  <2> QED BY <2>3
<1>3. PICK F \in T : \A E \in T : F \subseteq E => E = F
  <2>1. T \in SUBSET SUBSET Spots(g)
    OBVIOUS
  <2> HIDE DEF T
  <2> QED BY <1>1, <1>2, <2>1, LargestExists
<1>4. PICK h : Solves(h, F)
  OBVIOUS
<1>5. Whole(F) /\ F \in SUBSET Spots(g)
  OBVIOUS
<1> DEFINE k == [w \in Walks(g) |-> Walked(g, h, w)]
<1>6. \A w \in Walks(g) : k[w] = Walked(g, h, w)
  OBVIOUS
<1> HIDE DEF T, k
<1>7. \A w \in Walks(g) : Grown(g, w, h[w])
  BY <1>4
<1>8. \A w \in Walks(g) : Grown(g, w, k[w])
  BY <1>6, <1>7, WalkedSame
<1>9. ASSUME NEW p \in Spots(g), p \notin F, \A q \in Spots(g) \ F : ~Later(q, p) PROVE FALSE
  <2> DEFINE E == F \cup {p}
  <2>1. Whole(E) /\ E \in SUBSET Spots(g)
    BY <1>5, <1>9
  <2>2. ASSUME NEW w \in Walks(g), Place(w) \in E PROVE k[w] = Walked(g, k, w)
    <3>1. ASSUME NEW v \in Walks(g), Later(Place(v), Place(w)) PROVE h[v] = k[v]
      <4>1. Place(v) \in F
        BY <1>5, <1>9, <2>2, <3>1, WalkIs
      <4> QED BY <1>4, <1>6, <4>1
    <3>2. Walked(g, h, w) = Walked(g, k, w)
      BY <1>7, <3>1, WalkedSame
    <3> QED BY <1>6, <3>2
  <2>3. Solves(k, E)
    BY <1>8, <2>2
  <2>4. E \in T
    BY <2>1, <2>3 DEF T
  <2> QED BY <1>3, <1>9, <2>4
<1>10. F = Spots(g)
  <2> SUFFICES ASSUME F # Spots(g) PROVE FALSE
    OBVIOUS
  <2>1. Spots(g) \ F # {} /\ Spots(g) \ F \in SUBSET Spots(g)
    BY <1>5
  <2>2. \E p \in Spots(g) \ F : \A q \in Spots(g) \ F : ~Later(q, p)
    BY <2>1, LatestExists
  <2> QED BY <1>9, <2>2
<1>11. ASSUME NEW w \in Walks(g) PROVE k[w] = Walked(g, k, w)
  <2>1. \A v \in Walks(g) : h[v] = k[v]
    BY <1>4, <1>6, <1>10, WalkIs
  <2>2. Walked(g, h, w) = Walked(g, k, w)
    BY <1>7, <2>1, WalkedSame
  <2> QED BY <1>6, <2>2
<1>12. k = [w \in Walks(g) |-> k[w]]
  BY DEF k
<1>13. k = [w \in Walks(g) |-> Walked(g, k, w)]
  BY <1>11, <1>12
<1> QED BY <1>13 DEF IsDfs

LEMMA DetectCyclesIs ==
  ASSUME NEW g, IsFiniteSet(g.nodes)
  PROVE  \E f : /\ IsDfs(g, f)
                /\ DetectCycles(g) = f[[gray |-> {}, black |-> {}, todo |-> g.nodes, cycle |-> FALSE]].cycle
<1> DEFINE Is(dfs) == dfs = [w \in Walks(g) |->
        IF w.cycle \/ w.todo = {} THEN w
        ELSE LET m == CHOOSE m \in w.todo : TRUE
                 rest == [w EXCEPT !.todo = @ \ {m}]
                 came == dfs[[w EXCEPT !.gray = @ \cup {m}, !.todo = Successors(g, m)]]
             IN IF m \in w.gray THEN [w EXCEPT !.cycle = TRUE]
                ELSE IF m \in w.black THEN dfs[rest]
                ELSE IF came.cycle THEN came
                ELSE dfs[[rest EXCEPT !.gray = came.gray \ {m}, !.black = came.black \cup {m}]]]
           f == CHOOSE dfs : Is(dfs)
<1>1. \A h : Is(h) <=> IsDfs(g, h)
  BY Zenon DEF IsDfs, Walked, NextNode, Rest, Down, Back
<1>2. DetectCycles(g) = f[[gray |-> {}, black |-> {}, todo |-> g.nodes, cycle |-> FALSE]].cycle
  BY Zenon DEF DetectCycles
<1> HIDE DEF Is
<1>3. \E h : Is(h)
  BY <1>1, DfsExists
<1>4. Is(f)
  BY <1>3, Zenon
<1> HIDE DEF f
<1> QED BY <1>1, <1>2, <1>4

\* The nodes from which an edge, or several, lead to n.
Behind(g, n, A) == Predecessors(g, n) \subseteq A /\ \A x \in A : Predecessors(g, x) \subseteq A
Ancestors(g, n) == {x \in g.nodes : \A A \in SUBSET g.nodes : Behind(g, n, A) => x \in A}

LEMMA AncestorsAre ==
  ASSUME NEW g, NEW n \in g.nodes
  PROVE  /\ Behind(g, n, Ancestors(g, n))
         /\ \A A \in SUBSET g.nodes : Behind(g, n, A) => Ancestors(g, n) \subseteq A
         /\ \A x \in Ancestors(g, n) : x \in g.nodes /\ Ancestors(g, x) \subseteq Ancestors(g, n)
<1>1. \A A \in SUBSET g.nodes : Behind(g, n, A) => Ancestors(g, n) \subseteq A
  BY DEF Ancestors
<1>2. \A x \in g.nodes : Predecessors(g, x) \subseteq g.nodes
  BY DEF Predecessors
<1>3. Behind(g, n, Ancestors(g, n))
  BY <1>2 DEF Ancestors, Behind
<1>4. ASSUME NEW x \in Ancestors(g, n) PROVE x \in g.nodes /\ Ancestors(g, x) \subseteq Ancestors(g, n)
  <2>1. x \in g.nodes /\ Ancestors(g, n) \in SUBSET g.nodes
    BY DEF Ancestors
  <2>2. Behind(g, x, Ancestors(g, n))
    BY <1>3 DEF Behind
  <2>3. \A A \in SUBSET g.nodes : Behind(g, x, A) => Ancestors(g, x) \subseteq A
    BY DEF Ancestors
  <2> QED BY <2>1, <2>2, <2>3
<1> QED BY <1>1, <1>3, <1>4

\* A node that leads to itself is on a cycle.
LEMMA OwnAncestor == ASSUME NEW g, NEW n \in g.nodes, n \in Ancestors(g, n) PROVE HasCycle(g)
<1> DEFINE S == {x \in Ancestors(g, n) : n \in Ancestors(g, x)}
<1>1. S \subseteq g.nodes /\ n \in S
  BY DEF Ancestors
<1>2. ASSUME NEW x \in S PROVE \E y \in S : y \in Predecessors(g, x)
  <2> DEFINE P == Predecessors(g, x)
             A == P \cup UNION {Ancestors(g, y) : y \in P}
  <2>1. x \in g.nodes /\ x \in Ancestors(g, n) /\ n \in Ancestors(g, x) /\ P \subseteq g.nodes
    BY <1>1 DEF Predecessors
  <2>2. P \subseteq Ancestors(g, n)
    BY <2>1, AncestorsAre DEF Behind
  <2>3. n \in P \/ \E y \in P : n \in Ancestors(g, y)
    <3>1. ASSUME NEW y \in P PROVE Ancestors(g, y) \subseteq g.nodes /\ Behind(g, y, Ancestors(g, y))
      BY <2>1, AncestorsAre DEF Ancestors
    <3> HIDE DEF P
    <3>2. A \in SUBSET g.nodes
      BY <2>1, <3>1
    <3>3. ASSUME NEW z \in A PROVE Predecessors(g, z) \subseteq A
      <4>1. CASE z \in P
        BY <4>1, <3>1 DEF Behind
      <4>2. ASSUME NEW y \in P, z \in Ancestors(g, y) PROVE Predecessors(g, z) \subseteq A
        BY <4>2, <3>1 DEF Behind
      <4> QED BY <4>1, <4>2
    <3>4. Behind(g, x, A)
      BY <3>3 DEF Behind, P
    <3>5. n \in A
      BY <2>1, <3>2, <3>4 DEF Ancestors
    <3> QED BY <3>5
  <2>4. CASE n \in P
    BY <2>4, <1>1
  <2>5. ASSUME NEW y \in P, n \in Ancestors(g, y) PROVE y \in S
    BY <2>2, <2>5
  <2> QED BY <2>3, <2>4, <2>5
<1> HIDE DEF S
<1>3. \A x \in S : Predecessors(g, x) \cap S # {}
  BY <1>2
<1> QED BY <1>1, <1>3 DEF HasCycle

\* What is black is done with: it leads to black nodes only, and no cycle is in it.
Clean(g, w) == /\ w.gray \cap w.black = {}
               /\ \A x \in w.black : Successors(g, x) \subseteq w.black
               /\ \A S \in SUBSET w.black : IsKnot(g, S) => S = {}
\* The gray nodes lead to every node that is left to visit.
OnPath(g, w) == \A t \in w.todo : w.gray \subseteq Ancestors(g, t)
Right(g, w, r) ==
  ~w.cycle /\ Clean(g, w) /\ OnPath(g, w)
    => IF r.cycle THEN HasCycle(g)
       ELSE r.gray = w.gray /\ w.black \cup w.todo \subseteq r.black /\ Clean(g, r)

LEMMA DownIsRight ==
  ASSUME NEW g, NEW w \in Walks(g), w.todo # {}, NEW m, m = NextNode(w), m \notin w.gray, m \notin w.black,
         Clean(g, w), OnPath(g, w)
  PROVE  Clean(g, Down(g, w, m)) /\ OnPath(g, Down(g, w, m))
<1> DEFINE d == Down(g, w, m)
<1>1. m \in w.todo /\ m \in g.nodes /\ d.gray = w.gray \cup {m} /\ d.black = w.black /\ d.todo = Successors(g, m)
  BY WalkFields
<1> HIDE DEF d
<1>2. Clean(g, d)
  BY <1>1 DEF Clean
<1>3. ASSUME NEW t \in Successors(g, m) PROVE w.gray \cup {m} \subseteq Ancestors(g, t)
  <2>1. t \in g.nodes /\ m \in Predecessors(g, t)
    BY <1>1 DEF Successors, Predecessors
  <2>2. m \in Ancestors(g, t)
    BY <2>1, AncestorsAre DEF Behind
  <2>3. Ancestors(g, m) \subseteq Ancestors(g, t)
    BY <2>1, <2>2, AncestorsAre
  <2> QED BY <1>1, <2>2, <2>3 DEF OnPath
<1>4. OnPath(g, d)
  BY <1>1, <1>3 DEF OnPath
<1> QED BY <1>2, <1>4 DEF d

LEMMA BackIsRight ==
  ASSUME NEW g, NEW w \in Walks(g), w.todo # {}, NEW m, m = NextNode(w), m \notin w.gray, m \notin w.black,
         Clean(g, w), OnPath(g, w), NEW came \in Walks(g), Clean(g, came), came.gray = w.gray \cup {m},
         w.black \cup Successors(g, m) \subseteq came.black
  PROVE  Clean(g, Back(w, m, came)) /\ OnPath(g, Back(w, m, came))
<1> DEFINE b == Back(w, m, came)
<1>1. m \in w.todo /\ m \in g.nodes /\ b.gray = w.gray /\ b.black = came.black \cup {m} /\ b.todo = w.todo \ {m}
  <2>1. m \in w.todo /\ m \in g.nodes
    BY WalkFields
  <2>2. b.gray = came.gray \ {m} /\ b.black = came.black \cup {m} /\ b.todo = w.todo \ {m}
    BY BackFields
  <2> HIDE DEF b
  <2> QED BY <2>1, <2>2
<1> HIDE DEF b
<1>2. OnPath(g, b)
  BY <1>1 DEF OnPath
<1>3. \A x \in b.black : Successors(g, x) \subseteq b.black
  BY <1>1 DEF Clean
<1>4. ASSUME NEW S \in SUBSET b.black, IsKnot(g, S) PROVE S = {}
  <2>1. m \notin came.black
    BY DEF Clean
  <2>2. ASSUME m \in S PROVE FALSE
    <3>1. PICK x \in S : x \in Predecessors(g, m)
      BY <1>4, <2>2 DEF IsKnot
    <3>2. m \in Successors(g, x)
      BY <1>1, <3>1 DEF Predecessors, Successors
    <3>3. m \in came.black
      BY <1>1, <3>2 DEF Clean
    <3> QED BY <2>1, <3>3
  <2> QED BY <1>1, <1>4, <2>2 DEF Clean
<1>5. b.gray \cap b.black = {}
  BY <1>1 DEF Clean
<1> QED BY <1>2, <1>3, <1>4, <1>5 DEF Clean, b

LEMMA WalkedRight ==
  ASSUME NEW g, NEW h, NEW w \in Walks(g),
         \A v \in Walks(g) : Later(Place(v), Place(w)) => Grown(g, v, h[v]) /\ Right(g, v, h[v])
  PROVE  Right(g, w, Walked(g, h, w))
<1> SUFFICES ASSUME ~w.cycle, Clean(g, w), OnPath(g, w)
             PROVE  LET r == Walked(g, h, w) IN
                    IF r.cycle THEN HasCycle(g)
                    ELSE r.gray = w.gray /\ w.black \cup w.todo \subseteq r.black /\ Clean(g, r)
  BY DEF Right
<1>1. CASE w.todo = {}
  BY <1>1 DEF Walked
<1>2. CASE w.todo # {}
  <2> DEFINE m == NextNode(w)
             r == Walked(g, h, w)
             d == Down(g, w, m)
             b == Back(w, m, h[d])
  <2>0. m \in w.todo /\ m \in g.nodes
    BY <1>2, WalkFields
  <2>1. CASE m \in w.gray
    <3>1. HasCycle(g)
      BY <2>0, <2>1, OwnAncestor DEF OnPath
    <3>2. r = [w EXCEPT !.cycle = TRUE]
      BY <1>2, <2>1 DEF Walked
    <3>3. r.cycle
      BY <3>2 DEF Walks
    <3> QED BY <3>1, <3>3
  <2>2. CASE m \notin w.gray /\ m \in w.black
    <3> DEFINE v == Rest(w, m)
    <3>1. /\ v \in Walks(g) /\ Later(Place(v), Place(w)) /\ v.gray = w.gray /\ v.black = w.black
          /\ v.todo = w.todo \ {m} /\ ~v.cycle
      BY <1>2, WalkFields, CallsAreLater
    <3>2. r = h[v]
      BY <1>2, <2>2 DEF Walked
    <3> HIDE DEF v, r
    <3>3. Clean(g, v) /\ OnPath(g, v)
      BY <3>1 DEF Clean, OnPath
    <3>4. IF r.cycle THEN HasCycle(g)
          ELSE r.gray = v.gray /\ v.black \cup v.todo \subseteq r.black /\ Clean(g, r)
      BY <3>1, <3>2, <3>3 DEF Right
    <3> QED BY <2>2, <3>1, <3>4 DEF r
  <2>3. CASE m \notin w.gray /\ m \notin w.black
    <3>1. /\ d \in Walks(g) /\ Later(Place(d), Place(w)) /\ ~d.cycle
          /\ d.gray = w.gray \cup {m} /\ d.black = w.black /\ d.todo = Successors(g, m)
      BY <1>2, <2>3, WalkFields, CallsAreLater
    <3>2. Clean(g, d) /\ OnPath(g, d)
      BY <1>2, <2>3, DownIsRight
    <3>3. /\ Grown(g, d, h[d])
          /\ IF h[d].cycle THEN HasCycle(g)
             ELSE h[d].gray = d.gray /\ d.black \cup d.todo \subseteq h[d].black /\ Clean(g, h[d])
      BY <3>1, <3>2 DEF Right
    <3>4. CASE h[d].cycle
      <4>1. r = h[d]
        BY <1>2, <2>3, <3>4 DEF Walked
      <4> QED BY <3>3, <3>4, <4>1
    <3>5. CASE ~h[d].cycle
      <4>1. r = h[b]
        BY <1>2, <2>3, <3>5 DEF Walked
      <4>2. h[d] \in Walks(g)
        BY <3>3 DEF Grown
      <4>3. /\ b \in Walks(g) /\ Later(Place(b), Place(w)) /\ ~b.cycle
            /\ b.gray = h[d].gray \ {m} /\ b.black = h[d].black \cup {m} /\ b.todo = w.todo \ {m}
        BY <1>2, <2>3, <3>3, <4>2, BackFields, CallsAreLater
      <4>4. Clean(g, b) /\ OnPath(g, b)
        BY <1>2, <2>3, <3>1, <3>3, <3>5, <4>2, BackIsRight
      <4> HIDE DEF b, r, d
      <4>5. IF r.cycle THEN HasCycle(g)
            ELSE r.gray = b.gray /\ b.black \cup b.todo \subseteq r.black /\ Clean(g, r)
        BY <4>1, <4>3, <4>4 DEF Right
      <4>6. b.gray = w.gray /\ w.black \cup w.todo \subseteq b.black \cup b.todo
        BY <2>3, <3>1, <3>3, <3>5, <4>3
      <4> QED BY <4>5, <4>6 DEF r
    <3> QED BY <3>4, <3>5
  <2> QED BY <2>1, <2>2, <2>3
<1> QED BY <1>1, <1>2

\* detectCycles answers true for the graphs with a cycle, and only for these.
THEOREM DfsFindsCycles ==
  ASSUME NEW g, IsFiniteSet(g.nodes) PROVE DetectCycles(g) <=> HasCycle(g)
<1> DEFINE w0 == [gray |-> {}, black |-> {}, todo |-> g.nodes, cycle |-> FALSE]
<1>1. PICK f : IsDfs(g, f) /\ DetectCycles(g) = f[w0].cycle
  BY DetectCyclesIs
<1>2. \A w \in Walks(g) : f[w] = Walked(g, f, w)
  BY <1>1 DEF IsDfs
<1>3. \A w \in Walks(g) : Grown(g, w, f[w]) /\ Right(g, w, f[w])
  <2> DEFINE Fine(w) == Grown(g, w, f[w]) /\ Right(g, w, f[w])
             Wrong == {w \in Walks(g) : ~Fine(w)}
             T == {Place(w) : w \in Wrong}
  <2>1. T \in SUBSET Spots(g)
    BY WalkIs
  <2>2. ASSUME NEW w \in Wrong, \A q \in T : ~Later(q, Place(w)) PROVE FALSE
    <3>1. ASSUME NEW v \in Walks(g), Later(Place(v), Place(w)) PROVE Fine(v)
      BY <2>2, <3>1
    <3>2. Grown(g, w, Walked(g, f, w))
      BY <3>1, WalkedSame
    <3>3. Right(g, w, Walked(g, f, w))
      BY <3>1, WalkedRight
    <3> QED BY <1>2, <3>2, <3>3
  <2> SUFFICES ASSUME Wrong # {} PROVE FALSE
    OBVIOUS
  <2>3. T # {}
    OBVIOUS
  <2>4. PICK p \in T : \A q \in T : ~Later(q, p)
    <3> HIDE DEF T
    <3> QED BY <2>1, <2>3, LatestExists
  <2> QED BY <2>2, <2>4
<1>4. w0 \in Walks(g) /\ w0.gray = {} /\ w0.black = {} /\ w0.todo = g.nodes /\ ~w0.cycle
  BY DEF Walks
<1> HIDE DEF w0
<1>5. Clean(g, w0) /\ OnPath(g, w0)
  BY <1>4 DEF Clean, OnPath
<1>6. /\ f[w0].cycle => HasCycle(g)
      /\ ~f[w0].cycle => g.nodes \subseteq f[w0].black /\ Clean(g, f[w0])
  BY <1>3, <1>4, <1>5 DEF Right
<1>7. ASSUME ~f[w0].cycle PROVE ~HasCycle(g)
  BY <1>6, <1>7 DEF Clean, HasCycle, IsKnot
<1>8. f[w0].cycle \in BOOLEAN
  BY <1>3, <1>4 DEF Grown, Walks
<1> QED BY <1>1, <1>6, <1>7, <1>8

-----------------------------------------------------------------------------
(* The pipeline that makes a graph                                         *)

GraphsMade == [nodes : SUBSET SpecIds, edges : SUBSET (SpecIds \X SpecIds)]
BeforeEnd == {"starting", "generating", "asking", "rerunning", "writing"}

PipeKinds ==
  /\ specAt \in BeforeEnd \cup {"finishing", "failing"} \cup SpecEnded
  /\ step \in 0 .. LastStep
  /\ progress \in [0 .. LastStep -> SUBSET {"started", "completed", "error"}]
  /\ artifacts \in SUBSET (0 .. LastStep - 1)
  /\ built \in GraphsMade
  /\ loom \in {"created", "running_spec", "idle"}
  /\ flow \in {"spec", "building", "failed"}
  /\ diskFailed \in BOOLEAN
\* The steps before this one are done, those after it have not begun.
StepsAhead ==
  /\ \A s \in 0 .. LastStep : s < step => /\ "completed" \in progress[s] /\ "error" \notin progress[s]
                                          /\ s \in artifacts
  /\ \A s \in 0 .. LastStep : s > step => progress[s] = {}
  /\ specAt = "starting" => step = 0 /\ progress[0] = {}
\* This step ends one way, and the pipeline at the last step only.
StepEnds ==
  /\ specAt \in BeforeEnd => "completed" \notin progress[step] /\ "error" \notin progress[step]
  /\ ~("completed" \in progress[step] /\ "error" \in progress[step])
  /\ "completed" \in progress[step] => step = LastStep
  /\ specAt \in {"asking", "rerunning", "writing"} => step < LastStep
  /\ flow = "failed" \/ specAt = "failing" => diskFailed \/ "error" \in progress[step]
\* What was made was accepted.
Made ==
  /\ flow # "spec" => specAt \in SpecEnded
  /\ specAt = "finishing" \/ flow = "building" => Accepted(built)
PipeInv == PipeKinds /\ StepsAhead /\ StepEnds /\ Made

LEMMA PipeInvInit == SpecInit => PipeInv
<1> SUFFICES ASSUME SpecInit PROVE PipeInv
  OBVIOUS
<1>1. \A s \in 0 .. LastStep : progress[s] = {}
  BY DEF SpecInit
<1>2. 0 \in 0 .. LastStep /\ ~(\E s \in 0 .. LastStep : s < 0)
  BY DEF LastStep
<1>3. PipeKinds
  BY <1>2 DEF SpecInit, PipeKinds, BeforeEnd, GraphsMade, NoGraph
<1> QED BY <1>1, <1>2, <1>3 DEF SpecInit, PipeInv, StepsAhead, StepEnds, Made

LEMMA PipeInvRests ==
  /\ specAt = "crashed" /\ step = 0 /\ artifacts = {} /\ built = NoGraph
  /\ progress = [s \in 0 .. LastStep |-> {}]
  /\ loom = "running_spec" /\ flow = "spec" /\ diskFailed = FALSE
  => PipeInv
<1> SUFFICES ASSUME /\ specAt = "crashed" /\ step = 0 /\ artifacts = {} /\ built = NoGraph
                    /\ progress = [s \in 0 .. LastStep |-> {}]
                    /\ loom = "running_spec" /\ flow = "spec" /\ diskFailed = FALSE
             PROVE  PipeInv
  OBVIOUS
<1>1. \A s \in 0 .. LastStep : progress[s] = {}
  OBVIOUS
<1>2. 0 \in 0 .. LastStep /\ ~(\E s \in 0 .. LastStep : s < 0)
  BY DEF LastStep
<1>3. PipeKinds
  BY <1>2 DEF PipeKinds, BeforeEnd, GraphsMade, NoGraph, SpecEnded
<1> QED BY <1>1, <1>2, <1>3 DEF PipeInv, StepsAhead, StepEnds, Made, BeforeEnd

\* The next await, without an event: this step is where it was.
LEMMA AwaitNext ==
  ASSUME PipeInv, UNCHANGED <<step, progress, artifacts, built>>,
         specAt' \in {"asking", "rerunning", "writing", "failing", "crashed", "failed", "built"},
         specAt' \in {"asking", "rerunning", "writing"} => step < LastStep /\ specAt \in BeforeEnd,
         specAt' = "failing" => diskFailed',
         loom' \in {"created", "running_spec", "idle"}, diskFailed' \in BOOLEAN, diskFailed => diskFailed',
         specAt \notin SpecEnded,
         flow' # flow => specAt' \in SpecEnded,
         flow' \in {"spec", "building", "failed"},
         flow' = "failed" /\ flow # "failed" => diskFailed' \/ specAt = "failing",
         flow' = "building" => specAt = "finishing"
  PROVE  PipeInv'
<1> USE DEF PipeInv
<1>1. PipeKinds'
  BY DEF PipeKinds, BeforeEnd, SpecEnded
<1>2. StepsAhead'
  BY DEF StepsAhead, PipeKinds
<1>3. StepEnds'
  BY DEF StepEnds, BeforeEnd, PipeKinds, Made
<1>4. Made'
  BY DEF Made, SpecEnded
<1> QED BY <1>1, <1>2, <1>3, <1>4

LEMMA PipeInvStep == PipeInv /\ [SpecNext]_specVars => PipeInv'
<1> SUFFICES ASSUME PipeInv, [SpecNext]_specVars PROVE PipeInv'
  OBVIOUS
<1>0. /\ PipeKinds /\ StepsAhead /\ StepEnds /\ Made
      /\ \A s \in 0 .. LastStep : progress[s] \in SUBSET {"started", "completed", "error"}
      /\ \A s \in 0 .. LastStep : s \in Nat /\ (s # LastStep => s + 1 \in 0 .. LastStep)
      /\ 0 \in 0 .. LastStep
  BY DEF PipeInv, PipeKinds, LastStep
<1>1. CASE PipelineStarts
  <2>1. /\ specAt = "starting" /\ specAt' = "generating" /\ flowUnchanged
        /\ UNCHANGED <<step, artifacts, built>> /\ step = 0
        /\ progress' = [progress EXCEPT ![0] = @ \cup {"started"}]
    BY <1>1, <1>0 DEF PipelineStarts, Emit, StepsAhead
  <2>2. progress' \in [0 .. LastStep -> SUBSET {"started", "completed", "error"}]
    BY <2>1, <1>0 DEF PipeKinds
  <2>3. /\ "completed" \notin progress'[step] /\ "error" \notin progress'[step]
        /\ \A s \in 0 .. LastStep : s # 0 => progress'[s] = progress[s]
    BY <2>1, <1>0 DEF PipeKinds, StepEnds, BeforeEnd
  <2>4. PipeKinds'
    BY <2>1, <2>2, <1>0 DEF PipeKinds, flowUnchanged, BeforeEnd
  <2>5. StepsAhead'
    BY <2>1, <2>3, <1>0 DEF StepsAhead
  <2>6. StepEnds'
    BY <2>1, <2>3, <1>0 DEF StepEnds, flowUnchanged, Made, SpecEnded
  <2>7. Made'
    BY <2>1, <1>0 DEF Made, flowUnchanged, SpecEnded
  <2> QED BY <2>4, <2>5, <2>6, <2>7 DEF PipeInv
<1>2. CASE StartRejects
  BY <1>2, <1>0, AwaitNext DEF StartRejects, PipeKinds, SpecEnded
<1>3. CASE QuestionsRaised
  <2>1. step < LastStep
    BY <1>3 DEF QuestionsRaised, LastStep
  <2> QED BY <1>3, <1>0, <2>1, AwaitNext DEF QuestionsRaised, flowUnchanged, PipeKinds, SpecEnded, BeforeEnd, Made
<1>4. CASE QuestionsAnswered
  BY <1>4, <1>0, AwaitNext DEF QuestionsAnswered, flowUnchanged, PipeKinds, SpecEnded, BeforeEnd, StepEnds, Made
<1>5. CASE TextGenerated
  BY <1>5, <1>0, AwaitNext DEF TextGenerated, flowUnchanged, PipeKinds, SpecEnded, BeforeEnd, Made
<1>6. CASE StepFails
  <2>1. /\ specAt \in {"generating", "rerunning"} /\ specAt' = "failing" /\ flowUnchanged
        /\ UNCHANGED <<step, artifacts, built>>
        /\ progress' = [progress EXCEPT ![step] = @ \cup {"error"}]
    BY <1>6 DEF StepFails, Emit
  <2>2. progress' \in [0 .. LastStep -> SUBSET {"started", "completed", "error"}]
    BY <2>1, <1>0 DEF PipeKinds
  <2>3. /\ "completed" \notin progress'[step] /\ "error" \in progress'[step]
        /\ \A s \in 0 .. LastStep : s # step => progress'[s] = progress[s]
    BY <2>1, <1>0 DEF PipeKinds, StepEnds, BeforeEnd
  <2>4. PipeKinds'
    BY <2>1, <2>2, <1>0 DEF PipeKinds, flowUnchanged
  <2>5. StepsAhead'
    BY <2>1, <2>3, <1>0 DEF StepsAhead, PipeKinds, LastStep
  <2>6. StepEnds'
    BY <2>1, <2>3, <1>0 DEF StepEnds, BeforeEnd
  <2>7. Made'
    BY <2>1, <1>0 DEF Made, flowUnchanged, SpecEnded
  <2> QED BY <2>4, <2>5, <2>6, <2>7 DEF PipeInv
<1>7. CASE ArtifactWritten
  <2>1. /\ specAt = "writing" /\ specAt' = "generating" /\ flowUnchanged /\ UNCHANGED built
        /\ artifacts' = artifacts \cup {step} /\ step' = step + 1
        /\ progress' = [progress EXCEPT ![step] = @ \cup {"completed"},
                                        ![step + 1] = @ \cup {"started"}]
    BY <1>7 DEF ArtifactWritten
  <2>2. step \in 0 .. LastStep - 1 /\ step + 1 \in 0 .. LastStep /\ step # step + 1
    BY <2>1, <1>0 DEF StepEnds, PipeKinds, LastStep
  <2>3. progress[step + 1] = {} /\ "error" \notin progress[step] /\ progress[step] \in SUBSET {"started", "completed", "error"}
    BY <2>1, <2>2, <1>0 DEF StepsAhead, StepEnds, BeforeEnd, LastStep
  <2>4. /\ progress' \in [0 .. LastStep -> SUBSET {"started", "completed", "error"}]
        /\ "completed" \in progress'[step] /\ "error" \notin progress'[step]
        /\ progress'[step + 1] = {"started"}
        /\ \A s \in 0 .. LastStep : s # step /\ s # step + 1 => progress'[s] = progress[s]
    <3>1. progress \in [0 .. LastStep -> SUBSET {"started", "completed", "error"}]
      BY <1>0 DEF PipeKinds
    <3>2. progress' \in [0 .. LastStep -> SUBSET {"started", "completed", "error"}]
      BY <2>1, <2>2, <2>3, <3>1
    <3>3. \A s \in 0 .. LastStep : s # step /\ s # step + 1 => progress'[s] = progress[s]
      BY <2>1, <2>2, <3>1
    <3>4. progress'[step] = progress[step] \cup {"completed"}
      <4>1. step \in 0 .. LastStep /\ step + 1 \in 0 .. LastStep /\ step + 1 # step
        BY <2>2, <1>0 DEF PipeKinds
      <4> QED BY <4>1, <2>1, <3>1
    <3>5. progress'[step + 1] = progress[step + 1] \cup {"started"}
      BY <2>1, <2>2, <3>1
    <3> QED BY <2>3, <3>2, <3>3, <3>4, <3>5
  <2>5. PipeKinds'
    BY <2>1, <2>2, <2>4, <1>0 DEF PipeKinds, flowUnchanged, BeforeEnd
  <2>6. StepsAhead'
    <3>1. ASSUME NEW s \in 0 .. LastStep, s < step + 1
          PROVE  "completed" \in progress'[s] /\ "error" \notin progress'[s] /\ s \in artifacts'
      <4>1. CASE s = step
        BY <4>1, <2>1, <2>4
      <4>2. CASE s # step
        <5>1. s < step
          BY <4>2, <3>1, <2>2 DEF LastStep
        <5> QED BY <5>1, <2>1, <2>4, <1>0, <2>2 DEF StepsAhead, LastStep
      <4> QED BY <4>1, <4>2
    <3>2. ASSUME NEW s \in 0 .. LastStep, s > step + 1 PROVE progress'[s] = {}
      <4>1. s > step /\ s # step /\ s # step + 1
        BY <3>2, <2>2 DEF LastStep
      <4> QED BY <4>1, <2>4, <1>0 DEF StepsAhead
    <3> QED BY <2>1, <3>1, <3>2 DEF StepsAhead
  <2>7. StepEnds'
    BY <2>1, <2>4, <1>0 DEF StepEnds, flowUnchanged, Made, SpecEnded
  <2>8. Made'
    BY <2>1, <1>0 DEF Made, flowUnchanged, SpecEnded
  <2> QED BY <2>5, <2>6, <2>7, <2>8 DEF PipeInv
<1>8. CASE ArtifactRejects
  BY <1>8, <1>0, AwaitNext DEF ArtifactRejects, DiskFails, PipeKinds, SpecEnded, Made
<1>9. CASE GraphBuilt
  <2>1. PICK nodes \in SUBSET SpecIds, edges \in SUBSET (SpecIds \X SpecIds) :
          Accepted([nodes |-> nodes, edges |-> edges]) /\ built' = [nodes |-> nodes, edges |-> edges]
    BY <1>9 DEF GraphBuilt
  <2>2. /\ specAt = "generating" /\ specAt' = "finishing" /\ flowUnchanged /\ step = LastStep
        /\ UNCHANGED <<step, artifacts>>
        /\ progress' = [progress EXCEPT ![step] = @ \cup {"completed"}]
    BY <1>9 DEF GraphBuilt, Emit
  <2>3. built' \in GraphsMade /\ Accepted(built')
    BY <2>1 DEF GraphsMade
  <2>4. progress' \in [0 .. LastStep -> SUBSET {"started", "completed", "error"}]
    BY <2>2, <1>0 DEF PipeKinds
  <2>5. /\ "error" \notin progress'[step]
        /\ \A s \in 0 .. LastStep : s # step => progress'[s] = progress[s]
    BY <2>2, <1>0 DEF PipeKinds, StepEnds, BeforeEnd
  <2>6. PipeKinds'
    BY <2>2, <2>3, <2>4, <1>0 DEF PipeKinds, flowUnchanged
  <2>7. StepsAhead'
    BY <2>2, <2>5, <1>0 DEF StepsAhead, PipeKinds, LastStep
  <2>8. StepEnds'
    BY <2>2, <2>5, <1>0 DEF StepEnds, BeforeEnd, flowUnchanged, Made, SpecEnded
  <2>9. Made'
    BY <2>2, <2>3, <1>0 DEF Made, flowUnchanged, SpecEnded
  <2> QED BY <2>6, <2>7, <2>8, <2>9 DEF PipeInv
<1>10. CASE GenerationReturns
  BY <1>10, <1>0, AwaitNext DEF GenerationReturns, PipeKinds, SpecEnded
<1>11. CASE FinishRejects
  BY <1>11, <1>0, AwaitNext DEF FinishRejects, DiskFails, PipeKinds, SpecEnded, Made
<1>12. CASE GenerationFails
  BY <1>12, <1>0, AwaitNext DEF GenerationFails, PipeKinds, SpecEnded
<1>13. CASE ProgressLogRejects
  BY <1>13, <1>0, AwaitNext DEF ProgressLogRejects, flowUnchanged, PipeKinds, SpecEnded, Made
<1>14. CASE UNCHANGED specVars
  BY <1>14 DEF specVars, PipeInv, PipeKinds, StepsAhead, StepEnds, Made
<1> QED BY <1>1, <1>2, <1>3, <1>4, <1>5, <1>6, <1>7, <1>8, <1>9, <1>10, <1>11, <1>12, <1>13, <1>14
        DEF SpecNext, SpecStep, SpecFault

LEMMA PipeInvImplies == PipeInv => SpecTypeOK /\ ProgressIsTruthful
<1> SUFFICES ASSUME PipeInv PROVE SpecTypeOK /\ ProgressIsTruthful
  OBVIOUS
<1> USE DEF PipeInv
<1>1. SpecTypeOK
  BY DEF PipeKinds, SpecTypeOK, BeforeEnd, SpecEnded, GraphsMade
<1>2. step \in 0 .. LastStep
  BY DEF PipeKinds
<1>3. ASSUME NEW s \in 0 .. LastStep PROVE
        /\ progress[s] # {} => \A t \in 0 .. s - 1 : "completed" \in progress[t]
        /\ "completed" \in progress[s] /\ s < LastStep => s \in artifacts
        /\ ~({"completed", "error"} \subseteq progress[s])
  <2>1. CASE s < step
    <3>1. \A t \in 0 .. s - 1 : t \in 0 .. LastStep /\ t < step
      BY <2>1, <1>2 DEF LastStep
    <3> QED BY <2>1, <3>1 DEF StepsAhead
  <2>2. CASE s = step
    <3>1. \A t \in 0 .. s - 1 : t \in 0 .. LastStep /\ t < step
      BY <2>2, <1>2 DEF LastStep
    <3> QED BY <2>2, <3>1, <1>2 DEF StepsAhead, StepEnds, LastStep
  <2>3. CASE s > step
    BY <2>3 DEF StepsAhead
  <2> QED BY <2>1, <2>2, <2>3, <1>2 DEF LastStep
<1>4. flow = "failed" => diskFailed \/ "error" \in progress[step]
  BY DEF StepEnds
<1> QED BY <1>1, <1>3, <1>4 DEF ProgressIsTruthful

LEMMA AcceptedRuns ==
  ASSUME NEW g \in GraphsMade, Accepted(g)
  PROVE  g.nodes # {} /\ Runnable(g) /\ ~DetectCycles(g)
<1>1. g.nodes \subseteq SpecIds /\ g.edges \subseteq SpecIds \X SpecIds
  BY DEF GraphsMade
<1>2. IsFiniteSet(g.nodes)
  BY <1>1, SpecAssumption, FS_Subset
<1>3. ~HasCycle(g) /\ ~DetectCycles(g)
  BY <1>2, KahnFindsCycles, DfsFindsCycles DEF Accepted
<1>4. g.nodes # {} /\ {e[2] : e \in g.edges} \cup {e[1] : e \in g.edges} \subseteq g.nodes
  BY DEF Accepted, ValidateGraphIntegrity
<1>5. ASSUME NEW e \in g.edges PROVE e \in g.nodes \X g.nodes
  <2>1. e = <<e[1], e[2]>>
    BY <1>1
  <2>2. e[1] \in g.nodes /\ e[2] \in g.nodes
    BY <1>4
  <2> QED BY <2>1, <2>2
<1> QED BY <1>3, <1>4, <1>5 DEF Runnable

LEMMA BuiltRuns == PipeInv => BuiltGraphRuns
BY AcceptedRuns DEF PipeInv, PipeKinds, Made, BuiltGraphRuns

\* Whatever the provider answers, whoever answers its questions and whichever write fails: the
\* events tell what happened, and a graph that was made can be run (spec-engine.ts, loom.ts).
THEOREM PipelineTellsTruth == PipelineSpec => [](SpecTypeOK /\ ProgressIsTruthful /\ BuiltGraphRuns)
<1> QED BY PipeInvInit, PipeInvStep, PipeInvImplies, BuiltRuns, PTL DEF PipelineSpec

-----------------------------------------------------------------------------
(* The chat that edits a graph                                             *)

ChatGraphs == [nodes : SUBSET NodeIds, edges : SUBSET (NodeIds \X NodeIds)]
ChatPlaces == {"none", "classifying", "answering", "applying", "saving", "answered", "error"}

EditKinds ==
  /\ exists \in BOOLEAN /\ failed \in BOOLEAN
  /\ graph \in ChatGraphs /\ disk \in ChatGraphs /\ queued \in ChatGraphs
  /\ skipped \subseteq graph.nodes
  /\ chat \in [Chats -> ChatPlaces]
  /\ change \in [Chats -> Changes]
  /\ chats \in Seq({"user", "assistant"} \X Chats)
  /\ added \subseteq NodeIds /\ removed \subseteq NodeIds
\* A node is removed once, and the id of one that was removed does not come back; what is queued
\* is what the daemon shows.
EditsHold ==
  /\ graph.nodes = added \ removed /\ removed \subseteq added
  /\ ~exists => graph = NoGraph
  /\ queued = graph
  /\ Saving = {} /\ ~failed => disk = graph
EditInv == EditKinds /\ EditsHold

LEMMA GraphIs ==
  ASSUME NEW g \in ChatGraphs PROVE g.nodes \subseteq NodeIds /\ g.edges \subseteq NodeIds \X NodeIds
BY DEF ChatGraphs

LEMMA NoGraphIs == NoGraph \in ChatGraphs /\ NoGraph.nodes = {}
BY DEF NoGraph, ChatGraphs

LEMMA NodeAdded ==
  ASSUME NEW g \in ChatGraphs, NEW n \in NodeIds
  PROVE  AddNode(g, n) \in ChatGraphs /\ AddNode(g, n).nodes = g.nodes \cup {n}
<1>1. g = [nodes |-> g.nodes, edges |-> g.edges]
  BY DEF ChatGraphs
<1>2. AddNode(g, n) = [nodes |-> g.nodes \cup {n}, edges |-> g.edges]
  BY <1>1 DEF AddNode
<1> QED BY <1>2, GraphIs DEF ChatGraphs

LEMMA EdgeTried ==
  ASSUME NEW g \in ChatGraphs, NEW a, NEW b
  PROVE  TryEdge(g, <<a, b>>) \in ChatGraphs /\ TryEdge(g, <<a, b>>).nodes = g.nodes
<1>1. CASE EdgeRefused(g, <<a, b>>)
  BY <1>1 DEF TryEdge
<1>2. CASE ~EdgeRefused(g, <<a, b>>)
  <2>1. {a, b} \subseteq g.nodes
    BY <1>2 DEF EdgeRefused
  <2>2. g = [nodes |-> g.nodes, edges |-> g.edges]
    BY DEF ChatGraphs
  <2>3. TryEdge(g, <<a, b>>) = [nodes |-> g.nodes, edges |-> g.edges \cup {<<a, b>>}]
    BY <1>2, <2>2 DEF TryEdge
  <2> QED BY <2>1, <2>3, GraphIs DEF ChatGraphs
<1> QED BY <1>1, <1>2

LEMMA GraphWired ==
  ASSUME NEW g \in ChatGraphs, NEW n \in NodeIds, NEW after, NEW before
  PROVE  /\ Wired(g, n, after, before) \in ChatGraphs
         /\ Wired(g, n, after, before).nodes = g.nodes \cup {n}
<1> DEFINE g1 == AddNode(g, n)
           g2 == IF after = NoNode THEN g1 ELSE TryEdge(g1, <<after, n>>)
<1>1. g1 \in ChatGraphs /\ g1.nodes = g.nodes \cup {n}
  BY NodeAdded
<1> HIDE DEF g1
<1>2. g2 \in ChatGraphs /\ g2.nodes = g.nodes \cup {n}
  BY <1>1, EdgeTried
<1>3. Wired(g, n, after, before) = (IF before = NoNode THEN g2 ELSE TryEdge(g2, <<n, before>>))
  BY Zenon DEF Wired, g1
<1> HIDE DEF g2
<1> QED BY <1>2, <1>3, EdgeTried

LEMMA NodeRemoved ==
  ASSUME NEW g \in ChatGraphs, NEW n
  PROVE  RemoveNode(g, n) \in ChatGraphs /\ RemoveNode(g, n).nodes = g.nodes \ {n}
BY GraphIs DEF RemoveNode, ChatGraphs

LEMMA ChangeIs ==
  /\ NoChange \in Changes
  /\ \A m \in Changes : m.action = "add_node" => m.after \in Target /\ m.before \in Target
BY DEF Changes, NoChange, Target

LEMMA EditInvInit == ChatInit => EditInv
<1> SUFFICES ASSUME ChatInit PROVE EditInv
  OBVIOUS
<1>1. graph \in ChatGraphs
  BY StartGraphsAssumption DEF ChatInit, ChatGraphs
<1>2. <<>> \in Seq({"user", "assistant"} \X Chats)
  OBVIOUS
<1>3. EditKinds
  BY <1>1, <1>2, ChangeIs, GraphIs DEF ChatInit, EditKinds, ChatPlaces
<1> QED BY <1>1, <1>3 DEF ChatInit, EditInv, EditsHold

LEMMA EditInvRests ==
  /\ exists = FALSE /\ graph = NoGraph /\ disk = NoGraph /\ queued = NoGraph
  /\ skipped = {} /\ chats = <<>> /\ failed = FALSE /\ added = {} /\ removed = {}
  /\ chat = [c \in Chats |-> "none"] /\ change = [c \in Chats |-> NoChange]
  => EditInv
<1>2. <<>> \in Seq({"user", "assistant"} \X Chats)
  OBVIOUS
<1> QED BY <1>2, NoGraphIs, ChangeIs DEF EditInv, EditKinds, ChatPlaces, EditsHold

\* A modification: a node joins or leaves the graph and the history alike.
LEMMA GraphEdited ==
  ASSUME EditInv, NEW m \in Changes, Applied(m)
  PROVE  /\ exists' \in BOOLEAN /\ graph' \in ChatGraphs /\ skipped' \subseteq graph'.nodes
         /\ added' \subseteq NodeIds /\ removed' \subseteq NodeIds
         /\ graph'.nodes = added' \ removed' /\ removed' \subseteq added'
         /\ ~exists' => graph' = NoGraph
<1> USE DEF EditInv, EditKinds, EditsHold
<1>1. CASE /\ m.action = "add_node"
           /\ \E n \in NodeIds \ (added \cup {m.after, m.before}) :
                /\ graph' = IF exists THEN Wired(Current, n, m.after, m.before)
                            ELSE AddNode(NoGraph, n)
                /\ added' = added \cup {n}
           /\ exists' = TRUE
           /\ UNCHANGED <<skipped, removed>>
  <2>1. PICK n \in NodeIds \ added : /\ graph' = (IF exists THEN Wired(graph, n, m.after, m.before)
                                               ELSE AddNode(NoGraph, n))
                                  /\ added' = added \cup {n}
    BY <1>1 DEF Current
  <2>2. graph' \in ChatGraphs /\ graph'.nodes = graph.nodes \cup {n}
    BY <2>1, GraphWired, NodeAdded, NoGraphIs
  <2> QED BY <1>1, <2>1, <2>2
<1>2. CASE UNCHANGED memVars
  BY <1>2 DEF memVars
<1>3. CASE /\ m.action = "remove_node" /\ m.node \in graph.nodes
           /\ graph' = RemoveNode(graph, m.node)
           /\ skipped' = skipped \ {m.node}
           /\ removed' = removed \cup {m.node}
           /\ UNCHANGED <<exists, added>>
  <2>1. graph' \in ChatGraphs /\ graph'.nodes = graph.nodes \ {m.node}
    BY <1>3, NodeRemoved
  <2>2. exists
    BY <1>3, NoGraphIs
  <2> QED BY <1>3, <2>1, <2>2, GraphIs
<1>4. CASE /\ m.action = "skip_node" /\ m.node \in graph.nodes
           /\ skipped' = skipped \cup {m.node}
           /\ UNCHANGED <<exists, graph, added, removed>>
  BY <1>4
<1> QED BY <1>1, <1>2, <1>3, <1>4 DEF Applied

\* The request and the history of the conversation.
LEMMA ChatKinds ==
  ASSUME EditKinds, NEW c \in Chats,
         NEW to \in ChatPlaces, NEW m \in Changes, NEW who \in {"user", "assistant"}
  PROVE  /\ [chat EXCEPT ![c] = to] \in [Chats -> ChatPlaces]
         /\ [change EXCEPT ![c] = m] \in [Chats -> Changes]
         /\ Append(chats, <<who, c>>) \in Seq({"user", "assistant"} \X Chats)
<1>1. Append(chats, <<who, c>>) \in Seq({"user", "assistant"} \X Chats)
  BY DEF EditKinds
<1> QED BY <1>1 DEF EditKinds

LEMMA EditInvStep == EditInv /\ [ChatNext]_chatVars => EditInv'
<1> SUFFICES ASSUME EditInv, [ChatNext]_chatVars PROVE EditInv'
  OBVIOUS
<1> USE DEF EditInv
<1>0. NoChange \in Changes /\ EditKinds
  BY ChangeIs
<1>1. ASSUME NEW c \in Chats, ChatAsked(c) PROVE EditInv'
  <2>1. Saving' = Saving
    BY <1>1, <1>0 DEF ChatAsked, Saving, EditKinds
  <2>2. UNCHANGED <<exists, graph, skipped, added, removed, disk, queued, failed, change>>
    BY <1>1 DEF ChatAsked, memVars, diskVars
  <2>3. chat' \in [Chats -> ChatPlaces] /\ chats' \in Seq({"user", "assistant"} \X Chats)
    BY <1>1, <1>0, ChatKinds DEF ChatAsked, ChatPlaces
  <2> QED BY <2>1, <2>2, <2>3 DEF EditKinds, EditsHold
<1>2. ASSUME NEW c \in Chats, Classified(c) PROVE EditInv'
  <2>1. Saving' = Saving
    BY <1>2, <1>0 DEF Classified, Saving, EditKinds
  <2>2. UNCHANGED <<exists, graph, skipped, added, removed, disk, queued, failed, change, chats>>
    BY <1>2 DEF Classified, memVars, diskVars
  <2>3. chat' \in [Chats -> ChatPlaces]
    BY <1>2, <1>0 DEF Classified, ChatPlaces, EditKinds
  <2> QED BY <2>1, <2>2, <2>3 DEF EditKinds, EditsHold
<1>3. ASSUME NEW c \in Chats, Answered(c) PROVE EditInv'
  <2>1. Saving' = Saving
    BY <1>3, <1>0 DEF Answered, Saving, EditKinds
  <2>2. UNCHANGED <<exists, graph, skipped, added, removed, disk, queued, failed, chats>>
    BY <1>3 DEF Answered, memVars, diskVars
  <2>3. chat' \in [Chats -> ChatPlaces] /\ change' \in [Chats -> Changes]
    BY <1>3, <1>0 DEF Answered, ChatPlaces, EditKinds
  <2> QED BY <2>1, <2>2, <2>3 DEF EditKinds, EditsHold
<1>4. ASSUME NEW c \in Chats, Replied(c) PROVE EditInv'
  <2>1. /\ chats' \in Seq({"user", "assistant"} \X Chats) /\ change' \in [Chats -> Changes]
        /\ UNCHANGED <<disk, failed>> /\ chat[c] = "applying"
    <3>1. "saving" \in ChatPlaces
      BY DEF ChatPlaces
    <3> QED BY <1>4, <1>0, <3>1, ChatKinds DEF Replied
  <2>2. CASE Applicable(change[c])
    <3>1. Applied(change[c]) /\ queued' = graph' /\ chat' = [chat EXCEPT ![c] = "saving"]
      BY <1>4, <2>2 DEF Replied, Persisted
    <3>2. change[c] \in Changes
      BY DEF EditKinds
    <3>3. chat' \in [Chats -> ChatPlaces] /\ c \in Saving'
      BY <3>1 DEF EditKinds, ChatPlaces, Saving
    <3> QED BY <2>1, <3>1, <3>2, <3>3, GraphEdited DEF EditKinds, EditsHold
  <2>3. CASE ~Applicable(change[c])
    <3>1. /\ UNCHANGED <<exists, graph, skipped, added, removed, queued>>
          /\ chat' = [chat EXCEPT ![c] = "answered"]
      BY <1>4, <2>3 DEF Replied, memVars
    <3>2. Saving' = Saving /\ chat' \in [Chats -> ChatPlaces]
      BY <3>1, <2>1 DEF Saving, EditKinds, ChatPlaces
    <3> QED BY <2>1, <3>1, <3>2 DEF EditKinds, EditsHold
  <2> QED BY <2>2, <2>3
<1>5. ASSUME GraphSaved PROVE EditInv'
  <2>1. /\ UNCHANGED <<exists, graph, skipped, added, removed, queued, failed, change, chats>>
        /\ disk' = queued
    BY <1>5 DEF GraphSaved, memVars
  <2>2. chat' \in [Chats -> ChatPlaces]
    BY <1>5 DEF GraphSaved, EditKinds, ChatPlaces
  <2> QED BY <2>1, <2>2 DEF EditKinds, EditsHold
<1>6. ASSUME GraphNotSaved PROVE EditInv'
  <2>1. /\ UNCHANGED <<exists, graph, skipped, added, removed, queued, disk, change, chats>>
        /\ failed' = TRUE
    BY <1>6 DEF GraphNotSaved, memVars
  <2>2. chat' \in [Chats -> ChatPlaces]
    BY <1>6 DEF GraphNotSaved, EditKinds, ChatPlaces
  <2> QED BY <2>1, <2>2 DEF EditKinds, EditsHold
<1>7. CASE UNCHANGED chatVars
  <2>1. Saving' = Saving
    BY <1>7 DEF chatVars, Saving
  <2> QED BY <1>7, <2>1 DEF chatVars, EditKinds, EditsHold
<1> QED BY <1>1, <1>2, <1>3, <1>4, <1>5, <1>6, <1>7 DEF ChatNext, ChatStep

LEMMA EditInvImplies == EditInv => ChatTypeOK /\ EditsAreKept
<1> SUFFICES ASSUME EditInv PROVE ChatTypeOK /\ EditsAreKept
  OBVIOUS
<1>1. \A g \in ChatGraphs : g.nodes \subseteq NodeIds /\ g.edges \subseteq NodeIds \X NodeIds
  BY GraphIs
<1>2. Range(chats) \subseteq {"user", "assistant"} \X Chats
  BY DEF EditInv, EditKinds, Range
<1>3. ChatTypeOK
  BY <1>1, <1>2 DEF EditInv, EditKinds, ChatTypeOK, ChatPlaces
<1> QED BY <1>3 DEF EditInv, EditsHold, EditsAreKept

LEMMA ChatGraphIsFinite == ASSUME NEW g \in ChatGraphs PROVE IsFiniteSet(g.nodes)
BY GraphIs, NodeIdsAssumption, FS_Subset

LEMMA NodeAddedRuns ==
  ASSUME NEW g \in ChatGraphs, Runnable(g), NEW n, n \notin g.nodes PROVE Runnable(AddNode(g, n))
<1>1. g = [nodes |-> g.nodes, edges |-> g.edges]
  BY DEF ChatGraphs
<1> DEFINE h == AddNode(g, n)
<1>2. h.nodes = g.nodes \cup {n} /\ h.edges = g.edges
  BY <1>1 DEF AddNode
<1> HIDE DEF h
<1>3. SUFFICES ASSUME NEW S \in (SUBSET h.nodes) \ {{}}, \A m \in S : Predecessors(h, m) \cap S # {}
               PROVE  FALSE
  BY <1>2 DEF Runnable, HasCycle, h
<1>4. \A m \in h.nodes : Predecessors(h, m) = {k \in h.nodes : <<k, m>> \in g.edges}
  BY <1>2 DEF Predecessors
<1>5. g.edges \subseteq g.nodes \X g.nodes
  BY DEF Runnable
<1>6. \A m \in S : \E k \in S : <<k, m>> \in g.edges
  BY <1>3, <1>4
<1>7. S \subseteq g.nodes
  BY <1>2, <1>5, <1>6
<1>8. \A m \in S : Predecessors(g, m) \cap S # {}
  BY <1>6, <1>7 DEF Predecessors
<1> QED BY <1>7, <1>8 DEF Runnable, HasCycle

LEMMA NodeRemovedRuns ==
  ASSUME NEW g \in ChatGraphs, Runnable(g), NEW n PROVE Runnable(RemoveNode(g, n))
<1> DEFINE h == RemoveNode(g, n)
<1>1. h.nodes = g.nodes \ {n} /\ h.edges = {e \in g.edges : e[1] # n /\ e[2] # n}
  BY DEF RemoveNode
<1> HIDE DEF h
<1>2. h.edges \subseteq h.nodes \X h.nodes
  BY <1>1 DEF Runnable
<1>3. SUFFICES ASSUME NEW S \in (SUBSET h.nodes) \ {{}}, \A m \in S : Predecessors(h, m) \cap S # {}
               PROVE  FALSE
  BY <1>2 DEF Runnable, HasCycle, h
<1>4. \A m \in S : \E k \in S : <<k, m>> \in g.edges
  BY <1>1, <1>3 DEF Predecessors
<1>5. S \subseteq g.nodes
  BY <1>1
<1>6. \A m \in S : Predecessors(g, m) \cap S # {}
  BY <1>4, <1>5 DEF Predecessors
<1> QED BY <1>5, <1>6 DEF Runnable, HasCycle

LEMMA EdgeTriedRuns ==
  ASSUME NEW g \in ChatGraphs, Runnable(g), NEW a, NEW b
  PROVE  Runnable(TryEdge(g, <<a, b>>))
<1>1. CASE EdgeRefused(g, <<a, b>>)
  BY <1>1 DEF TryEdge
<1>2. CASE ~EdgeRefused(g, <<a, b>>)
  <2> DEFINE h == [g EXCEPT !.edges = @ \cup {<<a, b>>}]
  <2>1. h = TryEdge(g, <<a, b>>)
    BY <1>2 DEF TryEdge
  <2>2. {a, b} \subseteq g.nodes /\ ~DetectCycles(h)
    BY <1>2 DEF EdgeRefused
  <2>3. g = [nodes |-> g.nodes, edges |-> g.edges]
    BY DEF ChatGraphs
  <2>4. h.nodes = g.nodes /\ h.edges = g.edges \cup {<<a, b>>}
    BY <2>3
  <2>5. h \in ChatGraphs
    BY <2>1, EdgeTried
  <2> HIDE DEF h
  <2>6. ~HasCycle(h)
    BY <2>2, <2>5, ChatGraphIsFinite, DfsFindsCycles
  <2>7. h.edges \subseteq h.nodes \X h.nodes
    BY <2>2, <2>4 DEF Runnable
  <2> QED BY <2>1, <2>6, <2>7 DEF Runnable
<1> QED BY <1>1, <1>2

LEMMA GraphWiredRuns ==
  ASSUME NEW g \in ChatGraphs, Runnable(g),
         NEW n \in NodeIds, n \notin g.nodes, NEW after, NEW before
  PROVE  Runnable(Wired(g, n, after, before))
<1> DEFINE g1 == AddNode(g, n)
           g2 == IF after = NoNode THEN g1 ELSE TryEdge(g1, <<after, n>>)
<1>1. g1 \in ChatGraphs /\ Runnable(g1)
  BY NodeAdded, NodeAddedRuns
<1> HIDE DEF g1
<1>2. g2 \in ChatGraphs /\ Runnable(g2)
  BY <1>1, EdgeTried, EdgeTriedRuns
<1>3. Wired(g, n, after, before) = (IF before = NoNode THEN g2 ELSE TryEdge(g2, <<n, before>>))
  BY Zenon DEF Wired, g1
<1> HIDE DEF g2
<1> QED BY <1>2, <1>3, EdgeTriedRuns

LEMMA NoGraphRuns == Runnable(NoGraph)
<1>1. NoGraph.nodes = {} /\ NoGraph.edges = {}
  BY DEF NoGraph
<1>2. (SUBSET NoGraph.nodes) \ {{}} = {}
  BY <1>1
<1>3. ~HasCycle(NoGraph)
  BY <1>2, Zenon DEF HasCycle
<1>4. NoGraph.edges \subseteq NoGraph.nodes \X NoGraph.nodes
  BY <1>1
<1> QED BY <1>3, <1>4 DEF Runnable

LEMMA GraphRuns ==
  ASSUME EditInv, Runnable(graph), [ChatNext]_chatVars PROVE Runnable(graph')
<1>1. ASSUME NEW m \in Changes, Applied(m) PROVE Runnable(graph')
  <2>1. CASE /\ \E n \in NodeIds \ (added \cup {m.after, m.before}) :
                  /\ graph' = IF exists THEN Wired(Current, n, m.after, m.before)
                              ELSE AddNode(NoGraph, n)
    <3>1. PICK n \in NodeIds \ added : graph' = (IF exists THEN Wired(graph, n, m.after, m.before)
                                                 ELSE AddNode(NoGraph, n))
      BY <2>1 DEF Current
    <3>2. graph \in ChatGraphs /\ n \notin graph.nodes
      BY DEF EditInv, EditKinds, EditsHold
    <3>3. Runnable(AddNode(NoGraph, n))
      BY NoGraphIs, NoGraphRuns, NodeAddedRuns
    <3>4. Runnable(Wired(graph, n, m.after, m.before))
      BY <3>2, GraphWiredRuns
    <3> QED BY <3>1, <3>3, <3>4
  <2>2. CASE graph' = RemoveNode(graph, m.node)
    BY <2>2, NodeRemovedRuns DEF EditInv, EditKinds
  <2>3. CASE UNCHANGED graph
    BY <2>3
  <2> QED BY <1>1, <2>1, <2>2, <2>3 DEF Applied, memVars
<1>2. ASSUME NEW c \in Chats, Replied(c) PROVE Runnable(graph')
  <2>1. CASE Applicable(change[c])
    BY <1>1, <1>2, <2>1 DEF Replied, EditInv, EditKinds
  <2>2. CASE ~Applicable(change[c])
    BY <1>2, <2>2 DEF Replied, memVars
  <2> QED BY <2>1, <2>2
<1>3. CASE UNCHANGED graph
  BY <1>3
<1> QED BY <1>2, <1>3 DEF ChatNext, ChatStep, ChatAsked, Classified, Answered, GraphSaved,
                        GraphNotSaved, memVars, chatVars

LEMMA StartRuns == ChatInit => Runnable(graph)
BY StartGraphsAssumption DEF ChatInit

\* However requests interleave, whatever they ask for, and whichever write fails: nobody's edit undoes
\* another's, what is shown is what was saved, and the graph can be run (chat.ts, loom.ts, graph.ts).
THEOREM ChatKeepsGraph == ChatSpec => [](ChatTypeOK /\ EditsAreKept /\ EditedGraphRuns)
<1>1. EditInv /\ Runnable(graph) /\ [ChatNext]_chatVars => (EditInv /\ Runnable(graph))'
  BY EditInvStep, GraphRuns
<1>2. EditInv /\ Runnable(graph) => ChatTypeOK /\ EditsAreKept /\ EditedGraphRuns
  BY EditInvImplies DEF EditedGraphRuns
<1> QED BY <1>1, <1>2, EditInvInit, StartRuns, PTL DEF ChatSpec

-----------------------------------------------------------------------------
(* The processes of daemon and CLI                                         *)

\* Daemons that come up, and those the file is to lead to.
ComingUp == {p \in Alive : daemon[p].up \in {"booting", "bound"}}
ServingDaemons == {p \in Alive : daemon[p].up = "written" /\ daemon[p].stop # "removed"}

\* Nobody is told to stop who has not come up.
StoppedAreUp ==
  /\ \A p \in Pids : daemon[p].up # "writing" /\ (daemon[p].stop # "no" => daemon[p].up = "written")
  /\ \A c \in Clis : cli[c].at = "killing" => cli[c].pid \in Pids /\ daemon[cli[c].pid].up = "written"

\* The file leads to the daemon that serves, if one does.
FileLeadsToServing == ServingDaemons = {file} \ {NoFile}

\* The lock is held by the command that looks again or waits for the daemon it has spawned.
HolderWaits == \A c \in Clis : cli[c].at \in {"rechecking", "waiting"} <=> holder = c

\* A daemon comes up while the one who spawned it waits, alone, and with no file yet.
OneComes ==
  ComingUp # {} => /\ \E p \in Pids : ComingUp = {p}
                 /\ \E c \in Clis : cli[c].at = "waiting"
                 /\ file = NoFile

\* RunningMeansStarted, with a process.
OkAreUp ==
  \A c \in Clis : cli[c].answer = "ok" => cli[c].pid \in Pids /\ daemon[cli[c].pid].up = "written"

CtlInv == CtlTypeOK /\ StoppedAreUp /\ FileLeadsToServing /\ HolderWaits /\ OneComes
          /\ OkAreUp

LEMMA CtlInvInit == CtlInit => CtlInv
<1> SUFFICES ASSUME CtlInit PROVE CtlInv
  OBVIOUS
<1>1. Alive = {}
  BY DEF CtlInit, Alive, Unborn
<1>2. CtlTypeOK
  BY PidsAssumption DEF CtlInit, CtlTypeOK, Unborn, AtPrompt, Answers
<1>3. ComingUp = {} /\ ServingDaemons = {} /\ {file} \ {NoFile} = {}
  BY <1>1 DEF ComingUp, ServingDaemons, CtlInit
<1> QED BY <1>2, <1>3, PidsAssumption DEF CtlInit, CtlInv, StoppedAreUp, FileLeadsToServing, HolderWaits, OneComes,
           OkAreUp, Unborn, AtPrompt

Process == [up : {"none", "booting", "bound", "writing", "written"},
            stop : {"no", "asked", "closed", "removed"}, alive : BOOLEAN]

IsComing(r) == r.alive /\ r.up \in {"booting", "bound"}
IsServing(r) == r.alive /\ r.up = "written" /\ r.stop # "removed"

\* One process moves, with the file.
LEMMA ProcessMoves ==
  ASSUME CtlInv, UNCHANGED <<holder, cli, commands>>, NEW p \in Pids, NEW r \in Process,
         daemon' = [daemon EXCEPT ![p] = r], r.up # "writing", r.stop # "no" => r.up = "written",
         daemon[p].up = "written" => r.up = "written",
         \/ /\ file' = file
            /\ IsComing(r) <=> IsComing(daemon[p])
            /\ IsServing(r) <=> IsServing(daemon[p])
         \/ /\ file' = file /\ ~IsComing(r) /\ IsComing(daemon[p]) /\ ~IsServing(r)
         \/ /\ IsComing(daemon[p]) /\ file' = p /\ ~IsComing(r) /\ IsServing(r)
         \/ /\ IsServing(daemon[p]) /\ file' = NoFile /\ ~IsComing(r) /\ ~IsServing(r)
  PROVE  CtlInv'
<1> USE DEF CtlInv
<1>1. CtlTypeOK'
  BY DEF CtlTypeOK, Process
<1>2. daemon'[p] = r /\ \A q \in Pids \ {p} : daemon'[q] = daemon[q]
  BY DEF CtlTypeOK
<1>3. ComingUp = {q \in Pids : IsComing(daemon[q])} /\ ComingUp' = {q \in Pids : IsComing(daemon'[q])}
  BY DEF ComingUp, Alive, IsComing
<1>4. ServingDaemons = {q \in Pids : IsServing(daemon[q])} /\ ServingDaemons' = {q \in Pids : IsServing(daemon'[q])}
  BY DEF ServingDaemons, Alive, IsServing
<1>5. ComingUp' = (ComingUp \ {p}) \cup (IF IsComing(r) THEN {p} ELSE {})
  BY <1>2, <1>3
<1>6. ServingDaemons' = (ServingDaemons \ {p}) \cup (IF IsServing(r) THEN {p} ELSE {})
  BY <1>2, <1>4
<1>7. StoppedAreUp'
  BY <1>2 DEF StoppedAreUp
<1>8. OkAreUp' /\ HolderWaits'
  BY <1>2, PidsAssumption DEF OkAreUp, HolderWaits, CtlTypeOK
<1>9. FileLeadsToServing' /\ OneComes'
  <2>1. CASE file' = file /\ (IsComing(r) <=> IsComing(daemon[p])) /\ (IsServing(r) <=> IsServing(daemon[p]))
    <3>1. ComingUp' = ComingUp /\ ServingDaemons' = ServingDaemons
      BY <1>3, <1>4, <1>5, <1>6, <2>1
    <3> QED BY <2>1, <3>1 DEF FileLeadsToServing, OneComes
  <2>2. CASE file' = file /\ ~IsComing(r) /\ IsComing(daemon[p]) /\ ~IsServing(r)
    <3>1. ComingUp' = {} /\ ServingDaemons' = ServingDaemons
      BY <1>3, <1>4, <1>5, <1>6, <2>2 DEF OneComes, IsComing, IsServing
    <3> QED BY <2>2, <3>1 DEF FileLeadsToServing, OneComes
  <2>3. CASE IsComing(daemon[p]) /\ file' = p /\ ~IsComing(r) /\ IsServing(r)
    <3>1. ComingUp' = {} /\ ServingDaemons' = {p} /\ p # NoFile
      BY <1>3, <1>4, <1>5, <1>6, <2>3, PidsAssumption DEF OneComes, FileLeadsToServing
    <3> QED BY <2>3, <3>1 DEF FileLeadsToServing, OneComes
  <2>4. CASE IsServing(daemon[p]) /\ file' = NoFile /\ ~IsComing(r) /\ ~IsServing(r)
    <3>1. p \in ServingDaemons /\ p \notin ComingUp
      BY <1>3, <1>4, <2>4 DEF IsComing, IsServing
    <3>2. ComingUp' = ComingUp /\ ServingDaemons' = {}
      BY <1>5, <1>6, <2>4, <3>1 DEF FileLeadsToServing
    <3> QED BY <2>4, <3>2 DEF FileLeadsToServing, OneComes
  <2> QED BY <2>1, <2>2, <2>3, <2>4
<1> QED BY <1>1, <1>7, <1>8, <1>9

LEMMA ProcessesAre ==
  ASSUME CtlTypeOK, NEW p \in Pids
  PROVE  /\ daemon[p] \in Process
         /\ \A u \in {"none", "booting", "bound", "written"} : [daemon[p] EXCEPT !.up = u] \in Process
         /\ \A s \in {"no", "asked", "closed", "removed"} : [daemon[p] EXCEPT !.stop = s] \in Process
         /\ [daemon[p] EXCEPT !.alive = FALSE] \in Process
BY DEF CtlTypeOK, Process

LEMMA CtlInvOfDaemon ==
  ASSUME ~Untimely, CtlInv, NEW p \in Pids, DaemonStep(p) \/ StartFails(p)
  PROVE  CtlInv'
<1>1. UNCHANGED <<holder, cli, commands>> /\ daemon[p].alive
  BY DEF DaemonStep, StartFails, Listens, WritesFile, ClosesServer, RemovesFile, Exits, daemonOnly
<1> DEFINE r0 == daemon[p]
<1>2. r0 \in Process /\ r0.alive
  BY <1>1, ProcessesAre DEF CtlInv
<1>3. r0.up # "writing" /\ (r0.stop # "no" => r0.up = "written")
  BY DEF CtlInv, StoppedAreUp
<1>4. ASSUME r0.up \in {"booting", "bound"}, Dies(p), file' = file PROVE CtlInv'
  <2>1. daemon' = [daemon EXCEPT ![p] = [r0 EXCEPT !.alive = FALSE]]
    BY <1>4 DEF Dies
  <2> HIDE DEF r0
  <2>2. IsComing(r0) /\ ~IsComing([r0 EXCEPT !.alive = FALSE]) /\ ~IsServing([r0 EXCEPT !.alive = FALSE])
        /\ [r0 EXCEPT !.alive = FALSE] \in Process
        /\ [r0 EXCEPT !.alive = FALSE].up = r0.up /\ [r0 EXCEPT !.alive = FALSE].stop = r0.stop
    BY <1>2, <1>4 DEF IsComing, IsServing, Process
  <2>3. r0 = daemon[p]
    BY DEF r0
  <2> DEFINE r == [r0 EXCEPT !.alive = FALSE]
  <2> HIDE DEF r
  <2>4. r \in Process /\ r.up = r0.up /\ r.stop = r0.stop /\ ~IsComing(r) /\ ~IsServing(r) /\ daemon' = [daemon EXCEPT ![p] = r]
    BY <2>1, <2>2 DEF r
  <2> QED BY <1>1, <1>3, <1>4, <2>2, <2>3, <2>4, ProcessMoves
<1>5. ASSUME NEW r \in Process, daemon' = [daemon EXCEPT ![p] = r], r.alive, r.stop = r0.stop,
             \/ r0.up = "booting" /\ r.up = "bound" /\ file' = file
             \/ r0.up = "bound" /\ r.up = "written" /\ file' = p
      PROVE CtlInv'
  <2>1. CASE r0.up = "booting" /\ r.up = "bound" /\ file' = file
    <3>1. IsComing(r0) /\ IsComing(r) /\ ~IsServing(r0) /\ ~IsServing(r)
      BY <1>2, <1>5, <2>1 DEF IsComing, IsServing
    <3> QED BY <1>1, <1>3, <1>5, <2>1, <3>1, ProcessMoves
  <2>2. CASE r0.up = "bound" /\ r.up = "written" /\ file' = p
    <3>1. IsComing(r0) /\ ~IsComing(r) /\ IsServing(r)
      BY <1>2, <1>3, <1>5, <2>2 DEF IsComing, IsServing
    <3> QED BY <1>1, <1>3, <1>5, <2>2, <3>1, ProcessMoves
  <2> QED BY <1>5, <2>1, <2>2
<1>6. ASSUME NEW r \in Process, daemon' = [daemon EXCEPT ![p] = r], r.up = r0.up, r0.stop # "no",
             \/ r0.stop = "asked" /\ r.stop = "closed" /\ file' = file /\ r.alive
             \/ r0.stop = "closed" /\ r.stop = "removed" /\ file' = NoFile /\ r.alive
             \/ r0.stop = "removed" /\ r.stop = "removed" /\ file' = file /\ ~r.alive
      PROVE CtlInv'
  <2>1. r0.up = "written" /\ ~IsComing(r0) /\ ~IsComing(r)
    BY <1>3, <1>6 DEF IsComing
  <2>2. CASE r0.stop = "asked" /\ r.stop = "closed" /\ file' = file /\ r.alive
    <3>1. IsServing(r0) /\ IsServing(r)
      BY <1>2, <1>6, <2>1, <2>2 DEF IsServing
    <3> QED BY <1>1, <1>3, <1>6, <2>1, <2>2, <3>1, ProcessMoves
  <2>3. CASE r0.stop = "closed" /\ r.stop = "removed" /\ file' = NoFile /\ r.alive
    <3>1. IsServing(r0) /\ ~IsServing(r)
      BY <1>2, <1>6, <2>1, <2>3 DEF IsServing
    <3> QED BY <1>1, <1>3, <1>6, <2>1, <2>3, <3>1, ProcessMoves
  <2>4. CASE r0.stop = "removed" /\ r.stop = "removed" /\ file' = file /\ ~r.alive
    <3>1. ~IsServing(r0) /\ ~IsServing(r)
      BY <2>4 DEF IsServing
    <3> QED BY <1>1, <1>3, <1>6, <2>1, <2>4, <3>1, ProcessMoves
  <2> QED BY <1>6, <2>2, <2>3, <2>4
<1>7. CASE Listens(p)
  <2>1. CASE daemon' = [daemon EXCEPT ![p].up = "bound"]
    <3>1. daemon' = [daemon EXCEPT ![p] = [r0 EXCEPT !.up = "bound"]] /\ r0.up = "booting" /\ file' = file
      BY <1>7, <2>1 DEF Listens
    <3>2. [r0 EXCEPT !.up = "bound"] \in Process /\ [r0 EXCEPT !.up = "bound"].alive
          /\ [r0 EXCEPT !.up = "bound"].up = "bound" /\ [r0 EXCEPT !.up = "bound"].stop = r0.stop
      BY <1>2 DEF Process
    <3> QED BY <1>5, <3>1, <3>2
  <2> QED BY <1>4, <1>7, <2>1 DEF Listens
<1>8. CASE StartFails(p)
  BY <1>4, <1>8 DEF StartFails
<1>9. CASE WritesFile(p)
  <2>1. daemon' = [daemon EXCEPT ![p] = [r0 EXCEPT !.up = "written"]] /\ r0.up = "bound" /\ file' = p
    BY <1>3, <1>9 DEF WritesFile
  <2>2. [r0 EXCEPT !.up = "written"] \in Process /\ [r0 EXCEPT !.up = "written"].alive
        /\ [r0 EXCEPT !.up = "written"].up = "written" /\ [r0 EXCEPT !.up = "written"].stop = r0.stop
    BY <1>2 DEF Process
  <2> QED BY <1>5, <2>1, <2>2
<1>10. CASE ClosesServer(p)
  <2>1. daemon' = [daemon EXCEPT ![p] = [r0 EXCEPT !.stop = "closed"]] /\ r0.stop = "asked" /\ file' = file
    BY <1>10 DEF ClosesServer
  <2>2. [r0 EXCEPT !.stop = "closed"] \in Process /\ [r0 EXCEPT !.stop = "closed"].alive
        /\ [r0 EXCEPT !.stop = "closed"].up = r0.up /\ [r0 EXCEPT !.stop = "closed"].stop = "closed"
    BY <1>2 DEF Process
  <2> QED BY <1>6, <2>1, <2>2
<1>11. CASE RemovesFile(p)
  <2>1. daemon' = [daemon EXCEPT ![p] = [r0 EXCEPT !.stop = "removed"]] /\ r0.stop = "closed" /\ file' = NoFile
    BY <1>11 DEF RemovesFile
  <2>2. [r0 EXCEPT !.stop = "removed"] \in Process /\ [r0 EXCEPT !.stop = "removed"].alive
        /\ [r0 EXCEPT !.stop = "removed"].up = r0.up /\ [r0 EXCEPT !.stop = "removed"].stop = "removed"
    BY <1>2 DEF Process
  <2> QED BY <1>6, <2>1, <2>2
<1>12. CASE Exits(p)
  <2>1. daemon' = [daemon EXCEPT ![p] = [r0 EXCEPT !.alive = FALSE]] /\ r0.stop = "removed" /\ file' = file
    BY <1>12 DEF Exits, Dies
  <2>2. [r0 EXCEPT !.alive = FALSE] \in Process /\ ~[r0 EXCEPT !.alive = FALSE].alive
        /\ [r0 EXCEPT !.alive = FALSE].up = r0.up /\ [r0 EXCEPT !.alive = FALSE].stop = r0.stop
    BY <1>2 DEF Process
  <2> QED BY <1>6, <2>1, <2>2
<1> QED BY <1>7, <1>8, <1>9, <1>10, <1>11, <1>12 DEF DaemonStep

Places == {"prompt", "checking", "scanning", "locking", "rechecking", "waiting", "verifying",
           "killing", "dying"}

Command == [at : Places, pid : Pids \cup {NoPid}, restart : BOOLEAN, answer : Answers]

LEMMA FileIsFound ==
  ASSUME CtlInv
  PROVE  /\ Found => file \in Pids /\ daemon[file].up = "written"
         /\ ~Found => file = NoFile /\ ServingDaemons = {}
BY PidsAssumption DEF CtlInv, FileLeadsToServing, ServingDaemons, Found, Alive, CtlTypeOK

\* A command goes on, and leaves the daemons where they are.
LEMMA CommandActs ==
  ASSUME CtlInv, file' = file, daemon' \in [Pids -> Process], \A p \in Pids : daemon'[p].up = daemon[p].up,
         \A p \in Pids : daemon'[p].stop # "no" => daemon[p].up = "written",
         ComingUp' = ComingUp, ServingDaemons' = ServingDaemons,
         NEW c \in Clis, NEW r \in Command,
         cli' = [cli EXCEPT ![c] = r], commands' \in 0 .. MaxCommands,
         r.at = "killing" => r.pid \in Pids /\ daemon[r.pid].up = "written",
         r.answer = "ok" => r.pid \in Pids /\ daemon[r.pid].up = "written",
         \/ holder' = holder /\ (cli[c].at \in {"rechecking", "waiting"} <=> r.at \in {"rechecking", "waiting"})
         \/ holder = NoPid /\ holder' = c /\ r.at \in {"rechecking", "waiting"}
         \/ holder = c /\ holder' = NoPid /\ r.at \notin {"rechecking", "waiting"},
         ComingUp = {} \/ cli[c].at # "waiting"
  PROVE  CtlInv'
<1> USE DEF CtlInv
<1>1. CtlTypeOK'
  BY DEF CtlTypeOK, Command, Places, Process
<1>2. cli'[c] = r /\ \A d \in Clis \ {c} : cli'[d] = cli[d]
  BY DEF CtlTypeOK
<1>3. HolderWaits'
  BY <1>2, PidsAssumption DEF HolderWaits
<1>4. StoppedAreUp'
  BY <1>2 DEF StoppedAreUp
<1>5. OneComes' /\ FileLeadsToServing'
  BY <1>2 DEF OneComes, FileLeadsToServing
<1>6. OkAreUp'
  BY <1>2 DEF OkAreUp
<1> QED BY <1>1, <1>3, <1>4, <1>5, <1>6

\* ... and the daemons alone.
LEMMA CommandMoves ==
  ASSUME CtlInv, UNCHANGED <<daemon, file>>, NEW c \in Clis, NEW r \in Command,
         cli' = [cli EXCEPT ![c] = r], commands' \in 0 .. MaxCommands,
         r.at = "killing" => r.pid \in Pids /\ daemon[r.pid].up = "written",
         r.answer = "ok" => r.pid \in Pids /\ daemon[r.pid].up = "written",
         \/ holder' = holder /\ (cli[c].at \in {"rechecking", "waiting"} <=> r.at \in {"rechecking", "waiting"})
         \/ holder = NoPid /\ holder' = c /\ r.at \in {"rechecking", "waiting"}
         \/ holder = c /\ holder' = NoPid /\ r.at \notin {"rechecking", "waiting"},
         ComingUp = {} \/ cli[c].at # "waiting"
  PROVE  CtlInv'
<1>1. daemon' \in [Pids -> Process]
  BY DEF CtlInv, CtlTypeOK, Process
<1>2. ComingUp' = ComingUp /\ ServingDaemons' = ServingDaemons
  BY DEF ComingUp, ServingDaemons, Alive
<1>3. \A p \in Pids : daemon'[p].stop # "no" => daemon[p].up = "written"
  BY DEF CtlInv, StoppedAreUp
<1> QED BY <1>1, <1>2, <1>3, CommandActs

\* Where a step of a command leaves it: at a prompt with an answer, or at its next step.
LEMMA AnswerKeeps ==
  ASSUME CtlInv, UNCHANGED <<daemon, file, commands>>, NEW c \in Clis, NEW reply \in Answers, reply # "ok",
         Answer(c, reply),
         \/ holder' = holder /\ cli[c].at \notin {"rechecking", "waiting"}
         \/ holder = c /\ holder' = NoPid,
         ComingUp = {} \/ cli[c].at # "waiting"
  PROVE  CtlInv'
<1> DEFINE r == [AtPrompt EXCEPT !.answer = reply]
<1>1. r \in Command /\ r.at = "prompt" /\ r.answer # "ok"
  BY DEF CtlInv, CtlTypeOK, Command, AtPrompt, Places
<1>2. cli' = [cli EXCEPT ![c] = r] /\ commands' \in 0 .. MaxCommands
  BY DEF Answer, CtlInv, CtlTypeOK
<1> HIDE DEF r
<1> QED BY <1>1, <1>2, CommandMoves

LEMMA SaidOk ==
  ASSUME CtlInv, UNCHANGED <<daemon, file, commands>>, NEW c \in Clis, OkWith(c), Found,
         holder' = holder /\ cli[c].at \notin {"rechecking", "waiting"}
  PROVE  CtlInv'
<1> DEFINE r == [AtPrompt EXCEPT !.answer = "ok", !.pid = file]
<1>1. r \in Command /\ r.at = "prompt" /\ r.pid = file
  BY FileIsFound DEF Command, AtPrompt, Places, Answers
<1>2. cli' = [cli EXCEPT ![c] = r] /\ commands' \in 0 .. MaxCommands
  BY DEF OkWith, CtlInv, CtlTypeOK
<1> HIDE DEF r
<1> QED BY <1>1, <1>2, CommandMoves, FileIsFound

LEMMA WentOn ==
  ASSUME CtlInv, UNCHANGED <<daemon, file, commands>>, NEW c \in Clis, NEW at \in Places, at # "killing",
         Goes(c, at),
         \/ holder' = holder /\ (cli[c].at \in {"rechecking", "waiting"} <=> at \in {"rechecking", "waiting"})
         \/ holder = NoPid /\ holder' = c /\ at \in {"rechecking", "waiting"}
         \/ holder = c /\ holder' = NoPid /\ at \notin {"rechecking", "waiting"},
         ComingUp = {} \/ cli[c].at # "waiting"
  PROVE  CtlInv'
<1> DEFINE r == [cli[c] EXCEPT !.at = at]
<1>1. r \in Command /\ r.at = at /\ r.pid = cli[c].pid /\ r.answer = cli[c].answer
  BY DEF CtlInv, CtlTypeOK, Command, Places
<1>2. cli' = [cli EXCEPT ![c] = r] /\ commands' \in 0 .. MaxCommands
  BY DEF Goes, CtlInv, CtlTypeOK
<1>3. r.answer = "ok" => r.pid \in Pids /\ daemon[r.pid].up = "written"
  BY <1>1 DEF CtlInv, OkAreUp
<1> HIDE DEF r
<1> QED BY <1>1, <1>2, <1>3, CommandMoves

\* The spawn: nothing else is coming up, since the command holds the lock, and nothing serves.
LEMMA CtlInvOfSpawn ==
  ASSUME CtlInv, NEW c \in Clis, Rechecks(c), ~Found
  PROVE  CtlInv'
<1> USE DEF CtlInv
<1>1. PICK p \in Pids : /\ daemon[p] = Unborn
                        /\ daemon' = [daemon EXCEPT ![p] = [Unborn EXCEPT !.up = "booting", !.alive = TRUE]]
  BY DEF Rechecks
<1>2. cli[c].at = "rechecking" /\ cli' = [cli EXCEPT ![c].at = "waiting"] /\ UNCHANGED <<holder, file, commands>>
  BY DEF Rechecks, Goes
<1>3. holder = c /\ ComingUp = {} /\ file = NoFile /\ ServingDaemons = {}
  BY <1>2, FileIsFound DEF HolderWaits, OneComes
<1>4. /\ daemon'[p] = [up |-> "booting", stop |-> "no", alive |-> TRUE]
      /\ \A q \in Pids \ {p} : daemon'[q] = daemon[q]
  BY <1>1 DEF CtlTypeOK, Unborn
<1>5. ComingUp' = {p} /\ ServingDaemons' = {}
  BY <1>3, <1>4 DEF ComingUp, ServingDaemons, Alive
<1>6. /\ cli'[c].at = "waiting" /\ cli'[c].pid = cli[c].pid /\ cli'[c].answer = cli[c].answer
      /\ \A d \in Clis \ {c} : cli'[d] = cli[d]
  BY <1>2 DEF CtlTypeOK
<1>7. CtlTypeOK'
  <2>1. [Unborn EXCEPT !.up = "booting", !.alive = TRUE] \in Process
    BY DEF Unborn, Process
  <2>2. [cli[c] EXCEPT !.at = "waiting"] \in Command
    BY DEF CtlTypeOK, Command, Places
  <2> QED BY <1>1, <1>2, <2>1, <2>2 DEF CtlTypeOK, Process, Command, Places
<1>8. \A q \in Pids : daemon[q].up = "written" => daemon'[q].up = "written"
  BY <1>1, <1>4 DEF Unborn
<1>9. StoppedAreUp'
  BY <1>4, <1>6, <1>8 DEF StoppedAreUp
<1>10. OkAreUp'
  BY <1>6, <1>8 DEF OkAreUp
<1> QED BY <1>2, <1>3, <1>5, <1>6, <1>7, <1>9, <1>10 DEF FileLeadsToServing, HolderWaits, OneComes

LEMMA CtlInvOfCli ==
  ASSUME Signals = {"SIGTERM"}, ~Untimely, CtlInv, NEW c \in Clis, Start(c) \/ Stop(c) \/ CliStep(c)
  PROVE  CtlInv'
<1>1. CASE Start(c)
  <2> DEFINE r == [AtPrompt EXCEPT !.at = "checking"]
  <2>1. r \in Command /\ r.at = "checking" /\ r.answer = "none"
    BY DEF AtPrompt, Answers, Command, Places
  <2>2. cli' = [cli EXCEPT ![c] = r] /\ UNCHANGED <<daemon, file, holder>> /\ commands' \in 0 .. MaxCommands
    BY <1>1, PidsAssumption DEF Start, CtlInv, CtlTypeOK
  <2> HIDE DEF r
  <2> QED BY <1>1, <2>1, <2>2, CommandMoves DEF Start
<1>2. CASE Checks(c)
  <2>1. CASE Found
    BY <1>2, <2>1, SaidOk DEF Checks, cliOnly
  <2>2. CASE ~Found
    BY <1>2, <2>2, WentOn DEF Checks, cliOnly, Places
  <2> QED BY <2>1, <2>2
<1>3. CASE ScansForOrphan(c)
  BY <1>3, AnswerKeeps, WentOn DEF ScansForOrphan, cliOnly, Places, Answers
<1>4. CASE Locks(c)
  BY <1>4, AnswerKeeps, WentOn DEF Locks, cliOnly, Places, Answers
<1>5. CASE Rechecks(c)
  <2>1. CASE Found
    <3>1. holder = c
      BY <1>5 DEF Rechecks, CtlInv, HolderWaits
    <3> QED BY <1>5, <2>1, <3>1, WentOn DEF Rechecks, Places
  <2> QED BY <1>5, <2>1, CtlInvOfSpawn
<1>6. CASE Waits(c)
  <2>1. holder = c /\ holder' = NoPid /\ UNCHANGED <<daemon, file, commands>>
    BY <1>6 DEF Waits, CtlInv, HolderWaits, cliOnly
  <2>2. CASE file # NoFile /\ Goes(c, "verifying")
    <3>1. ComingUp = {}
      BY <2>2 DEF CtlInv, OneComes
    <3> QED BY <2>1, <2>2, <3>1, WentOn DEF Places
  <2>3. CASE Alive = {} /\ Answer(c, "startTimeout")
    <3>1. ComingUp = {}
      BY <2>3 DEF ComingUp
    <3> QED BY <2>1, <2>3, <3>1, AnswerKeeps DEF Answers
  <2> QED BY <1>6, <2>2, <2>3 DEF Waits
<1>7. CASE Verifies(c)
  BY <1>7, SaidOk, AnswerKeeps DEF Verifies, cliOnly, Answers
<1>8. CASE Stop(c)
  <2>1. cli[c].at = "prompt" /\ UNCHANGED <<daemon, file, holder>> /\ commands' \in 0 .. MaxCommands
    BY <1>8, PidsAssumption DEF Stop, CtlInv, CtlTypeOK
  <2>2. ASSUME NEW r \in Command, cli' = [cli EXCEPT ![c] = r], r.at \in {"checking", "killing"}, r.answer = "none",
               r.at = "killing" => r.pid \in Pids /\ daemon[r.pid].up = "written"
        PROVE  CtlInv'
    BY <2>1, <2>2, CommandMoves
  <2>3. CASE cli' = [cli EXCEPT ![c] = [AtPrompt EXCEPT !.at = "checking"]]
    <3> DEFINE r == [AtPrompt EXCEPT !.at = "checking"]
    <3>1. r \in Command /\ r.at = "checking" /\ r.answer = "none"
      BY DEF AtPrompt, Answers, Command, Places
    <3> QED BY <2>2, <2>3, <3>1
  <2>4. ASSUME NEW restart \in BOOLEAN, NEW p \in Pids,
               IF Found THEN p = file ELSE daemon[p].up = "written",
               cli' = [cli EXCEPT ![c] = [at |-> "killing", pid |-> p, restart |-> restart, answer |-> "none"]]
        PROVE  CtlInv'
    <3>1. [at |-> "killing", pid |-> p, restart |-> restart, answer |-> "none"] \in Command
      BY DEF Answers, Command, Places
    <3> QED BY <2>2, <2>4, <3>1, FileIsFound
  <2> QED BY <1>8, <2>3, <2>4 DEF Stop
<1>9. CASE Kills(c)
  <2> DEFINE p == cli[c].pid
  <2>1. p \in Pids /\ daemon[p].up = "written" /\ holder # c
    BY <1>9 DEF Kills, CtlInv, StoppedAreUp, HolderWaits
  <2>2. CASE ~daemon[p].alive
    BY <1>9, <2>2, AnswerKeeps DEF Kills, Answers
  <2>3. CASE daemon[p].alive
    <3> DEFINE s == IF daemon[p].stop = "no" THEN "asked" ELSE daemon[p].stop
    <3>1. daemon' = [daemon EXCEPT ![p].stop = s] /\ UNCHANGED <<file, holder, commands>>
      BY <1>9, <2>3 DEF Kills
    <3>2. s \in {"asked", "closed", "removed"} /\ (s = "removed" <=> daemon[p].stop = "removed")
      BY <2>1 DEF CtlInv, CtlTypeOK
    <3>3. daemon' \in [Pids -> Process]
      <4>1. [daemon[p] EXCEPT !.stop = s] \in Process
        BY <2>1, <3>2, ProcessesAre DEF CtlInv
      <4>2. daemon' = [daemon EXCEPT ![p] = [daemon[p] EXCEPT !.stop = s]]
        BY <3>1
      <4> QED BY <4>1, <4>2 DEF CtlInv, CtlTypeOK, Process
    <3>4. /\ daemon'[p].stop = s /\ daemon'[p].up = daemon[p].up /\ daemon'[p].alive = daemon[p].alive
          /\ \A q \in Pids \ {p} : daemon'[q] = daemon[q]
      BY <2>1, <3>1 DEF CtlInv, CtlTypeOK
    <3> HIDE DEF s, p
    <3>5. ComingUp' = ComingUp
      BY <2>1, <3>4 DEF ComingUp, Alive
    <3>6. ServingDaemons' = ServingDaemons
      BY <2>1, <3>2, <3>4 DEF ServingDaemons, Alive
    <3>7. \A q \in Pids : daemon'[q].up = daemon[q].up /\ (daemon'[q].stop # "no" => daemon[q].up = "written")
      BY <2>1, <3>4 DEF CtlInv, StoppedAreUp
    <3>8. ASSUME NEW r \in Command, cli' = [cli EXCEPT ![c] = r], r.at \in {"dying", "prompt"},
                 r.answer = "ok" => r.answer = cli[c].answer /\ r.pid = cli[c].pid
          PROVE  CtlInv'
      <4>1. commands' \in 0 .. MaxCommands
        BY <3>1 DEF CtlInv, CtlTypeOK
      <4>2. cli[c].at = "killing"
        BY <1>9 DEF Kills
      <4>3. r.answer = "ok" => r.pid \in Pids /\ daemon[r.pid].up = "written"
        BY <3>8 DEF CtlInv, OkAreUp
      <4> QED BY <3>1, <3>3, <3>5, <3>6, <3>7, <3>8, <4>1, <4>2, <4>3, CommandActs
    <3>9. CASE Goes(c, "dying")
      <4> DEFINE r == [cli[c] EXCEPT !.at = "dying"]
      <4>1. r \in Command /\ r.at = "dying" /\ r.answer = cli[c].answer /\ r.pid = cli[c].pid
        BY DEF CtlInv, CtlTypeOK, Command, Places
      <4>2. cli' = [cli EXCEPT ![c] = r]
        BY <3>9 DEF Goes
      <4> HIDE DEF r
      <4> QED BY <3>8, <4>1, <4>2
    <3>10. CASE Answer(c, "stopped")
      <4> DEFINE r == [AtPrompt EXCEPT !.answer = "stopped"]
      <4>1. r \in Command /\ r.at = "prompt" /\ r.answer = "stopped"
        BY DEF Command, AtPrompt, Places, Answers
      <4>2. cli' = [cli EXCEPT ![c] = r]
        BY <3>10 DEF Answer
      <4> HIDE DEF r
      <4> QED BY <3>8, <4>1, <4>2
    <3> QED BY <1>9, <2>3, <3>9, <3>10 DEF Kills, p
  <2> QED BY <2>2, <2>3
<1>10. CASE Outwaits(c)
  BY <1>10, WentOn, AnswerKeeps DEF Outwaits, cliOnly, Places, Answers
<1> QED BY <1>1, <1>2, <1>3, <1>4, <1>5, <1>6, <1>7, <1>8, <1>9, <1>10 DEF CliStep

LEMMA CtlInvStep ==
  ASSUME Signals = {"SIGTERM"}, ~Untimely, CtlInv, [CtlNext]_ctlVars
  PROVE  CtlInv'
<1>1. CASE UNCHANGED ctlVars
  BY <1>1 DEF ctlVars, CtlInv, CtlTypeOK, StoppedAreUp, FileLeadsToServing, HolderWaits, OneComes,
              OkAreUp, ComingUp, ServingDaemons, Alive
<1> QED BY <1>1, CtlInvOfDaemon, CtlInvOfCli DEF CtlNext

LEMMA CtlInvImplies == CtlInv => OneDaemonIsFound
BY DEF CtlInv, FileLeadsToServing, ServingDaemons, OkAreUp, OneDaemonIsFound, ServingIsFindable, RunningMeansStarted

\* Whatever commands start, stop and kill daemons, and whenever one dies: at most one daemon serves,
\* the file leads to it, and an ok names a daemon that came up (daemon.ts, commands/start.ts,
\* stop.ts, spawn.ts); if commands wait long enough and nothing but SIGTERM ends a daemon.
THEOREM OneDaemonServes == ASSUME ~Untimely, Signals = {"SIGTERM"} PROVE CtlSpec => []OneDaemonIsFound
<1> QED BY CtlInvInit, CtlInvStep, CtlInvImplies, PTL DEF CtlSpec

-----------------------------------------------------------------------------
(* The registry of the projects                                            *)

RegSteps == {"none", "preparing", "upserting", "removing", "writingWith", "writingWithout"}
RegRequest == [step : RegSteps, id : Projects \cup {Boot}, list : SUBSET Projects, stale : BOOLEAN]
Askers == Requests \cup {Boot}

\* A request has a project from its first step to its last.
NoneIsNone == \A r \in Askers : /\ request[r].step = "none" => request[r] = NoRequest
                                /\ request[r].step # "none" => request[r].id \in Projects

\* No two are under way for one project.
OnePerProject == \A r, s \in Askers : r # s /\ request[r].step # "none" => request[s].id # request[r].id

\* What start() has still to register is in the file, and nobody touches it.
ToLoadAreThere ==
  toLoad # {Boot} => \A p \in toLoad : p \in registry /\ \A r \in Askers : request[r].id # p

\* What the map, the file and the list read hold of the project of a request under way.
IsUnderWay(r) ==
  /\ request[r].step \in {"upserting", "writingWith"} => request[r].id \in projects
  /\ request[r].step \in {"removing", "writingWithout"} =>
       request[r].id \notin projects /\ request[r].id \notin kept
  /\ request[r].step = "preparing" /\ r = Boot => request[r].id \in registry
  /\ request[r].step \in {"writingWith", "writingWithout"} /\ ~request[r].stale => request[r].list = registry

AllUnderWay == \A r \in Askers : IsUnderWay(r)

\* Of a project nobody is busy with, the map and the file agree.
IsSettled(p) ==
  /\ p \in projects => p \in registry
  /\ toLoad # {Boot} /\ p \notin Unloadable /\ p \in registry => p \in projects

IdleAreSettled == \A p \in Projects : ~Busy(p) => IsSettled(p)

RegOrder == OnePerProject /\ ToLoadAreThere /\ AllUnderWay /\ IdleAreSettled /\ kept \subseteq registry

RegInv == RegTypeOK /\ NoneIsNone /\ (~crossed => RegOrder)

LEMMA RegInvInit == RegInit => RegInv
<1> SUFFICES ASSUME RegInit PROVE RegInv
  OBVIOUS
<1>1. RegTypeOK
  <2>1. 0 \in 0 .. MaxRequests /\ 0 \in 0 .. MaxDeaths
    BY RegistryAssumption
  <2> QED BY <2>1 DEF RegInit, RegTypeOK, NoRequest
<1> QED BY <1>1, RegistryAssumption DEF RegInit, RegInv, NoneIsNone, RegOrder, OnePerProject, ToLoadAreThere, AllUnderWay,
           IsUnderWay, IdleAreSettled, IsSettled, NoRequest, Askers

LEMMA RegTypes == RegTypeOK =>
  /\ projects \subseteq Projects /\ registry \subseteq Projects /\ kept \subseteq Projects
  /\ request \in [Askers -> RegRequest]
BY DEF RegTypeOK, RegRequest, Askers, RegSteps

LEMMA SameRequest ==
  ASSUME NEW a \in RegRequest, NEW b \in RegRequest,
         a.step = b.step, a.id = b.id, a.list = b.list, a.stale = b.stale
  PROVE  a = b
BY DEF RegRequest

\* A request takes a step, and nothing else changes in the file.
LEMMA RequestSteps ==
  ASSUME RegInv, NEW r \in Askers, NEW q \in RegRequest, request' = [request EXCEPT ![r] = q],
         registry' = registry, projects' \subseteq Projects, kept' \subseteq kept,
         toLoad' \in (SUBSET Projects) \cup {{Boot}}, made' \in 0 .. MaxRequests, deaths' = deaths, crossed' \in BOOLEAN,
         crossed => crossed',
         q.step = "none" => q = NoRequest, q.step # "none" => q.id \in Projects,
         ~crossed' => /\ \A s \in Askers \ {r} : q.step # "none" => request[s].id # q.id
                      /\ IsUnderWay(r)'
                      /\ \A p \in Projects : p # q.id /\ p # request[r].id => (p \in projects' <=> p \in projects)
                      /\ q.step = "none" => \A p \in Projects : p = request[r].id => IsSettled(p)'
                      /\ request[r].step # "none" => q.id \in {request[r].id, Boot}
                      /\ toLoad' = toLoad \/ (toLoad' = toLoad \ {q.id} /\ q.id \in toLoad)
                      /\ q.step # "none" => q.id \notin toLoad'
                      /\ (toLoad = {Boot} <=> toLoad' = {Boot})
  PROVE  RegInv'
<1> USE DEF RegInv
<1>1. request \in [Askers -> RegRequest] /\ \A p \in Projects : p # Boot
  BY RegTypes, RegistryAssumption
<1>2. request'[r] = q /\ \A s \in Askers \ {r} : request'[s] = request[s]
  BY <1>1
<1>3. RegTypeOK'
  BY <1>1, RegTypes DEF RegTypeOK, RegRequest, RegSteps, Askers
<1>4. NoneIsNone'
  BY <1>2 DEF NoneIsNone
<1>5. ASSUME ~crossed' PROVE RegOrder'
  <2>1. RegOrder
    BY <1>5
  <2>2. OnePerProject'
    BY <1>1, <1>2, <1>5, <2>1 DEF RegOrder, OnePerProject, NoneIsNone, NoRequest
  <2>3. ToLoadAreThere'
    <3> SUFFICES ASSUME toLoad' # {Boot}, NEW p \in toLoad'
                 PROVE  p \in registry /\ \A s \in Askers : request'[s].id # p
      BY DEF ToLoadAreThere
    <3>1. p \in toLoad /\ toLoad # {Boot} /\ p \in Projects
      BY <1>5, RegistryAssumption DEF RegTypeOK
    <3>2. p \in registry /\ \A s \in Askers : request[s].id # p
      BY <2>1, <3>1 DEF RegOrder, ToLoadAreThere
    <3>3. q.id # p
      BY <1>1, <1>5, <3>1 DEF NoRequest
    <3> QED BY <1>2, <3>2, <3>3
  <2>4. AllUnderWay'
    <3>1. ASSUME NEW s \in Askers \ {r} PROVE IsUnderWay(s)'
      <4>1. request'[s] = request[s] /\ IsUnderWay(s)
        BY <1>2, <2>1 DEF RegOrder, AllUnderWay
      <4>2. CASE request[s].step = "none"
        BY <4>1, <4>2 DEF IsUnderWay
      <4>3. CASE request[s].step # "none"
        <5>1. request[s].id \in Projects /\ request[s].id # q.id /\ request[s].id # request[r].id
          BY <1>1, <1>5, <2>1, <4>3 DEF NoneIsNone, RegOrder, OnePerProject, NoRequest
        <5>2. request[s].id \in projects' <=> request[s].id \in projects
          BY <1>5, <5>1
        <5>3. request[s].id \notin kept => request[s].id \notin kept'
          OBVIOUS
        <5> QED BY <4>1, <5>2, <5>3 DEF IsUnderWay
      <4> QED BY <4>2, <4>3
    <3> QED BY <1>2, <1>5, <3>1 DEF AllUnderWay
  <2>5. IdleAreSettled'
    <3> SUFFICES ASSUME NEW p \in Projects, ~Busy(p)' PROVE IsSettled(p)'
      BY DEF IdleAreSettled
    <3>1. p \notin toLoad' /\ \A s \in Askers : request'[s].id # p
      BY <1>3 DEF Busy, RegTypeOK, Askers
    <3>2. p # q.id
      BY <1>2, <3>1
    <3>3. CASE p = request[r].id
      <4>1. request[r].step # "none"
        BY <1>1, <3>3 DEF NoneIsNone, NoRequest
      <4>2. q.step = "none"
        <5>1. q.id = Boot
          BY <1>5, <3>2, <3>3, <4>1
        <5>2. q.id \notin Projects
          BY <5>1, RegistryAssumption
        <5> QED BY <5>2
      <4> QED BY <1>5, <3>3, <4>2
    <3>4. CASE p # request[r].id
      <4>1. ~Busy(p)
        BY <1>1, <1>2, <1>5, <3>1, <3>2, <3>4 DEF Busy
      <4> QED BY <1>5, <2>1, <3>2, <3>4, <4>1 DEF RegOrder, IdleAreSettled, IsSettled
    <3> QED BY <3>3, <3>4
  <2>6. kept' \subseteq registry'
    BY <2>1 DEF RegOrder
  <2> QED BY <2>2, <2>3, <2>4, <2>5, <2>6 DEF RegOrder
<1> QED BY <1>3, <1>4, <1>5

LEMMA NotBusy == ASSUME RegTypeOK, NEW p, ~Busy(p) PROVE p \notin toLoad /\ \A r \in Askers : request[r].id # p
BY DEF Busy, RegTypeOK, Askers

LEMMA RegInvOfPost ==
  ASSUME RegInv, NEW r \in Requests, NEW p \in Projects, Post(r, p)
  PROVE  RegInv'
<1>0. PICK q : q = [NoRequest EXCEPT !.step = "preparing", !.id = p]
  OBVIOUS
<1>1. r \in Askers /\ r # Boot /\ p # Boot /\ made' \in 0 .. MaxRequests
  BY RegistryAssumption DEF Askers, Post, RegInv, RegTypeOK
<1>2. q \in RegRequest /\ q.id = p /\ q.step = "preparing"
  BY <1>0 DEF RegRequest, RegSteps, NoRequest
<1>3. request[r] = NoRequest /\ request' = [request EXCEPT ![r] = q]
  BY <1>0 DEF Post
<1>4. /\ UNCHANGED <<projects, registry, toLoad, deaths, kept>>
      /\ crossed' = (crossed \/ Busy(p)) /\ crossed' \in BOOLEAN
  BY DEF Post, RegInv, RegTypeOK
<1>5. ASSUME ~crossed'
      PROVE  /\ \A s \in Askers \ {r} : q.step # "none" => request[s].id # q.id
             /\ q.id \notin toLoad
  BY <1>2, <1>4, <1>5, NotBusy DEF RegInv
<1>6. IsUnderWay(r)'
  BY <1>1, <1>2, <1>3 DEF IsUnderWay, RegInv, RegTypeOK, Askers
<1>7. request[r].step = "none" /\ request[r].id = Boot
  BY <1>3 DEF NoRequest
<1> QED BY <1>1, <1>2, <1>3, <1>4, <1>5, <1>6, <1>7, RequestSteps DEF RegInv, RegTypeOK

LEMMA RegInvOfDelete ==
  ASSUME RegInv, NEW r \in Requests, NEW p \in Projects, Delete(r, p)
  PROVE  RegInv'
<1>0. PICK q : q = [NoRequest EXCEPT !.step = "removing", !.id = p]
  OBVIOUS
<1>1. r \in Askers /\ r # Boot /\ p # Boot /\ made' \in 0 .. MaxRequests
  BY RegistryAssumption DEF Askers, Delete, RegInv, RegTypeOK
<1>2. q \in RegRequest /\ q.id = p /\ q.step = "removing"
  BY <1>0 DEF RegRequest, RegSteps, NoRequest
<1>3. request[r] = NoRequest /\ request' = [request EXCEPT ![r] = q]
  BY <1>0 DEF Delete
<1>4. /\ UNCHANGED <<registry, toLoad, deaths>> /\ projects' = projects \ {p} /\ kept' = kept \ {p}
      /\ crossed' = (crossed \/ Busy(p)) /\ crossed' \in BOOLEAN
  BY DEF Delete, RegInv, RegTypeOK
<1>5. ASSUME ~crossed'
      PROVE  /\ \A s \in Askers \ {r} : q.step # "none" => request[s].id # q.id
             /\ q.id \notin toLoad
  BY <1>2, <1>4, <1>5, NotBusy DEF RegInv
<1>6. IsUnderWay(r)'
  BY <1>1, <1>2, <1>3, <1>4 DEF IsUnderWay, RegInv, RegTypeOK, Askers
<1>7. request[r].step = "none" /\ request[r].id = Boot
  BY <1>3 DEF NoRequest
<1>8. projects' \subseteq Projects /\ \A i \in Projects : i # q.id => (i \in projects' <=> i \in projects)
  BY <1>2, <1>4 DEF RegInv, RegTypeOK
<1> QED BY <1>1, <1>2, <1>3, <1>4, <1>5, <1>6, <1>7, <1>8, RequestSteps DEF RegInv, RegTypeOK

LEMMA RegInvOfPrepared ==
  ASSUME RegInv, NEW r \in Askers, Prepared(r)
  PROVE  RegInv'
<1> DEFINE p == request[r].id
<1>1. p \in Projects /\ p # Boot /\ request[r] \in RegRequest /\ request[r].step = "preparing"
  BY RegTypes, RegistryAssumption DEF Prepared, RegInv, NoneIsNone
<1>2. UNCHANGED <<registry, toLoad, made, deaths, kept, crossed>>
  BY DEF Prepared
<1>3. ~crossed => /\ p \notin toLoad /\ (r = Boot => p \in registry)
                  /\ \A s \in Askers \ {r} : request[s].id # p
  BY <1>1 DEF RegInv, RegOrder, ToLoadAreThere, AllUnderWay, IsUnderWay, OnePerProject
<1>4. CASE r = Boot /\ p \in Unloadable
  <2>1. NoRequest \in RegRequest /\ NoRequest.step = "none" /\ NoRequest.id = Boot
    BY DEF RegRequest, RegSteps, NoRequest
  <2>2. request' = [request EXCEPT ![r] = NoRequest] /\ projects' = projects
    BY <1>4 DEF Prepared
  <2>3. IsUnderWay(r)' /\ (~crossed => \A i \in Projects : i = request[r].id => IsSettled(i)')
    BY <1>2, <1>3, <1>4, <2>1, <2>2 DEF IsUnderWay, IsSettled, RegInv, RegTypeOK, Askers
  <2> QED BY <1>2, <1>3, <2>1, <2>2, <2>3, RequestSteps DEF RegInv, RegTypeOK
<1>5. CASE ~(r = Boot /\ p \in Unloadable)
  <2>0. PICK q : q = [request[r] EXCEPT !.step = "upserting"]
    OBVIOUS
  <2>1. q \in RegRequest /\ q.id = p /\ q.step = "upserting"
    BY <1>1, <2>0 DEF RegRequest, RegSteps
  <2>2. request' = [request EXCEPT ![r] = q] /\ projects' = projects \cup {p}
    BY <1>5, <2>0 DEF Prepared, Steps
  <2>3. IsUnderWay(r)' /\ projects' \subseteq Projects /\ \A i \in Projects : i # q.id => (i \in projects' <=> i \in projects)
    BY <1>1, <1>2, <2>1, <2>2 DEF IsUnderWay, RegInv, RegTypeOK, Askers
  <2> QED BY <1>1, <1>2, <1>3, <2>1, <2>2, <2>3, RequestSteps DEF RegInv, RegTypeOK
<1> QED BY <1>4, <1>5

LEMMA RegInvOfLists ==
  ASSUME RegInv, NEW r \in Askers, Lists(r)
  PROVE  RegInv'
<1> DEFINE p == request[r].id
           st == IF request[r].step = "upserting" THEN "writingWith" ELSE "writingWithout"
<1>0. PICK q : q = [request[r] EXCEPT !.step = st, !.list = registry]
  OBVIOUS
<1>1. p \in Projects /\ p # Boot /\ request[r] \in RegRequest /\ request[r].step \in {"upserting", "removing"}
  BY RegTypes, RegistryAssumption DEF Lists, RegInv, NoneIsNone
<1>2. UNCHANGED <<projects, registry, toLoad, made, deaths, kept, crossed>>
  BY DEF Lists
<1>3. ~crossed => /\ p \notin toLoad
                  /\ \A s \in Askers \ {r} : request[s].id # p
  BY <1>1 DEF RegInv, RegOrder, ToLoadAreThere, AllUnderWay, IsUnderWay, OnePerProject
<1>4. q \in RegRequest /\ q.id = p /\ q.step = st /\ q.list = registry
  BY <1>0, <1>1, RegTypes DEF RegRequest, RegSteps, RegInv
<1>5. request' = [request EXCEPT ![r] = q]
  BY <1>0 DEF Lists
<1>6. ~crossed => IsUnderWay(r)'
  BY <1>1, <1>2, <1>4, <1>5 DEF IsUnderWay, RegInv, RegOrder, AllUnderWay, RegTypeOK, Askers
<1> QED BY <1>1, <1>2, <1>3, <1>4, <1>5, <1>6, RequestSteps DEF RegInv, RegTypeOK

\* What is written is the list of the moment, with the project or without, unless others have
\* written meanwhile.
LEMMA RegInvOfWrites ==
  ASSUME RegInv, NEW r \in Askers, Writes(r)
  PROVE  RegInv'
<1> USE DEF RegInv
<1> DEFINE p == request[r].id
<1>1. p \in Projects /\ p # Boot /\ request[r] \in RegRequest /\ request[r].step \in {"writingWith", "writingWithout"}
  BY RegTypes, RegistryAssumption DEF Writes, NoneIsNone
<1>2. UNCHANGED <<projects, toLoad, made, deaths>> /\ crossed' = (crossed \/ request[r].stale)
      /\ registry' = (IF request[r].step = "writingWith" THEN request[r].list \cup {p} ELSE request[r].list \ {p})
  BY DEF Writes, Upserted, Removed
<1>3. DOMAIN request = Askers /\ request \in [Askers -> RegRequest]
  BY RegTypes DEF RegTypeOK, Askers
<1>4. /\ request' = [s \in Askers |->
            IF s = r THEN NoRequest
            ELSE [request[s] EXCEPT !.stale = @ \/ request[s].step \in {"writingWith", "writingWithout"}]]
  BY <1>3 DEF Writes
<1>5. NoRequest \in RegRequest /\ NoRequest.step = "none" /\ NoRequest.id = Boot
  BY DEF RegRequest, RegSteps, NoRequest
<1>6. ASSUME NEW s \in Askers \ {r}
      PROVE  /\ request'[s] \in RegRequest
             /\ request'[s].step = request[s].step /\ request'[s].id = request[s].id
             /\ request'[s].list = request[s].list
             /\ request[s].step \in {"writingWith", "writingWithout"} => request'[s].stale
             /\ request[s] = NoRequest => request'[s] = NoRequest
  <2> DEFINE stale == request[s].stale \/ request[s].step \in {"writingWith", "writingWithout"}
  <2>1. request'[s] = [request[s] EXCEPT !.stale = stale] /\ request[s] \in RegRequest
    BY <1>3, <1>4, <1>6
  <2>2. stale \in BOOLEAN
    OBVIOUS
  <2>3. request[s] = NoRequest => stale = FALSE
    BY DEF NoRequest
  <2>4. request[s].step \in {"writingWith", "writingWithout"} => stale
    OBVIOUS
  <2> HIDE DEF stale
  <2>5. request[s] = NoRequest => request'[s] = NoRequest
    <3> SUFFICES ASSUME request[s] = NoRequest PROVE request'[s] = NoRequest
      OBVIOUS
    <3>1. /\ request'[s].step = NoRequest.step /\ request'[s].id = NoRequest.id
          /\ request'[s].list = NoRequest.list /\ request'[s].stale = NoRequest.stale
          /\ request'[s] \in RegRequest
      BY <2>1, <2>2, <2>3 DEF RegRequest, NoRequest
    <3> QED BY <1>5, <3>1, SameRequest
  <2> QED BY <2>1, <2>2, <2>4, <2>5 DEF RegRequest
<1>7. request'[r] = NoRequest
  BY <1>4
<1>8. request' \in [Askers -> RegRequest]
  <2>1. \A s \in Askers : request'[s] \in RegRequest
    BY <1>5, <1>6, <1>7
  <2>2. DOMAIN request' = Askers /\ request' = [s \in Askers |-> request'[s]]
    BY <1>4
  <2> QED BY <2>1, <2>2
<1>9. kept' = IF request[r].step = "writingWith" /\ r # Boot /\ p \in projects THEN kept \cup {p} ELSE kept
  BY DEF Writes
<1>10. RegTypeOK'
  <2>1. registry' \subseteq Projects /\ kept' \subseteq Projects /\ crossed' \in BOOLEAN
    BY <1>1, <1>2, <1>9 DEF RegTypeOK, RegRequest
  <2> QED BY <1>2, <1>8, <2>1 DEF RegTypeOK, RegRequest, RegSteps, Askers
<1>11. NoneIsNone'
  BY <1>5, <1>6, <1>7 DEF NoneIsNone
<1>12. ASSUME ~crossed' PROVE RegOrder'
  <2>1. RegOrder /\ request[r].list = registry
    BY <1>1, <1>2, <1>12 DEF RegOrder, AllUnderWay, IsUnderWay
  <2>2. /\ request[r].step = "writingWith" => p \in projects /\ registry' = registry \cup {p}
        /\ request[r].step = "writingWithout" => p \notin projects /\ p \notin kept /\ registry' = registry \ {p}
    BY <1>1, <1>2, <2>1 DEF RegOrder, AllUnderWay, IsUnderWay
  <2>3. \A s \in Askers \ {r} : request[s].id # p
    BY <1>1, <2>1 DEF RegOrder, OnePerProject
  <2>4. \A i : i # p => (i \in registry' <=> i \in registry)
    BY <1>1, <2>2
  <2>5. OnePerProject'
    BY <1>3, <1>5, <1>6, <1>7, <2>1, RegistryAssumption DEF RegOrder, OnePerProject, NoneIsNone
  <2>6. toLoad # {Boot} => p \notin toLoad
    BY <2>1 DEF RegOrder, ToLoadAreThere
  <2>7. toLoad # {Boot} => Boot \notin toLoad
    BY RegistryAssumption DEF RegTypeOK
  <2>8. ToLoadAreThere'
    BY <1>2, <1>5, <1>6, <1>7, <2>1, <2>4, <2>6, <2>7 DEF RegOrder, ToLoadAreThere
  <2>9. AllUnderWay'
    <3>1. ASSUME NEW s \in Askers \ {r} PROVE IsUnderWay(s)'
      <4>1. IsUnderWay(s) /\ request[s].id # p
        BY <2>1, <2>3 DEF RegOrder, AllUnderWay
      <4>2. request[s].id \notin kept => request[s].id \notin kept'
        BY <1>9, <4>1
      <4> QED BY <1>2, <1>6, <2>4, <4>1, <4>2 DEF IsUnderWay
    <3>2. IsUnderWay(r)'
      BY <1>5, <1>7 DEF IsUnderWay
    <3> QED BY <3>1, <3>2 DEF AllUnderWay
  <2>10. IdleAreSettled'
    <3> SUFFICES ASSUME NEW i \in Projects, ~Busy(i)' PROVE IsSettled(i)'
      BY DEF IdleAreSettled
    <3>1. CASE i = p
      BY <1>1, <1>2, <2>2, <3>1 DEF IsSettled
    <3>2. CASE i # p
      <4>1. ~Busy(i)
        BY <1>2, <1>3, <1>6, <1>8, <3>2 DEF Busy
      <4> QED BY <1>2, <2>1, <2>4, <3>2, <4>1 DEF RegOrder, IdleAreSettled, IsSettled
    <3> QED BY <3>1, <3>2
  <2>11. kept' \subseteq registry'
    BY <1>1, <1>9, <2>1, <2>2 DEF RegOrder
  <2> QED BY <2>5, <2>8, <2>9, <2>10, <2>11 DEF RegOrder
<1> QED BY <1>10, <1>11, <1>12

LEMMA RegInvOfStart ==
  ASSUME RegInv, DaemonDies \/ ListsAtStart \/ LoadsNext
  PROVE  RegInv'
<1> USE DEF RegInv
<1>1. CASE DaemonDies
  <2>1. request' = [r \in Askers |-> NoRequest] /\ projects' = {} /\ toLoad' = {Boot} /\ deaths' \in 0 .. MaxDeaths
        /\ UNCHANGED <<registry, made, kept, crossed>>
    BY <1>1, RegistryAssumption DEF DaemonDies, RegTypeOK, Askers
  <2>2. NoRequest \in RegRequest
    BY DEF RegRequest, RegSteps, NoRequest
  <2>3. RegTypeOK'
    BY <2>1, <2>2 DEF RegTypeOK, RegRequest, RegSteps, Askers
  <2> QED BY <2>1, <2>3, RegistryAssumption DEF NoneIsNone, NoRequest, RegOrder, OnePerProject, ToLoadAreThere, AllUnderWay, IsUnderWay,
             IdleAreSettled, IsSettled, Askers
<1>2. CASE ListsAtStart
  <2>1. toLoad = {Boot} /\ toLoad' = registry /\ UNCHANGED <<projects, registry, request, made, deaths, kept>>
        /\ crossed' = (crossed \/ \E r \in Askers : request[r] # NoRequest)
    BY <1>2 DEF ListsAtStart, RegTypeOK, Askers
  <2>2. RegTypeOK'
    BY <2>1 DEF RegTypeOK
  <2>3. ASSUME ~crossed' PROVE RegOrder'
    <3>1. RegOrder /\ \A r \in Askers : request[r].step = "none" /\ request[r].id = Boot
      <4>1. RegOrder /\ \A r \in Askers : request[r] = NoRequest
        BY <2>1, <2>3
      <4> QED BY <4>1 DEF NoRequest
    <3>2. \A p \in registry : p # Boot
      BY RegistryAssumption DEF RegTypeOK
    <3>3. IdleAreSettled'
      <4> SUFFICES ASSUME NEW p \in Projects, ~Busy(p)' PROVE IsSettled(p)'
        BY DEF IdleAreSettled
      <4>1. p \notin registry
        BY <2>1 DEF Busy
      <4>2. ~Busy(p)
        BY <2>1, <3>1, RegistryAssumption DEF Busy, RegTypeOK, Askers
      <4> QED BY <2>1, <3>1, <4>1, <4>2 DEF RegOrder, IdleAreSettled, IsSettled
    <3> QED BY <2>1, <3>1, <3>2, <3>3 DEF RegOrder, OnePerProject, ToLoadAreThere, AllUnderWay, IsUnderWay
  <2> QED BY <2>1, <2>2, <2>3 DEF NoneIsNone
<1>3. CASE LoadsNext
  <2>1. PICK p \in toLoad : /\ toLoad' = toLoad \ {p}
                            /\ request' = [request EXCEPT ![Boot] = [NoRequest EXCEPT !.step = "preparing", !.id = p]]
    BY <1>3 DEF LoadsNext
  <2>2. toLoad # {Boot} /\ request[Boot] = NoRequest /\ UNCHANGED <<projects, registry, made, deaths, kept, crossed>>
    BY <1>3 DEF LoadsNext
  <2>3. p \in Projects /\ Boot \in Askers /\ toLoad' # {Boot}
    BY <2>1, <2>2, RegistryAssumption DEF RegTypeOK, Askers
  <2>4. PICK q : q = [NoRequest EXCEPT !.step = "preparing", !.id = p]
    OBVIOUS
  <2>5. q \in RegRequest /\ q.step = "preparing" /\ q.id = p /\ request' = [request EXCEPT ![Boot] = q]
    BY <2>1, <2>3, <2>4 DEF RegRequest, RegSteps, NoRequest
  <2>6. ~crossed => p \in registry /\ \A r \in Askers : request[r].id # p
    BY <2>2 DEF RegOrder, ToLoadAreThere
  <2>7. ~crossed => IsUnderWay(Boot)'
    BY <2>2, <2>3, <2>5, <2>6 DEF IsUnderWay, RegTypeOK, Askers
  <2>8. toLoad' \in (SUBSET Projects) \cup {{Boot}} /\ crossed' \in BOOLEAN /\ request[Boot].step = "none"
    BY <2>1, <2>2 DEF RegTypeOK, NoRequest
  <2> QED BY <2>1, <2>2, <2>3, <2>5, <2>6, <2>7, <2>8, RequestSteps DEF RegTypeOK
<1> QED BY <1>1, <1>2, <1>3

LEMMA RegInvStep == RegInv /\ [RegNext]_regVars => RegInv'
<1> SUFFICES ASSUME RegInv, [RegNext]_regVars PROVE RegInv'
  OBVIOUS
<1>1. CASE UNCHANGED regVars
  BY <1>1 DEF regVars, RegInv, RegTypeOK, NoneIsNone, RegOrder, OnePerProject, ToLoadAreThere, AllUnderWay, IsUnderWay,
             IdleAreSettled, IsSettled, Busy
<1> QED BY <1>1, RegInvOfPost, RegInvOfDelete, RegInvOfPrepared, RegInvOfLists, RegInvOfWrites, RegInvOfStart
        DEF RegNext, Askers

LEMMA RegInvImplies == RegInv => RegTypeOK /\ RegistryIsKept
<1> SUFFICES ASSUME RegInv, ~crossed, Quiet
             PROVE  registry \ Unloadable = projects \ Unloadable /\ projects \subseteq registry
  BY DEF RegInv, RegOrder, RegistryIsKept
<1>1. \A p \in Projects : ~Busy(p)
  BY RegistryAssumption DEF Quiet, Busy, NoRequest
<1>2. \A p \in Projects : IsSettled(p)
  BY <1>1 DEF RegInv, RegOrder, IdleAreSettled
<1> QED BY <1>2 DEF Quiet, IsSettled, RegInv, RegTypeOK

\* Whatever requests cross and whenever the daemon dies: the file has the projects that were
\* acknowledged, and the map those of the file (registry.ts, projects.ts, daemon.ts).
THEOREM RegistryIsKeptHolds == RegSpec => [](RegTypeOK /\ RegistryIsKept)
<1> QED BY RegInvInit, RegInvStep, RegInvImplies, PTL DEF RegSpec

-----------------------------------------------------------------------------
(* Credentials and MCP servers                                             *)

EditSteps == {"none", "checking", "puts", "deletes", "quarantinesToPut", "quarantinesToDelete",
              "quarantinesToCheck", "writesWith", "writesWithout", "rereads"}
EditRequest == [store : Stores, name : Names \cup {NoName}, read : SUBSET Names, step : EditSteps]
Quarantining == {"quarantinesToPut", "quarantinesToDelete", "quarantinesToCheck"}

\* What is under way in a store in which nothing has overlapped.
OneEditor(s) ==
  \A d, e \in Editors :
    editor[d].step # "none" /\ editor[d].store = s /\ editor[e].step # "none" /\ editor[e].store = s => d = e

ReadIsCurrent(s) ==
  \A e \in Editors : editor[e].store = s =>
    /\ editor[e].step \in {"writesWith", "writesWithout"} => editor[e].read = entries[s]
    /\ editor[e].step \in {"checking", "deletes", "writesWithout"} => editor[e].name \notin stored[s]
    /\ editor[e].step \notin Quarantining

NamesGiven == \A e \in Editors : /\ editor[e].step = "none" => editor[e] = NoEditor
                                 /\ editor[e].step # "none" => editor[e].name \in Names
                                 /\ editor[e].step \in Quarantining => editor[e].store = "credentials"

InOrder(s) == s \notin broken /\ OneEditor(s) /\ ReadIsCurrent(s) /\ stored[s] \subseteq entries[s]

EntryInv == EntryTypeOK /\ NamesGiven /\ \A s \in Stores \ overlapped : InOrder(s)

LEMMA EntryInvInit == EntryInit => EntryInv
<1> SUFFICES ASSUME EntryInit PROVE EntryInv
  OBVIOUS
<1>1. EntryTypeOK
  BY EntriesAssumption DEF EntryInit, EntryTypeOK, NoEditor, Stores
<1>2. \A e \in Editors : editor[e] = NoEditor /\ editor[e].step = "none"
  BY DEF EntryInit, NoEditor
<1>3. broken = {} /\ \A s \in Stores : stored[s] = {} /\ entries[s] = {}
  BY DEF EntryInit
<1>4. \A e \in Editors : editor[e].step \notin Quarantining
  BY <1>2 DEF Quarantining
<1>5. NamesGiven
  BY <1>2, <1>4 DEF NamesGiven
<1>6. ASSUME NEW s \in Stores PROVE InOrder(s)
  BY <1>2, <1>3, <1>4 DEF InOrder, OneEditor, ReadIsCurrent
<1> QED BY <1>1, <1>5, <1>6 DEF EntryInv

\* An editor's step, to q, where nothing has overlapped.
MovesWell(e, q, s) ==
  /\ q.step # "none" /\ q.store = s => \A d \in Editors \ {e} : editor[d].step # "none" => editor[d].store # s
  /\ q.store = s =>
       /\ q.step \in {"writesWith", "writesWithout"} => q.read = entries'[s]
       /\ q.step \in {"checking", "deletes", "writesWithout"} => q.name \notin stored'[s]
       /\ q.step \notin Quarantining
  /\ \/ entries'[s] = entries[s] /\ stored'[s] \subseteq stored[s]
     \/ editor[e].step # "none" /\ editor[e].store = s
  /\ stored'[s] \subseteq entries'[s]

LEMMA EditorMoves ==
  ASSUME EntryInv, NEW e \in Editors, NEW q \in EditRequest, editor' = [editor EXCEPT ![e] = q],
         q.step = "none" => q = NoEditor, q.step # "none" => q.name \in Names,
         q.step \in Quarantining => q.store = "credentials",
         entries' \in [Stores -> SUBSET Names], broken' \subseteq broken, stored' \in [Stores -> SUBSET Names],
         edits' \in 0 .. MaxEdits, breaks' = breaks, overlapped \subseteq overlapped', overlapped' \subseteq Stores,
         \A s \in Stores \ overlapped' : MovesWell(e, q, s)
  PROVE  EntryInv'
<1>1. editor \in [Editors -> EditRequest]
  BY DEF EntryInv, EntryTypeOK, EditRequest, EditSteps
<1>2. editor'[e] = q /\ \A d \in Editors \ {e} : editor'[d] = editor[d]
  BY <1>1
<1>3. EntryTypeOK'
  BY DEF EntryInv, EntryTypeOK, EditRequest, EditSteps
<1>4. NamesGiven'
  BY <1>2 DEF EntryInv, NamesGiven
<1>5. ASSUME NEW s \in Stores \ overlapped' PROVE InOrder(s)'
  <2> USE DEF MovesWell
  <2>1. InOrder(s)
    BY DEF EntryInv
  <2>2. OneEditor(s)'
    <3> SUFFICES ASSUME NEW c \in Editors, NEW d \in Editors, editor'[c].step # "none", editor'[c].store = s,
                        editor'[d].step # "none", editor'[d].store = s
                 PROVE  c = d
      BY DEF OneEditor
    <3>1. CASE c # e /\ d # e
      BY <1>2, <2>1, <3>1 DEF InOrder, OneEditor
    <3>2. CASE c = e \/ d = e
      BY <1>2, <3>2
    <3> QED BY <3>1, <3>2
  <2>3. ReadIsCurrent(s)'
    <3> SUFFICES ASSUME NEW d \in Editors, editor'[d].store = s
                 PROVE /\ editor'[d].step \in {"writesWith", "writesWithout"} => editor'[d].read = entries'[s]
                       /\ editor'[d].step \in {"checking", "deletes", "writesWithout"} => editor'[d].name \notin stored'[s]
                       /\ editor'[d].step \notin Quarantining
      BY DEF ReadIsCurrent
    <3>1. CASE d = e
      BY <1>2, <3>1
    <3>2. CASE d # e
      <4>1. editor'[d] = editor[d]
        BY <1>2, <3>2
      <4>2. CASE editor[d].step = "none"
        BY <4>1, <4>2 DEF Quarantining
      <4>3. CASE editor[d].step # "none" /\ entries'[s] = entries[s] /\ stored'[s] \subseteq stored[s]
        BY <2>1, <4>1, <4>3 DEF InOrder, ReadIsCurrent
      <4>4. CASE editor[d].step # "none" /\ editor[e].step # "none" /\ editor[e].store = s
        BY <2>1, <3>2, <4>1, <4>4 DEF InOrder, OneEditor
      <4> QED BY <4>2, <4>3, <4>4
    <3> QED BY <3>1, <3>2
  <2> QED BY <2>1, <2>2, <2>3 DEF InOrder
<1> QED BY <1>3, <1>4, <1>5 DEF EntryInv

LEMMA NoEditorIs == NoEditor \in EditRequest /\ NoEditor.step = "none" /\ NoEditor.step \notin Quarantining
BY DEF NoEditor, EditRequest, EditSteps, Stores, Quarantining

LEMMA EntryInvOfRequest ==
  ASSUME EntryInv, NEW e \in Editors, NEW s \in Stores, NEW n \in Names,
         NEW st \in {"checking", "puts", "deletes", "rereads"}, Requested(e, s, n, st)
  PROVE  EntryInv'
<1>1. PICK q : q = [NoEditor EXCEPT !.store = s, !.name = n, !.step = st]
  OBVIOUS
<1>2. q \in EditRequest /\ q.store = s /\ q.name = n /\ q.step = st
  BY <1>1 DEF EditRequest, EditSteps, NoEditor
<1>3. editor' = [editor EXCEPT ![e] = q] /\ UNCHANGED <<entries, broken, breaks>> /\ edits' \in 0 .. MaxEdits
  BY <1>1, EntriesAssumption DEF Requested, EntryInv, EntryTypeOK
<1>4. st \notin Quarantining /\ st # "none" /\ st \notin {"writesWith", "writesWithout"}
  BY DEF Quarantining
<1>5. stored' \in [Stores -> SUBSET Names] /\ overlapped \subseteq overlapped' /\ overlapped' \subseteq Stores
  BY DEF Requested, EntryInv, EntryTypeOK
<1>6. ASSUME NEW t \in Stores
      PROVE  stored'[t] \subseteq stored[t] /\ (t = s /\ st \in {"checking", "deletes"} => n \notin stored'[t])
  BY <1>6 DEF Requested, EntryInv, EntryTypeOK
<1>7. ASSUME s \notin overlapped', NEW d \in Editors \ {e}, editor[d].step # "none" PROVE editor[d].store # s
  <2>1. editor[d] # NoEditor
    BY <1>7, NoEditorIs
  <2> QED BY <1>7, <2>1 DEF Requested
<1>8. \A t \in Stores \ overlapped' : stored[t] \subseteq entries[t]
  BY <1>5 DEF EntryInv, InOrder
<1>9. \A t \in Stores \ overlapped' : MovesWell(e, q, t)
  BY <1>2, <1>3, <1>4, <1>6, <1>7, <1>8 DEF MovesWell
<1>10. \A t \in Stores : entries[t] \subseteq Names
  BY DEF EntryInv, EntryTypeOK
<1> QED BY <1>2, <1>3, <1>4, <1>5, <1>9, EditorMoves DEF EntryInv, EntryTypeOK

\* A request goes on, or ends, and no file is changed.
LEMMA EditorGoesOn ==
  ASSUME EntryInv, UNCHANGED <<entries, edits, breaks, stored, overlapped>>, broken' \subseteq broken,
         NEW e \in Editors, NEW q \in EditRequest, editor' = [editor EXCEPT ![e] = q],
         editor[e].step # "none",
         \/ q = NoEditor
         \/ /\ q.step # "none" /\ q.store = editor[e].store /\ q.name = editor[e].name
            /\ q.step \in Quarantining => q.store = "credentials"
            /\ q.store \notin overlapped =>
                 /\ q.step \in {"writesWith", "writesWithout"} => q.read = entries[q.store]
                 /\ q.step \in {"checking", "deletes", "writesWithout"} => q.name \notin stored[q.store]
                 /\ q.step \notin Quarantining
  PROVE  EntryInv'
<1>1. \A s \in Stores \ overlapped : stored[s] \subseteq entries[s] /\ OneEditor(s)
  BY DEF EntryInv, InOrder
<1>2. editor[e].name \in Names
  BY DEF EntryInv, NamesGiven
<1>3. EntryTypeOK
  BY DEF EntryInv
<1>4. CASE q = NoEditor
  <2>1. \A s \in Stores \ overlapped' : MovesWell(e, q, s)
    BY <1>1, <1>4, NoEditorIs DEF MovesWell
  <2> QED BY <1>3, <1>4, <2>1, NoEditorIs, EditorMoves DEF EntryTypeOK
<1>5. CASE q # NoEditor
  <2>1. \A s \in Stores \ overlapped : q.store = s => \A d \in Editors \ {e} : editor[d].step # "none" => editor[d].store # s
    BY <1>1, <1>5 DEF OneEditor
  <2>2. \A s \in Stores \ overlapped' : MovesWell(e, q, s)
    BY <1>1, <1>5, <2>1 DEF MovesWell
  <2> QED BY <1>2, <1>3, <1>5, <2>2, EditorMoves DEF EntryTypeOK
<1> QED BY <1>4, <1>5

LEMMA EntryInvOfReadMcp ==
  ASSUME EntryInv, NEW e \in Editors, ReadMcp(e)
  PROVE  EntryInv'
<1>1. editor[e] \in EditRequest /\ editor[e].store = "mcp" /\ editor[e].step \in {"puts", "deletes"}
  BY DEF EntryInv, EntryTypeOK, EditRequest, EditSteps, ReadMcp
<1>2. UNCHANGED <<entries, broken, edits, breaks, stored, overlapped>>
  BY DEF ReadMcp
<1>3. CASE editor' = [editor EXCEPT ![e] = NoEditor]
  BY <1>1, <1>2, <1>3, NoEditorIs, EditorGoesOn
<1>4. CASE editor' = [editor EXCEPT ![e].read = entries["mcp"],
                       ![e].step = IF @ = "puts" THEN "writesWith" ELSE "writesWithout"]
  <2> DEFINE st == IF editor[e].step = "puts" THEN "writesWith" ELSE "writesWithout"
  <2>1. PICK q : q = [editor[e] EXCEPT !.read = entries["mcp"], !.step = st]
    OBVIOUS
  <2>2. entries["mcp"] \in SUBSET Names
    BY DEF EntryInv, EntryTypeOK, Stores
  <2>3. q \in EditRequest /\ q.store = "mcp" /\ q.name = editor[e].name /\ q.step = st /\ q.read = entries["mcp"]
    BY <1>1, <2>1, <2>2 DEF EditRequest, EditSteps
  <2>4. editor' = [editor EXCEPT ![e] = q]
    BY <1>4, <2>1
  <2>5. "mcp" \notin overlapped /\ st = "writesWithout" => editor[e].name \notin stored["mcp"]
    BY <1>1 DEF EntryInv, InOrder, ReadIsCurrent, Stores
  <2>6. st \notin Quarantining /\ st # "none" /\ st \in {"writesWith", "writesWithout"}
    BY DEF Quarantining
  <2> QED BY <1>1, <1>2, <2>3, <2>4, <2>5, <2>6, EditorGoesOn
<1> QED BY <1>3, <1>4 DEF ReadMcp, IsAnswered

LEMMA EntryInvOfReadProfiles ==
  ASSUME EntryInv, NEW e \in Editors, ReadProfiles(e)
  PROVE  EntryInv'
<1>1. editor[e] \in EditRequest /\ editor[e].store = "credentials"
      /\ editor[e].step \in {"checking", "puts", "deletes", "rereads"}
  BY DEF EntryInv, EntryTypeOK, EditRequest, EditSteps, ReadProfiles
<1>2. UNCHANGED <<entries, broken, edits, breaks, stored, overlapped>>
  BY DEF ReadProfiles
<1>3. CASE editor' = [editor EXCEPT ![e] = NoEditor]
  BY <1>1, <1>2, <1>3, NoEditorIs, EditorGoesOn
<1>4. ASSUME "credentials" \in broken, NEW st \in Quarantining, At(e, st) PROVE EntryInv'
  <2>1. PICK q : q = [editor[e] EXCEPT !.step = st]
    OBVIOUS
  <2>2. q \in EditRequest /\ q.store = "credentials" /\ q.name = editor[e].name /\ q.step = st
    BY <1>1, <2>1 DEF EditRequest, EditSteps, Quarantining
  <2>3. editor' = [editor EXCEPT ![e] = q] /\ st # "none"
    BY <1>4, <2>1 DEF At, Quarantining
  <2>4. "credentials" \in overlapped
    BY <1>4 DEF EntryInv, InOrder, Stores
  <2> QED BY <1>1, <1>2, <2>2, <2>3, <2>4, EditorGoesOn
<1>5. ASSUME NEW st \in {"writesWith", "writesWithout", "deletes"}, st # "writesWith" => editor[e].step \in {"checking", "deletes"},
             editor' = [editor EXCEPT ![e].read = entries["credentials"], ![e].step = st]
      PROVE  EntryInv'
  <2>1. PICK q : q = [editor[e] EXCEPT !.read = entries["credentials"], !.step = st]
    OBVIOUS
  <2>2. entries["credentials"] \in SUBSET Names
    BY DEF EntryInv, EntryTypeOK, Stores
  <2>3. q \in EditRequest /\ q.store = "credentials" /\ q.name = editor[e].name /\ q.step = st
        /\ q.read = entries["credentials"]
    BY <1>1, <2>1, <2>2 DEF EditRequest, EditSteps
  <2>4. editor' = [editor EXCEPT ![e] = q]
    BY <1>5, <2>1
  <2>5. "credentials" \notin overlapped /\ st # "writesWith" => editor[e].name \notin stored["credentials"]
    BY <1>1, <1>5 DEF EntryInv, InOrder, ReadIsCurrent, Stores
  <2>6. st \notin Quarantining /\ st # "none" /\ st # "checking"
    BY DEF Quarantining
  <2> QED BY <1>1, <1>2, <2>3, <2>4, <2>5, <2>6, EditorGoesOn
<1> QED BY <1>3, <1>4, <1>5 DEF ReadProfiles, IsAnswered, Quarantining

LEMMA EntryInvOfQuarantine ==
  ASSUME EntryInv, NEW e \in Editors, Quarantines(e)
  PROVE  EntryInv'
<1>1. editor[e] \in EditRequest /\ editor[e].store = "credentials" /\ editor[e].step \in Quarantining
      /\ editor[e].step # "none" /\ editor[e].name \in Names
  BY DEF EntryInv, EntryTypeOK, EditRequest, EditSteps, Quarantines, NamesGiven, Quarantining
<1>2. UNCHANGED <<edits, breaks, stored, overlapped>> /\ entries' = [entries EXCEPT !["credentials"] = {}] /\ broken' \subseteq broken
  BY DEF Quarantines
<1>3. "credentials" \in overlapped /\ "credentials" \in Stores
  BY <1>1 DEF EntryInv, InOrder, ReadIsCurrent, Stores
<1>4. /\ entries' \in [Stores -> SUBSET Names] /\ stored' \in [Stores -> SUBSET Names]
      /\ \A s \in Stores \ overlapped : entries'[s] = entries[s] /\ stored[s] \subseteq entries[s]
  BY <1>2, <1>3 DEF EntryInv, EntryTypeOK, InOrder
<1>5. EntryTypeOK
  BY DEF EntryInv
<1>6. ASSUME NEW q \in EditRequest, editor' = [editor EXCEPT ![e] = q],
             q = NoEditor \/ (q.store = "credentials" /\ q.step # "none" /\ q.name \in Names)
      PROVE  EntryInv'
  <2>1. CASE q = NoEditor
    <3>1. \A s \in Stores \ overlapped' : MovesWell(e, q, s)
      BY <1>2, <1>4, <2>1, NoEditorIs DEF MovesWell
    <3> QED BY <1>2, <1>4, <1>5, <1>6, <2>1, <3>1, NoEditorIs, EditorMoves DEF EntryTypeOK
  <2>2. CASE q.store = "credentials" /\ q.step # "none" /\ q.name \in Names
    <3>1. \A s \in Stores \ overlapped' : MovesWell(e, q, s)
      BY <1>2, <1>3, <1>4, <2>2 DEF MovesWell
    <3> QED BY <1>2, <1>4, <1>5, <1>6, <2>2, <3>1, EditorMoves DEF EntryTypeOK
  <2> QED BY <1>6, <2>1, <2>2
<1>7. CASE IsAnswered(e)
  BY <1>6, <1>7, NoEditorIs DEF IsAnswered
<1>8. ASSUME NEW st \in {"writesWith", "writesWithout"}, At(e, st) PROVE EntryInv'
  <2>1. PICK q : q = [editor[e] EXCEPT !.step = st]
    OBVIOUS
  <2>2. q \in EditRequest /\ q.store = "credentials" /\ q.name = editor[e].name /\ q.step = st
    BY <1>1, <2>1 DEF EditRequest, EditSteps
  <2>3. editor' = [editor EXCEPT ![e] = q] /\ st # "none"
    BY <1>8, <2>1 DEF At
  <2> QED BY <1>1, <1>6, <2>2, <2>3
<1> QED BY <1>7, <1>8 DEF Quarantines

LEMMA EntryInvOfWrites ==
  ASSUME EntryInv, NEW e \in Editors, WritesEntries(e)
  PROVE  EntryInv'
<1> DEFINE s == editor[e].store
           with == editor[e].step = "writesWith"
<1>1. editor[e] \in EditRequest /\ s \in Stores /\ editor[e].step \in {"writesWith", "writesWithout"}
      /\ editor[e].name \in Names /\ editor[e].read \subseteq Names
  BY DEF EntryInv, EntryTypeOK, EditRequest, EditSteps, WritesEntries, NamesGiven
<1>2. /\ UNCHANGED <<edits, breaks, overlapped>> /\ broken' \subseteq broken
      /\ entries' = [entries EXCEPT ![s] = Written(editor[e])]
      /\ stored' = [stored EXCEPT ![s] = IF with THEN @ \cup {editor[e].name} ELSE @]
  BY DEF WritesEntries
<1>3. EntryTypeOK
  BY DEF EntryInv
<1>4. entries' \in [Stores -> SUBSET Names] /\ stored' \in [Stores -> SUBSET Names]
  BY <1>1, <1>2, <1>3 DEF EntryTypeOK, Written
<1>5. ASSUME NEW t \in Stores \ overlapped, t # s
      PROVE  entries'[t] = entries[t] /\ stored'[t] = stored[t] /\ stored[t] \subseteq entries[t]
  BY <1>2, <1>3, <1>5 DEF EntryInv, EntryTypeOK, InOrder
<1>6. ASSUME s \notin overlapped PROVE stored'[s] \subseteq entries'[s]
  <2>1. /\ editor[e].read = entries[s] /\ stored[s] \subseteq entries[s]
        /\ ~with => editor[e].name \notin stored[s]
    BY <1>1, <1>6 DEF EntryInv, InOrder, ReadIsCurrent
  <2>2. entries'[s] = Written(editor[e]) /\ stored'[s] = IF with THEN stored[s] \cup {editor[e].name} ELSE stored[s]
    BY <1>1, <1>2, <1>3 DEF EntryTypeOK
  <2> QED BY <2>1, <2>2 DEF Written
<1>7. \A t \in Stores \ overlapped :
        /\ \/ entries'[t] = entries[t] /\ stored'[t] \subseteq stored[t]
           \/ editor[e].step # "none" /\ editor[e].store = t
        /\ stored'[t] \subseteq entries'[t]
  BY <1>1, <1>5, <1>6
<1>8. ASSUME NEW q \in EditRequest, editor' = [editor EXCEPT ![e] = q],
             q = NoEditor \/ (q.store = s /\ q.step = "rereads" /\ q.name \in Names)
      PROVE  EntryInv'
  <2>1. CASE q = NoEditor
    <3>1. \A t \in Stores \ overlapped' : MovesWell(e, q, t)
      BY <1>2, <1>7, <2>1, NoEditorIs DEF MovesWell
    <3> QED BY <1>2, <1>3, <1>4, <1>8, <2>1, <3>1, NoEditorIs, EditorMoves DEF EntryTypeOK
  <2>2. CASE q.store = s /\ q.step = "rereads" /\ q.name \in Names
    <3>1. \A t \in Stores \ overlapped : q.store = t => \A d \in Editors \ {e} : editor[d].step # "none" => editor[d].store # t
      BY <1>1, <2>2 DEF EntryInv, InOrder, OneEditor
    <3>2. q.step \notin Quarantining /\ q.step # "none" /\ q.step \notin {"writesWith", "writesWithout", "checking", "deletes"}
      BY <2>2 DEF Quarantining
    <3>3. \A t \in Stores \ overlapped' : MovesWell(e, q, t)
      BY <1>2, <1>7, <3>1, <3>2 DEF MovesWell
    <3> QED BY <1>2, <1>3, <1>4, <1>8, <2>2, <3>2, <3>3, EditorMoves DEF EntryTypeOK
  <2> QED BY <1>8, <2>1, <2>2
<1>9. CASE IsAnswered(e)
  BY <1>8, <1>9, NoEditorIs DEF IsAnswered
<1>10. CASE At(e, "rereads")
  <2>1. PICK q : q = [editor[e] EXCEPT !.step = "rereads"]
    OBVIOUS
  <2>2. q \in EditRequest /\ q.store = s /\ q.name = editor[e].name /\ q.step = "rereads"
    BY <1>1, <2>1 DEF EditRequest, EditSteps
  <2>3. editor' = [editor EXCEPT ![e] = q]
    BY <1>10, <2>1 DEF At
  <2> QED BY <1>1, <1>8, <2>2, <2>3
<1> QED BY <1>9, <1>10 DEF WritesEntries

LEMMA EntryInvOfBreak ==
  ASSUME EntryInv, NEW s \in Stores, Breaks(s)
  PROVE  EntryInv'
<1>1. EntryTypeOK'
  BY EntriesAssumption DEF Breaks, EntryInv, EntryTypeOK
<1>2. /\ UNCHANGED <<editor, stored>> /\ overlapped' = overlapped \cup {s} /\ broken' = broken \cup {s}
      /\ entries' = [entries EXCEPT ![s] = {}]
  BY DEF Breaks
<1>3. ASSUME NEW t \in Stores \ overlapped' PROVE InOrder(t)'
  <2>1. t # s /\ InOrder(t) /\ entries'[t] = entries[t]
    BY <1>2 DEF EntryInv, EntryTypeOK
  <2> QED BY <1>2, <2>1 DEF InOrder, OneEditor, ReadIsCurrent
<1> QED BY <1>1, <1>2, <1>3 DEF EntryInv, NamesGiven

LEMMA EntryInvStep == EntryInv /\ [EntryNext]_entryVars => EntryInv'
<1> SUFFICES ASSUME EntryInv, [EntryNext]_entryVars PROVE EntryInv'
  OBVIOUS
<1>1. CASE UNCHANGED entryVars
  BY <1>1 DEF entryVars, EntryInv, EntryTypeOK, NamesGiven, InOrder, OneEditor, ReadIsCurrent
<1>2. ASSUME NEW e \in Editors, NEW n \in Names,
             (\E s \in Stores : Puts(e, s, n)) \/ GetProfile(e, n) \/ DeleteProfile(e, n) \/ DeleteServer(e, n)
      PROVE  EntryInv'
  BY <1>2, EntryInvOfRequest DEF Puts, GetProfile, DeleteProfile, DeleteServer, Stores
<1> QED BY <1>1, <1>2, EntryInvOfReadMcp, EntryInvOfReadProfiles, EntryInvOfQuarantine, EntryInvOfWrites, EntryInvOfBreak
        DEF EntryNext

LEMMA EntryInvImplies == EntryInv => EntryTypeOK /\ StoredIsKept
BY DEF EntryInv, InOrder, StoredIsKept

\* Whoever edits credentials or servers, broken files included: what was stored is there, unless two
\* edits overlapped or the file was broken (credentials/store.ts, mcp/store.ts).
THEOREM StoredIsKeptHolds == EntrySpec => [](EntryTypeOK /\ StoredIsKept)
<1> QED BY EntryInvInit, EntryInvStep, EntryInvImplies, PTL DEF EntrySpec

-----------------------------------------------------------------------------
(* The repair of a state                                                   *)

\* Completion is the last a node's log says; the status in memory follows it, and so does what a
\* repair leaves.
CompletionIsLast == Completed => log # <<>> /\ log[Len(log)] = "node_completed"
CompletedIsDone == alive /\ Completed => status = "done"
LoggedOnce == toLog # NoEvent => alive /\ ~Completed
CompletesDone == toLog = "node_completed" => status = "done"

RepInv == RepTypeOK /\ CompletionIsLast /\ CompletedIsDone /\ LoggedOnce /\ CompletesDone /\ RepairIsTrue

LEMMA RepTypes == RepTypeOK <=>
  /\ status \in Statuses /\ diskStatus \in Statuses /\ log \in Seq(NodeEvents) /\ toLog \in NodeEvents \cup {NoEvent}
  /\ life \in 1 .. MaxLives /\ alive \in BOOLEAN /\ repaired \in BOOLEAN /\ again \in BOOLEAN
BY DEF RepTypeOK

LEMMA RepTypesNext == RepTypeOK' <=>
  /\ status' \in Statuses /\ diskStatus' \in Statuses /\ log' \in Seq(NodeEvents) /\ toLog' \in NodeEvents \cup {NoEvent}
  /\ life' \in 1 .. MaxLives /\ alive' \in BOOLEAN /\ repaired' \in BOOLEAN /\ again' \in BOOLEAN
BY DEF RepTypeOK

LEMMA RepInvInit == RepInit => RepInv
<1> SUFFICES ASSUME RepInit PROVE RepInv
  OBVIOUS
<1>1. ~Completed
  BY DEF RepInit, Completed
<1>2. RepTypeOK
  <2>1. status \in Statuses /\ diskStatus \in Statuses
    BY DEF RepInit, Statuses
  <2>2. log \in Seq(NodeEvents)
    BY DEF RepInit
  <2>3. toLog \in NodeEvents \cup {NoEvent}
    BY DEF RepInit
  <2>4. life \in 1 .. MaxLives
    BY RepairAssumption DEF RepInit
  <2>5. alive \in BOOLEAN /\ repaired \in BOOLEAN /\ again \in BOOLEAN
    BY DEF RepInit
  <2> QED BY <2>1, <2>2, <2>3, <2>4, <2>5, RepTypes
<1> QED BY <1>1, <1>2 DEF RepInit, RepInv, CompletionIsLast, CompletedIsDone, LoggedOnce, CompletesDone, RepairIsTrue, NoEvent

\* What a repair leaves has no issue but that of a node without events.
LEMMA RepairMends ==
  ASSUME RepTypeOK, RepairState
  PROVE  (Issues \subseteq {"no events"})'
<1>1. log' = log /\ log \in Seq(NodeEvents)
  BY DEF RepairState, RepTypeOK
<1>2. CASE log = <<>>
  BY <1>1, <1>2 DEF Issues
<1>3. CASE log # <<>> /\ Issues = {}
  <2>1. diskStatus' = diskStatus
    BY <1>3 DEF RepairState
  <2>2. Issues' = Issues
    BY <1>1, <2>1 DEF Issues, LastEvent, Completed, Last
  <2> QED BY <1>3, <2>2
<1>4. CASE log # <<>> /\ Issues # {}
  <2>1. diskStatus' = Expected(LastEvent) /\ LastEvent' = LastEvent /\ Completed' = Completed
    BY <1>1, <1>4 DEF RepairState, LastEvent, Completed, Last
  <2>2. LastEvent \in NodeEvents /\ LastEvent = log[Len(log)] /\ Len(log) \in DOMAIN log
    BY <1>1, <1>4 DEF LastEvent, Last
  <2>3. Expected(LastEvent) = "done" => LastEvent = "node_completed"
    BY <2>2 DEF Expected, NodeEvents
  <2>4. diskStatus' = "done" => Completed'
    BY <2>1, <2>2, <2>3 DEF Completed
  <2>5. diskStatus' = Expected(LastEvent)'
    BY <2>1
  <2> QED BY <1>1, <1>4, <2>4, <2>5 DEF Issues
<1> QED BY <1>2, <1>3, <1>4

LEMMA RepInvStep == RepInv /\ [RepNext]_repVars => RepInv'
<1> SUFFICES ASSUME RepInv, [RepNext]_repVars PROVE RepInv'
  OBVIOUS
<1> USE RepTypes DEF RepInv
<1> DEFINE Same == log' = log
<1>0. log' = log => Completed' = Completed
  BY DEF Completed
<1>1. CASE StartsNode
  <2>1. ~Completed
    BY <1>1 DEF StartsNode, CompletedIsDone
  <2>2. RepTypeOK'
    BY <1>1 DEF StartsNode, RepTypeOK, Statuses, NodeEvents
  <2> QED BY <1>0, <1>1, <2>1, <2>2 DEF StartsNode, CompletionIsLast, CompletedIsDone, LoggedOnce, CompletesDone, RepairIsTrue
<1>2. CASE EventAppended
  <2>1. log' = Append(log, toLog) /\ toLog \in NodeEvents /\ toLog' = NoEvent /\ alive /\ ~Completed
        /\ UNCHANGED <<status, diskStatus, life, alive, repaired, again>>
    BY <1>2 DEF EventAppended, LoggedOnce
  <2>2. log' \in Seq(NodeEvents) /\ log' # <<>> /\ Len(log') = Len(log) + 1 /\ log'[Len(log')] = toLog
        /\ \A i \in DOMAIN log' : i = Len(log') \/ (i \in DOMAIN log /\ log'[i] = log[i])
    BY <2>1
  <2>3. Completed' => toLog = "node_completed"
    BY <2>1, <2>2 DEF Completed
  <2>4. RepTypeOK'
    BY <2>1, <2>2 DEF RepTypeOK
  <2>5. CompletionIsLast' /\ CompletedIsDone'
    BY <2>1, <2>2, <2>3 DEF CompletionIsLast, CompletedIsDone, CompletesDone
  <2> QED BY <2>1, <2>4, <2>5 DEF LoggedOnce, CompletesDone, RepairIsTrue, NoEvent
<1>3. ASSUME NEW r \in LifeResults, Executed(r) PROVE RepInv'
  <2>1. ~Completed /\ log' = log /\ alive /\ UNCHANGED <<diskStatus, life, alive, repaired, again>>
    BY <1>3 DEF Executed, CompletedIsDone
  <2>2. status' \in Statuses /\ toLog' \in NodeEvents \cup {NoEvent} /\ (toLog' = "node_completed" => status' = "done")
    BY <1>3, RepairAssumption DEF Executed, EventOf, Statuses, NodeEvents, NoEvent
  <2> QED BY <1>0, <2>1, <2>2 DEF RepTypeOK, CompletionIsLast, CompletedIsDone, LoggedOnce, CompletesDone, RepairIsTrue
<1>4. CASE ProviderIsBack
  <2>1. status # "done" /\ status' = "running" /\ UNCHANGED <<diskStatus, log, toLog, life, alive, repaired, again>> /\ alive
    BY <1>4 DEF ProviderIsBack
  <2> QED BY <1>0, <2>1 DEF RepTypeOK, Statuses, CompletionIsLast, CompletedIsDone, LoggedOnce, CompletesDone, RepairIsTrue
<1>5. CASE SavesState
  BY <1>0, <1>5 DEF SavesState, RepTypeOK, CompletionIsLast, CompletedIsDone, LoggedOnce, CompletesDone, RepairIsTrue
<1>6. CASE ProcessDies
  <2>1. life' \in 1 .. MaxLives
    BY <1>6, RepairAssumption DEF ProcessDies
  <2>2. toLog' = NoEvent /\ alive' = FALSE /\ repaired' = FALSE /\ UNCHANGED <<status, diskStatus, log, again>>
    BY <1>6 DEF ProcessDies
  <2>3. NoEvent # "node_completed"
    BY DEF NoEvent
  <2>4. RepTypeOK'
    BY <2>1, <2>2, RepTypesNext
  <2>5. CompletionIsLast' /\ CompletedIsDone'
    BY <1>0, <2>2 DEF CompletionIsLast, CompletedIsDone
  <2>6. LoggedOnce' /\ CompletesDone'
    BY <2>2, <2>3 DEF LoggedOnce, CompletesDone
  <2>7. RepairIsTrue'
    BY <2>2 DEF RepairIsTrue
  <2> QED BY <2>4, <2>5, <2>6, <2>7
<1>7. CASE RepairState
  <2>1. diskStatus' \in Statuses
    <3>1. log # <<>> => LastEvent \in NodeEvents
      BY DEF LastEvent, Last
    <3>2. log # <<>> => Expected(LastEvent) \in Statuses
      BY <3>1 DEF Expected, NodeEvents, Statuses
    <3> QED BY <1>7, <3>2 DEF RepairState
  <2>2. repaired' = TRUE /\ alive = FALSE /\ UNCHANGED <<status, log, toLog, life, alive, again>>
    BY <1>7 DEF RepairState
  <2>3. RepTypeOK'
    BY <2>1, <2>2, RepTypesNext
  <2>4. CompletionIsLast' /\ CompletedIsDone' /\ LoggedOnce' /\ CompletesDone'
    BY <1>0, <2>2 DEF CompletionIsLast, CompletedIsDone, LoggedOnce, CompletesDone
  <2>5. RepairIsTrue'
    BY <1>7, <2>2, RepairMends DEF RepairIsTrue
  <2> QED BY <2>3, <2>4, <2>5
<1>8. CASE ResumeState
  <2>1. Completed => diskStatus = "done"
    <3> SUFFICES ASSUME Completed PROVE diskStatus = "done"
      OBVIOUS
    <3>1. log # <<>> /\ LastEvent = "node_completed"
      BY DEF CompletionIsLast, LastEvent, Last
    <3>2. Expected(LastEvent) = "done"
      BY <3>1 DEF Expected
    <3>3. "mismatch" \notin Issues
      BY <1>8 DEF ResumeState, RepairIsTrue
    <3> QED BY <3>1, <3>2, <3>3 DEF Issues
  <2>2. status' \in Statuses /\ diskStatus' = status' /\ (diskStatus = "done" => status' = "done")
    BY <1>8 DEF ResumeState, Statuses
  <2>3. alive' = TRUE /\ alive = FALSE /\ UNCHANGED <<log, toLog, life, repaired, again>>
    BY <1>8 DEF ResumeState
  <2>4. RepTypeOK'
    BY <2>2, <2>3, RepTypesNext
  <2>5. CompletionIsLast' /\ CompletedIsDone'
    BY <1>0, <2>1, <2>2, <2>3 DEF CompletionIsLast, CompletedIsDone
  <2>6. LoggedOnce' /\ CompletesDone'
    BY <2>3 DEF LoggedOnce, CompletesDone, NoEvent
  <2>7. RepairIsTrue'
    BY <2>3 DEF RepairIsTrue
  <2> QED BY <2>4, <2>5, <2>6, <2>7
<1>9. CASE UNCHANGED repVars
  BY <1>9 DEF repVars, RepTypeOK, CompletionIsLast, CompletedIsDone, LoggedOnce, CompletesDone, RepairIsTrue, Issues, Completed, LastEvent, Last
<1> QED BY <1>1, <1>2, <1>3, <1>4, <1>5, <1>6, <1>7, <1>8, <1>9 DEF RepNext

\* Wherever a process dies: a node of which the completion was logged is not executed again once the
\* state was repaired, and a repaired file is consistent with the log (persistence/state.ts).
THEOREM RepairIsTrueHolds == RepSpec => [](RepTypeOK /\ RepairIsTrue)
<1>1. RepInv => RepTypeOK /\ RepairIsTrue
  BY DEF RepInv
<1> QED BY <1>1, RepInvInit, RepInvStep, PTL DEF RepSpec

-----------------------------------------------------------------------------
(* The configuration in memory and its file                                *)

Stale(r) == reload[r].step = "read" /\ reload[r].read # onFile
\* A reload that will bring what is in the file.
ReloadComes ==
  \/ notices > 0 /\ ~skipNext
  \/ debounce
  \/ \E r \in Reloads : reload[r].step = "reading"
  \/ \E r \in Reloads : reload[r].step = "read" /\ reload[r].read = onFile
AllRest == ~debounce /\ \A r \in Reloads : reload[r] = NotReloading
\* While one write is under way nothing is reloaded; it writes what is in memory, and the first
\* notification of it is the one that is skipped.
OneWrite ==
  \E p \in persists :
    /\ persists = {p} /\ p.content = layer /\ AllRest
    /\ p.step = "asked" => ~torn /\ notices = 0 /\ skipNext
    /\ p.step = "truncated" => (notices = 1 /\ skipNext) \/ (notices = 0 /\ ~skipNext)
NoWrite ==
  /\ ~torn /\ \A r \in Reloads : reload[r].step # "failed"
  /\ skipNext => notices > 0 /\ AllRest /\ layer = onFile
  /\ (layer # onFile \/ \E r \in Reloads : Stale(r)) => ReloadComes

CfgInv ==
  /\ CfgTypeOK
  /\ disturbed \/ IF persists = {} THEN NoWrite ELSE OneWrite

LEMMA CfgInvInit == CfgInit => CfgInv
<1> SUFFICES ASSUME CfgInit PROVE CfgInv
  OBVIOUS
<1>1. CfgTypeOK
  <2>1. NotReloading \in [step : {"none", "reading", "read", "failed"}, read : SUBSET CfgChanges]
    BY DEF NotReloading
  <2>2. updates \in 0 .. MaxUpdates /\ externals \in 0 .. MaxExternal
    BY ConfigAssumption DEF CfgInit
  <2> QED BY <2>1, <2>2 DEF CfgInit, CfgTypeOK
<1>2. NoWrite
  BY DEF CfgInit, NoWrite, NotReloading, Stale
<1> QED BY <1>1, <1>2 DEF CfgInit, CfgInv

LEMMA CfgInvImplies == CfgInv => ConfigAgrees
BY DEF CfgInv, ConfigAgrees, Idling, NoWrite, ReloadComes, NotReloading, CfgTypeOK

LEMMA CfgTypesKept == CfgTypeOK /\ [CfgNext]_cfgVars => CfgTypeOK'
<1> SUFFICES ASSUME CfgTypeOK, [CfgNext]_cfgVars PROVE CfgTypeOK'
  OBVIOUS
<1> USE DEF CfgTypeOK
<1> DEFINE ReloadSteps == {"none", "reading", "read", "failed"}
<1>0. ASSUME Notify PROVE notices' \in Nat
  BY <1>0 DEF Notify
<1>1. CASE UpdateConfig
  <2>1. updates + 1 \in CfgChanges /\ updates' \in 0 .. MaxUpdates
    BY <1>1, ConfigAssumption DEF UpdateConfig, CfgChanges
  <2>2. layer' \subseteq CfgChanges
    BY <1>1, <2>1 DEF UpdateConfig
  <2> QED BY <1>1, <2>1, <2>2 DEF UpdateConfig, Idling
<1>2. CASE OthersEdit
  <2>1. MaxUpdates + externals + 1 \in CfgChanges /\ externals' \in 0 .. MaxExternal
    BY <1>2, ConfigAssumption DEF OthersEdit, CfgChanges
  <2>2. notices' \in Nat
    BY <1>0, <1>2 DEF OthersEdit
  <2> QED BY <1>2, <2>1, <2>2 DEF OthersEdit
<1>3. CASE HandleFileChange
  <2>1. notices' \in Nat /\ UNCHANGED <<layer, onFile, torn, persists, reload, updates, externals, disturbed>>
    BY <1>3 DEF HandleFileChange
  <2>2. skipNext' \in BOOLEAN /\ debounce' \in BOOLEAN
    BY <1>3 DEF HandleFileChange, SkipsNext
  <2> QED BY <2>1, <2>2
<1>4. ASSUME NEW p \in persists, Truncates(p) PROVE CfgTypeOK'
  BY <1>0, <1>4 DEF Truncates
<1>5. ASSUME NEW p \in persists, Fills(p) PROVE CfgTypeOK'
  BY <1>0, <1>5 DEF Fills
<1>6. ASSUME NEW p \in persists, PersistFails(p) PROVE CfgTypeOK'
  BY <1>6 DEF PersistFails
<1>7. ASSUME NEW r \in Reloads, Fires(r) PROVE CfgTypeOK'
  BY <1>7 DEF Fires
<1>8. ASSUME NEW r \in Reloads, ReadsFile(r) PROVE CfgTypeOK'
  BY <1>8 DEF ReadsFile
<1>9. ASSUME NEW r \in Reloads, Reloaded(r) PROVE CfgTypeOK'
  BY <1>9 DEF Reloaded, NotReloading
<1>10. CASE UNCHANGED cfgVars
  BY <1>10 DEF cfgVars
<1> QED BY <1>1, <1>2, <1>3, <1>4, <1>5, <1>6, <1>7, <1>8, <1>9, <1>10 DEF CfgNext

LEMMA CfgInvStep == CfgInv /\ [CfgNext]_cfgVars => CfgInv'
<1> SUFFICES ASSUME CfgInv, [CfgNext]_cfgVars PROVE CfgInv'
  OBVIOUS
<1>0. CfgTypeOK /\ CfgTypeOK'
  BY CfgTypesKept DEF CfgInv
<1> SUFFICES ASSUME ~disturbed' PROVE IF persists' = {} THEN NoWrite' ELSE OneWrite'
  BY <1>0 DEF CfgInv
<1> DEFINE Now == IF persists = {} THEN NoWrite ELSE OneWrite
           Then == IF persists' = {} THEN NoWrite' ELSE OneWrite'
<1>1. CASE UpdateConfig
  <2>1. Idling /\ ~disturbed /\ NoWrite
    BY <1>1 DEF UpdateConfig, CfgInv, Idling
  <2> DEFINE q == [content |-> layer', step |-> "asked"]
  <2>2. persists' = {q} /\ q.content = layer' /\ q.step = "asked"
    BY <1>1, <2>1 DEF UpdateConfig, Idling
  <2>3. AllRest' /\ ~torn' /\ notices' = 0 /\ skipNext'
    BY <1>1, <2>1 DEF UpdateConfig, Idling, NoWrite, AllRest
  <2> HIDE DEF q
  <2> QED BY <2>2, <2>3 DEF OneWrite
<1>2. CASE OthersEdit
  <2>0. ~disturbed /\ persists = {} /\ ~(notices > 0) /\ persists' = persists
    BY <1>2 DEF OthersEdit
  <2>1. notices = 0 /\ persists' = {} /\ NoWrite
    BY <2>0, <1>0 DEF CfgInv, CfgTypeOK
  <2>2. ~skipNext /\ ~skipNext' /\ notices' > 0
    BY <1>2, <2>0, <2>1 DEF OthersEdit, NoWrite, Notify
  <2> QED BY <1>2, <2>0, <2>1, <2>2 DEF OthersEdit, NoWrite, ReloadComes
<1>3. CASE HandleFileChange
  <2>1. ~disturbed /\ UNCHANGED <<layer, onFile, torn, persists, reload>>
    BY <1>3 DEF HandleFileChange
  <2>2. CASE persists = {}
    <3>1. NoWrite
      BY <2>1, <2>2 DEF CfgInv
    <3>2. CASE skipNext
      <4>1. ~skipNext'
        BY <1>3, <3>2 DEF HandleFileChange, SkipsNext
      <4>2. AllRest /\ layer = onFile
        BY <3>1, <3>2 DEF NoWrite
      <4>3. layer' = onFile' /\ \A r \in Reloads : ~Stale(r)'
        BY <2>1, <4>2 DEF AllRest, Stale, NotReloading
      <4> QED BY <2>1, <2>2, <3>1, <4>1, <4>3 DEF NoWrite
    <3>3. CASE ~skipNext
      <4>1. ~skipNext' /\ debounce'
        BY <1>3, <3>3 DEF HandleFileChange, SkipsNext
      <4>2. ReloadComes'
        BY <4>1 DEF ReloadComes
      <4> QED BY <2>1, <2>2, <3>1, <4>1, <4>2 DEF NoWrite
    <3> QED BY <2>1, <2>2, <3>2, <3>3
  <2>3. CASE persists # {}
    <3>1. OneWrite
      BY <2>1, <2>3 DEF CfgInv
    <3>2. PICK p \in persists : persists = {p} /\ p.content = layer /\ AllRest
            /\ (p.step = "asked" => ~torn /\ notices = 0 /\ skipNext)
            /\ (p.step = "truncated" => (notices = 1 /\ skipNext) \/ (notices = 0 /\ ~skipNext))
      BY <3>1 DEF OneWrite
    <3>3. p.step = "truncated" /\ notices = 1 /\ skipNext
      BY <1>0, <1>3, <3>2 DEF HandleFileChange, CfgTypeOK
    <3>4. notices' = 0 /\ ~skipNext' /\ AllRest'
      BY <1>3, <2>1, <3>2, <3>3 DEF HandleFileChange, SkipsNext, AllRest
    <3>5. OneWrite'
      BY <2>1, <3>2, <3>3, <3>4 DEF OneWrite
    <3> QED BY <2>1, <2>3, <3>5
  <2> QED BY <2>2, <2>3
<1>4. ASSUME NEW p \in persists, Truncates(p) PROVE Then
  <2>1. ~disturbed /\ OneWrite /\ UNCHANGED <<layer, onFile, skipNext, debounce, reload>>
    BY <1>4 DEF Truncates, CfgInv
  <2>2. persists = {p} /\ p.content = layer /\ AllRest /\ notices = 0 /\ skipNext
    BY <1>4, <2>1 DEF OneWrite, Truncates
  <2> DEFINE q == [p EXCEPT !.step = "truncated"]
  <2>3. persists' = {q} /\ q.step = "truncated" /\ q.content = p.content
    BY <1>0, <1>4, <2>2 DEF Truncates, CfgTypeOK
  <2>4. notices' = 1 /\ AllRest'
    BY <1>4, <2>1, <2>2 DEF Truncates, Notify, AllRest
  <2> HIDE DEF q
  <2>5. OneWrite'
    BY <2>1, <2>2, <2>3, <2>4 DEF OneWrite
  <2> QED BY <2>3, <2>5
<1>5. ASSUME NEW p \in persists, Fills(p) PROVE Then
  <2>1. ~disturbed /\ OneWrite /\ UNCHANGED <<layer, skipNext, debounce, reload>>
    BY <1>5 DEF Fills, CfgInv
  <2>2. persists = {p} /\ p.content = layer /\ AllRest /\ persists' = {} /\ onFile' = layer' /\ ~torn'
    BY <1>5, <2>1 DEF OneWrite, Fills
  <2>3. notices' > 0
    BY <1>0, <1>5 DEF Fills, Notify, CfgTypeOK
  <2>4. NoWrite'
    BY <2>1, <2>2, <2>3 DEF NoWrite, AllRest, Stale, NotReloading
  <2> QED BY <2>2, <2>4
<1>6. ASSUME NEW p \in persists, PersistFails(p) PROVE Then
  BY <1>6 DEF PersistFails
\* A reload goes on: nothing is being written.
<1>7. ASSUME NEW r \in Reloads, debounce \/ reload[r].step # "none", ~disturbed PROVE persists = {} /\ NoWrite
  BY <1>7 DEF CfgInv, OneWrite, AllRest, NotReloading
<1>8. ASSUME NEW r \in Reloads, Fires(r) PROVE Then
  <2>1. persists = {} /\ NoWrite /\ ~disturbed /\ ~skipNext
    BY <1>7, <1>8 DEF Fires, NoWrite, AllRest
  <2>2. reload'[r].step = "reading" /\ (\A s \in Reloads \ {r} : reload'[s] = reload[s])
        /\ UNCHANGED <<layer, onFile, torn, persists, notices, skipNext>>
    BY <1>0, <1>8 DEF Fires, CfgTypeOK
  <2> QED BY <2>1, <2>2 DEF NoWrite, ReloadComes
<1>9. ASSUME NEW r \in Reloads, ReadsFile(r) PROVE Then
  <2>1. persists = {} /\ NoWrite /\ ~disturbed /\ ~torn
    BY <1>7, <1>9 DEF ReadsFile, NoWrite
  <2>2. reload'[r] = [step |-> "read", read |-> onFile] /\ (\A s \in Reloads \ {r} : reload'[s] = reload[s])
        /\ UNCHANGED <<layer, onFile, torn, persists, notices, skipNext, debounce>>
    BY <1>0, <1>9, <2>1 DEF ReadsFile, CfgTypeOK
  <2>3. ~skipNext
    BY <1>9, <2>1 DEF NoWrite, AllRest, NotReloading, ReadsFile
  <2> QED BY <2>1, <2>2, <2>3 DEF NoWrite, ReloadComes
<1>10. ASSUME NEW r \in Reloads, Reloaded(r) PROVE Then
  <2>1. persists = {} /\ NoWrite /\ ~disturbed
    BY <1>7, <1>10 DEF Reloaded
  <2>2. reload[r].step = "read" /\ layer' = reload[r].read /\ \A s \in Reloads \ {r} : reload[s].step # "read"
    BY <1>10, <2>1 DEF Reloaded, NoWrite
  <2>3. reload'[r].step = "none" /\ (\A s \in Reloads \ {r} : reload'[s] = reload[s])
        /\ UNCHANGED <<onFile, torn, persists, notices, skipNext, debounce>>
    BY <1>0, <1>10 DEF Reloaded, CfgTypeOK, NotReloading
  <2>4. ~skipNext
    BY <1>10, <2>1 DEF NoWrite, AllRest, NotReloading, Reloaded
  <2>5. layer' # onFile' => ReloadComes'
    BY <2>1, <2>2, <2>3 DEF NoWrite, ReloadComes, Stale
  <2>6. \A s \in Reloads : ~Stale(s)'
    BY <2>2, <2>3 DEF Stale
  <2> QED BY <2>1, <2>3, <2>4, <2>5, <2>6 DEF NoWrite
<1>11. CASE UNCHANGED cfgVars
  BY <1>11 DEF cfgVars, CfgInv, NoWrite, OneWrite, AllRest, ReloadComes, Stale
<1> QED BY <1>1, <1>2, <1>3, <1>4, <1>5, <1>6, <1>8, <1>9, <1>10, <1>11 DEF CfgNext

\* However updates, notifications and reloads interleave: once they are quiet the configuration in
\* memory is the file's, but for what overlapped (config.ts, ConfigManager).
THEOREM ConfigAgreesHolds == CfgSpec => [](CfgTypeOK /\ ConfigAgrees)
<1>1. CfgInv => CfgTypeOK /\ ConfigAgrees
  BY CfgInvImplies DEF CfgInv
<1> QED BY <1>1, CfgInvInit, CfgInvStep, PTL DEF CfgSpec

-----------------------------------------------------------------------------
(* The command that edits the configuration                                *)

SettingValues == {"1", "true", "false", Bad, Absent}
UseRecords == [step : {"none", "reads", "second", "writes", "fills"}, op : {"none", "set", "get", "load"},
          scope : Scopes, key : Keys, value : SettingValues, read : [Scopes -> [Keys -> SettingValues]], alone : BOOLEAN]

WritesTo(t, s) == use[t].step # "none" /\ use[t].op = "set" /\ use[t].scope = s
UseKinds ==
  /\ use \in [Terminals -> UseRecords] /\ lastSaid \in [Scopes -> [Keys -> SettingValues]]
  /\ \A t \in Terminals : /\ use[t].step \in {"writes", "fills"} => use[t].op = "set"
                          /\ use[t].step = "second" => use[t].op # "set"
                          /\ use[t].op = "none" => use[t].step = "none"
\* While no two writers have crossed and none was killed a file has one writer, which has read
\* what is there; and a reader that is alone has met none.
OneWriter == \A s \in Scopes : \A t, u \in Terminals : WritesTo(t, s) /\ WritesTo(u, s) => t = u
WriterHasRead ==
  \A t \in Terminals : use[t].step \in {"writes", "fills"}
                         => use[t].read[use[t].scope] = configFiles[use[t].scope].sets
TornIsWritten ==
  \A s \in Scopes : configFiles[s].torn => \E t \in Terminals : use[t].scope = s /\ use[t].step = "fills"
AloneMeetsNone ==
  \A t \in Terminals : use[t].step # "none" /\ use[t].op # "set" /\ use[t].alone
    => /\ \A s \in Scopes : \A u \in Terminals : ~WritesTo(u, s)
       /\ use[t].step = "second" => use[t].read["global"] = configFiles["global"].sets
Untangled == OneWriter /\ WriterHasRead /\ TornIsWritten /\ AloneMeetsNone /\ Layers = lastSaid
UseInv == UseTypeOK /\ UseKinds /\ (tangled \/ Untangled) /\ learned.view = learned.due

\* What the command shows and what the daemon uses agree.
LEMMA ViewsAgree ==
  ASSUME UseTypeOK, DaemonView(Layers) # Corrupted
  PROVE  /\ CliView(Layers) # Corrupted
         /\ \A k \in Keys : (\E s \in Scopes : Layers[s][k] # Absent)
                            => CliView(Layers).config[k] = DaemonView(Layers).config[k]
<1> DEFINE p == Layers["project"]
           g == Layers["global"]
           low == Over(LevelPreset(Over(p, Over(g, ConfigDefaults)).level), ConfigDefaults)
<1>1. ~\E s \in Scopes, k \in Keys : Layers[s][k] = Bad
  BY DEF DaemonView
<1>2. DaemonView(Layers) = Shown(Over(p, Over(g, low)))
  BY <1>1 DEF DaemonView
<1>3. \A k \in Keys : p[k] # Bad /\ g[k] # Bad
  BY <1>1 DEF Scopes
<1>4. \A k \in Keys : Merged(Layers)[k] = (IF p[k] # Absent THEN p[k] ELSE g[k])
  BY DEF Merged, Over
<1>5. ~\E k \in Keys : Merged(Layers)[k] = Bad
  BY <1>3, <1>4
<1>6. CliView(Layers) = Shown(Over(Merged(Layers), ConfigDefaults))
  BY <1>5 DEF CliView
<1>7. CliView(Layers) # Corrupted
  BY <1>6 DEF Shown, Corrupted
<1>8. ASSUME NEW k \in Keys, \E s \in Scopes : Layers[s][k] # Absent
      PROVE  CliView(Layers).config[k] = DaemonView(Layers).config[k]
  <2>1. p[k] # Absent \/ g[k] # Absent
    BY <1>8 DEF Scopes
  <2>2. CliView(Layers).config = Over(Merged(Layers), ConfigDefaults) /\ DaemonView(Layers).config = Over(p, Over(g, low))
    BY <1>2, <1>6 DEF Shown
  <2> HIDE DEF low, p, g
  <2>3. Over(p, Over(g, low))[k] = (IF p[k] # Absent THEN p[k] ELSE IF g[k] # Absent THEN g[k] ELSE low[k])
    BY DEF Over
  <2>4. Over(Merged(Layers), ConfigDefaults)[k] = (IF Merged(Layers)[k] # Absent THEN Merged(Layers)[k] ELSE ConfigDefaults[k])
    BY DEF Over
  <2> QED BY <1>4, <2>1, <2>2, <2>3, <2>4
<1> QED BY <1>7, <1>8

LEMMA UseInvImplies == UseInv => UseTypeOK /\ SettingsAreTold
<1> SUFFICES ASSUME UseInv PROVE SettingsAreTold
  BY DEF UseInv
<1>1. tangled \/ \A s \in Scopes : configFiles[s].torn => Writing(s) # {}
  BY DEF UseInv, Untangled, TornIsWritten, Writing, UseKinds
<1>2. tangled \/ Layers = lastSaid
  BY DEF UseInv, Untangled
<1>3. learned.view = learned.due /\ UseTypeOK
  BY DEF UseInv
<1> QED BY <1>1, <1>2, <1>3, ViewsAgree DEF SettingsAreTold

LEMMA NothingIsKept == SetsNothing \in [Keys -> SettingValues] /\ NoUse \in UseRecords /\ NoUse.step = "none" /\ NoUse.op = "none"
<1>1. SetsNothing \in [Keys -> SettingValues]
  BY DEF SetsNothing, SettingValues
<1>2. [s \in Scopes |-> [k \in Keys |-> Absent]] \in [Scopes -> [Keys -> SettingValues]]
  BY DEF SettingValues
<1>3. "global" \in Scopes /\ "level" \in Keys /\ Absent \in SettingValues
  BY DEF Scopes, Keys, SettingValues
<1>4. NoUse \in UseRecords /\ NoUse.step = "none" /\ NoUse.op = "none"
  BY <1>2, <1>3 DEF NoUse, UseRecords
<1> QED BY <1>1, <1>4

LEMMA UseInvInit == UseInit => UseInv
<1> SUFFICES ASSUME UseInit PROVE UseInv
  OBVIOUS
<1> USE NothingIsKept
<1>1. UseTypeOK
  <2>1. [sets |-> SetsNothing, torn |-> FALSE] \in [sets : [Keys -> {"1", "true", "false", Bad, Absent}], torn : BOOLEAN]
    BY DEF SettingValues
  <2>2. uses \in 0 .. MaxUses
    BY UsesAssumption DEF UseInit
  <2>3. tangled \in BOOLEAN
    BY DEF UseInit
  <2> QED BY <2>1, <2>2, <2>3 DEF UseInit, UseTypeOK
<1>2. UseKinds
  BY DEF UseInit, UseKinds
<1>3. Layers = lastSaid /\ \A s \in Scopes : ~configFiles[s].torn
  BY DEF UseInit, Layers
<1>4. Untangled
  BY <1>3 DEF UseInit, Untangled, OneWriter, WriterHasRead, TornIsWritten, AloneMeetsNone, WritesTo
<1>5. learned.view = learned.due
  BY DEF UseInit, NothingLearned
<1> QED BY <1>1, <1>2, <1>4, <1>5 DEF UseInv

\* The steps of a command under way: its own record changes, those of the others stay.
LEMMA NobodyWrites ==
  ASSUME UseKinds, \A s \in Scopes : \A u \in Terminals : ~WritesTo(u, s), TornIsWritten
  PROVE  \A s \in Scopes : ~configFiles[s].torn
BY DEF TornIsWritten, WritesTo, UseKinds, UseRecords

LEMMA UseInvStep == UseInv /\ [UseNext]_useVars => UseInv'
<1> SUFFICES ASSUME UseInv, [UseNext]_useVars PROVE UseInv'
  OBVIOUS
<1>0. UseTypeOK /\ UseKinds /\ use \in [Terminals -> UseRecords] /\ (tangled \/ Untangled) /\ learned.view = learned.due
  BY DEF UseInv, UseKinds
<1> USE NothingIsKept
<1>1. ASSUME NEW t \in Terminals, NEW op \in {"set", "get", "load"}, NEW s \in Scopes, NEW k \in Keys, NEW v \in SettingValues,
             Uses(t, op, s, k, v)
      PROVE  UseInv'
  <2> DEFINE busy == \E z \in Scopes : Writing(z) # {}
             n == [NoUse EXCEPT !.step = "reads", !.op = op, !.scope = s, !.key = k, !.value = v, !.alone = ~busy]
             b(u) == use[u].alone /\ (op # "set" \/ use[u].step = "none")
             m(u) == [use[u] EXCEPT !.alone = b(u)]
  <2>1. /\ use[t].step = "none" /\ uses' = uses + 1
        /\ use' = [u \in Terminals |-> IF u = t THEN n ELSE m(u)]
        /\ UNCHANGED <<configFiles, lastSaid>> /\ learned' = NothingLearned
    BY <1>1 DEF Uses
  <2>2. tangled' = (tangled \/ (op = "set" /\ Writing(s) # {}))
    BY <1>1 DEF Uses
  <2>3. busy \in BOOLEAN /\ \A u \in Terminals : b(u) \in BOOLEAN
    BY <1>0 DEF UseRecords
  <2>4. n \in UseRecords /\ n.step = "reads" /\ n.op = op /\ n.scope = s /\ n.alone = ~busy
    <3> HIDE DEF busy
    <3> QED BY <2>3 DEF UseRecords
  <2>5. ASSUME NEW u \in Terminals
        PROVE  /\ m(u) \in UseRecords /\ m(u).step = use[u].step /\ m(u).op = use[u].op /\ m(u).scope = use[u].scope
               /\ m(u).read = use[u].read /\ m(u).alone = b(u)
    <3> DEFINE c == b(u)
    <3>1. c \in BOOLEAN /\ use[u] \in UseRecords
      BY <1>0, <2>3
    <3> HIDE DEF c
    <3>2. [use[u] EXCEPT !.alone = c] \in UseRecords
      BY <3>1 DEF UseRecords
    <3>3. /\ [use[u] EXCEPT !.alone = c].step = use[u].step /\ [use[u] EXCEPT !.alone = c].op = use[u].op
          /\ [use[u] EXCEPT !.alone = c].scope = use[u].scope /\ [use[u] EXCEPT !.alone = c].read = use[u].read
          /\ [use[u] EXCEPT !.alone = c].alone = c
      BY <3>1 DEF UseRecords
    <3> QED BY <3>2, <3>3 DEF c
  <2> HIDE DEF m, n
  <2>6. use'[t] = n /\ \A u \in Terminals \ {t} : use'[u] = m(u)
    BY <2>1
  <2>7. UseTypeOK'
    <3>1. uses' \in 0 .. MaxUses
      <4>1. uses < (IF op = "set" THEN MaxUses - 1 ELSE MaxUses)
        BY <1>1 DEF Uses
      <4>2. uses \in 0 .. MaxUses
        BY <1>0 DEF UseTypeOK
      <4>3. uses < MaxUses
        BY <4>1, <4>2, UsesAssumption
      <4> QED BY <2>1, <4>2, <4>3, UsesAssumption
    <3>2. tangled' \in BOOLEAN
      BY <1>0, <2>2 DEF UseTypeOK
    <3>3. \A u \in Terminals : use'[u].step \in {"none", "reads", "second", "writes", "fills"}
      BY <1>0, <2>4, <2>5, <2>6 DEF UseTypeOK
    <3> QED BY <1>0, <2>1, <3>1, <3>2, <3>3 DEF UseTypeOK
  <2>8. UseKinds'
    <3>1. use' \in [Terminals -> UseRecords]
      BY <2>1, <2>4, <2>5
    <3> QED BY <1>0, <2>1, <2>4, <2>5, <2>6, <3>1 DEF UseKinds
  <2>9. ASSUME ~tangled' PROVE Untangled'
    <3>1. Untangled /\ (op = "set" => Writing(s) = {})
      BY <1>0, <2>2, <2>9
    <3>2. \A z \in Scopes : \A u \in Terminals : WritesTo(u, z)' => WritesTo(u, z) \/ (u = t /\ op = "set" /\ z = s)
      BY <2>4, <2>5, <2>6 DEF WritesTo
    <3>3. OneWriter'
      BY <3>1, <3>2 DEF Untangled, OneWriter, Writing, WritesTo
    <3>4. WriterHasRead'
      BY <2>1, <2>4, <2>5, <2>6, <3>1 DEF Untangled, WriterHasRead
    <3>5. TornIsWritten'
      BY <2>1, <2>5, <2>6, <3>1 DEF Untangled, TornIsWritten
    <3>6. AloneMeetsNone'
      <4> SUFFICES ASSUME NEW u \in Terminals, use'[u].step # "none", use'[u].op # "set", use'[u].alone
                   PROVE  /\ \A z \in Scopes : \A w \in Terminals : ~WritesTo(w, z)'
                          /\ use'[u].step = "second" => use'[u].read["global"] = configFiles'["global"].sets
        BY DEF AloneMeetsNone
      <4>1. CASE u = t
        <5>1. ~busy /\ op # "set" /\ use'[u].step = "reads"
          BY <2>4, <2>6, <4>1
        <5> QED BY <3>2, <5>1 DEF Writing, WritesTo
      <4>2. CASE u # t
        <5>1. b(u) /\ use[u].step # "none" /\ use[u].op # "set" /\ use[u].alone
          BY <2>5, <2>6, <4>2
        <5>2. op # "set"
          BY <5>1
        <5>3. /\ \A z \in Scopes : \A w \in Terminals : ~WritesTo(w, z)
              /\ use[u].step = "second" => use[u].read["global"] = configFiles["global"].sets
          BY <3>1, <5>1 DEF Untangled, AloneMeetsNone
        <5> QED BY <2>1, <2>5, <2>6, <3>2, <4>2, <5>2, <5>3
      <4> QED BY <4>1, <4>2
    <3>7. Layers' = lastSaid'
      BY <2>1, <3>1 DEF Untangled, Layers
    <3> QED BY <3>3, <3>4, <3>5, <3>6, <3>7 DEF Untangled
  <2>10. (learned.view = learned.due)'
    BY <2>1 DEF NothingLearned
  <2> QED BY <2>7, <2>8, <2>9, <2>10 DEF UseInv
\* A command ends, with the files as they were.
<1>2. ASSUME NEW t \in Terminals, use' = [use EXCEPT ![t] = NoUse], UNCHANGED <<configFiles, uses, lastSaid>>,
             tangled' \in BOOLEAN, tangled => tangled', use[t].step = "fills" => tangled',
             (learned.view = learned.due)'
      PROVE  UseInv'
  <2>1. use'[t] = NoUse /\ \A u \in Terminals \ {t} : use'[u] = use[u]
    BY <1>0, <1>2
  <2>2. use' \in [Terminals -> UseRecords]
    BY <1>0, <1>2
  <2>3. UseTypeOK' /\ UseKinds'
    BY <1>0, <1>2, <2>1, <2>2 DEF UseTypeOK, UseKinds
  <2>4. ASSUME ~tangled' PROVE Untangled'
    <3>1. Untangled /\ use[t].step # "fills"
      BY <1>0, <1>2, <2>4
    <3>2. \A z \in Scopes : \A u \in Terminals : WritesTo(u, z)' => WritesTo(u, z) /\ u # t
      BY <2>1 DEF WritesTo
    <3>3. OneWriter'
      BY <3>1, <3>2 DEF Untangled, OneWriter
    <3>4. WriterHasRead'
      BY <1>2, <2>1, <3>1 DEF Untangled, WriterHasRead
    <3>5. TornIsWritten'
      BY <1>2, <2>1, <3>1 DEF Untangled, TornIsWritten
    <3>6. AloneMeetsNone'
      BY <1>2, <2>1, <3>1, <3>2 DEF Untangled, AloneMeetsNone
    <3>7. Layers' = lastSaid'
      BY <1>2, <3>1 DEF Untangled, Layers
    <3> QED BY <3>3, <3>4, <3>5, <3>6, <3>7 DEF Untangled
  <2> QED BY <1>2, <2>3, <2>4 DEF UseInv
<1>3. ASSUME NEW t \in Terminals, ReadsOwn(t) PROVE UseInv'
  <2>1. /\ use[t].op = "set" /\ use[t].step = "reads" /\ UNCHANGED <<configFiles, uses, lastSaid, tangled, learned>>
        /\ use[t].scope \in Scopes
    BY <1>0, <1>3 DEF ReadsOwn, UseRecords
  <2>2. CASE configFiles[use[t].scope].torn
    <3>1. use' = [use EXCEPT ![t] = NoUse]
      BY <1>3, <2>2 DEF ReadsOwn
    <3>2. tangled' \in BOOLEAN /\ use[t].step # "fills" /\ (tangled => tangled') /\ (learned.view = learned.due)'
      BY <1>0, <2>1 DEF UseTypeOK
    <3> QED BY <1>2, <2>1, <3>1, <3>2
  <2>3. CASE ~configFiles[use[t].scope].torn
    <3> DEFINE c == [use[t].read EXCEPT ![use[t].scope] = configFiles[use[t].scope].sets]
               n == [use[t] EXCEPT !.step = "writes", !.read = c]
    <3>1. configFiles[use[t].scope].sets \in [Keys -> SettingValues]
      BY <1>0, <2>1 DEF UseTypeOK, SettingValues
    <3>2. use[t].read \in [Scopes -> [Keys -> SettingValues]] /\ use[t] \in UseRecords
      BY <1>0 DEF UseRecords
    <3>3. c \in [Scopes -> [Keys -> SettingValues]] /\ c[use[t].scope] = configFiles[use[t].scope].sets
      BY <2>1, <3>1, <3>2
    <3>4. use' = [use EXCEPT ![t] = n]
      BY <1>0, <1>3, <2>3 DEF ReadsOwn
    <3> HIDE DEF c
    <3>5. /\ n \in UseRecords /\ n.step = "writes" /\ n.op = "set" /\ n.scope = use[t].scope /\ n.read = c
      BY <2>1, <3>2, <3>3 DEF UseRecords
    <3> HIDE DEF n
    <3>6. use' \in [Terminals -> UseRecords] /\ use'[t] = n /\ \A u \in Terminals \ {t} : use'[u] = use[u]
      BY <1>0, <3>4, <3>5
    <3>7. UseTypeOK' /\ UseKinds'
      BY <1>0, <2>1, <3>5, <3>6 DEF UseTypeOK, UseKinds
    <3>8. ASSUME ~tangled' PROVE Untangled'
      <4>1. Untangled
        BY <1>0, <2>1, <3>8
      <4>2. \A z \in Scopes : \A u \in Terminals : WritesTo(u, z)' = WritesTo(u, z)
        BY <2>1, <3>5, <3>6 DEF WritesTo
      <4>3. OneWriter'
        BY <4>1, <4>2 DEF Untangled, OneWriter
      <4>4. WriterHasRead'
        BY <2>1, <3>3, <3>5, <3>6, <4>1 DEF Untangled, WriterHasRead
      <4>5. TornIsWritten'
        BY <2>1, <3>6, <4>1 DEF Untangled, TornIsWritten
      <4>6. AloneMeetsNone'
        BY <2>1, <3>5, <3>6, <4>1, <4>2 DEF Untangled, AloneMeetsNone
      <4>7. Layers' = lastSaid'
        BY <2>1, <4>1 DEF Untangled, Layers
      <4> QED BY <4>3, <4>4, <4>5, <4>6, <4>7 DEF Untangled
    <3> QED BY <1>0, <2>1, <3>7, <3>8 DEF UseInv
  <2> QED BY <2>2, <2>3
<1>4. ASSUME NEW t \in Terminals, ReadsBoth(t) PROVE UseInv'
  <2> DEFINE s == IF use[t].step = "reads" THEN "global" ELSE "project"
             layers == [use[t].read EXCEPT ![s] = configFiles[s].sets]
  <2>1. /\ use[t].op # "set" /\ use[t].step \in {"reads", "second"} /\ UNCHANGED <<configFiles, uses, lastSaid, tangled>>
        /\ s \in Scopes /\ use[t] \in UseRecords /\ use[t].read \in [Scopes -> [Keys -> SettingValues]] /\ use[t].op # "none"
        /\ configFiles[s].sets \in [Keys -> SettingValues]
    BY <1>0, <1>4 DEF ReadsBoth, UseRecords, Scopes, UseTypeOK, SettingValues, UseKinds
  <2>2. layers \in [Scopes -> [Keys -> SettingValues]] /\ layers[s] = configFiles[s].sets
    BY <2>1
  \* A reader alone is shown what was said.
  <2>3. ASSUME use[t].alone, ~tangled
        PROVE  /\ \A z \in Scopes : \A u \in Terminals : ~WritesTo(u, z)
               /\ ~configFiles[s].torn
               /\ s = "project" => layers = lastSaid
    <3>1. Untangled
      BY <1>0, <2>3
    <3>2. /\ \A z \in Scopes : \A u \in Terminals : ~WritesTo(u, z)
          /\ use[t].step = "second" => use[t].read["global"] = configFiles["global"].sets
      BY <2>1, <2>3, <3>1 DEF Untangled, AloneMeetsNone
    <3>3. ~configFiles[s].torn
      BY <1>0, <2>1, <3>1, <3>2, NobodyWrites DEF Untangled
    <3>4. ASSUME s = "project" PROVE layers = lastSaid
      <4>1. use[t].step = "second"
        BY <2>1, <3>4
      <4>2. \A z \in Scopes : layers[z] = configFiles[z].sets
        BY <2>1, <3>2, <3>4, <4>1 DEF Scopes
      <4>3. \A z \in Scopes : layers[z] = lastSaid[z]
        BY <3>1, <4>2 DEF Untangled, Layers
      <4> HIDE DEF layers
      <4> QED BY <1>0, <2>2, <4>3 DEF UseKinds
    <3> QED BY <3>2, <3>3, <3>4
  <2> HIDE DEF s, layers
  <2>4. \/ configFiles[s].torn /\ Learns(use[t], Unreadable) /\ use' = [use EXCEPT ![t] = NoUse]
        \/ ~configFiles[s].torn /\ s = "project" /\ Learns(use[t], View(use[t].op, layers)) /\ use' = [use EXCEPT ![t] = NoUse]
        \/ /\ ~configFiles[s].torn /\ s # "project" /\ UNCHANGED learned
           /\ use' = [use EXCEPT ![t].read = layers, ![t].step = "second"]
    BY <1>4 DEF ReadsBoth, s, layers
  <2>5. CASE configFiles[s].torn
    <3>1. learned' = learned
      BY <2>3, <2>4, <2>5 DEF Learns
    <3> QED BY <1>0, <1>2, <2>1, <2>4, <2>5, <3>1 DEF UseTypeOK
  <2>6. CASE ~configFiles[s].torn /\ s = "project"
    <3>1. (learned.view = learned.due)'
      <4>1. CASE use[t].alone /\ ~tangled
        <5>1. learned' = [view |-> View(use[t].op, layers), due |-> View(use[t].op, lastSaid)]
          BY <2>4, <2>6, <4>1 DEF Learns
        <5> QED BY <2>3, <2>6, <4>1, <5>1
      <4>2. CASE ~(use[t].alone /\ ~tangled)
        BY <1>0, <2>4, <2>6, <4>2 DEF Learns
      <4> QED BY <4>1, <4>2
    <3>2. use[t].step # "fills" /\ tangled' = tangled
      BY <2>1
    <3> QED BY <1>0, <1>2, <2>1, <2>4, <2>6, <3>1, <3>2 DEF UseTypeOK
  <2>7. CASE ~configFiles[s].torn /\ s # "project"
    <3> DEFINE n == [use[t] EXCEPT !.read = layers, !.step = "second"]
    <3>1. use' = [use EXCEPT ![t] = n] /\ UNCHANGED learned /\ s = "global"
      BY <1>0, <2>4, <2>7 DEF s
    <3>2. /\ n \in UseRecords /\ n.step = "second" /\ n.op = use[t].op /\ n.scope = use[t].scope /\ n.read = layers
          /\ n.alone = use[t].alone
      BY <2>1, <2>2 DEF UseRecords
    <3> HIDE DEF n
    <3>3. use' \in [Terminals -> UseRecords] /\ use'[t] = n /\ \A u \in Terminals \ {t} : use'[u] = use[u]
      BY <1>0, <3>1, <3>2
    <3>4. UseTypeOK' /\ UseKinds'
      BY <1>0, <2>1, <3>2, <3>3 DEF UseTypeOK, UseKinds
    <3>5. ASSUME ~tangled' PROVE Untangled'
      <4>1. Untangled
        BY <1>0, <2>1, <3>5
      <4>2. \A z \in Scopes : \A u \in Terminals : WritesTo(u, z)' = WritesTo(u, z)
        BY <2>1, <3>2, <3>3 DEF WritesTo
      <4>3. OneWriter'
        BY <4>1, <4>2 DEF Untangled, OneWriter
      <4>4. WriterHasRead'
        BY <2>1, <3>2, <3>3, <4>1 DEF Untangled, WriterHasRead
      <4>5. TornIsWritten'
        BY <2>1, <3>3, <4>1 DEF Untangled, TornIsWritten
      <4>6. AloneMeetsNone'
        BY <2>1, <2>2, <2>3, <3>1, <3>2, <3>3, <3>5, <4>1, <4>2 DEF Untangled, AloneMeetsNone
      <4>7. Layers' = lastSaid'
        BY <2>1, <4>1 DEF Untangled, Layers
      <4> QED BY <4>3, <4>4, <4>5, <4>6, <4>7 DEF Untangled
    <3> QED BY <1>0, <2>1, <3>1, <3>4, <3>5 DEF UseInv
  <2> QED BY <2>5, <2>6, <2>7
<1>5. ASSUME NEW t \in Terminals, TruncatesFile(t) PROVE UseInv'
  <2> DEFINE s == use[t].scope
             n == [use[t] EXCEPT !.step = "fills"]
             f == [configFiles[s] EXCEPT !.torn = TRUE]
  <2>1. /\ use[t].step = "writes" /\ s \in Scopes /\ use[t] \in UseRecords /\ use[t].op = "set"
        /\ use' = [use EXCEPT ![t] = n] /\ configFiles' = [configFiles EXCEPT ![s] = f]
        /\ UNCHANGED <<uses, lastSaid, tangled, learned>>
    BY <1>0, <1>5 DEF TruncatesFile, UseGoes, UseRecords, UseKinds
  <2>2. /\ n \in UseRecords /\ n.step = "fills" /\ n.op = "set" /\ n.scope = use[t].scope /\ n.read = use[t].read
    BY <2>1 DEF UseRecords
  <2>3. /\ f \in [sets : [Keys -> {"1", "true", "false", Bad, Absent}], torn : BOOLEAN]
        /\ f.sets = configFiles[s].sets
    BY <1>0, <2>1 DEF UseTypeOK
  <2> HIDE DEF n, f
  <2>4. /\ use' \in [Terminals -> UseRecords] /\ use'[t] = n /\ (\A u \in Terminals \ {t} : use'[u] = use[u])
    BY <1>0, <2>1, <2>2
  <2>5. configFiles'[s] = f /\ (\A z \in Scopes \ {s} : configFiles'[z] = configFiles[z])
    BY <1>0, <2>1 DEF UseTypeOK
  <2>6. UseTypeOK' /\ UseKinds'
    BY <1>0, <2>1, <2>2, <2>3, <2>4 DEF UseTypeOK, UseKinds
  <2>7. \A z \in Scopes : configFiles'[z].sets = configFiles[z].sets
    BY <2>3, <2>5
  <2>8. ASSUME ~tangled' PROVE Untangled'
    <3>1. Untangled
      BY <1>0, <2>1, <2>8
    <3>2. \A z \in Scopes : \A u \in Terminals : WritesTo(u, z)' = WritesTo(u, z)
      BY <2>1, <2>2, <2>4 DEF WritesTo
    <3>3. OneWriter'
      BY <3>1, <3>2 DEF Untangled, OneWriter
    <3>4. WriterHasRead'
      <4>1. \A u \in Terminals : use'[u].scope = use[u].scope /\ use'[u].read = use[u].read /\ use[u].scope \in Scopes
                                 /\ (use'[u].step \in {"writes", "fills"} => use[u].step \in {"writes", "fills"})
        BY <1>0, <2>1, <2>2, <2>4 DEF UseRecords
      <4> QED BY <2>7, <3>1, <4>1 DEF Untangled, WriterHasRead
    <3>5. TornIsWritten'
      BY <2>1, <2>2, <2>4, <2>5, <3>1 DEF Untangled, TornIsWritten
    <3>6. AloneMeetsNone'
      BY <2>1, <2>2, <2>4, <2>7, <3>1, <3>2 DEF Untangled, AloneMeetsNone, Scopes
    <3>7. Layers' = lastSaid'
      BY <2>1, <2>7, <3>1 DEF Untangled, Layers
    <3> QED BY <3>3, <3>4, <3>5, <3>6, <3>7 DEF Untangled
  <2> QED BY <1>0, <2>1, <2>6, <2>8 DEF UseInv
<1>6. ASSUME NEW t \in Terminals, FillsFile(t) PROVE UseInv'
  <2> DEFINE s == use[t].scope
             v == SetKeyPath(use[t])
             f == [sets |-> v, torn |-> FALSE]
  <2>1. /\ use[t].step = "fills" /\ s \in Scopes /\ use[t] \in UseRecords /\ use[t].op = "set"
        /\ use' = [use EXCEPT ![t] = NoUse] /\ configFiles' = [configFiles EXCEPT ![s] = f]
        /\ lastSaid' = IF tangled THEN lastSaid ELSE [lastSaid EXCEPT ![s][use[t].key] = use[t].value]
        /\ UNCHANGED <<uses, tangled, learned>>
    BY <1>0, <1>6 DEF FillsFile, UseRecords, UseKinds
  <2>2. v = [use[t].read[s] EXCEPT ![use[t].key] = use[t].value] /\ v \in [Keys -> SettingValues]
    BY <2>1 DEF SetKeyPath, UseRecords
  <2> HIDE DEF v
  <2>3. f \in [sets : [Keys -> {"1", "true", "false", Bad, Absent}], torn : BOOLEAN] /\ f.sets = v /\ f.torn = FALSE
    BY <2>2 DEF SettingValues
  <2> HIDE DEF f
  <2>4. use' \in [Terminals -> UseRecords] /\ use'[t] = NoUse /\ (\A u \in Terminals \ {t} : use'[u] = use[u])
    BY <1>0, <2>1
  <2>5. configFiles'[s] = f /\ (\A z \in Scopes \ {s} : configFiles'[z] = configFiles[z])
    BY <1>0, <2>1 DEF UseTypeOK
  <2>6. lastSaid' \in [Scopes -> [Keys -> SettingValues]]
    BY <1>0, <2>1 DEF UseKinds, UseRecords
  <2>7. UseTypeOK' /\ UseKinds'
    BY <1>0, <2>1, <2>3, <2>4, <2>6 DEF UseTypeOK, UseKinds
  <2>8. ASSUME ~tangled' PROVE Untangled'
    <3>1. Untangled /\ WritesTo(t, s)
      BY <1>0, <2>1, <2>8 DEF WritesTo
    <3>2. \A z \in Scopes : \A u \in Terminals : WritesTo(u, z)' => WritesTo(u, z) /\ u # t
      BY <2>4 DEF WritesTo
    <3>3. OneWriter'
      BY <3>1, <3>2 DEF Untangled, OneWriter
    <3>4. WriterHasRead'
      <4> SUFFICES ASSUME NEW u \in Terminals, use'[u].step \in {"writes", "fills"}
                   PROVE  use'[u].read[use'[u].scope] = configFiles'[use'[u].scope].sets
        BY DEF WriterHasRead
      <4>1. u # t /\ use'[u] = use[u] /\ use[u].scope \in Scopes /\ use[u].op = "set"
        BY <1>0, <2>4 DEF UseKinds, UseRecords
      <4>2. use[u].scope # s
        BY <3>1, <4>1 DEF Untangled, OneWriter, WritesTo
      <4> QED BY <2>5, <3>1, <4>1, <4>2 DEF Untangled, WriterHasRead
    <3>5. TornIsWritten'
      BY <2>3, <2>4, <2>5, <3>1 DEF Untangled, TornIsWritten
    <3>6. AloneMeetsNone'
      <4> SUFFICES ASSUME NEW u \in Terminals, use'[u].step # "none", use'[u].op # "set", use'[u].alone
                   PROVE  FALSE
        BY DEF AloneMeetsNone
      <4>1. use'[u] = use[u]
        BY <2>4
      <4> QED BY <2>1, <3>1, <4>1 DEF Untangled, AloneMeetsNone
    <3>7. Layers' = lastSaid'
      <4>1. v = [lastSaid[s] EXCEPT ![use[t].key] = use[t].value]
        BY <2>1, <2>2, <3>1 DEF Untangled, WriterHasRead, Layers
      <4>2. lastSaid' = [lastSaid EXCEPT ![s] = [@ EXCEPT ![use[t].key] = use[t].value]]
        BY <1>0, <2>1, <2>8, <3>1
      <4>3. lastSaid'[s] = v /\ \A z \in Scopes \ {s} : lastSaid'[z] = lastSaid[z]
        BY <1>0, <2>1, <4>1, <4>2 DEF UseKinds
      <4>4. \A z \in Scopes : lastSaid'[z] = configFiles'[z].sets
        BY <2>3, <2>5, <3>1, <4>3 DEF Untangled, Layers
      <4> QED BY <2>6, <4>4 DEF Layers
    <3> QED BY <3>3, <3>4, <3>5, <3>6, <3>7 DEF Untangled
  <2> QED BY <1>0, <2>1, <2>7, <2>8 DEF UseInv
<1>7. ASSUME NEW t \in Terminals, Killed(t) PROVE UseInv'
  <2>1. /\ use' = [use EXCEPT ![t] = NoUse] /\ tangled' = (tangled \/ use[t].step = "fills")
        /\ UNCHANGED <<configFiles, uses, lastSaid, learned>>
    BY <1>7 DEF Killed
  <2> QED BY <1>0, <1>2, <2>1 DEF UseTypeOK
<1>8. CASE UNCHANGED useVars
  <2>1. UNCHANGED <<configFiles, use, uses, lastSaid, tangled, learned>>
    BY <1>8 DEF useVars
  <2>2. Untangled' = Untangled /\ UseTypeOK' = UseTypeOK /\ UseKinds' = UseKinds
    BY <2>1 DEF Untangled, OneWriter, WriterHasRead, TornIsWritten, AloneMeetsNone, Layers, WritesTo, UseTypeOK, UseKinds
  <2> QED BY <1>0, <2>1, <2>2 DEF UseInv
<1>9. ASSUME NEW t \in Terminals, Gets(t) \/ Loads(t) PROVE UseInv'
  <2>1. "global" \in Scopes /\ "level" \in Keys /\ Absent \in SettingValues
    BY DEF Scopes, Keys, SettingValues
  <2> QED BY <1>1, <1>9, <2>1 DEF Gets, Loads
<1>10. ASSUME NEW t \in Terminals, NEW s \in Scopes, NEW k \in Keys, NEW v \in Settings[k] \cup {Bad}, Sets(t, s, k, v)
       PROVE  UseInv'
  <2>1. v \in SettingValues
    BY DEF Settings, SettingValues, Keys
  <2> QED BY <1>1, <1>10, <2>1 DEF Sets
<1> QED BY <1>3, <1>4, <1>5, <1>6, <1>7, <1>8, <1>9, <1>10 DEF UseNext

\* Whatever commands set and read the configuration, killed ones included: what was said to be set is
\* in the file, and the command and the daemon agree on it (commands/config.ts, config.ts).
THEOREM SettingsAreToldHolds == UseSpec => [](UseTypeOK /\ SettingsAreTold)
<1> QED BY UseInvInit, UseInvStep, UseInvImplies, PTL DEF UseSpec

-----------------------------------------------------------------------------
(* The commands that set a project up                                      *)

Pcs == Ends \cup {"resolve", "create", "compare", "wizard", "validate", "project", "config",
                  "fetch", "post", "seed", "look", "poll"}
Profiles == WizardProfiles \cup {NoProfile, EnvProfile}
Ids == Shells \cup {NoId}
Cmds == [cmd : {"none", "init", "start", "workflow", "watch"}, pc : Pcs, id : Ids, profile : Profiles,
         attempt : 0 .. MaxAttempts, onward : BOOLEAN]
HasId(t) == shell[t].pc \in {"compare", "wizard", "validate", "project", "config", "fetch", "post", "seed",
                             "look", "poll", "ready", "seeded"}

\* What a shell that has come so far may rely on.
Fits(t) ==
  /\ HasId(t) => shell[t].id \in Shells /\ (doubled \/ shell[t].id = projectJson.id)
  /\ shell[t].onward \/ shell[t].pc \in {"create", "compare", "wizard", "validate", "project", "config"}
       => shell[t].cmd = "init"
  /\ shell[t].cmd = "none" => shell[t].pc \in Ends
  /\ shell[t].pc \in {"fetch", "post"} => shell[t].cmd \in {"init", "start"}
  /\ shell[t].pc \in {"look", "poll"} => shell[t].cmd # "init"
  /\ shell[t].pc = "validate" => shell[t].profile \in WizardProfiles
  /\ shell[t].cmd = "init" /\ shell[t].pc \in {"fetch", "post", "seed"} => configJson
  /\ shell[t].cmd = "start" /\ shell[t].pc \notin Ends
       => projectJson # NoProject /\ (configJson \/ doubled \/ projectJson.id \in bare)
  /\ shell[t].pc = "ready" \/ (shell[t].pc = "seed" /\ shell[t].cmd = "init")
       => runtimes[shell[t].id] # NoProfile \/ shell[t].id \in dropped
  /\ shell[t].pc = "seeded" => seeded[shell[t].id] = "building" \/ shell[t].id \in dropped
ProjectsFit ==
  /\ projectJson.id = NoId => projectJson = NoProject
  /\ \A i \in Shells :
       /\ runtimes[i] # NoProfile => configJson \/ doubled \/ i \in bare
       /\ runtimes[i] # NoProfile => doubled \/ i \in strayed \/ projectJson = [id |-> i, profile |-> runtimes[i]]

CmdInv == CmdTypeOK /\ ProjectsFit /\ \A t \in Shells : Fits(t)

LEMMA CmdTypes == CmdTypeOK <=>
  /\ projectJson \in [id : Ids, profile : Profiles] /\ configJson \in BOOLEAN /\ credentials \subseteq WizardProfiles
  /\ runtimes \in [Shells -> WizardProfiles \cup {NoProfile}]
  /\ seeded \in [Shells -> {"none", "spec", "building", "failed"}] /\ shell \in [Shells -> Cmds]
  /\ given \in 0 .. MaxGiven /\ bare \subseteq Shells /\ strayed \subseteq Shells /\ dropped \subseteq Shells
  /\ doubled \in BOOLEAN
BY DEF CmdTypeOK, Ids, Profiles, Cmds, Pcs

LEMMA CmdTypesNext == CmdTypeOK' <=>
  /\ projectJson' \in [id : Ids, profile : Profiles] /\ configJson' \in BOOLEAN /\ credentials' \subseteq WizardProfiles
  /\ runtimes' \in [Shells -> WizardProfiles \cup {NoProfile}]
  /\ seeded' \in [Shells -> {"none", "spec", "building", "failed"}] /\ shell' \in [Shells -> Cmds]
  /\ given' \in 0 .. MaxGiven /\ bare' \subseteq Shells /\ strayed' \subseteq Shells /\ dropped' \subseteq Shells
  /\ doubled' \in BOOLEAN
BY DEF CmdTypeOK, Ids, Profiles, Cmds, Pcs

LEMMA AtShellFits ==
  /\ AtShell \in Cmds /\ AtShell.cmd = "none" /\ AtShell.pc = "none" /\ AtShell.id = NoId
  /\ AtShell.profile = NoProfile /\ AtShell.attempt = 0 /\ AtShell.onward = FALSE
BY CommandsAssumption DEF AtShell, Cmds, Pcs, Ends, Ids, Profiles

LEMMA NoProjectFits == NoProject \in [id : Ids, profile : Profiles] /\ NoProject.id = NoId
BY DEF NoProject, Ids, Profiles

LEMMA CmdInvInit == CmdInit => CmdInv
<1> SUFFICES ASSUME CmdInit PROVE CmdInv
  OBVIOUS
<1>1. \A t \in Shells : shell[t] = AtShell
  BY DEF CmdInit
<1>2. shell \in [Shells -> Cmds]
  BY AtShellFits DEF CmdInit
<1>3. given \in 0 .. MaxGiven
  BY CommandsAssumption DEF CmdInit
<1>4. credentials \subseteq WizardProfiles
  BY CommandsAssumption DEF CmdInit
<1>5. projectJson = NoProject /\ projectJson \in [id : Ids, profile : Profiles]
  BY NoProjectFits DEF CmdInit
<1>6. /\ runtimes \in [Shells -> WizardProfiles \cup {NoProfile}]
      /\ seeded \in [Shells -> {"none", "spec", "building", "failed"}]
  BY DEF CmdInit
<1>7. configJson \in BOOLEAN /\ doubled \in BOOLEAN /\ bare = {} /\ strayed = {} /\ dropped = {}
  BY DEF CmdInit
<1>8. CmdTypeOK
  BY <1>2, <1>3, <1>4, <1>5, <1>6, <1>7, CmdTypes
<1>9. ProjectsFit
  BY <1>5 DEF CmdInit, ProjectsFit
<1>10. \A t \in Shells : Fits(t)
  BY <1>1, AtShellFits DEF Fits, HasId, Ends
<1> QED BY <1>8, <1>9, <1>10 DEF CmdInv

LEMMA CmdInvImplies == CmdInv => CmdTypeOK /\ CommandsTellTruth
<1> SUFFICES ASSUME CmdInv, NEW t \in Shells
    PROVE /\ shell[t].pc = "ready" => runtimes[shell[t].id] # NoProfile \/ shell[t].id \in dropped
          /\ shell[t].pc = "ready" /\ ~doubled => projectJson.id = shell[t].id
          /\ shell[t].pc = "seeded" => seeded[shell[t].id] = "building" \/ shell[t].id \in dropped
          /\ runtimes[t] # NoProfile /\ ~doubled => configJson \/ t \in bare
          /\ runtimes[t] # NoProfile /\ ~doubled /\ t \notin strayed => projectJson = [id |-> t, profile |-> runtimes[t]]
  BY DEF CmdInv, CommandsTellTruth
<1> QED BY DEF CmdInv, Fits, HasId, ProjectsFit

-----------------------------------------------------------------------------
\* What a command, or the daemon, leaves to the others.
Grows ==
  /\ (doubled => doubled') /\ (configJson => configJson') /\ bare \subseteq bare' /\ dropped \subseteq dropped'
  /\ projectJson # NoProject => projectJson' # NoProject
  /\ doubled' \/ projectJson.id = NoId \/ projectJson'.id = projectJson.id
  /\ \A i \in Shells : runtimes[i] # NoProfile => runtimes'[i] # NoProfile \/ i \in dropped'
  /\ \A i \in Shells : seeded[i] = "building" => seeded'[i] = "building" \/ i \in dropped'

LEMMA StaysFit ==
  ASSUME CmdInv, Grows, NEW u \in Shells, shell'[u] = shell[u]
  PROVE  Fits(u)'
<1>1. Fits(u) /\ (projectJson.id = NoId => projectJson = NoProject)
  BY DEF CmdInv, ProjectsFit
<1>2. HasId(u)' => shell'[u].id \in Shells /\ (doubled' \/ shell'[u].id = projectJson'.id)
  BY <1>1, CommandsAssumption DEF Fits, HasId, Grows
<1>3. shell'[u].onward \/ shell'[u].pc \in {"create", "compare", "wizard", "validate", "project", "config"}
       => shell'[u].cmd = "init"
  BY <1>1 DEF Fits
<1>4. /\ shell'[u].cmd = "none" => shell'[u].pc \in Ends
      /\ shell'[u].pc \in {"fetch", "post"} => shell'[u].cmd \in {"init", "start"}
      /\ shell'[u].pc \in {"look", "poll"} => shell'[u].cmd # "init"
      /\ shell'[u].pc = "validate" => shell'[u].profile \in WizardProfiles
  BY <1>1 DEF Fits
<1>5. shell'[u].cmd = "init" /\ shell'[u].pc \in {"fetch", "post", "seed"} => configJson'
  BY <1>1 DEF Fits, Grows
<1>6. shell'[u].cmd = "start" /\ shell'[u].pc \notin Ends
       => projectJson' # NoProject /\ (configJson' \/ doubled' \/ projectJson'.id \in bare')
  BY <1>1 DEF Fits, Grows
<1>7. shell'[u].pc = "ready" \/ (shell'[u].pc = "seed" /\ shell'[u].cmd = "init")
       => runtimes'[shell'[u].id] # NoProfile \/ shell'[u].id \in dropped'
  BY <1>1 DEF Fits, Grows, HasId
<1>8. shell'[u].pc = "seeded" => seeded'[shell'[u].id] = "building" \/ shell'[u].id \in dropped'
  BY <1>1 DEF Fits, Grows, HasId
<1> QED BY <1>2, <1>3, <1>4, <1>5, <1>6, <1>7, <1>8 DEF Fits

LEMMA ProjectsStayFit ==
  ASSUME ProjectsFit, UNCHANGED <<projectJson, runtimes>>, doubled => doubled', configJson => configJson',
         bare \subseteq bare', strayed \subseteq strayed'
  PROVE  ProjectsFit'
BY DEF ProjectsFit

\* One shell goes on; the files and the daemon only grow.
LEMMA OneGoesOn ==
  ASSUME CmdInv, Grows, NEW t \in Shells, NEW n \in Cmds, shell' = [shell EXCEPT ![t] = n], Fits(t)', ProjectsFit',
         shell' \in [Shells -> Cmds] => CmdTypeOK'
  PROVE  CmdInv'
<1>1. shell \in [Shells -> Cmds]
  BY CmdTypes DEF CmdInv
<1>2. shell' \in [Shells -> Cmds] /\ \A u \in Shells \ {t} : shell'[u] = shell[u]
  BY <1>1
<1>3. \A u \in Shells : Fits(u)'
  BY <1>2, StaysFit
<1> QED BY <1>2, <1>3 DEF CmdInv

\* A command, or the init within start, ends.
LEMMA FinishFits ==
  ASSUME CmdInv, NEW t \in Shells, NEW end \in Ends, Finish(t, end), UNCHANGED <<projectJson, doubled>>,
         configJson => configJson', bare \subseteq bare',
         shell[t].onward /\ end \notin {"cancelled", "failed"} => configJson,
         end \in {"ready", "seeded"} => HasId(t),
         end = "ready" => runtimes'[shell[t].id] # NoProfile \/ shell[t].id \in dropped',
         end = "seeded" => seeded'[shell[t].id] = "building" \/ shell[t].id \in dropped'
  PROVE  Fits(t)' /\ \E n \in Cmds : shell' = [shell EXCEPT ![t] = n]
<1>1. shell \in [Shells -> Cmds] /\ shell[t].id \in Ids /\ Fits(t)
  BY CmdTypes DEF CmdInv, Cmds
<1> USE AtShellFits
<1>2. CASE AfterInit(t, end) = "resolve"
  <2> DEFINE n == [AtShell EXCEPT !.cmd = "start", !.pc = "resolve"]
  <2>1. shell' = [shell EXCEPT ![t] = n]
    BY <1>2 DEF Finish
  <2>2. n \in Cmds /\ n.cmd = "start" /\ n.pc = "resolve" /\ n.id = NoId /\ n.onward = FALSE
    BY DEF Cmds, Pcs
  <2>3. projectJson # NoProject /\ configJson
    BY <1>2 DEF AfterInit, Ends
  <2> HIDE DEF n
  <2>4. shell'[t] = n
    BY <1>1, <2>1
  <2>5. Fits(t)'
    BY <2>2, <2>3, <2>4 DEF Fits, HasId
  <2> QED BY <2>1, <2>2, <2>5
<1>3. CASE AfterInit(t, end) # "resolve"
  <2>1. AfterInit(t, end) = end
    BY <1>3 DEF AfterInit
  <2> DEFINE i == IF end \in {"ready", "seeded"} THEN shell[t].id ELSE NoId
             n == [AtShell EXCEPT !.pc = end, !.id = i]
  <2>2. shell' = [shell EXCEPT ![t] = n]
    BY <1>3, <2>1 DEF Finish
  <2>3. i \in Ids /\ end \in Pcs
    BY <1>1 DEF Ids, Pcs
  <2> HIDE DEF i
  <2>4. n \in Cmds /\ n.cmd = "none" /\ n.pc = end /\ n.id = i /\ n.onward = FALSE
    BY <2>3 DEF Cmds
  <2> HIDE DEF n
  <2>5. shell'[t] = n
    BY <1>1, <2>2
  <2>6. end \in {"ready", "seeded"} => i = shell[t].id /\ shell[t].id \in Shells /\ (doubled \/ shell[t].id = projectJson.id)
    BY <1>1 DEF i, Fits
  <2>7. Fits(t)'
    <3>1. HasId(t)' => end \in {"ready", "seeded"}
      BY <2>4, <2>5 DEF HasId, Ends
    <3>2. shell'[t].onward = FALSE /\ shell'[t].cmd = "none" /\ shell'[t].pc = end /\ shell'[t].id = i
      BY <2>4, <2>5
    <3>3. shell'[t].pc \notin {"create", "compare", "wizard", "validate", "project", "config", "fetch", "post", "seed"}
      BY <3>2 DEF Ends
    <3> QED BY <2>6, <3>1, <3>2, <3>3 DEF Fits
  <2> QED BY <2>2, <2>4, <2>7
<1> QED BY <1>2, <1>3

LEMMA ShellGoesFits ==
  ASSUME CmdTypeOK, NEW t \in Shells, NEW pc \in Pcs, ShellGoes(t, pc)
  PROVE  \E n \in Cmds : /\ shell' = [shell EXCEPT ![t] = n] /\ shell'[t] = n /\ n.pc = pc /\ n.cmd = shell[t].cmd
                         /\ n.id = shell[t].id /\ n.profile = shell[t].profile /\ n.onward = shell[t].onward
<1>1. shell \in [Shells -> Cmds]
  BY CmdTypes
<1> DEFINE n == [shell[t] EXCEPT !.pc = pc]
<1>2. shell' = [shell EXCEPT ![t] = n] /\ shell'[t] = n
  BY <1>1 DEF ShellGoes
<1>3. /\ n \in Cmds /\ n.pc = pc /\ n.cmd = shell[t].cmd
      /\ n.id = shell[t].id /\ n.profile = shell[t].profile /\ n.onward = shell[t].onward
  BY <1>1 DEF Cmds
<1> HIDE DEF n
<1> QED BY <1>2, <1>3

\* A step that only a shell sees.
LEMMA QuietStep ==
  ASSUME CmdInv, NEW t \in Shells, UNCHANGED <<filesVars, runtimes, seeded, given, cmdHistory>>,
         Fits(t)', \E n \in Cmds : shell' = [shell EXCEPT ![t] = n]
  PROVE  CmdInv'
<1>1. Grows
  BY DEF Grows, filesVars, cmdHistory
<1>2. ProjectsFit'
  BY ProjectsStayFit DEF CmdInv, filesVars, cmdHistory
<1>3. shell' \in [Shells -> Cmds] => CmdTypeOK'
  BY CmdTypes, CmdTypesNext DEF CmdInv, filesVars, cmdHistory
<1> QED BY <1>1, <1>2, <1>3, OneGoesOn

-----------------------------------------------------------------------------
\* The commands, step by step.
LEMMA GiveKeeps == ASSUME CmdInv, NEW t \in Shells, Give(t) PROVE CmdInv'
<1>1. PICK cmd \in {"init", "start", "workflow", "watch"} :
        LET first == cmd = "start" /\ projectJson = NoProject IN
        /\ shell' = [shell EXCEPT ![t] =
             [AtShell EXCEPT !.cmd = IF first THEN "init" ELSE cmd, !.pc = "resolve", !.onward = first]]
        /\ bare' = IF cmd = "start" /\ ~first /\ ~configJson THEN bare \cup {projectJson.id} ELSE bare
  BY DEF Give
<1> DEFINE first == cmd = "start" /\ projectJson = NoProject
           c == IF first THEN "init" ELSE cmd
           n == [AtShell EXCEPT !.cmd = c, !.pc = "resolve", !.onward = first]
<1>2. /\ shell' = [shell EXCEPT ![t] = n] /\ UNCHANGED <<projectJson, configJson, credentials, runtimes, seeded, strayed, doubled, dropped>>
      /\ given' = given + 1 /\ given < MaxGiven
  BY <1>1 DEF Give, filesVars
<1>3. bare' = IF cmd = "start" /\ ~first /\ ~configJson THEN bare \cup {projectJson.id} ELSE bare
  BY <1>1
<1>4. first \in BOOLEAN /\ c \in {"init", "start", "workflow", "watch"} /\ (first => c = "init") /\ (c = "start" => cmd = "start" /\ ~first)
  OBVIOUS
<1>5. projectJson \in [id : Ids, profile : Profiles] /\ shell \in [Shells -> Cmds] /\ ProjectsFit /\ CmdTypeOK
  BY CmdTypes DEF CmdInv
<1>6. projectJson # NoProject => projectJson.id \in Shells
  BY <1>5, CommandsAssumption DEF Ids, ProjectsFit
<1>7. c = "start" => projectJson # NoProject
  BY <1>4
<1>8. c = "start" => configJson \/ projectJson.id \in bare'
  BY <1>3, <1>4
<1>9. bare \subseteq bare' /\ bare' \subseteq Shells
  BY <1>3, <1>5, <1>6, CmdTypes
<1> HIDE DEF first, c
<1>10. n \in Cmds /\ n.cmd = c /\ n.pc = "resolve" /\ n.onward = first
  BY <1>4, AtShellFits DEF Cmds, Pcs
<1> HIDE DEF n
<1>11. shell'[t] = n
  BY <1>2, <1>5
<1>12. Fits(t)'
  BY <1>2, <1>4, <1>7, <1>8, <1>10, <1>11 DEF Fits, HasId
<1>13. Grows
  BY <1>2, <1>9 DEF Grows
<1>14. ProjectsFit'
  BY <1>2, <1>5, <1>9, ProjectsStayFit
<1>15. given' \in 0 .. MaxGiven
  BY <1>2, <1>5, CmdTypes, CommandsAssumption
<1>16. shell' \in [Shells -> Cmds] => CmdTypeOK'
  BY <1>2, <1>5, <1>9, <1>15, CmdTypes, CmdTypesNext
<1> QED BY <1>2, <1>10, <1>12, <1>13, <1>14, <1>16, OneGoesOn

LEMMA ResolveKeeps == ASSUME CmdInv, NEW t \in Shells, ResolveProject(t) PROVE CmdInv'
<1>1. /\ shell[t].pc = "resolve" /\ shell \in [Shells -> Cmds] /\ Fits(t) /\ CmdTypeOK /\ ProjectsFit
      /\ projectJson \in [id : Ids, profile : Profiles]
      /\ UNCHANGED <<filesVars, runtimes, seeded, given, cmdHistory>>
  BY CmdTypes DEF ResolveProject, CmdInv
<1>2. UNCHANGED <<projectJson, configJson, runtimes, seeded, bare, doubled, dropped>>
  BY <1>1 DEF filesVars, cmdHistory
<1>3. CASE projectJson # NoProject
  <2> DEFINE pc == IF shell[t].cmd = "init" THEN "compare"
                   ELSE IF shell[t].cmd = "start" THEN "fetch"
                   ELSE IF shell[t].cmd = "workflow" THEN "seed" ELSE "look"
             i == projectJson.id
             n == [shell[t] EXCEPT !.id = i, !.pc = pc]
  <2>1. shell' = [shell EXCEPT ![t] = n]
    BY <1>1, <1>3 DEF ResolveProject
  <2>2. i \in Shells /\ i \in Ids
    BY <1>1, <1>3, CommandsAssumption DEF ProjectsFit, Ids
  <2>3. /\ pc \in Pcs /\ pc \in {"compare", "fetch", "seed", "look"}
        /\ pc = "compare" => shell[t].cmd = "init"
        /\ pc = "fetch" => shell[t].cmd = "start"
        /\ pc = "seed" => shell[t].cmd = "workflow"
        /\ shell[t].cmd = "init" => pc = "compare"
    BY DEF Pcs
  <2> HIDE DEF pc
  <2>4. n \in Cmds /\ n.pc = pc /\ n.id = i /\ n.cmd = shell[t].cmd /\ n.onward = shell[t].onward
    BY <1>1, <2>2, <2>3 DEF Cmds
  <2> HIDE DEF n
  <2>5. shell'[t] = n
    BY <1>1, <2>1
  <2>6. (shell[t].onward => shell[t].cmd = "init") /\ shell[t].cmd # "none"
    BY <1>1 DEF Fits, Ends
  <2>7. shell[t].cmd = "start" => configJson \/ doubled \/ projectJson.id \in bare
    BY <1>1 DEF Fits, Ends
  <2>8. Fits(t)'
    BY <1>2, <1>3, <2>2, <2>3, <2>4, <2>5, <2>6, <2>7 DEF Fits
  <2> QED BY <1>1, <2>1, <2>4, <2>8, QuietStep
<1>4. CASE projectJson = NoProject /\ shell[t].cmd \in {"workflow", "watch"}
  <2>1. Finish(t, "failed") /\ "failed" \in Ends
    BY <1>4 DEF ResolveProject, Ends
  <2>2. Fits(t)' /\ \E n \in Cmds : shell' = [shell EXCEPT ![t] = n]
    BY <1>2, <2>1, FinishFits
  <2> QED BY <1>1, <2>2, QuietStep
<1>5. CASE projectJson = NoProject /\ shell[t].cmd \notin {"workflow", "watch"}
  <2>1. ShellGoes(t, "create") /\ "create" \in Pcs
    BY <1>5 DEF ResolveProject, Pcs
  <2>2. PICK n \in Cmds : /\ shell' = [shell EXCEPT ![t] = n] /\ shell'[t] = n /\ n.pc = "create" /\ n.cmd = shell[t].cmd
                          /\ n.onward = shell[t].onward
    BY <1>1, <2>1, ShellGoesFits
  <2>3. shell[t].cmd # "start" /\ (shell[t].onward => shell[t].cmd = "init")
    BY <1>1, <1>5 DEF Fits, Ends
  <2>4. shell[t].cmd = "init"
    <3>1. shell[t].cmd \in {"none", "init", "start", "workflow", "watch"}
      BY <1>1 DEF Cmds
    <3>2. shell[t].cmd # "none"
      BY <1>1 DEF Fits, Ends
    <3> QED BY <1>5, <2>3, <3>1, <3>2
  <2>5. Fits(t)'
    BY <2>2, <2>3, <2>4 DEF Fits, HasId
  <2> QED BY <1>1, <2>2, <2>5, QuietStep
<1> QED BY <1>3, <1>4, <1>5

LEMMA CreateKeeps == ASSUME CmdInv, NEW t \in Shells, CreateProjectIdentity(t) PROVE CmdInv'
<1>1. /\ shell[t].pc = "create" /\ shell \in [Shells -> Cmds] /\ Fits(t) /\ CmdTypeOK /\ ProjectsFit
      /\ shell[t].cmd = "init"
  BY CmdTypes DEF CreateProjectIdentity, CmdInv, Fits
<1> DEFINE j == [id |-> t, profile |-> DefaultProfile]
           n == [shell[t] EXCEPT !.id = t, !.pc = "compare"]
<1>2. /\ projectJson' = j /\ doubled' = (doubled \/ projectJson # NoProject) /\ shell' = [shell EXCEPT ![t] = n]
      /\ UNCHANGED <<configJson, credentials, runtimes, seeded, given, bare, strayed, dropped>>
  BY <1>1 DEF CreateProjectIdentity
<1>3. n \in Cmds /\ n.pc = "compare" /\ n.id = t /\ n.cmd = "init" /\ n.onward = shell[t].onward
  BY <1>1 DEF Cmds, Pcs, Ids
<1>4. j \in [id : Ids, profile : Profiles] /\ j.id = t /\ t # NoId /\ j # NoProject
  BY CommandsAssumption, NoProjectFits DEF Ids, Profiles
<1> HIDE DEF j, n
<1>5. shell'[t] = n
  BY <1>1, <1>2
<1>6. Fits(t)'
  BY <1>2, <1>3, <1>4, <1>5 DEF Fits, HasId
<1>7. doubled' \/ projectJson.id = NoId
  BY <1>2, NoProjectFits
<1>8. Grows
  BY <1>2, <1>4, <1>7 DEF Grows
<1>9. ProjectsFit'
  <2>1. ASSUME NEW i \in Shells, runtimes'[i] # NoProfile PROVE doubled' \/ i \in strayed'
    <3>1. doubled \/ i \in strayed \/ projectJson = [id |-> i, profile |-> runtimes[i]]
      BY <1>1, <1>2, <2>1 DEF ProjectsFit
    <3>2. projectJson = [id |-> i, profile |-> runtimes[i]] => projectJson.id # NoId
      BY CommandsAssumption
    <3> QED BY <1>2, <1>7, <3>1, <3>2
  <2>2. ASSUME NEW i \in Shells, runtimes'[i] # NoProfile PROVE configJson' \/ doubled' \/ i \in bare'
    BY <1>1, <1>2, <2>2 DEF ProjectsFit
  <2> QED BY <1>2, <1>4, <2>1, <2>2 DEF ProjectsFit
<1>10. doubled' \in BOOLEAN
  BY <1>1, <1>2, CmdTypes
<1>11. shell' \in [Shells -> Cmds] => CmdTypeOK'
  BY <1>1, <1>2, <1>4, <1>10, CmdTypes, CmdTypesNext
<1> QED BY <1>2, <1>3, <1>6, <1>8, <1>9, <1>11, OneGoesOn

LEMMA CompareKeeps == ASSUME CmdInv, NEW t \in Shells, Compare(t) PROVE CmdInv'
<1>1. /\ shell[t].pc = "compare" /\ Fits(t) /\ CmdTypeOK /\ UNCHANGED <<filesVars, runtimes, seeded, given, cmdHistory>>
      /\ shell[t].cmd = "init"
  BY DEF Compare, CmdInv, Fits
<1>2. UNCHANGED <<projectJson, configJson, runtimes, seeded, bare, doubled, dropped>>
  BY <1>1 DEF filesVars, cmdHistory
<1>3. CASE ShellGoes(t, "wizard")
  <2>1. PICK n \in Cmds : /\ shell' = [shell EXCEPT ![t] = n] /\ shell'[t] = n /\ n.pc = "wizard" /\ n.cmd = shell[t].cmd
                          /\ n.id = shell[t].id /\ n.onward = shell[t].onward
    BY <1>1, <1>3, ShellGoesFits DEF Pcs
  <2>2. Fits(t)'
    BY <1>1, <1>2, <2>1 DEF Fits, HasId
  <2> QED BY <1>1, <2>1, <2>2, QuietStep
<1>4. CASE configJson /\ Finish(t, "recap")
  <2>1. Fits(t)' /\ \E n \in Cmds : shell' = [shell EXCEPT ![t] = n]
    BY <1>2, <1>4, FinishFits DEF Ends
  <2> QED BY <1>1, <2>1, QuietStep
<1> QED BY <1>3, <1>4 DEF Compare

LEMMA ChooseKeeps == ASSUME CmdInv, NEW t \in Shells, ChooseProfile(t) PROVE CmdInv'
<1>1. /\ shell[t].pc = "wizard" /\ Fits(t) /\ CmdTypeOK /\ UNCHANGED <<filesVars, runtimes, seeded, given, cmdHistory>>
      /\ shell[t].cmd = "init" /\ shell \in [Shells -> Cmds]
  BY CmdTypes DEF ChooseProfile, CmdInv, Fits
<1>2. UNCHANGED <<projectJson, configJson, runtimes, seeded, bare, doubled, dropped>>
  BY <1>1 DEF filesVars, cmdHistory
<1>3. ASSUME NEW n \in Cmds, shell' = [shell EXCEPT ![t] = n], n.pc \in {"validate", "project"}, n.id = shell[t].id,
             n.cmd = "init", n.onward = shell[t].onward, n.pc = "validate" => n.profile \in WizardProfiles
      PROVE  CmdInv'
  <2>1. shell'[t] = n
    BY <1>1, <1>3
  <2>2. Fits(t)'
    BY <1>1, <1>2, <1>3, <2>1 DEF Fits, HasId
  <2> QED BY <1>1, <1>3, <2>2, QuietStep
<1>4. ASSUME NEW p \in WizardProfiles,
             shell' = [shell EXCEPT ![t].profile = p, ![t].pc = "validate", ![t].attempt = 1]
      PROVE  CmdInv'
  <2> DEFINE n == [shell[t] EXCEPT !.profile = p, !.pc = "validate", !.attempt = 1]
  <2>1. shell' = [shell EXCEPT ![t] = n]
    BY <1>1, <1>4
  <2>2. 1 \in 0 .. MaxAttempts /\ p \in Profiles
    BY CommandsAssumption DEF Profiles
  <2>3. n \in Cmds /\ n.pc = "validate" /\ n.id = shell[t].id /\ n.cmd = "init" /\ n.onward = shell[t].onward
        /\ (n.pc = "validate" => n.profile \in WizardProfiles)
    BY <1>1, <2>2 DEF Cmds, Pcs
  <2> HIDE DEF n
  <2> QED BY <1>3, <2>1, <2>3
<1>5. ASSUME shell' = [shell EXCEPT ![t].profile = EnvProfile, ![t].pc = "project"] PROVE CmdInv'
  <2> DEFINE n == [shell[t] EXCEPT !.profile = EnvProfile, !.pc = "project"]
  <2>1. shell' = [shell EXCEPT ![t] = n]
    BY <1>1, <1>5
  <2>2. EnvProfile \in Profiles
    BY DEF Profiles
  <2>3. n \in Cmds /\ n.pc = "project" /\ n.id = shell[t].id /\ n.cmd = "init" /\ n.onward = shell[t].onward
        /\ (n.pc = "validate" => n.profile \in WizardProfiles)
    BY <1>1, <2>2 DEF Cmds, Pcs
  <2> HIDE DEF n
  <2> QED BY <1>3, <2>1, <2>3
<1>6. ASSUME NEW end \in {"cancelled", "failed"}, Finish(t, end) PROVE CmdInv'
  <2>1. Fits(t)' /\ \E n \in Cmds : shell' = [shell EXCEPT ![t] = n]
    BY <1>2, <1>6, FinishFits DEF Ends
  <2> QED BY <1>1, <2>1, QuietStep
<1> QED BY <1>4, <1>5, <1>6 DEF ChooseProfile

LEMMA FetchKeeps == ASSUME CmdInv, NEW t \in Shells, FetchProject(t) PROVE CmdInv'
<1>1. /\ shell[t].pc = "fetch" /\ Fits(t) /\ CmdTypeOK /\ UNCHANGED <<filesVars, runtimes, seeded, given, cmdHistory>>
      /\ shell[t].cmd \in {"init", "start"} /\ shell[t].id \in Shells /\ (shell[t].cmd = "init" => configJson)
      /\ HasId(t) /\ (shell[t].onward => shell[t].cmd = "init")
  BY DEF FetchProject, CmdInv, Fits, HasId
<1>2. UNCHANGED <<projectJson, configJson, runtimes, seeded, bare, doubled, dropped>>
  BY <1>1 DEF filesVars, cmdHistory
<1>3. ASSUME NEW pc \in {"post", "seed"}, ShellGoes(t, pc),
             pc = "seed" => runtimes[shell[t].id] # NoProfile /\ shell[t].cmd = "init"
      PROVE  CmdInv'
  <2>1. pc \in Pcs
    BY DEF Pcs
  <2>2. PICK n \in Cmds : /\ shell' = [shell EXCEPT ![t] = n] /\ shell'[t] = n /\ n.pc = pc /\ n.cmd = shell[t].cmd
                          /\ n.id = shell[t].id /\ n.onward = shell[t].onward
    BY <1>1, <1>3, <2>1, ShellGoesFits
  <2>3. Fits(t)'
    BY <1>1, <1>2, <1>3, <2>2 DEF Fits, HasId, Ends
  <2> QED BY <1>1, <2>2, <2>3, QuietStep
<1>4. CASE runtimes[shell[t].id] # NoProfile /\ shell[t].cmd # "init" /\ Finish(t, "ready")
  <2>1. Fits(t)' /\ \E n \in Cmds : shell' = [shell EXCEPT ![t] = n]
    BY <1>1, <1>2, <1>4, FinishFits DEF Ends
  <2> QED BY <1>1, <2>1, QuietStep
<1>5. CASE Finish(t, "failed")
  <2>1. Fits(t)' /\ \E n \in Cmds : shell' = [shell EXCEPT ![t] = n]
    BY <1>2, <1>5, FinishFits DEF Ends
  <2> QED BY <1>1, <2>1, QuietStep
<1> QED BY <1>3, <1>4, <1>5 DEF FetchProject

LEMMA LookKeeps == ASSUME CmdInv, NEW t \in Shells, LookAtWorkflow(t) PROVE CmdInv'
<1>1. /\ shell[t].pc = "look" /\ Fits(t) /\ CmdTypeOK /\ UNCHANGED <<filesVars, runtimes, seeded, given, cmdHistory>>
      /\ shell[t].onward = FALSE /\ shell[t].cmd # "init"
  BY CmdTypes DEF LookAtWorkflow, CmdInv, Fits, Cmds
<1>2. UNCHANGED <<projectJson, configJson, runtimes, seeded, bare, doubled, dropped>>
  BY <1>1 DEF filesVars, cmdHistory
<1>3. CASE ShellGoes(t, "poll")
  <2>1. PICK n \in Cmds : /\ shell' = [shell EXCEPT ![t] = n] /\ shell'[t] = n /\ n.pc = "poll" /\ n.cmd = shell[t].cmd
                          /\ n.id = shell[t].id /\ n.onward = shell[t].onward
    BY <1>1, <1>3, ShellGoesFits DEF Pcs
  <2>2. Fits(t)'
    BY <1>1, <1>2, <2>1 DEF Fits, HasId, Ends
  <2> QED BY <1>1, <2>1, <2>2, QuietStep
<1>4. ASSUME NEW end \in {"recap", "failed"}, Finish(t, end) PROVE CmdInv'
  <2>1. Fits(t)' /\ \E n \in Cmds : shell' = [shell EXCEPT ![t] = n]
    BY <1>1, <1>2, <1>4, FinishFits DEF Ends
  <2> QED BY <1>1, <2>1, QuietStep
<1> QED BY <1>3, <1>4 DEF LookAtWorkflow

LEMMA PollKeeps == ASSUME CmdInv, NEW t \in Shells, Poll(t) PROVE CmdInv'
<1>1. /\ shell[t].pc = "poll" /\ Fits(t) /\ CmdTypeOK /\ UNCHANGED <<filesVars, runtimes, seeded, given, cmdHistory>>
      /\ shell[t].onward = FALSE /\ HasId(t)
  BY CmdTypes DEF Poll, CmdInv, Fits, Cmds, HasId
<1>2. UNCHANGED <<projectJson, configJson, runtimes, seeded, bare, doubled, dropped>>
  BY <1>1 DEF filesVars, cmdHistory
<1> DEFINE end == IF seeded[shell[t].id] = "building" THEN "seeded" ELSE "failed"
<1>3. Finish(t, end) /\ end \in Ends /\ end # "ready" /\ (end = "seeded" => seeded'[shell[t].id] = "building")
  BY <1>1, <1>2 DEF Poll, Ends
<1> HIDE DEF end
<1>4. Fits(t)' /\ \E n \in Cmds : shell' = [shell EXCEPT ![t] = n]
  BY <1>1, <1>2, <1>3, FinishFits
<1> QED BY <1>1, <1>4, QuietStep

LEMMA ValidateKeeps == ASSUME CmdInv, NEW t \in Shells, Validate(t) PROVE CmdInv'
<1>1. /\ shell[t].pc = "validate" /\ Fits(t) /\ CmdTypeOK /\ ProjectsFit /\ shell[t].cmd = "init" /\ shell \in [Shells -> Cmds]
      /\ UNCHANGED <<projectJson, configJson, runtimes, seeded, given, cmdHistory>>
  BY CmdTypes DEF Validate, CmdInv, Fits
<1>2. UNCHANGED <<projectJson, configJson, runtimes, seeded, given, bare, doubled, strayed, dropped>>
  BY <1>1 DEF cmdHistory
<1>3. Grows /\ ProjectsFit'
  BY <1>1, <1>2, ProjectsStayFit DEF Grows
<1>4. ASSUME NEW n \in Cmds, shell' = [shell EXCEPT ![t] = n], Fits(t)', credentials' \subseteq WizardProfiles
      PROVE  CmdInv'
  <2>1. shell' \in [Shells -> Cmds] => CmdTypeOK'
    BY <1>1, <1>2, <1>4, CmdTypes, CmdTypesNext
  <2> QED BY <1>3, <1>4, <2>1, OneGoesOn
<1>5. ASSUME NEW n \in Cmds, shell' = [shell EXCEPT ![t] = n], n.pc \in {"validate", "project"}, n.id = shell[t].id,
             n.cmd = "init", n.onward = shell[t].onward, n.pc = "validate" => n.profile \in WizardProfiles
      PROVE  Fits(t)'
  <2>1. shell'[t] = n
    BY <1>1, <1>5
  <2> QED BY <1>1, <1>2, <1>5, <2>1 DEF Fits, HasId
<1>6. CASE shell' = [shell EXCEPT ![t].pc = "project", ![t].attempt = 0] /\ credentials' = credentials \cup {shell[t].profile}
  <2> DEFINE n == [shell[t] EXCEPT !.pc = "project", !.attempt = 0]
  <2>1. shell' = [shell EXCEPT ![t] = n]
    BY <1>1, <1>6
  <2>2. 0 \in 0 .. MaxAttempts
    BY CommandsAssumption
  <2>3. n \in Cmds /\ n.pc = "project" /\ n.id = shell[t].id /\ n.cmd = "init" /\ n.onward = shell[t].onward
        /\ (n.pc = "validate" => n.profile \in WizardProfiles)
    BY <1>1, <2>2 DEF Cmds, Pcs
  <2> HIDE DEF n
  <2>4. credentials' \subseteq WizardProfiles
    BY <1>1, <1>6, CmdTypes DEF Fits
  <2> QED BY <1>4, <1>5, <2>1, <2>3, <2>4
<1>7. CASE shell[t].attempt < MaxAttempts /\ shell' = [shell EXCEPT ![t].attempt = @ + 1] /\ UNCHANGED credentials
  <2> DEFINE a == shell[t].attempt + 1
             n == [shell[t] EXCEPT !.attempt = a]
  <2>1. shell' = [shell EXCEPT ![t] = n]
    BY <1>1, <1>7
  <2>2. shell[t].attempt \in 0 .. MaxAttempts
    BY <1>1 DEF Cmds
  <2>3. a \in 0 .. MaxAttempts
    BY <1>7, <2>2, CommandsAssumption
  <2> HIDE DEF a
  <2>4. n \in Cmds /\ n.pc = "validate" /\ n.id = shell[t].id /\ n.cmd = "init" /\ n.onward = shell[t].onward
        /\ (n.pc = "validate" => n.profile \in WizardProfiles)
    BY <1>1, <2>3 DEF Cmds, Fits
  <2> HIDE DEF n
  <2> QED BY <1>1, <1>4, <1>5, <1>7, <2>1, <2>4, CmdTypes
<1>8. CASE Finish(t, "failed") /\ UNCHANGED credentials
  <2>1. Fits(t)' /\ \E n \in Cmds : shell' = [shell EXCEPT ![t] = n]
    BY <1>2, <1>8, FinishFits DEF Ends
  <2> QED BY <1>1, <1>4, <1>8, <2>1, CmdTypes
<1> QED BY <1>6, <1>7, <1>8 DEF Validate

LEMMA WriteProjectKeeps == ASSUME CmdInv, NEW t \in Shells, WriteProject(t) PROVE CmdInv'
<1>1. /\ shell[t].pc = "project" /\ shell \in [Shells -> Cmds] /\ Fits(t) /\ CmdTypeOK /\ ProjectsFit
      /\ shell[t].cmd = "init" /\ shell[t].id \in Shells /\ (doubled \/ shell[t].id = projectJson.id)
      /\ shell[t].profile \in Profiles /\ UNCHANGED <<configJson, credentials, runtimes, seeded, given, bare, doubled, dropped>>
  BY CmdTypes DEF WriteProject, CmdInv, Fits, HasId, Cmds
<1> DEFINE i == shell[t].id
           f == shell[t].profile
           j == [id |-> i, profile |-> f]
<1>2. projectJson' = j /\ ShellGoes(t, "config") /\ "config" \in Pcs
  BY DEF WriteProject, Pcs
<1>3. strayed' = IF runtimes[i] \in {NoProfile, f} THEN strayed ELSE strayed \cup {i}
  BY DEF WriteProject
<1>4. j \in [id : Ids, profile : Profiles] /\ j.id = i /\ j.profile = f /\ i # NoId /\ j # NoProject
  BY <1>1, CommandsAssumption, NoProjectFits DEF Ids
<1>5. PICK n \in Cmds : /\ shell' = [shell EXCEPT ![t] = n] /\ shell'[t] = n /\ n.pc = "config" /\ n.cmd = shell[t].cmd
                        /\ n.id = shell[t].id /\ n.onward = shell[t].onward
  BY <1>1, <1>2, ShellGoesFits
<1>6. Fits(t)'
  BY <1>1, <1>2, <1>4, <1>5 DEF Fits, HasId
<1>7. Grows
  BY <1>1, <1>2, <1>4 DEF Grows
<1>8. ProjectsFit'
  <2>1. ASSUME NEW k \in Shells, runtimes'[k] # NoProfile, ~doubled', k \notin strayed'
        PROVE  projectJson' = [id |-> k, profile |-> runtimes'[k]]
    <3>1. k \notin strayed /\ projectJson = [id |-> k, profile |-> runtimes[k]]
      BY <1>1, <1>3, <2>1 DEF ProjectsFit
    <3>2. k = i
      BY <1>1, <2>1, <3>1
    <3>3. runtimes[k] = f
      BY <1>1, <1>3, <2>1, <3>2
    <3> QED BY <1>1, <1>2, <3>2, <3>3
  <2>2. ASSUME NEW k \in Shells, runtimes'[k] # NoProfile PROVE configJson' \/ doubled' \/ k \in bare'
    BY <1>1, <2>2 DEF ProjectsFit
  <2>3. projectJson'.id # NoId
    BY <1>2, <1>4
  <2> QED BY <2>1, <2>2, <2>3 DEF ProjectsFit
<1>9. strayed' \subseteq Shells
  BY <1>1, <1>3, CmdTypes
<1>10. shell' \in [Shells -> Cmds] => CmdTypeOK'
  BY <1>1, <1>2, <1>4, <1>9, CmdTypes, CmdTypesNext
<1> QED BY <1>5, <1>6, <1>7, <1>8, <1>10, OneGoesOn

LEMMA WriteConfigKeeps == ASSUME CmdInv, NEW t \in Shells, WriteConfig(t) PROVE CmdInv'
<1>1. /\ shell[t].pc = "config" /\ Fits(t) /\ CmdTypeOK /\ ProjectsFit /\ shell[t].cmd = "init"
      /\ UNCHANGED <<projectJson, credentials, runtimes, seeded, given, cmdHistory>>
      /\ configJson' = TRUE /\ ShellGoes(t, "fetch") /\ "fetch" \in Pcs
  BY DEF WriteConfig, CmdInv, Fits, Pcs
<1>2. UNCHANGED <<projectJson, credentials, runtimes, seeded, given, bare, doubled, strayed, dropped>>
  BY <1>1 DEF cmdHistory
<1>3. Grows /\ ProjectsFit'
  BY <1>1, <1>2, ProjectsStayFit DEF Grows
<1>4. PICK n \in Cmds : /\ shell' = [shell EXCEPT ![t] = n] /\ shell'[t] = n /\ n.pc = "fetch" /\ n.cmd = shell[t].cmd
                        /\ n.id = shell[t].id /\ n.onward = shell[t].onward
  BY <1>1, ShellGoesFits
<1>5. Fits(t)'
  BY <1>1, <1>2, <1>4 DEF Fits, HasId
<1>6. configJson' \in BOOLEAN
  BY <1>1
<1>7. shell' \in [Shells -> Cmds] => CmdTypeOK'
  BY <1>1, <1>2, <1>6, CmdTypes, CmdTypesNext
<1> QED BY <1>3, <1>4, <1>5, <1>7, OneGoesOn

LEMMA PostsKeeps == ASSUME CmdInv, NEW t \in Shells, PostsProject(t) PROVE CmdInv'
<1>1. /\ shell[t].pc = "post" /\ shell \in [Shells -> Cmds] /\ Fits(t) /\ CmdTypeOK /\ ProjectsFit
      /\ shell[t].cmd \in {"init", "start"} /\ shell[t].id \in Shells /\ (doubled \/ shell[t].id = projectJson.id)
      /\ HasId(t) /\ (shell[t].cmd = "init" => configJson) /\ (shell[t].onward => shell[t].cmd = "init")
      /\ configJson \/ doubled \/ projectJson.id \in bare
      /\ UNCHANGED <<filesVars, seeded, given, bare, doubled, dropped>>
  BY CmdTypes DEF PostsProject, CmdInv, Fits, HasId, Ends
<1>2. UNCHANGED <<projectJson, configJson, credentials, seeded, given, bare, doubled, dropped>>
  BY <1>1 DEF filesVars
<1> DEFINE i == shell[t].id
           f == Posted(t)
<1>3. CASE runtimes[i] # NoProfile \/ f \notin credentials
  <2>1. Finish(t, "failed") /\ UNCHANGED <<runtimes, strayed>>
    BY <1>3 DEF PostsProject
  <2>2. Fits(t)' /\ \E n \in Cmds : shell' = [shell EXCEPT ![t] = n]
    BY <1>2, <2>1, FinishFits DEF Ends
  <2>3. UNCHANGED <<filesVars, runtimes, seeded, given, cmdHistory>>
    BY <1>1, <2>1 DEF cmdHistory
  <2> QED BY <2>2, <2>3, QuietStep
<1>4. CASE ~(runtimes[i] # NoProfile \/ f \notin credentials)
  <2>1. /\ runtimes[i] = NoProfile /\ f \in WizardProfiles /\ f # NoProfile /\ runtimes' = [runtimes EXCEPT ![i] = f]
        /\ strayed' = IF projectJson = [id |-> i, profile |-> f] THEN strayed ELSE strayed \cup {i}
        /\ IF shell[t].cmd = "init" THEN ShellGoes(t, "seed") ELSE Finish(t, "ready")
    BY <1>1, <1>4, CmdTypes, CommandsAssumption DEF PostsProject
  <2> HIDE DEF f
  <2>2. runtimes'[i] = f /\ (\A k \in Shells \ {i} : runtimes'[k] = runtimes[k])
        /\ runtimes' \in [Shells -> WizardProfiles \cup {NoProfile}]
    BY <1>1, <2>1, CmdTypes
  <2>3. Fits(t)' /\ \E n \in Cmds : shell' = [shell EXCEPT ![t] = n]
    <3>1. CASE shell[t].cmd = "init"
      <4>1. PICK n \in Cmds : /\ shell' = [shell EXCEPT ![t] = n] /\ shell'[t] = n /\ n.pc = "seed" /\ n.cmd = shell[t].cmd
                              /\ n.id = shell[t].id /\ n.onward = shell[t].onward
        BY <1>1, <2>1, <3>1, ShellGoesFits DEF Pcs
      <4>2. Fits(t)'
        BY <1>1, <1>2, <2>1, <2>2, <3>1, <4>1 DEF Fits, HasId
      <4> QED BY <4>1, <4>2
    <3>2. CASE shell[t].cmd # "init"
      <4>1. runtimes'[shell[t].id] # NoProfile /\ Finish(t, "ready") /\ ~shell[t].onward
        BY <1>1, <2>1, <2>2, <3>2
      <4> QED BY <1>1, <1>2, <4>1, FinishFits DEF Ends
    <3> QED BY <3>1, <3>2
  <2>4. Grows
    BY <1>2, <2>1, <2>2 DEF Grows
  <2>5. strayed \subseteq strayed' /\ strayed' \subseteq Shells
    BY <1>1, <2>1, CmdTypes
  <2>6. ProjectsFit'
    <3>1. ASSUME NEW k \in Shells, runtimes'[k] # NoProfile
          PROVE  /\ configJson' \/ doubled' \/ k \in bare'
                 /\ doubled' \/ k \in strayed' \/ projectJson' = [id |-> k, profile |-> runtimes'[k]]
      <4>1. CASE k = i
        BY <1>1, <1>2, <2>1, <2>2, <4>1
      <4>2. CASE k # i
        BY <1>1, <1>2, <2>2, <2>5, <3>1, <4>2 DEF ProjectsFit
      <4> QED BY <4>1, <4>2
    <3> QED BY <1>1, <1>2, <3>1 DEF ProjectsFit
  <2>7. shell' \in [Shells -> Cmds] => CmdTypeOK'
    BY <1>1, <1>2, <2>2, <2>5, CmdTypes, CmdTypesNext
  <2> QED BY <2>3, <2>4, <2>6, <2>7, OneGoesOn
<1> QED BY <1>3, <1>4

LEMMA KickoffKeeps == ASSUME CmdInv, NEW t \in Shells, Kickoff(t) PROVE CmdInv'
<1>1. /\ shell[t].pc = "seed" /\ shell \in [Shells -> Cmds] /\ Fits(t) /\ CmdTypeOK /\ ProjectsFit
      /\ shell[t].id \in Shells /\ (doubled \/ shell[t].id = projectJson.id)
      /\ HasId(t) /\ (shell[t].cmd = "init" => configJson) /\ (shell[t].onward => shell[t].cmd = "init")
      /\ shell[t].cmd = "init" => runtimes[shell[t].id] # NoProfile \/ shell[t].id \in dropped
      /\ UNCHANGED <<filesVars, runtimes, given, cmdHistory>>
  BY CmdTypes DEF Kickoff, CmdInv, Fits, HasId
<1>2. UNCHANGED <<projectJson, configJson, credentials, runtimes, given, bare, doubled, strayed, dropped>>
  BY <1>1 DEF filesVars, cmdHistory
<1>3. ASSUME Grows, seeded' \in [Shells -> {"none", "spec", "building", "failed"}],
             Fits(t)', \E n \in Cmds : shell' = [shell EXCEPT ![t] = n]
      PROVE  CmdInv'
  <2>1. ProjectsFit'
    BY <1>1, <1>2, ProjectsStayFit
  <2>2. shell' \in [Shells -> Cmds] => CmdTypeOK'
    BY <1>1, <1>2, <1>3, CmdTypes, CmdTypesNext
  <2> QED BY <1>3, <2>1, <2>2, OneGoesOn
<1>4. ASSUME Finish(t, "failed") \/ (Finish(t, "ready") /\ (shell[t].cmd = "init" \/ runtimes[shell[t].id] # NoProfile))
      PROVE  Fits(t)' /\ \E n \in Cmds : shell' = [shell EXCEPT ![t] = n]
  <2>1. CASE Finish(t, "failed")
    BY <1>2, <2>1, FinishFits DEF Ends
  <2>2. CASE Finish(t, "ready") /\ (shell[t].cmd = "init" \/ runtimes[shell[t].id] # NoProfile)
    BY <1>1, <1>2, <2>2, FinishFits DEF Ends
  <2> QED BY <1>4, <2>1, <2>2
<1>5. CASE runtimes[shell[t].id] # NoProfile /\ seeded[shell[t].id] = "none"
           /\ seeded' = [seeded EXCEPT ![shell[t].id] = "spec"]
           /\ (Finish(t, "ready") \/ (shell[t].cmd = "workflow" /\ ShellGoes(t, "poll")))
  <2>1. seeded' \in [Shells -> {"none", "spec", "building", "failed"}]
        /\ \A k \in Shells : seeded[k] = "building" => seeded'[k] = "building"
    BY <1>1, <1>5, CmdTypes
  <2>2. Grows
    BY <1>2, <2>1 DEF Grows
  <2>3. CASE Finish(t, "ready")
    BY <1>3, <1>4, <1>5, <2>1, <2>2, <2>3
  <2>4. CASE shell[t].cmd = "workflow" /\ ShellGoes(t, "poll")
    <3>1. PICK n \in Cmds : /\ shell' = [shell EXCEPT ![t] = n] /\ shell'[t] = n /\ n.pc = "poll" /\ n.cmd = shell[t].cmd
                            /\ n.id = shell[t].id /\ n.onward = shell[t].onward
      BY <1>1, <2>4, ShellGoesFits DEF Pcs
    <3>2. Fits(t)'
      BY <1>1, <1>2, <2>4, <3>1 DEF Fits, HasId
    <3> QED BY <1>3, <2>1, <2>2, <3>1, <3>2
  <2> QED BY <1>5, <2>3, <2>4
<1>6. CASE UNCHANGED seeded /\ (Finish(t, "failed") \/ (shell[t].cmd = "init" /\ Finish(t, "ready")))
  <2>1. Grows /\ seeded' \in [Shells -> {"none", "spec", "building", "failed"}]
    BY <1>1, <1>2, <1>6, CmdTypes DEF Grows
  <2> QED BY <1>3, <1>4, <1>6, <2>1
<1> QED BY <1>5, <1>6 DEF Kickoff

LEMMA SpecEndsKeeps == ASSUME CmdInv, NEW i \in Shells, SpecEnds(i) PROVE CmdInv'
<1>1. CmdTypeOK /\ ProjectsFit
  BY DEF CmdInv
<1>2. UNCHANGED <<projectJson, configJson, credentials, runtimes, shell, given, bare, doubled, strayed, dropped>>
  BY DEF SpecEnds, filesVars, cmdHistory
<1>3. seeded' \in [Shells -> {"none", "spec", "building", "failed"}]
      /\ \A k \in Shells : seeded[k] = "building" => seeded'[k] = "building"
  BY <1>1, CmdTypes DEF SpecEnds
<1>4. Grows /\ ProjectsFit'
  BY <1>1, <1>2, <1>3, ProjectsStayFit DEF Grows
<1>5. CmdTypeOK'
  BY <1>1, <1>2, <1>3, CmdTypes, CmdTypesNext
<1>6. \A u \in Shells : Fits(u)'
  BY <1>2, <1>4, StaysFit
<1> QED BY <1>4, <1>5, <1>6 DEF CmdInv

LEMMA RemoveKeeps == ASSUME CmdInv, NEW i \in Shells, RemoveProject(i) PROVE CmdInv'
<1>1. CmdTypeOK /\ ProjectsFit
  BY DEF CmdInv
<1>2. /\ UNCHANGED <<projectJson, configJson, credentials, shell, bare, strayed, doubled>> /\ dropped' = dropped \cup {i}
      /\ runtimes' = [runtimes EXCEPT ![i] = NoProfile] /\ seeded' = [seeded EXCEPT ![i] = "none"]
      /\ given < MaxGiven /\ given' = given + 1
  BY DEF RemoveProject, filesVars
<1>3. /\ runtimes' \in [Shells -> WizardProfiles \cup {NoProfile}] /\ runtimes'[i] = NoProfile
      /\ \A k \in Shells \ {i} : runtimes'[k] = runtimes[k]
  BY <1>1, <1>2, CmdTypes
<1>4. /\ seeded' \in [Shells -> {"none", "spec", "building", "failed"}]
      /\ \A k \in Shells \ {i} : seeded'[k] = seeded[k]
  BY <1>1, <1>2, CmdTypes
<1>5. given' \in 0 .. MaxGiven /\ dropped' \subseteq Shells
  BY <1>1, <1>2, CmdTypes, CommandsAssumption
<1>6. CmdTypeOK'
  BY <1>1, <1>2, <1>3, <1>4, <1>5, CmdTypes, CmdTypesNext
<1>7. Grows
  BY <1>2, <1>3, <1>4 DEF Grows
<1>8. ProjectsFit'
  BY <1>1, <1>2, <1>3 DEF ProjectsFit
<1>9. \A u \in Shells : Fits(u)'
  BY <1>2, <1>7, StaysFit
<1> QED BY <1>6, <1>8, <1>9 DEF CmdInv

LEMMA CmdInvStep == CmdInv /\ [CmdNext]_cmdVars => CmdInv'
<1> SUFFICES ASSUME CmdInv, [CmdNext]_cmdVars PROVE CmdInv'
  OBVIOUS
<1>1. ASSUME NEW t \in Shells,
             \/ Give(t) \/ ResolveProject(t) \/ CreateProjectIdentity(t) \/ Compare(t)
             \/ ChooseProfile(t) \/ Validate(t) \/ WriteProject(t) \/ WriteConfig(t)
             \/ FetchProject(t) \/ PostsProject(t) \/ Kickoff(t) \/ LookAtWorkflow(t) \/ Poll(t)
      PROVE  CmdInv'
  BY <1>1, GiveKeeps, ResolveKeeps, CreateKeeps, CompareKeeps, ChooseKeeps, ValidateKeeps, WriteProjectKeeps,
     WriteConfigKeeps, FetchKeeps, PostsKeeps, KickoffKeeps, LookKeeps, PollKeeps
<1>2. ASSUME NEW i \in Shells, SpecEnds(i) \/ RemoveProject(i) PROVE CmdInv'
  BY <1>2, SpecEndsKeeps, RemoveKeeps
<1>3. CASE UNCHANGED cmdVars
  <2>1. UNCHANGED <<projectJson, configJson, credentials, runtimes, seeded, shell, given, bare, strayed, doubled, dropped>>
    BY <1>3 DEF cmdVars
  <2>2. Grows /\ ProjectsFit'
    BY <2>1, ProjectsStayFit DEF Grows, CmdInv
  <2>3. CmdTypeOK'
    BY <2>1, CmdTypes, CmdTypesNext DEF CmdInv
  <2>4. \A u \in Shells : Fits(u)'
    BY <2>1, <2>2, StaysFit
  <2> QED BY <2>2, <2>3, <2>4 DEF CmdInv
<1> QED BY <1>1, <1>2, <1>3 DEF CmdNext

\* Whatever shells run init, start and workflow init at once, and projects that are removed meanwhile:
\* a command that ends well has set up what it says (commands/init.ts, start.ts, workflow-init.ts).
THEOREM CommandsTellTruthHolds == CmdSpec => [](CmdTypeOK /\ CommandsTellTruth)
<1> QED BY CmdInvInit, CmdInvStep, CmdInvImplies, PTL DEF CmdSpec

-----------------------------------------------------------------------------
(* The parts side by side                                                  *)

FilesInv == RegInv /\ EntryInv /\ CfgInv /\ RepInv /\ CmdInv /\ UseInv

LEMMA FilesInvInit == PlatformInit => FilesInv
BY RegInvInit, EntryInvInit, CfgInvInit, RepInvInit, CmdInvInit, UseInvInit DEF PlatformInit, StoredInit, FilesInv

\* A step of the platform is, for each part, one of its own or none.
LEMMA EachItsOwn ==
  ASSUME [PlatformNext]_platformVars
  PROVE  /\ [ChatNext]_chatVars /\ [SpecNext]_specVars
         /\ [CtlNext]_ctlVars /\ [SrvNext]_srvVars
         /\ [RegNext]_regVars /\ [EntryNext]_entryVars /\ [CfgNext]_cfgVars
         /\ [RepNext]_repVars /\ [CmdNext]_cmdVars /\ [UseNext]_useVars
<1>1. CASE UNCHANGED platformVars
  BY <1>1 DEF platformVars, storedVars
<1>2. CASE PlatformNext
  <2>1. CASE UNCHANGED <<chatVars, specVars, ctlVars, srvVars, storedVars>>
    BY <2>1 DEF storedVars
  <2>2. CASE CtlNext /\ UNCHANGED <<chatVars, specVars, srvVars, storedVars>>
    BY <2>2 DEF storedVars
  <2>3. CASE SrvNext /\ UNCHANGED <<chatVars, specVars, ctlVars, storedVars>>
    BY <2>3 DEF storedVars
  <2>4. CASE StoredNext(part) /\ UNCHANGED <<chatVars, specVars, ctlVars, srvVars>>
    BY <2>4 DEF StoredNext
  <2>5. CASE ChatNext /\ UNCHANGED <<specVars, ctlVars, srvVars, storedVars>>
    BY <2>5 DEF storedVars
  <2>6. CASE SpecNext /\ UNCHANGED <<chatVars, ctlVars, srvVars, storedVars>>
    BY <2>6 DEF storedVars
  <2> QED BY <1>2, <2>1, <2>2, <2>3, <2>4, <2>5, <2>6 DEF PlatformNext
<1> QED BY <1>1, <1>2

LEMMA FilesInvStep == FilesInv /\ [PlatformNext]_platformVars => FilesInv'
BY EachItsOwn, RegInvStep, EntryInvStep, CfgInvStep, RepInvStep, CmdInvStep, UseInvStep DEF FilesInv

\* Whatever happens to the registry, to credentials and servers, to the configuration, to a state
\* that is repaired and to the commands that set a project up: the files keep what was
\* acknowledged, and a command that ends well is right.
THEOREM FilesKeepTheirWordHolds == PlatformSpec => [](StoredTypeOK /\ FilesKeepTheirWord)
<1>1. FilesInv => StoredTypeOK /\ FilesKeepTheirWord
  BY RegInvImplies, EntryInvImplies, CfgInvImplies, CmdInvImplies, UseInvImplies
     DEF FilesInv, StoredTypeOK, FilesKeepTheirWord, CfgInv, RepInv
<1> QED BY <1>1, FilesInvInit, FilesInvStep, PTL DEF PlatformSpec

\* The same of the daemon's processes: one daemon is found, whatever else runs.
THEOREM OneDaemonIsFoundHolds == ASSUME ~Untimely, Signals = {"SIGTERM"} PROVE PlatformSpec => []OneDaemonIsFound
<1>1. PlatformInit => CtlInv
  BY CtlInvInit DEF PlatformInit
<1>2. CtlInv /\ [PlatformNext]_platformVars => CtlInv'
  BY EachItsOwn, CtlInvStep
<1> QED BY <1>1, <1>2, CtlInvImplies, PTL DEF PlatformSpec

\* The graph of a workflow, while the pipeline makes it or chats edit it.
GraphsInv == EditInv /\ Runnable(graph) /\ PipeInv

LEMMA GraphsInvInit == PlatformInit => GraphsInv
<1> SUFFICES ASSUME PlatformInit PROVE GraphsInv
  OBVIOUS
<1>1. EditInv /\ Runnable(graph)
  <2>1. CASE part = "chat"
    BY <2>1, EditInvInit, StartRuns DEF PlatformInit
  <2>2. CASE part # "chat"
    BY <2>2, EditInvRests, NoGraphRuns DEF PlatformInit, ChatRests
  <2> QED BY <2>1, <2>2
<1>2. PipeInv
  <2>1. CASE part = "spec"
    BY <2>1, PipeInvInit DEF PlatformInit
  <2>2. CASE part # "spec"
    BY <2>2, PipeInvRests DEF PlatformInit, SpecRests
  <2> QED BY <2>1, <2>2
<1> QED BY <1>1, <1>2 DEF GraphsInv

LEMMA GraphsInvStep == GraphsInv /\ [PlatformNext]_platformVars => GraphsInv'
BY EachItsOwn, EditInvStep, GraphRuns, PipeInvStep DEF GraphsInv

\* A graph that reaches the engine can be run: a pipeline that took it had it checked, and so
\* had a chat that drew an edge, by searches that find the cycles there are.
THEOREM GraphsRunHolds == PlatformSpec => []GraphsRun
<1>1. GraphsInv => GraphsRun
  BY BuiltRuns DEF GraphsInv, GraphsRun, EditedGraphRuns
<1> QED BY <1>1, GraphsInvInit, GraphsInvStep, PTL DEF PlatformSpec

\* Requests that overlap do not undo each other's edits, and what they answer is what is on disk.
THEOREM EditsAreKeptHolds == PlatformSpec => [](ChatTypeOK /\ EditsAreKept)
<1>1. GraphsInv => ChatTypeOK /\ EditsAreKept
  BY EditInvImplies DEF GraphsInv
<1> QED BY <1>1, GraphsInvInit, GraphsInvStep, PTL DEF PlatformSpec

\* The steps of the pipeline tell what happened, and a failure has a cause that was told.
THEOREM ProgressIsTruthfulHolds == PlatformSpec => [](SpecTypeOK /\ ProgressIsTruthful)
<1>1. GraphsInv => SpecTypeOK /\ ProgressIsTruthful
  BY PipeInvImplies DEF GraphsInv
<1> QED BY <1>1, GraphsInvInit, GraphsInvStep, PTL DEF PlatformSpec

=============================================================================
