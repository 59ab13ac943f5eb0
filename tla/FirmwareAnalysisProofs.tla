---------------------- MODULE FirmwareAnalysisProofs ----------------------
(***************************************************************************)
(* The bounded search is right on every graph and with every bound.  Its   *)
(* witnesses are paths (the validator accepts them), and what a run of the *)
(* firmware can reach within the bound it reports.  The second needs the   *)
(* order of the queue: what is visited is never further away than what is  *)
(* about to be looked at, plus one edge.  The walker carries the induction *)
(* along a path of the graph.                                              *)
(*                                                                         *)
(* The facts of the instructions are true wherever a run of the firmware   *)
(* is, for every program and every content of the registers.  What the     *)
(* frontend knows before an instruction holds in the run (KnownHere): each *)
(* arm of the three decoders gives true facts and keeps what is known true *)
(* (Sound), and where a run comes in from elsewhere nothing is known.      *)
(***************************************************************************)
EXTENDS FirmwareAnalysis, NaturalsInduction, WellFoundedInduction, TLAPS

Steps(c, a) == UNION {Passes(c, a)[p] : p \in DOMAIN Passes(c, a)}
Vertices(c, a) == Starts(c, a) \cup {e.target : e \in Steps(c, a)}
Records(c, a) == [path : Seq(Vertices(c, a)), edges : Seq(Steps(c, a))]
Marks(c, a)   == UNION {[X -> Nat] : X \in SUBSET Vertices(c, a)}

\* An item is a path of the pass from a start, within the bound.
Item(c, a, p, it) ==
  /\ it \in Records(c, a)
  /\ IsWalk(it, Passes(c, a)[p])
  /\ it.path[1] \in Starts(c, a)
  /\ Len(it.edges) <= Bound(a)

\* Nothing is left to be found from a node.
Done(c, a, p, d, v) ==
  /\ v \notin Goals(c, a)
  /\ d[v] < Bound(a) =>
       \A e \in Passes(c, a)[p] :
         e.source = v => e.target \in DOMAIN d /\ d[e.target] <= d[v] + 1

Closed(c, a, p, d) == \A v \in DOMAIN d : Done(c, a, p, d, v)

Seeded(c, a, d) == \A n \in Starts(c, a) : n \in DOMAIN d /\ d[n] = 0

Typed ==
  /\ pass \in 0 .. Len(Passes(cfg, ask))
  /\ ask.kind \in {"site", "function"}
  /\ ask.kind = "function" => ask.home # ask.goal
  /\ depth \in Seq(Marks(cfg, ask)) /\ Len(depth) = pass
  /\ queue \in Seq(Records(cfg, ask))
  /\ status = "asked" => pass = 0 /\ queue = <<>> /\ todo = {} /\ walker = Nothing
  /\ status \in {"searching"} \cup Reachable => pass > 0

Searched ==
  /\ pass > 0 => \E n : Starts(cfg, ask) = {n}
  /\ \A p \in 1 .. pass : Seeded(cfg, ask, depth[p])
  /\ \A p \in 1 .. pass :
       p < pass \/ status \in Decided \ Reachable => Closed(cfg, ask, p, depth[p])
  /\ pass > 0 /\ status \in Decided \ Reachable => pass = Len(Passes(cfg, ask))

\* What the queue q holds, in the order of the lengths.
Queued(c, a, p, q, d) ==
  \A k \in DOMAIN q :
    /\ Item(c, a, p, q[k])
    /\ Final(q[k]) \in DOMAIN d /\ d[Final(q[k])] = Len(q[k].edges)
    /\ \A j \in k .. Len(q) : Len(q[k].edges) <= Len(q[j].edges)
    /\ \A v \in DOMAIN d : d[v] <= Len(q[k].edges) + 1

\* The item i whose edges are being followed, of which t are left.
Expanding(c, a, p, q, d, i, t) ==
  t # {} =>
    /\ Item(c, a, p, i) /\ Len(i.edges) < Bound(a)
    /\ Final(i) \in DOMAIN d /\ d[Final(i)] = Len(i.edges)
    /\ Final(i) \notin Goals(c, a)
    /\ t \subseteq {e \in Passes(c, a)[p] : e.source = Final(i)}
    /\ \A e \in Passes(c, a)[p] \ t : e.source = Final(i) => e.target \in DOMAIN d
    /\ \A k \in DOMAIN q : Len(i.edges) <= Len(q[k].edges)
    /\ \A v \in DOMAIN d : d[v] <= Len(i.edges) + 1

Accounted(c, a, p, q, d, i, t) ==
  \A v \in DOMAIN d :
    \/ Done(c, a, p, d, v)
    \/ \E k \in DOMAIN q : Final(q[k]) = v
    \/ t # {} /\ v = Final(i)

\* A path of the second pass without a fakeret was open to the first, whose
\* lengths are d.
InFirst(d, it) == Final(it) \in DOMAIN d /\ d[Final(it)] <= Len(it.edges)

Fakeless(q, d, i, t) ==
  /\ \A k \in DOMAIN q : ~UsesFakeret(q[k]) => InFirst(d, q[k])
  /\ t # {} => (~UsesFakeret(i) => InFirst(d, i))

Frontier ==
  status = "searching" =>
    /\ Queued(cfg, ask, pass, queue, depth[pass])
    /\ Expanding(cfg, ask, pass, queue, depth[pass], item, todo)
    /\ Accounted(cfg, ask, pass, queue, depth[pass], item, todo)
    /\ pass = 2 => Fakeless(queue, depth[1], item, todo)

Witnessed ==
  status \in Reachable =>
    /\ Item(cfg, ask, pass, witness) /\ Final(witness) \in Goals(cfg, ask)
    /\ status = Found(witness)
    /\ status = "reachable_static_with_fakeret" => pass = 2

Walked ==
  walker # Nothing =>
    /\ pass > 0 /\ walker.hops \in Nat
    /\ status \notin Decided =>
         walker.node \in Starts(cfg, ask) /\ walker.hops = 0 /\ ~walker.fakeret
    /\ status \in Decided =>
         \A p \in 1 .. pass :
           /\ Closed(cfg, ask, p, depth[p]) /\ walker.hops <= Bound(ask)
           /\ p < Len(Passes(cfg, ask)) => ~walker.fakeret
           => walker.node \in DOMAIN depth[p] /\ depth[p][walker.node] <= walker.hops

SearchInv == Typed /\ Searched /\ Frontier /\ Witnessed /\ Walked

-----------------------------------------------------------------------------
LEMMA PassesFacts ==
  ASSUME NEW c, NEW a, a.kind \in {"site", "function"}
  PROVE  /\ a.kind = "site" =>
              /\ Len(Passes(c, a)) = 2 /\ DOMAIN Passes(c, a) = {1, 2}
              /\ Passes(c, a)[1] = {e \in Passes(c, a)[2] : e.kind = "branch"}
              /\ \A e \in Passes(c, a)[2] : e.kind \in {"branch", "fakeret"}
         /\ a.kind = "function" => Len(Passes(c, a)) = 1 /\ DOMAIN Passes(c, a) = {1}
         /\ Len(Passes(c, a)) \in {1, 2} /\ DOMAIN Passes(c, a) = 1 .. Len(Passes(c, a))
<1>1. CASE a.kind = "site"
  <2>1. Passes(c, a) = <<Local(c, a.home, {"branch"}), Local(c, a.home, {"branch", "fakeret"})>>
    BY <1>1 DEF Passes
  <2>2. /\ Passes(c, a)[1] = Local(c, a.home, {"branch"})
        /\ Passes(c, a)[2] = Local(c, a.home, {"branch", "fakeret"})
        /\ Len(Passes(c, a)) = 2 /\ DOMAIN Passes(c, a) = {1, 2}
    BY <2>1
  <2> QED BY <1>1, <2>2 DEF Local
<1>2. CASE a.kind = "function"
  <2>1. Passes(c, a) = <<c.calls>>
    BY <1>2 DEF Passes
  <2> QED BY <1>2, <2>1
<1> QED BY <1>1, <1>2

LEMMA PassesTwo ==
  ASSUME NEW c, NEW a, a.kind \in {"site", "function"}, Len(Passes(c, a)) = 2
  PROVE  /\ a.kind = "site"
         /\ \A e \in Passes(c, a)[1] : e \in Passes(c, a)[2]
         /\ \A e \in Passes(c, a)[2] : e.kind # "fakeret" => e \in Passes(c, a)[1]
BY PassesFacts

\* An item with one more edge.
Extended(it, e) == [path |-> Append(it.path, e.target), edges |-> Append(it.edges, e)]

\* One more edge of the pass, from the end of an item below the bound.
LEMMA ItemExtends ==
  ASSUME NEW c, NEW a, NEW p \in DOMAIN Passes(c, a), NEW it, Item(c, a, p, it),
         Len(it.edges) < Bound(a), NEW e \in Passes(c, a)[p], e.source = Final(it)
  PROVE  /\ Item(c, a, p, Extended(it, e))
         /\ Final(Extended(it, e)) = e.target
         /\ Len(Extended(it, e).edges) = Len(it.edges) + 1
         /\ ~UsesFakeret(Extended(it, e)) => ~UsesFakeret(it) /\ e.kind # "fakeret"
<1> DEFINE new == Extended(it, e)
<1>1. /\ it.path \in Seq(Vertices(c, a)) /\ it.edges \in Seq(Steps(c, a))
      /\ Len(it.path) = Len(it.edges) + 1 /\ it.path[1] \in Starts(c, a)
      /\ \A k \in DOMAIN it.edges :
           /\ it.edges[k] \in Passes(c, a)[p]
           /\ it.edges[k].source = it.path[k] /\ it.edges[k].target = it.path[k + 1]
  BY DEF Item, Records, IsWalk
<1>2. e \in Steps(c, a) /\ e.target \in Vertices(c, a)
  BY DEF Steps, Vertices
<1>3. /\ new.path \in Seq(Vertices(c, a)) /\ new.edges \in Seq(Steps(c, a))
      /\ new.path = Append(it.path, e.target) /\ new.edges = Append(it.edges, e)
      /\ new \in Records(c, a)
  BY <1>1, <1>2 DEF Records, Extended
<1> HIDE DEF new
<1>4. /\ Len(new.edges) = Len(it.edges) + 1 /\ Len(new.path) = Len(it.path) + 1
      /\ new.path[Len(it.path) + 1] = e.target /\ new.edges[Len(it.edges) + 1] = e
      /\ \A k \in 1 .. Len(it.path) : new.path[k] = it.path[k]
      /\ \A k \in 1 .. Len(it.edges) : new.edges[k] = it.edges[k]
      /\ Len(it.edges) \in Nat /\ DOMAIN it.edges = 1 .. Len(it.edges)
      /\ DOMAIN new.edges = 1 .. Len(it.edges) + 1
  BY <1>1, <1>2, <1>3
<1>5. Final(new) = e.target /\ Final(it) = it.path[Len(it.edges) + 1]
  BY <1>1, <1>4 DEF Final
<1>6. ASSUME NEW k \in DOMAIN new.edges
      PROVE  /\ new.edges[k] \in Passes(c, a)[p]
             /\ new.edges[k].source = new.path[k] /\ new.edges[k].target = new.path[k + 1]
  <2>1. CASE k = Len(it.edges) + 1
    BY <2>1, <1>1, <1>4, <1>5
  <2>2. CASE k \in 1 .. Len(it.edges)
    <3>1. k \in DOMAIN it.edges /\ k \in 1 .. Len(it.path) /\ k + 1 \in 1 .. Len(it.path)
      BY <2>2, <1>1, <1>4
    <3>2. /\ new.edges[k] = it.edges[k] /\ new.path[k] = it.path[k]
          /\ new.path[k + 1] = it.path[k + 1]
      BY <2>2, <3>1, <1>4
    <3> QED BY <3>1, <3>2, <1>1
  <2>3. k = Len(it.edges) + 1 \/ k \in 1 .. Len(it.edges)
    BY <1>4
  <2> QED BY <2>1, <2>2, <2>3
<1>7. IsWalk(new, Passes(c, a)[p])
  BY <1>1, <1>4, <1>6 DEF IsWalk
<1>8. Bound(a) \in Nat
  BY BoundAssumption DEF Bound
<1>9. Item(c, a, p, new)
  BY <1>1, <1>3, <1>4, <1>7, <1>8 DEF Item
<1>10. ~UsesFakeret(new) => ~UsesFakeret(it) /\ e.kind # "fakeret"
  <2>1. Len(it.edges) + 1 \in DOMAIN new.edges
    BY <1>4
  <2>2. e.kind = "fakeret" => UsesFakeret(new)
    BY <1>4, <2>1 DEF UsesFakeret
  <2>3. ASSUME NEW k \in DOMAIN it.edges, it.edges[k].kind = "fakeret"
        PROVE  UsesFakeret(new)
    <3>1. k \in DOMAIN new.edges /\ new.edges[k] = it.edges[k]
      BY <1>4
    <3> QED BY <2>3, <3>1 DEF UsesFakeret
  <2> QED BY <2>2, <2>3 DEF UsesFakeret
<1> QED BY <1>4, <1>5, <1>9, <1>10 DEF new

\* The item that a pass begins with.
LEMMA SourceItem ==
  ASSUME NEW c, NEW a, NEW p, NEW n \in Starts(c, a)
  PROVE  LET it == [path |-> <<n>>, edges |-> <<>>]
         IN  /\ Item(c, a, p, it) /\ it \in Records(c, a)
             /\ Final(it) = n /\ Len(it.edges) = 0
<1> DEFINE it == [path |-> <<n>>, edges |-> <<>>]
<1>1. it.path = <<n>> /\ it.edges = <<>>
  OBVIOUS
<1>2. n \in Vertices(c, a)
  BY DEF Vertices
<1>3. it.path \in Seq(Vertices(c, a)) /\ it.edges \in Seq(Steps(c, a))
  BY <1>1, <1>2
<1>4. Len(it.path) = 1 /\ Len(it.edges) = 0 /\ it.path[1] = n /\ DOMAIN it.edges = {}
  BY <1>1
<1>5. it \in Records(c, a)
  BY <1>3 DEF Records
<1>6. Bound(a) \in Nat
  BY BoundAssumption DEF Bound
<1> HIDE DEF it
<1> QED BY <1>3, <1>4, <1>5, <1>6 DEF Item, IsWalk, Final, it

LEMMA InitSound == Init => SearchInv
<1> SUFFICES ASSUME Init PROVE SearchInv
  OBVIOUS
<1>1. /\ pass = 0 /\ queue = <<>> /\ depth = <<>> /\ todo = {} /\ status = "asked"
      /\ walker = Nothing /\ ask \in Asks(cfg)
  BY DEF Init, Idle
<1>2. /\ ask.kind \in {"site", "function"}
      /\ ask.kind = "function" => ask.home # ask.goal
  BY <1>1 DEF Asks
<1>3. Len(Passes(cfg, ask)) \in {1, 2}
  BY <1>2, PassesFacts
<1>4. Typed
  BY <1>1, <1>2, <1>3 DEF Typed, Reachable
<1>5. Searched /\ Frontier /\ Witnessed /\ Walked
  BY <1>1 DEF Searched, Frontier, Witnessed, Walked, Reachable
<1> QED BY <1>4, <1>5 DEF SearchInv

\* Statuses that are not searched for.
Refusals == {"owner_mapping_missing", "source_mapping_missing", "target_mapping_missing"}

LEMMA MissingRange ==
  ASSUME NEW c, NEW a, Missing(c, a) # "none"
  PROVE  Missing(c, a) \in Refusals
BY DEF Missing, Refusals

LEMMA AnswerSound == ASSUME SearchInv, Answer PROVE SearchInv'
<1>1. /\ status = "asked" /\ status' \in Refusals
      /\ UNCHANGED <<cfg, ask, pass, queue, depth, item, todo, witness, walker>>
  BY MissingRange DEF Answer
<1>2. pass = 0 /\ walker = Nothing /\ todo = {} /\ queue = <<>>
  BY <1>1 DEF SearchInv, Typed
<1>3. Typed'
  BY <1>1 DEF SearchInv, Typed, Refusals, Reachable
<1> QED
  BY <1>1, <1>2, <1>3
     DEF SearchInv, Searched, Frontier, Witnessed, Walked, Reachable, Refusals

LEMMA NoStartSound == ASSUME SearchInv, NoStart PROVE SearchInv'
<1>1. /\ status = "asked" /\ status' \in {"not_found_in_cfg", "not_found_within_bound"}
      /\ UNCHANGED <<cfg, ask, pass, queue, depth, item, todo, witness, walker>>
  BY DEF NoStart, NotFound
<1>2. pass = 0 /\ walker = Nothing /\ todo = {} /\ queue = <<>>
  BY <1>1 DEF SearchInv, Typed
<1>3. Typed'
  BY <1>1 DEF SearchInv, Typed, Reachable
<1> QED
  BY <1>1, <1>2, <1>3
     DEF SearchInv, Searched, Frontier, Witnessed, Walked, Reachable

\* A pass begins: the queue holds the start, the only node visited.
LEMMA PassBegins ==
  ASSUME NEW c, NEW a, NEW p, NEW n, Starts(c, a) = {n}, NEW q, q = Source(n),
         NEW d, d = [m \in {n} |-> 0], NEW i
  PROVE  /\ Seeded(c, a, d) /\ d \in Marks(c, a) /\ q \in Seq(Records(c, a))
         /\ Queued(c, a, p, q, d) /\ Expanding(c, a, p, q, d, i, {})
         /\ Accounted(c, a, p, q, d, i, {})
         /\ \A first : Seeded(c, a, first) => Fakeless(q, first, i, {})
<1> DEFINE it == [path |-> <<n>>, edges |-> <<>>]
<1>1. /\ Item(c, a, p, it) /\ it \in Records(c, a)
      /\ Final(it) = n /\ Len(it.edges) = 0
  BY SourceItem
<1> HIDE DEF it
<1>2. q = <<it>>
  BY DEF Source, it
<1>3. /\ q \in Seq(Records(c, a)) /\ DOMAIN q = {1} /\ q[1] = it /\ Len(q) = 1
  BY <1>1, <1>2
<1>4. DOMAIN d = {n} /\ d[n] = 0
  OBVIOUS
<1>5. d \in [{n} -> Nat] /\ {n} \subseteq Vertices(c, a)
  BY DEF Vertices
<1>6. d \in Marks(c, a)
  BY <1>5 DEF Marks
<1>7. Queued(c, a, p, q, d)
  BY <1>1, <1>3, <1>4 DEF Queued
<1>8. \A first : Seeded(c, a, first) => Fakeless(q, first, i, {})
  BY <1>1, <1>3 DEF Seeded, Fakeless, InFirst
<1> QED BY <1>1, <1>3, <1>4, <1>6, <1>7, <1>8 DEF Seeded, Expanding, Accounted

LEMMA BeginSound == ASSUME SearchInv, Begin PROVE SearchInv'
<1>1. PICK n : /\ Starts(cfg, ask) = {n}
               /\ queue' = Source(n) /\ depth' = <<[m \in {n} |-> 0]>>
               /\ walker' = [node |-> n, hops |-> 0, fakeret |-> FALSE]
  BY DEF Begin
<1>2. /\ status = "asked" /\ pass' = 1 /\ status' = "searching"
      /\ UNCHANGED <<cfg, ask, item, todo, witness>>
  BY DEF Begin
<1>3. /\ todo = {} /\ ask.kind \in {"site", "function"}
      /\ ask.kind = "function" => ask.home # ask.goal
  BY <1>2 DEF SearchInv, Typed
<1> DEFINE d == [m \in {n} |-> 0]
<1>4. Len(depth') = 1 /\ depth'[1] = d
  BY <1>1
<1> HIDE DEF d
<1>5. /\ Seeded(cfg, ask, d) /\ d \in Marks(cfg, ask) /\ queue' \in Seq(Records(cfg, ask))
      /\ Queued(cfg, ask, 1, queue', d) /\ Expanding(cfg, ask, 1, queue', d, item, {})
      /\ Accounted(cfg, ask, 1, queue', d, item, {})
  BY <1>1, PassBegins DEF d
<1>6. depth' \in Seq(Marks(cfg, ask))
  BY <1>1, <1>5 DEF d
<1>7. Len(Passes(cfg, ask)) \in {1, 2}
  BY <1>3, PassesFacts
<1>8. Typed'
  <2>1. pass' \in 0 .. Len(Passes(cfg, ask))'
    BY <1>2, <1>7
  <2>2. /\ depth' \in Seq(Marks(cfg, ask)') /\ Len(depth') = pass'
        /\ queue' \in Seq(Records(cfg, ask)')
    BY <1>2, <1>4, <1>5, <1>6
  <2> QED BY <1>2, <1>3, <2>1, <2>2 DEF Typed
<1>9. Searched'
  <2>1. status' \notin Decided
    BY <1>2 DEF Decided, Reachable
  <2>2. \A p \in 1 .. pass' : p = 1 /\ ~(p < pass')
    BY <1>2
  <2>3. \E m : Starts(cfg, ask)' = {m}
    BY <1>1, <1>2
  <2>4. Seeded(cfg, ask, depth[1])'
    BY <1>2, <1>4, <1>5
  <2> QED BY <2>1, <2>2, <2>3, <2>4 DEF Searched
<1>10. Frontier'
  BY <1>2, <1>3, <1>4, <1>5 DEF Frontier
<1>11. Witnessed' /\ Walked'
  BY <1>1, <1>2 DEF Witnessed, Walked, Reachable, Decided
<1> QED BY <1>8, <1>9, <1>10, <1>11 DEF SearchInv

\* There are at most two passes.
LEMMA AtMostTwo ==
  ASSUME NEW n \in Nat, n > 0, NEW m \in {1, 2}, n <= m
  PROVE  n \in {1, 2} /\ (n < m => n = 1 /\ m = 2)
OBVIOUS

LEMMA NextPassSound == ASSUME SearchInv, NextPass PROVE SearchInv'
<1>1. /\ status = "searching" /\ todo = {} /\ queue = <<>>
      /\ pass < Len(Passes(cfg, ask)) /\ pass' = pass + 1
      /\ UNCHANGED <<cfg, ask, item, todo, status, witness, walker>>
  BY DEF NextPass, Exhausted
<1>2. PICK n \in Starts(cfg, ask) :
        queue' = Source(n) /\ depth' = Append(depth, [m \in {n} |-> 0])
  BY DEF NextPass
<1>3. /\ ask.kind \in {"site", "function"} /\ pass \in Nat /\ pass > 0
      /\ ask.kind = "function" => ask.home # ask.goal
      /\ depth \in Seq(Marks(cfg, ask)) /\ Len(depth) = pass
  BY <1>1, PassesFacts DEF SearchInv, Typed, Reachable
<1>4. pass = 1 /\ pass' = 2 /\ Len(Passes(cfg, ask)) = 2
  <2>1. Len(Passes(cfg, ask)) \in {1, 2}
    BY <1>3, PassesFacts
  <2>2. /\ pass \in Nat /\ pass > 0 /\ pass < Len(Passes(cfg, ask)) /\ pass' = pass + 1
        /\ pass <= Len(Passes(cfg, ask))
    BY <1>1, <1>3, <2>1
  <2>3. pass = 1 /\ Len(Passes(cfg, ask)) = 2
    BY <2>1, <2>2, AtMostTwo
  <2> QED BY <2>2, <2>3
<1>5. Starts(cfg, ask) = {n}
  BY <1>2, <1>3 DEF SearchInv, Searched
<1> DEFINE d == [m \in {n} |-> 0]
<1> HIDE DEF d
<1>6. /\ Seeded(cfg, ask, d) /\ d \in Marks(cfg, ask) /\ queue' \in Seq(Records(cfg, ask))
      /\ Queued(cfg, ask, 2, queue', d) /\ Expanding(cfg, ask, 2, queue', d, item, {})
      /\ Accounted(cfg, ask, 2, queue', d, item, {})
      /\ \A first : Seeded(cfg, ask, first) => Fakeless(queue', first, item, {})
  BY <1>2, <1>5, PassBegins DEF d
<1>7. /\ depth' \in Seq(Marks(cfg, ask)) /\ Len(depth') = 2
      /\ depth'[1] = depth[1] /\ depth'[2] = d
  <2>1. depth' = Append(depth, d)
    BY <1>2 DEF d
  <2>2. depth \in Seq(Marks(cfg, ask)) /\ Len(depth) = 1 /\ d \in Marks(cfg, ask)
    BY <1>3, <1>4, <1>6
  <2> QED BY <2>1, <2>2
<1>8. Seeded(cfg, ask, depth[1]) /\ Closed(cfg, ask, 1, depth[1])
  <2>1. Seeded(cfg, ask, depth[1])
    BY <1>4 DEF SearchInv, Searched
  <2>2. Accounted(cfg, ask, 1, <<>>, depth[1], item, {})
    BY <1>1, <1>4 DEF SearchInv, Frontier
  <2> QED BY <2>1, <2>2 DEF Accounted, Closed
<1>9. Typed'
  BY <1>1, <1>3, <1>4, <1>6, <1>7 DEF Typed, Reachable
<1>10. Searched'
  <2>1. status' \notin Decided
    BY <1>1 DEF Decided, Reachable
  <2>2. \A p \in 1 .. pass' : p = 1 \/ (p = 2 /\ ~(p < pass'))
    BY <1>4
  <2>3. \E m : Starts(cfg, ask)' = {m}
    BY <1>1, <1>5
  <2>4. /\ Seeded(cfg, ask, depth[1])' /\ Seeded(cfg, ask, depth[2])'
        /\ Closed(cfg, ask, 1, depth[1])'
    BY <1>1, <1>6, <1>7, <1>8
  <2> QED BY <2>1, <2>2, <2>3, <2>4 DEF Searched
<1>11. Frontier'
  BY <1>1, <1>4, <1>6, <1>7, <1>8 DEF Frontier
<1>12. Witnessed' /\ Walked'
  BY <1>1, <1>4 DEF SearchInv, Witnessed, Walked, Reachable, Decided
<1> QED BY <1>9, <1>10, <1>11, <1>12 DEF SearchInv

\* A walker that is still at the start is where every pass began.
LEMMA WalkerAtStart ==
  ASSUME SearchInv, walker # Nothing, status \notin Decided, NEW p \in 1 .. pass
  PROVE  /\ walker.node \in DOMAIN depth[p] /\ walker.hops \in Nat
         /\ depth[p][walker.node] <= walker.hops
BY DEF SearchInv, Walked, Searched, Seeded

LEMMA GiveUpSound == ASSUME SearchInv, GiveUp PROVE SearchInv'
<1>1. /\ status = "searching" /\ todo = {} /\ queue = <<>> /\ pass = Len(Passes(cfg, ask))
      /\ status' \in {"not_found_in_cfg", "not_found_within_bound"}
      /\ UNCHANGED <<cfg, ask, pass, queue, depth, item, todo, witness, walker>>
  BY DEF GiveUp, Exhausted, NotFound
<1>2. ask.kind \in {"site", "function"} /\ pass \in Nat /\ pass > 0
  BY <1>1, PassesFacts DEF SearchInv, Typed, Reachable
<1>3. Closed(cfg, ask, pass, depth[pass])
  <2>1. Accounted(cfg, ask, pass, <<>>, depth[pass], item, {})
    BY <1>1 DEF SearchInv, Frontier
  <2> QED BY <2>1 DEF Accounted, Closed
<1>4. Typed'
  BY <1>1 DEF SearchInv, Typed, Reachable
<1>5. Searched'
  <2>1. status \notin Decided \ Reachable
    BY <1>1 DEF Decided, Reachable
  <2>2. /\ \E n : Starts(cfg, ask) = {n}
        /\ \A p \in 1 .. pass : Seeded(cfg, ask, depth[p])
        /\ \A p \in 1 .. pass : p < pass => Closed(cfg, ask, p, depth[p])
    BY <1>2, <2>1 DEF SearchInv, Searched
  <2>3. \A p \in 1 .. pass : p < pass \/ p = pass
    BY <1>2
  <2>4. \A p \in 1 .. pass : Closed(cfg, ask, p, depth[p])
    BY <1>3, <2>2, <2>3
  <2> QED BY <1>1, <2>2, <2>4 DEF Searched
<1>6. Walked'
  BY <1>1, WalkerAtStart DEF SearchInv, Walked, Decided, Reachable
<1> QED
  BY <1>1, <1>4, <1>5, <1>6 DEF SearchInv, Frontier, Witnessed, Reachable

LEMMA ArriveSound == ASSUME SearchInv, Arrive PROVE SearchInv'
<1>1. /\ status = "searching" /\ queue # <<>> /\ Final(Head(queue)) \in Goals(cfg, ask)
      /\ witness' = Head(queue) /\ status' = Found(Head(queue))
      /\ UNCHANGED <<cfg, ask, pass, queue, depth, item, todo, walker>>
  BY DEF Arrive, Popping
<1>2. /\ ask.kind \in {"site", "function"} /\ pass \in Nat /\ pass > 0
      /\ pass \in 1 .. Len(Passes(cfg, ask)) /\ queue \in Seq(Records(cfg, ask))
  BY <1>1, PassesFacts DEF SearchInv, Typed, Reachable
<1>3. Head(queue) = queue[1] /\ 1 \in DOMAIN queue
  BY <1>1, <1>2
<1>4. Item(cfg, ask, pass, witness')
  BY <1>1, <1>3 DEF SearchInv, Frontier, Queued
<1>5. status' \in Reachable /\ status' = Found(witness')
  BY <1>1, <1>2 DEF Found, Reachable
<1>6. status' = "reachable_static_with_fakeret" => pass = 2
  <2>0. pass \in {1, 2}
    <3>1. Len(Passes(cfg, ask)) \in {1, 2}
      BY <1>2, PassesFacts
    <3>2. pass \in Nat /\ pass > 0 /\ pass <= Len(Passes(cfg, ask))
      BY <1>2, <3>1
    <3> QED BY <3>1, <3>2, AtMostTwo
  <2> SUFFICES ASSUME status' = "reachable_static_with_fakeret", pass = 1 PROVE FALSE
    BY <2>0
  <2>1. ask.kind = "site" /\ UsesFakeret(witness')
    BY <1>2, <1>5 DEF Found
  <2>2. PICK k \in DOMAIN witness'.edges : witness'.edges[k].kind = "fakeret"
    BY <2>1 DEF UsesFakeret
  <2>3. witness'.edges[k] \in Passes(cfg, ask)[1]
    BY <1>4, <2>2 DEF Item, IsWalk
  <2> QED BY <2>1, <2>2, <2>3, PassesFacts
<1>7. Typed'
  BY <1>1, <1>2, <1>5 DEF SearchInv, Typed, Reachable
<1>8. Searched' /\ Frontier'
  BY <1>1, <1>5 DEF SearchInv, Searched, Frontier, Reachable, Decided
<1>9. Witnessed'
  <2>1. Item(cfg, ask, pass, witness)'
    BY <1>1, <1>4
  <2>2. Final(witness') \in Goals(cfg, ask)'
    BY <1>1
  <2>3. status' = Found(witness)'
    BY <1>1, <1>5 DEF Found
  <2> QED BY <1>1, <1>6, <2>1, <2>2, <2>3 DEF Witnessed
<1>10. Walked'
  BY <1>1, <1>2, <1>5, WalkerAtStart DEF SearchInv, Walked, Decided, Reachable
<1> QED BY <1>7, <1>8, <1>9, <1>10 DEF SearchInv

\* The head h of the queue leaves it: either nothing is left to be found from its
\* end, or its edges t are followed next.
LEMMA HeadLeaves ==
  ASSUME NEW c, NEW a, NEW p, NEW q \in Seq(Records(c, a)), q # <<>>, NEW d, NEW i,
         Queued(c, a, p, q, d), Accounted(c, a, p, q, d, i, {}),
         NEW j, NEW t,
         Done(c, a, p, d, Final(Head(q))) \/ (t # {} /\ j = Head(q))
  PROVE  /\ Tail(q) \in Seq(Records(c, a))
         /\ Queued(c, a, p, Tail(q), d) /\ Accounted(c, a, p, Tail(q), d, j, t)
<1>1. /\ Tail(q) \in Seq(Records(c, a)) /\ Head(q) = q[1]
      /\ Len(q) \in Nat /\ Len(Tail(q)) = Len(q) - 1 /\ DOMAIN q = 1 .. Len(q)
      /\ DOMAIN Tail(q) = 1 .. Len(q) - 1
      /\ \A k \in 1 .. Len(q) - 1 : Tail(q)[k] = q[k + 1]
  OBVIOUS
<1>2. Queued(c, a, p, Tail(q), d)
  <2> SUFFICES ASSUME NEW k \in DOMAIN Tail(q)
               PROVE  /\ Item(c, a, p, Tail(q)[k])
                      /\ Final(Tail(q)[k]) \in DOMAIN d
                      /\ d[Final(Tail(q)[k])] = Len(Tail(q)[k].edges)
                      /\ \A m \in k .. Len(Tail(q)) : Len(Tail(q)[k].edges) <= Len(Tail(q)[m].edges)
                      /\ \A v \in DOMAIN d : d[v] <= Len(Tail(q)[k].edges) + 1
    BY DEF Queued
  <2>1. k + 1 \in DOMAIN q /\ Tail(q)[k] = q[k + 1]
    BY <1>1
  <2>2. \A m \in k .. Len(Tail(q)) : m + 1 \in (k + 1) .. Len(q) /\ Tail(q)[m] = q[m + 1]
    BY <1>1
  <2> QED BY <2>1, <2>2 DEF Queued
<1>3. Accounted(c, a, p, Tail(q), d, j, t)
  <2> SUFFICES ASSUME NEW v \in DOMAIN d, ~Done(c, a, p, d, v), ~(t # {} /\ v = Final(j))
               PROVE  \E k \in DOMAIN Tail(q) : Final(Tail(q)[k]) = v
    BY DEF Accounted
  <2>1. PICK k \in DOMAIN q : Final(q[k]) = v
    BY DEF Accounted
  <2>2. k # 1
    BY <1>1, <2>1
  <2>3. k - 1 \in DOMAIN Tail(q) /\ Tail(q)[k - 1] = q[k]
    BY <1>1, <2>2
  <2> QED BY <2>1, <2>3
<1> QED BY <1>1, <1>2, <1>3

LEMMA FakelessTail ==
  ASSUME NEW R, NEW q \in Seq(R), q # <<>>, NEW d, NEW i, Fakeless(q, d, i, {})
  PROVE  /\ Fakeless(Tail(q), d, i, {})
         /\ \A t : Fakeless(Tail(q), d, Head(q), t)
<1>1. /\ Head(q) = q[1] /\ 1 \in DOMAIN q
      /\ \A k \in DOMAIN Tail(q) : k + 1 \in DOMAIN q /\ Tail(q)[k] = q[k + 1]
  OBVIOUS
<1> QED BY <1>1 DEF Fakeless

LEMMA ExpandSound == ASSUME SearchInv, Expand PROVE SearchInv'
<1> DEFINE h == Head(queue)
           d == depth[pass]
<1>1. /\ status = "searching" /\ queue # <<>> /\ todo = {} /\ Final(h) \notin Goals(cfg, ask)
      /\ queue' = Tail(queue)
      /\ UNCHANGED <<cfg, ask, pass, depth, status, witness, walker>>
  BY DEF Expand, Popping
<1>2. queue \in Seq(Records(cfg, ask)) /\ h = queue[1] /\ 1 \in DOMAIN queue
  BY <1>1 DEF SearchInv, Typed
<1>3. /\ Queued(cfg, ask, pass, queue, d) /\ Accounted(cfg, ask, pass, queue, d, item, {})
      /\ pass = 2 => Fakeless(queue, depth[1], item, {})
  BY <1>1 DEF SearchInv, Frontier
<1>4. /\ Item(cfg, ask, pass, h) /\ Final(h) \in DOMAIN d /\ d[Final(h)] = Len(h.edges)
      /\ \A k \in 1 .. Len(queue) : Len(h.edges) <= Len(queue[k].edges)
      /\ \A v \in DOMAIN d : d[v] <= Len(h.edges) + 1
  BY <1>2, <1>3 DEF Queued
<1>5. Len(h.edges) \in Nat /\ Bound(ask) \in Nat
  BY <1>4, BoundAssumption DEF Item, Records, Bound
<1> HIDE DEF h, d
<1>6. /\ queue' \in Seq(Records(cfg, ask))
      /\ Queued(cfg, ask, pass, queue', d) /\ Accounted(cfg, ask, pass, queue', d, item', todo')
      /\ Expanding(cfg, ask, pass, queue', d, item', todo')
      /\ pass = 2 => Fakeless(queue', depth[1], item', todo')
  <2>1. CASE Len(h.edges) >= Bound(ask)
    <3>1. item' = item /\ todo' = {}
      BY <1>1, <2>1 DEF Expand, h
    <3>2. Done(cfg, ask, pass, d, Final(h))
      BY <1>1, <1>4, <1>5, <2>1 DEF Done
    <3> QED BY <1>1, <1>2, <1>3, <3>1, <3>2, HeadLeaves, FakelessTail DEF Expanding, h
  <2>2. CASE ~(Len(h.edges) >= Bound(ask))
    <3>1. item' = h /\ todo' = {e \in Passes(cfg, ask)[pass] : e.source = Final(h)}
      BY <2>2 DEF Expand, Graph, h
    <3>2. todo' = {} => Done(cfg, ask, pass, d, Final(h))
      BY <1>1, <3>1 DEF Done
    <3>3. /\ queue' \in Seq(Records(cfg, ask)) /\ Queued(cfg, ask, pass, queue', d)
          /\ Accounted(cfg, ask, pass, queue', d, item', todo')
      BY <1>1, <1>2, <1>3, <3>1, <3>2, HeadLeaves DEF h
    <3>4. \A k \in DOMAIN queue' : Len(h.edges) <= Len(queue'[k].edges)
      <4>1. \A k \in DOMAIN queue' : k + 1 \in 1 .. Len(queue) /\ queue'[k] = queue[k + 1]
        BY <1>1, <1>2
      <4> QED BY <1>4, <4>1
    <3>5. Expanding(cfg, ask, pass, queue', d, item', todo')
      BY <1>1, <1>4, <1>5, <2>2, <3>1, <3>4 DEF Expanding
    <3>6. pass = 2 => Fakeless(queue', depth[1], item', todo')
      BY <1>1, <1>2, <1>3, <3>1, FakelessTail DEF h
    <3> QED BY <3>3, <3>5, <3>6
  <2> QED BY <2>1, <2>2
<1>7. Typed'
  BY <1>1, <1>6 DEF SearchInv, Typed, Reachable
<1>8. Frontier'
  BY <1>1, <1>6 DEF Frontier, d
<1>9. Searched' /\ Witnessed' /\ Walked'
  BY <1>1 DEF SearchInv, Searched, Witnessed, Walked, Reachable
<1> QED BY <1>7, <1>8, <1>9 DEF SearchInv

\* A node is visited: what was settled before stays so.
LEMMA DoneStays ==
  ASSUME NEW c, NEW a, NEW p, NEW d, NEW n, n \notin DOMAIN d, NEW x,
         NEW v \in DOMAIN d, Done(c, a, p, d, v)
  PROVE  Done(c, a, p, With(d, n, x), v)
<1>1. DOMAIN With(d, n, x) = DOMAIN d \cup {n}
  BY DEF With
<1>2. \A m \in DOMAIN d : With(d, n, x)[m] = d[m]
  BY DEF With
<1> QED BY <1>1, <1>2 DEF Done

\* The edges of the item i were all followed.
LEMMA ItemDone ==
  ASSUME NEW c, NEW a, NEW p, NEW q, NEW d, NEW i, NEW t, NEW e \in t,
         Expanding(c, a, p, q, d, i, t), t \ {e} = {}, e.target \in DOMAIN d
  PROVE  Done(c, a, p, d, Final(i))
BY DEF Expanding, Done

LEMMA VisitedAgain ==
  ASSUME NEW c, NEW a, NEW p, NEW q, NEW d, NEW i, NEW t, NEW e \in t,
         Expanding(c, a, p, q, d, i, t), Accounted(c, a, p, q, d, i, t),
         e.target \in DOMAIN d
  PROVE  /\ Expanding(c, a, p, q, d, i, t \ {e})
         /\ Accounted(c, a, p, q, d, i, t \ {e})
<1>1. Expanding(c, a, p, q, d, i, t \ {e})
  BY DEF Expanding
<1>2. Accounted(c, a, p, q, d, i, t \ {e})
  BY ItemDone DEF Accounted
<1> QED BY <1>1, <1>2

LEMMA ItemVisited ==
  ASSUME NEW c, NEW a, NEW p \in DOMAIN Passes(c, a), NEW q, NEW d, NEW i, NEW t, NEW e \in t,
         Expanding(c, a, p, q, d, i, t)
  PROVE  /\ Item(c, a, p, Extended(i, e)) /\ Extended(i, e) \in Records(c, a)
         /\ Final(Extended(i, e)) = e.target
         /\ Len(Extended(i, e).edges) = Len(i.edges) + 1
         /\ ~UsesFakeret(Extended(i, e)) => ~UsesFakeret(i) /\ e.kind # "fakeret"
<1>1. /\ Item(c, a, p, i) /\ Len(i.edges) < Bound(a) /\ e \in Passes(c, a)[p]
      /\ e.source = Final(i)
  BY DEF Expanding
<1>2. /\ Item(c, a, p, Extended(i, e)) /\ Final(Extended(i, e)) = e.target
      /\ Len(Extended(i, e).edges) = Len(i.edges) + 1
      /\ ~UsesFakeret(Extended(i, e)) => ~UsesFakeret(i) /\ e.kind # "fakeret"
  BY <1>1, ItemExtends
<1> QED BY <1>2 DEF Item

\* The edge e of the item i leads to a node not visited before.
LEMMA VisitedFirst ==
  ASSUME NEW c, NEW a, NEW p \in DOMAIN Passes(c, a), NEW q \in Seq(Records(c, a)),
         NEW d \in Marks(c, a), NEW i, NEW t, NEW e \in t,
         Queued(c, a, p, q, d), Expanding(c, a, p, q, d, i, t), Accounted(c, a, p, q, d, i, t),
         e.target \notin DOMAIN d
  PROVE  LET nq == Append(q, Extended(i, e))
             nd == With(d, e.target, Len(i.edges) + 1)
         IN  /\ nq \in Seq(Records(c, a)) /\ nd \in Marks(c, a)
             /\ Queued(c, a, p, nq, nd) /\ Expanding(c, a, p, nq, nd, i, t \ {e})
             /\ Accounted(c, a, p, nq, nd, i, t \ {e})
<1> SUFFICES ASSUME NEW new, new = Extended(i, e), NEW nq, nq = Append(q, new),
                    NEW nd, nd = With(d, e.target, Len(i.edges) + 1)
             PROVE  /\ nq \in Seq(Records(c, a)) /\ nd \in Marks(c, a)
                    /\ Queued(c, a, p, nq, nd) /\ Expanding(c, a, p, nq, nd, i, t \ {e})
                    /\ Accounted(c, a, p, nq, nd, i, t \ {e})
  OBVIOUS
<1>1. /\ Item(c, a, p, i) /\ Len(i.edges) < Bound(a) /\ e \in Passes(c, a)[p]
      /\ e.source = Final(i) /\ Final(i) \in DOMAIN d /\ d[Final(i)] = Len(i.edges)
      /\ Final(i) \notin Goals(c, a)
      /\ t \subseteq {f \in Passes(c, a)[p] : f.source = Final(i)}
      /\ \A f \in Passes(c, a)[p] \ t : f.source = Final(i) => f.target \in DOMAIN d
      /\ \A k \in DOMAIN q : Len(i.edges) <= Len(q[k].edges)
      /\ \A v \in DOMAIN d : d[v] <= Len(i.edges) + 1
  BY DEF Expanding
<1>2. /\ Item(c, a, p, new) /\ Final(new) = e.target /\ Len(new.edges) = Len(i.edges) + 1
      /\ new \in Records(c, a)
  BY ItemVisited
<1>3. /\ nq \in Seq(Records(c, a)) /\ Len(q) \in Nat /\ DOMAIN q = 1 .. Len(q)
      /\ Len(nq) = Len(q) + 1 /\ DOMAIN nq = 1 .. Len(q) + 1
      /\ nq[Len(q) + 1] = new /\ \A k \in 1 .. Len(q) : nq[k] = q[k]
  BY <1>2
<1>4. Len(i.edges) \in Nat
  BY <1>1 DEF Item, Records
<1>5. PICK X \in SUBSET Vertices(c, a) : d \in [X -> Nat]
  BY DEF Marks
<1>6. /\ DOMAIN nd = DOMAIN d \cup {e.target} /\ nd[e.target] = Len(i.edges) + 1
      /\ \A v \in DOMAIN d : nd[v] = d[v]
  BY DEF With
<1>7. e.target \in Vertices(c, a)
  BY <1>1 DEF Vertices, Steps
<1>8. nd \in Marks(c, a)
  <2>1. X \cup {e.target} \in SUBSET Vertices(c, a)
    BY <1>7
  <2>2. nd \in [X \cup {e.target} -> Nat]
    BY <1>4, <1>5 DEF With
  <2> QED BY <2>1, <2>2 DEF Marks
<1>9. \A v \in DOMAIN nd : nd[v] \in Nat /\ nd[v] <= Len(i.edges) + 1
  <2> TAKE v \in DOMAIN nd
  <2>1. CASE v = e.target
    BY <2>1, <1>4, <1>6
  <2>2. CASE v \in DOMAIN d
    BY <2>2, <1>1, <1>5, <1>6
  <2> QED BY <2>1, <2>2, <1>6
<1>10. \A v \in DOMAIN d : d[v] \in Nat
  BY <1>5
<1>11. Queued(c, a, p, nq, nd)
  <2> SUFFICES ASSUME NEW k \in DOMAIN nq
               PROVE  /\ Item(c, a, p, nq[k])
                      /\ Final(nq[k]) \in DOMAIN nd /\ nd[Final(nq[k])] = Len(nq[k].edges)
                      /\ \A m \in k .. Len(nq) : Len(nq[k].edges) <= Len(nq[m].edges)
                      /\ \A v \in DOMAIN nd : nd[v] <= Len(nq[k].edges) + 1
    BY DEF Queued
  <2>1. CASE k = Len(q) + 1
    <3>1. nq[k] = new /\ \A m \in k .. Len(nq) : nq[m] = new
      BY <2>1, <1>3
    <3>2. \A v \in DOMAIN nd : nd[v] <= Len(new.edges) + 1
      BY <1>2, <1>4, <1>9
    <3>3. Len(new.edges) \in Nat
      BY <1>2, <1>4
    <3>4. \A m \in k .. Len(nq) : Len(nq[k].edges) <= Len(nq[m].edges)
      BY <3>1, <3>3
    <3> QED BY <3>1, <3>2, <3>4, <1>2, <1>6
  <2>2. CASE k \in 1 .. Len(q)
    <3>1. /\ nq[k] = q[k] /\ Item(c, a, p, q[k])
          /\ Final(q[k]) \in DOMAIN d /\ d[Final(q[k])] = Len(q[k].edges)
          /\ \A m \in k .. Len(q) : Len(q[k].edges) <= Len(q[m].edges)
          /\ Len(i.edges) <= Len(q[k].edges)
      BY <2>2, <1>1, <1>3 DEF Queued
    <3>2. Len(q[k].edges) <= Len(i.edges) + 1 /\ Len(q[k].edges) \in Nat
      BY <3>1, <1>1, <1>10
    <3>3. \A m \in k .. Len(nq) : Len(nq[k].edges) <= Len(nq[m].edges)
      <4> TAKE m \in k .. Len(nq)
      <4>1. CASE m = Len(q) + 1
        BY <4>1, <3>1, <3>2, <1>2, <1>3
      <4>2. CASE m \in k .. Len(q)
        <5>1. nq[m] = q[m]
          BY <4>2, <2>2, <1>3
        <5> QED BY <5>1, <4>2, <3>1
      <4> QED BY <4>1, <4>2, <2>2, <1>3
    <3>4. \A v \in DOMAIN nd : nd[v] <= Len(q[k].edges) + 1
      <4> TAKE v \in DOMAIN nd
      <4>1. nd[v] \in Nat /\ nd[v] <= Len(i.edges) + 1
        BY <1>9
      <4> QED BY <4>1, <3>1, <3>2, <1>4
    <3> QED BY <3>1, <3>3, <3>4, <1>6
  <2> QED BY <2>1, <2>2, <1>3
<1>12. Expanding(c, a, p, nq, nd, i, t \ {e})
  <2>1. \A k \in DOMAIN nq : Len(i.edges) <= Len(nq[k].edges)
    <3> TAKE k \in DOMAIN nq
    <3>1. CASE k = Len(q) + 1
      BY <3>1, <1>2, <1>3, <1>4
    <3>2. CASE k \in 1 .. Len(q)
      BY <3>2, <1>1, <1>3
    <3> QED BY <3>1, <3>2, <1>3
  <2>2. \A f \in Passes(c, a)[p] \ (t \ {e}) : f.source = Final(i) => f.target \in DOMAIN nd
    BY <1>1, <1>6
  <2> QED BY <2>1, <2>2, <1>1, <1>6, <1>9 DEF Expanding
<1>13. Accounted(c, a, p, nq, nd, i, t \ {e})
  <2> SUFFICES ASSUME NEW v \in DOMAIN nd
               PROVE  \/ Done(c, a, p, nd, v)
                      \/ \E k \in DOMAIN nq : Final(nq[k]) = v
                      \/ t \ {e} # {} /\ v = Final(i)
    BY DEF Accounted
  <2>1. CASE v = e.target
    <3>1. Len(q) + 1 \in DOMAIN nq /\ Final(nq[Len(q) + 1]) = v
      BY <2>1, <1>2, <1>3
    <3> QED BY <3>1
  <2>2. CASE v \in DOMAIN d /\ Done(c, a, p, d, v)
    BY <2>2, DoneStays
  <2>3. CASE \E k \in DOMAIN q : Final(q[k]) = v
    BY <2>3, <1>3
  <2>4. CASE v = Final(i)
    <3>0. CASE t \ {e} # {}
      BY <2>4, <3>0
    <3> SUFFICES ASSUME t \ {e} = {} PROVE Done(c, a, p, nd, v)
      BY <3>0
    <3>1. \A f \in Passes(c, a)[p] : f.source = v => f.target \in DOMAIN nd
      BY <2>4, <1>1, <1>6
    <3>2. nd[v] = Len(i.edges)
      BY <2>4, <1>1, <1>6
    <3> QED BY <2>4, <3>1, <3>2, <1>1, <1>9 DEF Done
  <2> QED BY <2>1, <2>2, <2>3, <2>4, <1>6 DEF Accounted
<1> QED BY <1>3, <1>8, <1>11, <1>12, <1>13

\* What the second pass finds without a fakeret, the first had found: first is its depth.
LEMMA FakelessGrows ==
  ASSUME NEW c, NEW a, a.kind = "site", NEW first, Closed(c, a, 1, first),
         NEW q \in Seq(Records(c, a)), NEW d, NEW i, NEW t, NEW e \in t,
         Expanding(c, a, 2, q, d, i, t), Fakeless(q, first, i, t),
         \A v \in DOMAIN first : first[v] \in Nat,
         NEW new, new = Extended(i, e)
  PROVE  Fakeless(Append(q, new), first, i, t \ {e})
<1>1. /\ Item(c, a, 2, i) /\ Len(i.edges) < Bound(a) /\ e \in Passes(c, a)[2]
      /\ e.source = Final(i) /\ 2 \in DOMAIN Passes(c, a)
  BY PassesFacts DEF Expanding
<1>2. /\ Final(new) = e.target /\ Len(new.edges) = Len(i.edges) + 1 /\ new \in Records(c, a)
      /\ ~UsesFakeret(new) => ~UsesFakeret(i) /\ e.kind # "fakeret"
  BY <1>1, ItemVisited
<1>3. Len(i.edges) \in Nat /\ Bound(a) \in Nat
  BY <1>1, BoundAssumption DEF Item, Records, Bound
<1>4. ~UsesFakeret(new) => InFirst(first, new)
  <2> SUFFICES ASSUME ~UsesFakeret(new) PROVE InFirst(first, new)
    OBVIOUS
  <2>1. e \in Passes(c, a)[1]
    BY <1>1, <1>2, PassesFacts
  <2>2. Final(i) \in DOMAIN first /\ first[Final(i)] <= Len(i.edges)
    BY <1>2 DEF Fakeless, InFirst
  <2>3. first[Final(i)] \in Nat /\ first[Final(i)] < Bound(a)
    BY <2>2, <1>1, <1>3
  <2>4. e.target \in DOMAIN first /\ first[e.target] <= first[Final(i)] + 1
    BY <2>1, <2>2, <2>3, <1>1 DEF Closed, Done
  <2>5. first[e.target] <= Len(i.edges) + 1
    BY <2>2, <2>3, <2>4, <1>3
  <2> QED BY <2>4, <2>5, <1>2 DEF InFirst
<1>5. /\ DOMAIN Append(q, new) = 1 .. Len(q) + 1 /\ DOMAIN q = 1 .. Len(q)
      /\ Append(q, new)[Len(q) + 1] = new /\ Len(q) \in Nat
      /\ \A k \in 1 .. Len(q) : Append(q, new)[k] = q[k]
  BY <1>2
<1> QED BY <1>4, <1>5 DEF Fakeless

LEMMA VisitSound == ASSUME SearchInv, Visit PROVE SearchInv'
<1> DEFINE d == depth[pass]
<1>1. PICK e \in todo :
        /\ todo' = todo \ {e}
        /\ IF e.target \in DOMAIN d
           THEN UNCHANGED <<queue, depth>>
           ELSE /\ queue' = Append(queue, [path |-> Append(item.path, e.target),
                                           edges |-> Append(item.edges, e)])
                /\ depth' = [depth EXCEPT ![pass] = With(d, e.target, Len(item.edges) + 1)]
  BY DEF Visit
<1>2. /\ status = "searching"
      /\ UNCHANGED <<cfg, ask, pass, item, status, witness, walker>>
  BY DEF Visit
<1>3. /\ ask.kind \in {"site", "function"} /\ pass \in Nat /\ pass > 0
      /\ pass \in DOMAIN Passes(cfg, ask)
      /\ depth \in Seq(Marks(cfg, ask)) /\ Len(depth) = pass
      /\ DOMAIN depth = 1 .. pass /\ pass \in DOMAIN depth /\ d \in Marks(cfg, ask)
      /\ queue \in Seq(Records(cfg, ask))
  <2>1. /\ ask.kind \in {"site", "function"} /\ pass \in 0 .. Len(Passes(cfg, ask)) /\ pass > 0
        /\ depth \in Seq(Marks(cfg, ask)) /\ Len(depth) = pass
        /\ queue \in Seq(Records(cfg, ask))
    BY <1>2 DEF SearchInv, Typed
  <2>2. pass \in DOMAIN Passes(cfg, ask) /\ pass \in Nat
    <3>1. /\ Len(Passes(cfg, ask)) \in {1, 2}
          /\ DOMAIN Passes(cfg, ask) = 1 .. Len(Passes(cfg, ask))
      BY <2>1, PassesFacts
    <3> QED BY <3>1, <2>1
  <2> QED BY <2>1, <2>2
<1>4. /\ Queued(cfg, ask, pass, queue, d) /\ Expanding(cfg, ask, pass, queue, d, item, todo)
      /\ Accounted(cfg, ask, pass, queue, d, item, todo)
      /\ pass = 2 => Fakeless(queue, depth[1], item, todo)
  BY <1>2 DEF SearchInv, Frontier
<1>5. /\ \A p \in 1 .. pass : Seeded(cfg, ask, depth[p])
      /\ \A p \in 1 .. pass : p < pass => Closed(cfg, ask, p, depth[p])
      /\ \E n : Starts(cfg, ask) = {n}
  BY <1>2, <1>3 DEF SearchInv, Searched, Decided, Reachable
<1> HIDE DEF d
<1>6. /\ queue' \in Seq(Records(cfg, ask)) /\ depth' \in Seq(Marks(cfg, ask))
      /\ Len(depth') = pass /\ \A p \in 1 .. pass : p < pass => depth'[p] = depth[p]
      /\ Seeded(cfg, ask, depth'[pass])
      /\ Queued(cfg, ask, pass, queue', depth'[pass])
      /\ Expanding(cfg, ask, pass, queue', depth'[pass], item, todo')
      /\ Accounted(cfg, ask, pass, queue', depth'[pass], item, todo')
      /\ pass = 2 => Fakeless(queue', depth[1], item, todo')
  <2>1. CASE e.target \in DOMAIN d
    <3>1. queue' = queue /\ depth' = depth /\ todo' = todo \ {e}
      BY <1>1, <2>1
    <3>2. /\ Expanding(cfg, ask, pass, queue, d, item, todo')
          /\ Accounted(cfg, ask, pass, queue, d, item, todo')
      BY <2>1, <3>1, <1>4, VisitedAgain
    <3>3. pass = 2 => Fakeless(queue, depth[1], item, todo')
      BY <1>4, <3>1 DEF Fakeless
    <3> QED BY <3>1, <3>2, <3>3, <1>3, <1>4, <1>5 DEF d
  <2>2. CASE e.target \notin DOMAIN d
    <3> DEFINE new == Extended(item, e)
               nd  == With(d, e.target, Len(item.edges) + 1)
    <3>1. queue' = Append(queue, new) /\ todo' = todo \ {e}
          /\ depth' = [depth EXCEPT ![pass] = nd]
      BY <1>1, <2>2 DEF Extended
    <3>2. /\ Append(queue, new) \in Seq(Records(cfg, ask)) /\ nd \in Marks(cfg, ask)
          /\ Queued(cfg, ask, pass, Append(queue, new), nd)
          /\ Expanding(cfg, ask, pass, Append(queue, new), nd, item, todo \ {e})
          /\ Accounted(cfg, ask, pass, Append(queue, new), nd, item, todo \ {e})
      BY <2>2, <1>3, <1>4, VisitedFirst
    <3>3. Seeded(cfg, ask, nd)
      <4>1. Seeded(cfg, ask, d)
        BY <1>3, <1>5 DEF d
      <4>2. DOMAIN nd = DOMAIN d \cup {e.target} /\ \A v \in DOMAIN d : nd[v] = d[v]
        BY <2>2 DEF With
      <4> QED BY <4>1, <4>2 DEF Seeded
    <3>4. pass = 2 => Fakeless(Append(queue, new), depth[1], item, todo \ {e})
      <4> SUFFICES ASSUME pass = 2
                   PROVE  Fakeless(Append(queue, new), depth[1], item, todo \ {e})
        OBVIOUS
      <4>1. ask.kind = "site"
        BY <1>3, PassesFacts
      <4>2. Closed(cfg, ask, 1, depth[1])
        BY <1>5
      <4>3. \A v \in DOMAIN depth[1] : depth[1][v] \in Nat
        <5>1. depth[1] \in Marks(cfg, ask)
          BY <1>3
        <5> QED BY <5>1 DEF Marks
      <4>4. /\ Expanding(cfg, ask, 2, queue, d, item, todo)
            /\ Fakeless(queue, depth[1], item, todo)
        BY <1>4
      <4> HIDE DEF nd
      <4> QED BY <4>1, <4>2, <4>3, <4>4, <1>3, FakelessGrows
    <3> HIDE DEF new, nd
    <3>5. /\ depth' \in Seq(Marks(cfg, ask)) /\ Len(depth') = pass /\ depth'[pass] = nd
          /\ \A p \in 1 .. pass : p < pass => depth'[p] = depth[p]
      BY <3>1, <3>2, <1>3
    <3> QED BY <3>1, <3>2, <3>3, <3>4, <3>5
  <2> QED BY <2>1, <2>2
<1>7. Typed'
  BY <1>2, <1>3, <1>6 DEF SearchInv, Typed, Reachable
<1>8. Searched'
  <2>1. status' \notin Decided /\ pass' = pass /\ cfg' = cfg /\ ask' = ask
    BY <1>2 DEF Decided, Reachable
  <2>2. \A p \in 1 .. pass : Seeded(cfg, ask, depth'[p])
    <3> TAKE p \in 1 .. pass
    <3>1. p < pass \/ p = pass
      BY <1>3
    <3> QED BY <3>1, <1>5, <1>6
  <2>3. \A p \in 1 .. pass : p < pass => Closed(cfg, ask, p, depth'[p])
    BY <1>5, <1>6
  <2>4. \A p \in 1 .. pass : p < pass \/ ~(p < pass)
    OBVIOUS
  <2>5. \A p \in 1 .. pass' : p < pass' \/ status' \in Decided \ Reachable
                                => Closed(cfg, ask, p, depth[p])'
    BY <2>1, <2>3
  <2>6. \A p \in 1 .. pass' : Seeded(cfg, ask, depth[p])'
    BY <2>1, <2>2
  <2> QED BY <2>1, <2>5, <2>6, <1>5 DEF Searched
<1>9. Frontier'
  <2>1. pass = 2 => depth'[1] = depth[1]
    BY <1>6
  <2> QED BY <2>1, <1>2, <1>6 DEF Frontier
<1>10. Witnessed' /\ Walked'
  BY <1>2 DEF SearchInv, Witnessed, Walked, Reachable, Decided
<1> QED BY <1>7, <1>8, <1>9, <1>10 DEF SearchInv

\* The walker goes along an edge.
LEMMA WalkSound == ASSUME SearchInv, Walk PROVE SearchInv'
<1>1. /\ status \in Decided /\ walker # Nothing
      /\ UNCHANGED <<cfg, ask, pass, queue, depth, item, todo, status, witness>>
  BY DEF Walk, search
<1>0. PICK o \in DOMAIN Passes(cfg, ask) : \E e \in Passes(cfg, ask)[o] :
        e.source = walker.node /\ Step(e.target, e.kind)
  BY DEF Walk
<1>2. PICK e \in Passes(cfg, ask)[o] :
        /\ e.source = walker.node
        /\ walker' = [node |-> e.target, hops |-> walker.hops + 1,
                      fakeret |-> walker.fakeret \/ e.kind = "fakeret"]
  BY <1>0 DEF Step
<1>3. /\ pass > 0 /\ walker.hops \in Nat /\ pass \in 0 .. Len(Passes(cfg, ask))
      /\ ask.kind \in {"site", "function"} /\ Bound(ask) \in Nat
      /\ depth \in Seq(Marks(cfg, ask)) /\ Len(depth) = pass
  BY <1>1, BoundAssumption DEF SearchInv, Walked, Typed, Bound
<1>4. /\ walker'.node = e.target /\ walker'.hops = walker.hops + 1
      /\ ~walker'.fakeret => ~walker.fakeret /\ e.kind # "fakeret"
  BY <1>2
<1>5. ASSUME NEW p \in 1 .. pass,
             Closed(cfg, ask, p, depth[p]), walker'.hops <= Bound(ask),
             p < Len(Passes(cfg, ask)) => ~walker'.fakeret
      PROVE  walker'.node \in DOMAIN depth[p] /\ depth[p][walker'.node] <= walker'.hops
  <2>1. walker.node \in DOMAIN depth[p] /\ depth[p][walker.node] <= walker.hops
    BY <1>1, <1>3, <1>4, <1>5 DEF SearchInv, Walked
  <2>2. e \in Passes(cfg, ask)[p]
    <3>1. /\ Len(Passes(cfg, ask)) \in {1, 2} /\ p \in 1 .. Len(Passes(cfg, ask))
          /\ o \in 1 .. Len(Passes(cfg, ask))
      BY <1>3, PassesFacts
    <3>2. CASE o = p
      BY <3>2
    <3>3. CASE o = 1 /\ p = 2
      BY <3>3, <3>1, <1>3, PassesTwo
    <3>4. CASE o = 2 /\ p = 1 /\ Len(Passes(cfg, ask)) = 2
      <4>1. ~walker'.fakeret /\ p < Len(Passes(cfg, ask))
        BY <3>4, <1>5
      <4> QED BY <3>4, <4>1, <1>3, <1>4, PassesTwo
    <3>5. Len(Passes(cfg, ask)) = 1 => o = 1 /\ p = 1
      BY <3>1
    <3>6. Len(Passes(cfg, ask)) = 2 => o \in {1, 2} /\ p \in {1, 2}
      BY <3>1
    <3> QED BY <3>1, <3>2, <3>3, <3>4, <3>5, <3>6
  <2>3. depth[p] \in Marks(cfg, ask)
    BY <1>3
  <2>4. \A v \in DOMAIN depth[p] : depth[p][v] \in Nat
    BY <2>3 DEF Marks
  <2>5. depth[p][walker.node] < Bound(ask)
    BY <2>1, <2>4, <1>3, <1>4, <1>5
  <2>6. e.target \in DOMAIN depth[p] /\ depth[p][e.target] <= depth[p][walker.node] + 1
    BY <2>1, <2>2, <2>5, <1>2, <1>5 DEF Closed, Done
  <2> QED BY <2>1, <2>4, <2>6, <1>3, <1>4
<1>6. Walked'
  BY <1>1, <1>3, <1>4, <1>5 DEF Walked
<1>7. status # "asked" /\ status # "searching"
  BY <1>1 DEF Decided, Reachable
<1>8. Typed'
  BY <1>1, <1>7 DEF SearchInv, Typed
<1>9. Searched' /\ Frontier'
  BY <1>1, <1>7 DEF SearchInv, Searched, Frontier
<1>10. Witnessed'
  BY <1>1 DEF SearchInv, Witnessed, Item, IsWalk, Final, Found, UsesFakeret
<1> QED BY <1>6, <1>8, <1>9, <1>10 DEF SearchInv

LEMMA StutterSound == ASSUME SearchInv, UNCHANGED vars PROVE SearchInv'
<1>1. /\ cfg' = cfg /\ ask' = ask /\ pass' = pass /\ queue' = queue /\ depth' = depth
      /\ item' = item /\ todo' = todo /\ status' = status /\ witness' = witness
      /\ walker' = walker
  BY DEF vars, search
<1>2. Typed' /\ Searched'
  BY <1>1 DEF SearchInv, Typed, Searched
<1>3. Frontier'
  BY <1>1 DEF SearchInv, Frontier
<1>4. Witnessed' /\ Walked'
  BY <1>1 DEF SearchInv, Witnessed, Walked, Item, IsWalk, Final, Found, UsesFakeret
<1> QED BY <1>2, <1>3, <1>4 DEF SearchInv

\* The search keeps its order and its account of what is settled, and so does a run
\* of the firmware beside it: the invariant of bounded_bfs.
THEOREM SearchInvariant == Spec => []SearchInv
<1>1. Init => SearchInv
  BY InitSound
<1>2. SearchInv /\ [Next]_vars => SearchInv'
  <2> SUFFICES ASSUME SearchInv, [Next]_vars PROVE SearchInv'
    OBVIOUS
  <2>1. CASE Answer
    BY <2>1, AnswerSound
  <2>2. CASE NoStart
    BY <2>2, NoStartSound
  <2>3. CASE Begin
    BY <2>3, BeginSound
  <2>4. CASE Arrive
    BY <2>4, ArriveSound
  <2>5. CASE Expand
    BY <2>5, ExpandSound
  <2>6. CASE Visit
    BY <2>6, VisitSound
  <2>7. CASE NextPass
    BY <2>7, NextPassSound
  <2>8. CASE GiveUp
    BY <2>8, GiveUpSound
  <2>9. CASE Walk
    BY <2>9, WalkSound
  <2>10. CASE UNCHANGED vars
    BY <2>10, StutterSound
  <2> QED
    BY <2>1, <2>2, <2>3, <2>4, <2>5, <2>6, <2>7, <2>8, <2>9, <2>10 DEF Next, Search
<1> QED BY <1>1, <1>2, PTL DEF Spec

\* Every witness of the search passes validate_reachability_witnesses: on every
\* graph it is a path of it, within the bound, from the entry to the site through
\* the nodes of the function, and relies on a fakeret exactly when the fact says so.
THEOREM WitnessesAreValid == Spec => []WitnessesValidate
<1>1. SearchInv => WitnessesValidate
  <2> SUFFICES ASSUME SearchInv, status \in Reachable PROVE Validates(witness)
    BY DEF WitnessesValidate
  <2>1. /\ Item(cfg, ask, pass, witness) /\ Final(witness) \in Goals(cfg, ask)
        /\ status = Found(witness)
    BY DEF SearchInv, Witnessed
  <2>2. /\ ask.kind \in {"site", "function"} /\ pass \in 1 .. Len(Passes(cfg, ask))
        /\ ask.kind = "function" => ask.home # ask.goal
    <3>1. /\ ask.kind \in {"site", "function"} /\ pass \in 0 .. Len(Passes(cfg, ask)) /\ pass > 0
          /\ ask.kind = "function" => ask.home # ask.goal
      BY DEF SearchInv, Typed
    <3>2. Len(Passes(cfg, ask)) \in {1, 2}
      BY <3>1, PassesFacts
    <3> QED BY <3>1, <3>2
  <2> DEFINE it == witness
  <2>3. /\ it.path \in Seq(Vertices(cfg, ask)) /\ it.edges \in Seq(Steps(cfg, ask))
        /\ IsWalk(it, Passes(cfg, ask)[pass]) /\ it.path[1] \in Starts(cfg, ask)
        /\ Len(it.edges) <= Bound(ask)
    BY <2>1 DEF Item, Records
  <2>4. /\ Len(it.path) = Len(it.edges) + 1 /\ Len(it.edges) \in Nat
        /\ DOMAIN it.path = 1 .. Len(it.edges) + 1 /\ DOMAIN it.edges = 1 .. Len(it.edges)
        /\ \A k \in DOMAIN it.edges :
             /\ it.edges[k] \in Passes(cfg, ask)[pass]
             /\ it.edges[k].source = it.path[k] /\ it.edges[k].target = it.path[k + 1]
    BY <2>3 DEF IsWalk
  <2>5. CASE ask.kind = "site"
    <3>1. /\ Passes(cfg, ask)[pass] \subseteq Local(cfg, ask.home, {"branch", "fakeret"})
          /\ Starts(cfg, ask) = {n \in Owned(cfg, ask.home) : cfg.at[n] = ask.home}
          /\ Goals(cfg, ask) = {n \in Owned(cfg, ask.home) : ask.goal \in cfg.holds[n]}
      <4>1. /\ Passes(cfg, ask)[1] = Local(cfg, ask.home, {"branch"})
            /\ Passes(cfg, ask)[2] = Local(cfg, ask.home, {"branch", "fakeret"})
            /\ pass \in {1, 2}
        BY <2>2, <2>5 DEF Passes
      <4> QED BY <4>1, <2>5 DEF Local, Starts, Goals
    <3>2. \A k \in DOMAIN it.edges :
            /\ it.edges[k] \in cfg.edges /\ it.edges[k].kind \in {"branch", "fakeret"}
            /\ it.path[k + 1] \in Owned(cfg, ask.home)
      BY <2>4, <3>1 DEF Local
    <3>3. IsWalk(it, cfg.edges)
      BY <2>4, <3>2 DEF IsWalk
    <3>4. \A k \in DOMAIN it.path : it.path[k] \in Owned(cfg, ask.home)
      <4> TAKE k \in DOMAIN it.path
      <4>1. CASE k = 1
        BY <4>1, <2>3, <3>1
      <4>2. CASE k # 1
        <5>1. k - 1 \in DOMAIN it.edges /\ (k - 1) + 1 = k
          BY <4>2, <2>4
        <5> QED BY <5>1, <3>2
      <4> QED BY <4>1, <4>2
    <3>5. cfg.at[it.path[1]] = ask.home /\ ask.goal \in cfg.holds[Final(it)]
      BY <2>1, <2>3, <3>1
    <3>6. (status = "reachable_static_with_fakeret") = UsesFakeret(it)
      <4>1. CASE UsesFakeret(it)
        BY <4>1, <2>1, <2>5 DEF Found, UsesFakeret
      <4>2. CASE ~UsesFakeret(it)
        BY <4>2, <2>1, <2>5 DEF Found, UsesFakeret
      <4> QED BY <4>1, <4>2
    <3> HIDE DEF it
    <3>7. Validates(it)
      BY <2>3, <2>5, <3>2, <3>3, <3>4, <3>5, <3>6 DEF Validates
    <3> QED BY <3>7 DEF it
  <2>6. CASE ask.kind = "function"
    <3>1. /\ Passes(cfg, ask)[pass] = cfg.calls
          /\ Starts(cfg, ask) = {ask.home} /\ Goals(cfg, ask) = {ask.goal}
      <4>1. pass = 1
        <5>1. Len(Passes(cfg, ask)) = 1
          BY <2>6, PassesFacts
        <5> QED BY <5>1, <2>2
      <4> QED BY <4>1, <2>6 DEF Passes, Starts, Goals
    <3>2. IsWalk(it, cfg.calls) /\ it.path[1] = ask.home /\ Final(it) = ask.goal
      BY <2>1, <2>3, <3>1
    <3>3. Len(it.edges) >= 1
      <4> SUFFICES ASSUME Len(it.edges) = 0 PROVE FALSE
        BY <2>4
      <4>1. Final(it) = it.path[1]
        BY <2>4 DEF Final
      <4> QED BY <4>1, <3>2, <2>2, <2>6
    <3> HIDE DEF it
    <3>4. Validates(it)
      BY <2>3, <2>6, <3>2, <3>3 DEF Validates
    <3> QED BY <3>4 DEF it
  <2> QED BY <2>2, <2>5, <2>6
<1> QED BY <1>1, SearchInvariant, PTL

\* The search misses nothing: on every graph and with every bound, what a run of the
\* firmware reaches within the bound is reported reachable, and what it reaches
\* without relying on the return of a call is not reported to rely on one.
THEOREM ReachedAreReported == Spec => []ReachedIsReachable
<1>1. SearchInv => ReachedIsReachable
  <2> SUFFICES ASSUME SearchInv, Arrived
               PROVE  /\ status \in Reachable
                      /\ ~walker.fakeret => status # "reachable_static_with_fakeret"
    BY DEF ReachedIsReachable
  <2>1. /\ status \in Decided /\ walker # Nothing /\ walker.hops <= Bound(ask)
        /\ walker.node \in Goals(cfg, ask)
    BY DEF Arrived
  <2>2. ASSUME NEW p \in 1 .. pass, Closed(cfg, ask, p, depth[p]),
               p < Len(Passes(cfg, ask)) => ~walker.fakeret
        PROVE  FALSE
    <3>1. walker.node \in DOMAIN depth[p]
      BY <2>1, <2>2 DEF SearchInv, Walked
    <3> QED BY <3>1, <2>1, <2>2 DEF Closed, Done
  <2>3. pass > 0 /\ pass \in Nat /\ ask.kind \in {"site", "function"}
        /\ pass \in 0 .. Len(Passes(cfg, ask))
    BY <2>1 DEF SearchInv, Walked, Typed
  <2>4. status \in Reachable
    <3> SUFFICES ASSUME status \notin Reachable PROVE FALSE
      OBVIOUS
    <3>1. pass = Len(Passes(cfg, ask)) /\ Closed(cfg, ask, pass, depth[pass])
      BY <2>1, <2>3 DEF SearchInv, Searched
    <3>2. pass \in 1 .. pass /\ ~(pass < Len(Passes(cfg, ask)))
      BY <2>3, <3>1
    <3> QED BY <3>1, <3>2, <2>2
  <2>5. ASSUME ~walker.fakeret, status = "reachable_static_with_fakeret" PROVE FALSE
    <3>1. pass = 2
      BY <2>4, <2>5 DEF SearchInv, Witnessed
    <3>2. 1 \in 1 .. pass /\ 1 < pass
      BY <3>1
    <3>3. Closed(cfg, ask, 1, depth[1])
      BY <3>2 DEF SearchInv, Searched
    <3> QED BY <3>2, <3>3, <2>2, <2>5
  <2> QED BY <2>4, <2>5
<1> QED BY <1>1, SearchInvariant, PTL

LEMMA ModSplit ==
  ASSUME NEW W \in Nat \ {0}, NEW a \in Int
  PROVE  /\ a % W \in 0 .. W - 1
         /\ \E q \in Int : a = q * W + (a % W)
<1>1. a % W \in 0 .. W - 1
  OBVIOUS
<1>2. a = (a \div W) * W + (a % W)
  OBVIOUS
<1>3. a \div W \in Int
  OBVIOUS
<1> QED
  BY <1>1, <1>2, <1>3

LEMMA ModIs ==
  ASSUME NEW W \in Nat \ {0}, NEW q \in Int, NEW r \in 0 .. W - 1
  PROVE  (q * W + r) % W = r
<1> DEFINE a == q * W + r
<1>0. a \in Int
  OBVIOUS
<1>1. PICK p \in Int : a = p * W + (a % W)
  BY <1>0, ModSplit
<1>2. a % W \in 0 .. W - 1
  BY <1>0, ModSplit
<1> DEFINE s == a % W d == p - q
<1>3. d * W = r - s
  BY <1>1, <1>2
<1>4. d \in Int /\ r - s \in Int /\ r - s < W /\ r - s > -W
  BY <1>2
<1> HIDE DEF d, s, a
<1>5. ~(d >= 1)
  <2> SUFFICES ASSUME d >= 1 PROVE FALSE
    OBVIOUS
  <2>1. (d - 1) * W >= 0
    BY <1>4
  <2>2. d * W >= W
    BY <1>4, <2>1
  <2> QED
    BY <1>3, <1>4, <2>2
<1>6. ~(d <= -1)
  <2> SUFFICES ASSUME d <= -1 PROVE FALSE
    OBVIOUS
  <2>1. (-1 - d) * W >= 0
    BY <1>4
  <2>2. d * W <= -W
    BY <1>4, <2>1
  <2> QED
    BY <1>3, <1>4, <2>2
<1>7. d = 0
  BY <1>4, <1>5, <1>6
<1>8. s = r
  <2>1. d * W = 0
    BY <1>7
  <2>2. s \in Int
    BY <1>2 DEF s
  <2> QED
    BY <1>3, <2>1, <2>2
<1> QED
  BY <1>8 DEF s, a

LEMMA ModPlus ==
  ASSUME NEW W \in Nat \ {0}, NEW a \in Int, NEW b \in Int
  PROVE  ((a % W) + b) % W = (a + b) % W
<1>1. PICK q \in Int : a = q * W + (a % W)
  BY ModSplit
<1> DEFINE s == a % W t == (s + b) % W
<1>2. s \in Int
  BY ModSplit
<1> HIDE DEF s
<1>3. PICK p \in Int : s + b = p * W + t
  <2>1. s + b \in Int
    BY <1>2
  <2> QED
    BY <2>1, ModSplit
<1>4. t \in 0 .. W - 1
  BY <1>2, ModSplit
<1> HIDE DEF t
<1>5. a + b = (q + p) * W + t
  <2>1. a = q * W + s
    BY <1>1 DEF s
  <2> QED
    BY <1>2, <1>3, <1>4, <2>1
<1>6. ((q + p) * W + t) % W = t
  BY <1>4, ModIs
<1> QED
  BY <1>5, <1>6 DEF t, s

LEMMA ModMod ==
  ASSUME NEW W \in Nat \ {0}, NEW U \in Nat \ {0}, W % U = 0, NEW a \in Int
  PROVE  (a % W) % U = a % U
<1>1. PICK q \in Int : a = q * W + (a % W)
  BY ModSplit
<1>2. PICK k \in Int : W = k * U
  <2>0. W \in Int
    OBVIOUS
  <2>1. PICK k \in Int : W = k * U + (W % U)
    BY <2>0, ModSplit
  <2> QED
    BY <2>1
<1> DEFINE s == a % W t == s % U
<1>3. s \in Int
  BY ModSplit
<1>4. PICK p \in Int : s = p * U + t
  BY <1>3, ModSplit
<1>5. t \in 0 .. U - 1
  BY <1>3, ModSplit
<1> HIDE DEF s, t
<1>6. a = (q * k + p) * U + t
  <2>1. a = q * W + s
    BY <1>1 DEF s
  <2>2. q * W = (q * k) * U
    BY <1>2
  <2>3. q * k \in Int
    OBVIOUS
  <2> QED
    BY <1>3, <1>4, <1>5, <2>1, <2>2, <2>3
<1>7. ((q * k + p) * U + t) % U = t
  <2>1. q * k + p \in Int
    OBVIOUS
  <2> QED
    BY <1>5, <2>1, ModIs
<1> QED
  BY <1>6, <1>7 DEF t, s
-----------------------------------------------------------------------------
(* What is known of the registers.                                         *)

\* What is taken to be known is so, up to the width of a register.
Agrees(r, regs, S) ==
  /\ r \in [Registers -> Int \cup {None}] /\ DOMAIN regs = Registers
  /\ \A x \in Registers \ S : r[x] # None => r[x] % Word = regs[x]

LEMMA NothingAgrees ==
  ASSUME NEW regs, NEW S, DOMAIN regs = Registers
  PROVE  Agrees(NothingKnown, regs, S)
BY DEF Agrees, NothingKnown

LEMMA KnownAgrees ==
  ASSUME NEW r, NEW regs, NEW S, Agrees(r, regs, S), NEW x
  PROVE  LET v == Known(r, x)
         IN  v \in Int \cup {None} /\ (v # None => v % Word = Content(regs, x) \/ x \in S)
<1>1. CASE x = Zero
  <2>1. Known(r, x) = 0 /\ Content(regs, x) = 0
    BY <1>1, UpperAssumption DEF Known, Content
  <2>2. (0 * Word + 0) % Word = 0
    BY ProgramsAssumption, ModIs
  <2>3. 0 % Word = 0
    BY <2>2, ProgramsAssumption
  <2> QED
    BY <2>1, <2>3
<1>2. CASE x # Zero /\ x \in Registers
  <2>1. Known(r, x) = r[x] /\ Content(regs, x) = regs[x]
    BY <1>2 DEF Known, Content
  <2> QED
    BY <1>2, <2>1 DEF Agrees
<1>3. CASE x # Zero /\ x \notin Registers
  BY <1>3 DEF Known
<1> QED
  BY <1>1, <1>2, <1>3

\* An address that is known is the one that is accessed.
LEMMA AddressAgrees ==
  ASSUME NEW r, NEW regs, NEW S, Agrees(r, regs, S), NEW i, i.n \in Int \cup {None}
  PROVE  LET v == Plus(Known(r, i.s), i.n)
         IN  v \in Int \cup {None} /\ (v # None => v % Word = Effective(i, regs) \/ i.s \in S)
<1> DEFINE k == Known(r, i.s)
<1>1. k \in Int \cup {None} /\ (k # None => k % Word = Content(regs, i.s) \/ i.s \in S)
  BY KnownAgrees
<1> HIDE DEF k
<1>2. CASE k = None \/ i.n = None
  BY <1>2 DEF Plus, k
<1>3. CASE k # None /\ i.n # None
  <2>1. k \in Int /\ i.n \in Int /\ Plus(k, i.n) = k + i.n
    BY <1>1, <1>3 DEF Plus
  <2>2. CASE i.s \notin S
    <3>1. Effective(i, regs) = ((k % Word) + i.n) % Word
      BY <1>1, <1>3, <2>2 DEF Effective
    <3>2. ((k % Word) + i.n) % Word = (k + i.n) % Word
      BY <2>1, ProgramsAssumption, ModPlus
    <3> QED
      BY <2>1, <3>1, <3>2 DEF k
  <2>3. CASE i.s \in S
    BY <2>1, <2>3 DEF k
  <2> QED
    BY <2>2, <2>3
<1> QED
  BY <1>2, <1>3

LEMMA AssignTyped ==
  ASSUME NEW r \in [Registers -> Int \cup {None}], NEW d, NEW v \in Int \cup {None}
  PROVE  Assign(r, d, v) \in [Registers -> Int \cup {None}]
BY DEF Assign

\* The upper and the lower half of a constant (movt).
LEMMA HalvesAgree ==
  ASSUME NEW k \in Int, NEW n \in Int
  PROVE  /\ (k % Upper) + n * Upper \in Int
         /\ ((k % Upper) + n * Upper) % Word = (((k % Word) % Upper) + n * Upper) % Word
<1>1. (k % Word) % Upper = k % Upper
  BY ProgramsAssumption, UpperAssumption, ModMod
<1>2. k % Upper \in Int
  BY UpperAssumption, ModSplit
<1> QED
  BY <1>1, <1>2, UpperAssumption
-----------------------------------------------------------------------------
(* What the instructions access.                                           *)
Atomics == {"lr", "lwarx", "sc", "stwcx."} \cup RiscvAmo \cup Exclusive
Systems == {"csrr", "mrs", "mfspr", "msr", "mtspr"} \cup CsrAll
AnyAccess == Loads \cup Stores \cup Atomics \cup Systems \cup {"push"}

\* No other operation of Accesses is meant by one of these names.
LEMMA OneOperation ==
  ASSUME NEW m
  PROVE  /\ m \in Loads \cup Stores \cup Exclusive \cup {"push"} =>
              m \notin {"lr", "lwarx", "sc", "stwcx.", "mrs", "mfspr", "msr", "mtspr"} \cup RiscvAmo \cup CsrAll
         /\ m \in Loads \cup {"push"} => m \notin Stores \cup Exclusive
         /\ m \in Stores => m \notin Loads \cup Exclusive \cup {"push"}
         /\ m \in Exclusive => m \notin Loads \cup Stores \cup {"push"}
         /\ m \in ArmExclusiveStores => m \notin ArmExclusiveLoads
         /\ m \in {"lr", "lwarx", "sc", "stwcx.", "mrs", "mfspr", "msr", "mtspr"} \cup RiscvAmo \cup CsrAll =>
              m \notin Loads \cup Stores \cup Exclusive \cup {"push"}
<1>1. m \in RiscvAmo \cup CsrAll => m \notin Loads \cup Stores \cup Exclusive \cup {"push"}
  BY DEF RiscvAmo, CsrAll, CsrWrites, CsrSwaps, CsrSetsClears, Loads, Stores, Exclusive,
     ArmLoads, ArmStores, ArmExclusiveLoads, ArmExclusiveStores
<1>2. m \in {"lr", "lwarx", "sc", "stwcx.", "mrs", "mfspr", "msr", "mtspr"} =>
        m \notin Loads \cup Stores \cup Exclusive \cup {"push"}
  BY DEF Loads, Stores, Exclusive, ArmLoads, ArmStores, ArmExclusiveLoads, ArmExclusiveStores
<1>3. m \in Loads \cup {"push"} => m \notin Stores \cup Exclusive
  BY DEF Loads, Stores, Exclusive, ArmLoads, ArmStores, ArmExclusiveLoads, ArmExclusiveStores
<1>4. m \in Stores => m \notin Exclusive
  BY DEF Stores, Exclusive, ArmStores, ArmExclusiveLoads, ArmExclusiveStores
<1>5. m \in ArmExclusiveStores => m \notin ArmExclusiveLoads
  BY DEF ArmExclusiveLoads, ArmExclusiveStores
<1> QED
  BY <1>1, <1>2, <1>3, <1>4, <1>5

CsrForms == {"csrr", "csrw", "csrwi", "csrrw", "csrrwi", "csrs", "csrc", "csrrs", "csrrc",
             "csrsi", "csrci", "csrrsi", "csrrci"}

LEMMA CsrFormsAll == CsrForms \subseteq CsrAll
BY DEF CsrForms, CsrAll, CsrWrites, CsrSwaps, CsrSetsClears

LEMMA LoadAccess ==
  ASSUME NEW i, NEW regs, i.m \in Loads
  PROVE  Accesses(i, regs) = {Memory("MEMORY_LOAD", Effective(i, regs), None, Width(i.m))}
<1>0. i.m # "push"
  BY DEF Loads, ArmLoads
<1>1. i.m \notin Stores /\ i.m \notin Exclusive /\ i.m # "push"
  BY <1>0, OneOperation
<1>2. i.m \notin ArmExclusiveLoads /\ i.m \notin ArmExclusiveStores
  BY <1>1 DEF Exclusive
<1>3. i.m # "strd"
  BY <1>1, <1>2 DEF Stores, ArmStores
<1>4. /\ i.m \notin {"lr", "lwarx", "sc", "stwcx.", "mrs", "mfspr", "msr", "mtspr", "amoswap"}
      /\ i.m \notin RiscvAmo /\ i.m \notin CsrForms
  BY OneOperation, CsrFormsAll DEF RiscvAmo
<1> QED
  BY <1>1, <1>2, <1>3, <1>4 DEF Accesses, CsrForms

LEMMA StoreAccess ==
  ASSUME NEW i, NEW regs, i.m \in Stores
  PROVE  \E stored :
           /\ Accesses(i, regs) = {Memory("MEMORY_STORE", Effective(i, regs), stored, Width(i.m))}
           /\ stored = Content(regs, i.v) \/ i.m = "strd"
<1>1. /\ i.m \notin {"push", "lr", "lwarx", "sc", "stwcx.", "mrs", "mfspr", "msr", "mtspr", "amoswap"}
      /\ i.m \notin Loads /\ i.m \notin ArmExclusiveLoads /\ i.m \notin ArmExclusiveStores
      /\ i.m \notin RiscvAmo /\ i.m \notin CsrForms
  BY OneOperation, CsrFormsAll DEF Exclusive, RiscvAmo
<1>2. CASE i.m = "strd"
  <2>1. Accesses(i, regs) = {Memory("MEMORY_STORE", Effective(i, regs), None, 64)}
    BY <1>1, <1>2 DEF Accesses, CsrForms
  <2>2. Width(i.m) = 64
    BY <1>2 DEF Width, Bytes, Halves, Doubles
  <2> QED
    BY <1>2, <2>1, <2>2
<1>3. CASE i.m # "strd"
  <2>1. Accesses(i, regs) = {Memory("MEMORY_STORE", Effective(i, regs), Content(regs, i.v), Width(i.m))}
    BY <1>1, <1>3 DEF Accesses, CsrForms
  <2> QED
    BY <2>1
<1> QED
  BY <1>2, <1>3

LEMMA ExclusiveAccess ==
  ASSUME NEW i, NEW regs
  PROVE  /\ i.m \in ArmExclusiveLoads =>
              Accesses(i, regs) = {Memory("ATOMIC_LOAD", Effective(i, regs), None, Width(i.m))}
         /\ i.m \in ArmExclusiveStores =>
              Accesses(i, regs) = {Memory("ATOMIC_STORE", Effective(i, regs), Content(regs, i.v), Width(i.m))}
<1>1. ASSUME i.m \in Exclusive
      PROVE  /\ i.m \notin {"strd", "push", "lr", "lwarx", "sc", "stwcx.", "mrs", "mfspr", "msr", "mtspr",
                            "amoswap"}
             /\ i.m \notin Loads /\ i.m \notin Stores /\ i.m \notin RiscvAmo /\ i.m \notin CsrForms
  BY <1>1, OneOperation, CsrFormsAll DEF Exclusive, RiscvAmo, ArmExclusiveLoads, ArmExclusiveStores
<1>2. ASSUME i.m \in ArmExclusiveLoads
      PROVE  Accesses(i, regs) = {Memory("ATOMIC_LOAD", Effective(i, regs), None, Width(i.m))}
  <2>1. i.m \notin ArmExclusiveStores /\ i.m \in Exclusive
    BY <1>2, OneOperation DEF Exclusive
  <2> QED
    BY <1>1, <1>2, <2>1 DEF Accesses, CsrForms
<1>3. ASSUME i.m \in ArmExclusiveStores
      PROVE  Accesses(i, regs) = {Memory("ATOMIC_STORE", Effective(i, regs), Content(regs, i.v), Width(i.m))}
  <2>1. i.m \notin ArmExclusiveLoads /\ i.m \in Exclusive
    BY <1>3, OneOperation DEF Exclusive
  <2> QED
    BY <1>1, <1>3, <2>1 DEF Accesses, CsrForms
<1> QED
  BY <1>2, <1>3

LEMMA AtomicAccess ==
  ASSUME NEW i, NEW regs
  PROVE  LET load  == Memory("ATOMIC_LOAD", Content(regs, i.s), None, 32)
             store == Memory("ATOMIC_STORE", Content(regs, i.s), Content(regs, i.v), 32)
         IN  /\ i.m \in {"lr", "lwarx"} => Accesses(i, regs) = {load}
             /\ i.m \in {"sc", "stwcx."} => Accesses(i, regs) = {store}
             /\ i.m = "amoswap" => Accesses(i, regs) = {load, store}
             /\ i.m \in RiscvAmo \ {"amoswap"} => Accesses(i, regs) = {load, [store EXCEPT !.value = None]}
<1> DEFINE load  == Memory("ATOMIC_LOAD", Content(regs, i.s), None, 32)
           store == Memory("ATOMIC_STORE", Content(regs, i.s), Content(regs, i.v), 32)
<1>1. ASSUME i.m \in {"lr", "lwarx", "sc", "stwcx.", "amoswap"} \cup RiscvAmo
      PROVE  /\ i.m \notin Loads /\ i.m \notin Stores /\ i.m \notin ArmExclusiveLoads
             /\ i.m \notin ArmExclusiveStores /\ i.m \notin {"strd", "push"}
  <2>1. i.m \notin Loads \cup Stores \cup Exclusive \cup {"push"}
    BY <1>1, OneOperation DEF RiscvAmo
  <2>2. i.m # "strd"
    BY <1>1 DEF RiscvAmo
  <2> QED
    BY <2>1, <2>2 DEF Exclusive
<1>2. ASSUME i.m \in {"lr", "lwarx"} PROVE Accesses(i, regs) = {load}
  <2>1. i.m \notin RiscvAmo
    BY <1>2 DEF RiscvAmo
  <2> QED
    BY <1>1, <1>2, <2>1 DEF Accesses
<1>3. ASSUME i.m \in {"sc", "stwcx."} PROVE Accesses(i, regs) = {store}
  <2>1. i.m \notin RiscvAmo
    BY <1>3 DEF RiscvAmo
  <2> QED
    BY <1>1, <1>3, <2>1 DEF Accesses
<1>4. ASSUME i.m = "amoswap" PROVE Accesses(i, regs) = {load, store}
  BY <1>1, <1>4 DEF Accesses
<1>5. ASSUME i.m \in RiscvAmo \ {"amoswap"} PROVE Accesses(i, regs) = {load, [store EXCEPT !.value = None]}
  <2>1. i.m \notin {"lr", "lwarx", "sc", "stwcx.", "amoswap", "mrs", "mfspr", "msr", "mtspr"} \cup CsrForms
    BY <1>5 DEF RiscvAmo, CsrForms
  <2> QED
    BY <1>1, <1>5, <2>1 DEF Accesses, CsrForms
<1> QED
  BY <1>2, <1>3, <1>4, <1>5

LEMMA SystemAccess ==
  ASSUME NEW i, NEW regs
  PROVE  /\ i.m \in {"mrs", "mfspr"} => Accesses(i, regs) = {Fact("SYSTEM_REGISTER_READ")}
         /\ i.m \in {"msr", "mtspr"} => Accesses(i, regs) = {Fact("SYSTEM_REGISTER_WRITE")}
<1>1. ASSUME i.m \in {"mrs", "mfspr", "msr", "mtspr"}
      PROVE  /\ i.m \notin Loads /\ i.m \notin Stores /\ i.m \notin ArmExclusiveLoads
             /\ i.m \notin ArmExclusiveStores /\ i.m \notin RiscvAmo
  BY <1>1 DEF Loads, Stores, ArmLoads, ArmStores, ArmExclusiveLoads, ArmExclusiveStores, RiscvAmo
<1>2. ASSUME i.m \in {"mrs", "mfspr"} PROVE Accesses(i, regs) = {Fact("SYSTEM_REGISTER_READ")}
  BY <1>1, <1>2 DEF Accesses
<1>3. ASSUME i.m \in {"msr", "mtspr"} PROVE Accesses(i, regs) = {Fact("SYSTEM_REGISTER_WRITE")}
  BY <1>1, <1>3 DEF Accesses
<1> QED
  BY <1>2, <1>3

LEMMA CsrAccess ==
  ASSUME NEW i, NEW r, NEW regs, NEW S, i.m \in CsrAll
  PROVE  Accesses(i, regs) = Csr(i, r).facts
<1>0. /\ i.m \notin Loads /\ i.m \notin Stores /\ i.m \notin ArmExclusiveLoads
      /\ i.m \notin ArmExclusiveStores /\ i.m \notin RiscvAmo
  BY DEF CsrAll, CsrWrites, CsrSwaps, CsrSetsClears, Loads, Stores, ArmLoads, ArmStores,
     ArmExclusiveLoads, ArmExclusiveStores, RiscvAmo
<1> DEFINE R == {Fact("SYSTEM_REGISTER_READ")}
           W == {Fact("SYSTEM_REGISTER_WRITE")}
<1>1. CASE i.m = "csrr"
  <2>1. Accesses(i, regs) = R
    BY <1>0, <1>1 DEF Accesses
  <2>2. Csr(i, r).facts = R \cup {}
    BY <1>1 DEF Csr, Effect, CsrWrites, CsrSwaps, CsrSetsClears
  <2> QED
    BY <2>1, <2>2
<1>2. CASE i.m \in CsrWrites
  <2>1. Accesses(i, regs) = W
    BY <1>0, <1>2 DEF Accesses, CsrWrites
  <2>2. Csr(i, r).facts = {} \cup W
    BY <1>2 DEF Csr, Effect, CsrWrites, CsrSwaps, CsrSetsClears
  <2> QED
    BY <2>1, <2>2
<1>3. CASE i.m \in CsrSwaps
  <2>1. Accesses(i, regs) = W \cup (IF i.d = Zero THEN {} ELSE R)
    BY <1>0, <1>3 DEF Accesses, CsrSwaps
  <2>2. Csr(i, r).facts = (IF i.d # Zero THEN R ELSE {}) \cup W
    BY <1>3 DEF Csr, Effect, CsrWrites, CsrSwaps, CsrSetsClears
  <2> QED
    BY <2>1, <2>2
<1>4. CASE i.m \in {"csrs", "csrc", "csrrs", "csrrc"}
  <2>1. Accesses(i, regs) = R \cup (IF i.s = Zero THEN {} ELSE W)
    BY <1>0, <1>4 DEF Accesses
  <2>2. Csr(i, r).facts = R \cup (IF ~(i.s = Zero) THEN W ELSE {})
    BY <1>4 DEF Csr, Effect, CsrWrites, CsrSwaps, CsrSetsClears, CsrImmediate
  <2> QED
    BY <2>1, <2>2
<1>5. CASE i.m \in {"csrsi", "csrci", "csrrsi", "csrrci"}
  <2>1. Accesses(i, regs) = R \cup (IF i.n = 0 THEN {} ELSE W)
    BY <1>0, <1>5 DEF Accesses
  <2>2. Csr(i, r).facts = R \cup (IF ~(i.n = 0) THEN W ELSE {})
    BY <1>5 DEF Csr, Effect, CsrWrites, CsrSwaps, CsrSetsClears, CsrImmediate
  <2> QED
    BY <2>1, <2>2
<1> QED
  BY <1>1, <1>2, <1>3, <1>4, <1>5 DEF CsrAll, CsrSetsClears, CsrWrites, CsrSwaps

LEMMA NoAccess ==
  ASSUME NEW i, NEW regs, i.m \notin AnyAccess
  PROVE  Accesses(i, regs) = {}
<1>1. /\ i.m \notin Loads /\ i.m \notin Stores /\ i.m \notin Atomics /\ i.m \notin Systems
      /\ i.m # "push"
  BY DEF AnyAccess
<1>2. /\ i.m \notin CsrWrites /\ i.m \notin CsrSwaps /\ i.m \notin CsrSetsClears
      /\ i.m \notin {"csrr", "mrs", "mfspr", "msr", "mtspr"}
  BY <1>1 DEF Systems, CsrAll
<1>3. i.m # "strd" /\ i.m \notin RiscvAmo /\ i.m \notin {"lr", "lwarx", "sc", "stwcx.", "amoswap"}
  BY <1>1 DEF Stores, Atomics, RiscvAmo, ArmStores, ArmExclusiveStores
<1> QED
  BY <1>1, <1>2, <1>3 DEF Accesses, Atomics, Exclusive, CsrWrites, CsrSwaps, CsrSetsClears
-----------------------------------------------------------------------------
\* What FactsAreTrue asks of one instruction.
Tells(i, regs, S, told) ==
  LET said == {f \in told : f.kind \in AccessKinds}
      does == Accesses(i, regs)
  IN  /\ Fact("UNKNOWN") \in told \/ i.m = "push"
         \/ \A a \in does : \E f \in said : f.kind = Kind(i, a)
      /\ \A f \in said : \E a \in does :
           /\ f.kind = Kind(i, a)
           /\ f.address # None => f.address % Word = a.address \/ i.s \in S
           /\ f.value # None => f.value % Word = a.value \/ i.v \in S \/ i.m \in Miscounted
           /\ f.width # None => (f.width = a.width <=> i.m \notin Mismeasured)

LEMMA QuietTells ==
  ASSUME NEW i, NEW regs, NEW S, NEW f, i.m \notin AnyAccess \/ i.m = "push", f.kind \notin AccessKinds
  PROVE  Tells(i, regs, S, {f})
BY NoAccess DEF Tells

LEMMA UnknownTells ==
  ASSUME NEW i, NEW regs, NEW S
  PROVE  Tells(i, regs, S, {Fact("UNKNOWN")})
BY DEF Tells, Fact, AccessKinds

\* A fact of an access that gives what it knows.
Fits(i, S, f, a) ==
  /\ f.kind = Kind(i, a) /\ f.kind \in AccessKinds
  /\ f.address # None => f.address % Word = a.address \/ i.s \in S
  /\ f.value # None => f.value % Word = a.value \/ i.v \in S \/ i.m \in Miscounted
  /\ f.width # None => (f.width = a.width <=> i.m \notin Mismeasured)

LEMMA OneTells ==
  ASSUME NEW i, NEW regs, NEW S, NEW f, NEW a, Accesses(i, regs) = {a}, Fits(i, S, f, a)
  PROVE  Tells(i, regs, S, {f})
BY DEF Tells, Fits

LEMMA TwoTell ==
  ASSUME NEW i, NEW regs, NEW S, NEW f, NEW a, NEW g, NEW b,
         Accesses(i, regs) = {a, b}, Fits(i, S, f, a), Fits(i, S, g, b)
  PROVE  Tells(i, regs, S, {f, g})
BY DEF Tells, Fits

LEMMA SystemTells ==
  ASSUME NEW i, NEW regs, NEW S, NEW k \in {"SYSTEM_REGISTER_READ", "SYSTEM_REGISTER_WRITE"},
         i.m \notin Exclusive, Accesses(i, regs) = {Fact(k)}
  PROVE  Tells(i, regs, S, {Fact(k)})
BY OneTells DEF Fits, Fact, AccessKinds, Kind

LEMMA CsrTells ==
  ASSUME NEW i, NEW r, NEW regs, NEW S, i.m \in CsrAll
  PROVE  Tells(i, regs, S, Csr(i, r).facts)
<1>1. Accesses(i, regs) = Csr(i, r).facts
  BY CsrAccess
<1>2. \A f \in Csr(i, r).facts : f = Fact("SYSTEM_REGISTER_READ") \/ f = Fact("SYSTEM_REGISTER_WRITE")
  BY DEF Csr, Effect
<1>3. i.m \notin Exclusive
  BY DEF Exclusive, ArmExclusiveLoads, ArmExclusiveStores, CsrAll, CsrWrites, CsrSwaps, CsrSetsClears
<1> QED
  BY <1>1, <1>2, <1>3 DEF Tells, Fact, AccessKinds, Kind

\* The address of a load or a store, if the decoder has one.
Placed(i, r, address) == address = None \/ address = Plus(Known(r, i.s), i.n)

LEMMA LoadTells ==
  ASSUME NEW i, NEW r, NEW regs, NEW S, Agrees(r, regs, S), i.n \in Int \cup {None}, i.m \in Loads,
         NEW address, Placed(i, r, address), NEW width, width = Width(i.m) <=> i.m \notin Mismeasured
  PROVE  Tells(i, regs, S, {Memory("MEMORY_LOAD", address, None, width)})
<1> DEFINE f == Memory("MEMORY_LOAD", address, None, width)
           a == Memory("MEMORY_LOAD", Effective(i, regs), None, Width(i.m))
<1>1. Accesses(i, regs) = {a}
  BY LoadAccess
<1>2. i.m \notin Exclusive
  BY DEF Loads, Exclusive, ArmLoads, ArmExclusiveLoads, ArmExclusiveStores
<1>3. Fits(i, S, f, a)
  BY <1>2, AddressAgrees DEF Fits, Memory, AccessKinds, Placed, Kind
<1> QED
  BY <1>1, <1>3, OneTells

LEMMA StoreTells ==
  ASSUME NEW i, NEW r, NEW regs, NEW S, Agrees(r, regs, S), i.n \in Int \cup {None}, i.m \in Stores,
         NEW address, Placed(i, r, address), NEW width, width = Width(i.m) <=> i.m \notin Mismeasured
  PROVE  Tells(i, regs, S, {Memory("MEMORY_STORE", address, Known(r, i.v), width)})
<1>1. PICK stored :
        /\ Accesses(i, regs) = {Memory("MEMORY_STORE", Effective(i, regs), stored, Width(i.m))}
        /\ stored = Content(regs, i.v) \/ i.m = "strd"
  BY StoreAccess
<1> DEFINE f == Memory("MEMORY_STORE", address, Known(r, i.v), width)
           a == Memory("MEMORY_STORE", Effective(i, regs), stored, Width(i.m))
<1>2. i.m \notin Exclusive
  BY DEF Stores, Exclusive, ArmStores, ArmExclusiveLoads, ArmExclusiveStores
<1>3. f.value # None => f.value % Word = a.value \/ i.v \in S \/ i.m \in Miscounted
  BY <1>1, KnownAgrees DEF Memory, Miscounted
<1>4. f.address # None => f.address % Word = a.address \/ i.s \in S
  BY AddressAgrees DEF Memory, Placed
<1>5. Fits(i, S, f, a)
  BY <1>2, <1>3, <1>4 DEF Fits, Memory, AccessKinds, Kind
<1> QED
  BY <1>1, <1>5, OneTells

\* Exclusive accesses are taken for plain ones, and a store for one of its status register.
LEMMA ExclusiveTells ==
  ASSUME NEW i, NEW r, NEW regs, NEW S, Agrees(r, regs, S), i.n \in Int \cup {None},
         NEW address, Placed(i, r, address), NEW value, NEW width,
         width = Width(i.m) <=> i.m \notin Mismeasured
  PROVE  /\ i.m \in ArmExclusiveLoads => Tells(i, regs, S, {Memory("MEMORY_LOAD", address, None, width)})
         /\ i.m \in ArmExclusiveStores => Tells(i, regs, S, {Memory("MEMORY_STORE", address, value, width)})
<1>1. ASSUME i.m \in ArmExclusiveLoads
      PROVE  Tells(i, regs, S, {Memory("MEMORY_LOAD", address, None, width)})
  <2> DEFINE f == Memory("MEMORY_LOAD", address, None, width)
             a == Memory("ATOMIC_LOAD", Effective(i, regs), None, Width(i.m))
  <2>1. Accesses(i, regs) = {a}
    BY <1>1, ExclusiveAccess
  <2>2. Fits(i, S, f, a)
    BY <1>1, AddressAgrees DEF Fits, Memory, AccessKinds, Placed, Kind, Exclusive
  <2> QED
    BY <2>1, <2>2, OneTells
<1>2. ASSUME i.m \in ArmExclusiveStores
      PROVE  Tells(i, regs, S, {Memory("MEMORY_STORE", address, value, width)})
  <2> DEFINE f == Memory("MEMORY_STORE", address, value, width)
             a == Memory("ATOMIC_STORE", Effective(i, regs), Content(regs, i.v), Width(i.m))
  <2>1. Accesses(i, regs) = {a}
    BY <1>2, ExclusiveAccess
  <2>2. i.m \in Exclusive /\ i.m \in Miscounted
    BY <1>2 DEF Exclusive, Miscounted
  <2>3. Fits(i, S, f, a)
    BY <2>2, AddressAgrees DEF Fits, Memory, AccessKinds, Placed, Kind
  <2> QED
    BY <2>1, <2>3, OneTells
<1> QED
  BY <1>1, <1>2

LEMMA AtomicTells ==
  ASSUME NEW i, NEW r, NEW regs, NEW S, Agrees(r, regs, S)
  PROVE  LET load  == Memory("ATOMIC_LOAD", Known(r, i.s), None, 32)
             store == Memory("ATOMIC_STORE", Known(r, i.s), Known(r, i.v), 32)
         IN  /\ i.m = "lr" => Tells(i, regs, S, {load})
             /\ i.m = "sc" => Tells(i, regs, S, {store})
             /\ i.m \in RiscvAmo => Tells(i, regs, S, {load, store})
             /\ i.m = "lwarx" => Tells(i, regs, S, {Fact("ATOMIC_LOAD")})
             /\ i.m = "stwcx." => Tells(i, regs, S, {Fact("ATOMIC_STORE")})
<1> DEFINE load  == Memory("ATOMIC_LOAD", Known(r, i.s), None, 32)
           store == Memory("ATOMIC_STORE", Known(r, i.s), Known(r, i.v), 32)
           does  == Memory("ATOMIC_LOAD", Content(regs, i.s), None, 32)
           puts  == Memory("ATOMIC_STORE", Content(regs, i.s), Content(regs, i.v), 32)
           gives == [puts EXCEPT !.value = None]
<1> SUFFICES ASSUME i.m \in {"lr", "sc", "lwarx", "stwcx."} \cup RiscvAmo
             PROVE  /\ i.m = "lr" => Tells(i, regs, S, {load})
                    /\ i.m = "sc" => Tells(i, regs, S, {store})
                    /\ i.m \in RiscvAmo => Tells(i, regs, S, {load, store})
                    /\ i.m = "lwarx" => Tells(i, regs, S, {Fact("ATOMIC_LOAD")})
                    /\ i.m = "stwcx." => Tells(i, regs, S, {Fact("ATOMIC_STORE")})
  OBVIOUS
<1>0. i.m \notin Exclusive /\ i.m \notin Mismeasured
  BY DEF Exclusive, Mismeasured, ArmExclusiveLoads, ArmExclusiveStores, RiscvAmo
<1>1. Fits(i, S, load, does)
  BY <1>0, KnownAgrees DEF Fits, Memory, AccessKinds, Kind
<1>2. Fits(i, S, store, puts)
  BY <1>0, KnownAgrees DEF Fits, Memory, AccessKinds, Kind
<1>3. Fits(i, S, Fact("ATOMIC_LOAD"), does) /\ Fits(i, S, Fact("ATOMIC_STORE"), puts)
  BY <1>0 DEF Fits, Memory, Fact, AccessKinds, Kind
<1>4. i.m \in RiscvAmo \ {"amoswap"} => Fits(i, S, store, gives)
  BY <1>0, KnownAgrees DEF Fits, Memory, AccessKinds, Kind, Miscounted
<1>5. /\ i.m \in {"lr", "lwarx"} => Accesses(i, regs) = {does}
      /\ i.m \in {"sc", "stwcx."} => Accesses(i, regs) = {puts}
      /\ i.m = "amoswap" => Accesses(i, regs) = {does, puts}
      /\ i.m \in RiscvAmo \ {"amoswap"} => Accesses(i, regs) = {does, gives}
  BY AtomicAccess
<1> HIDE DEF load, store, does, puts, gives
<1> QED
  BY <1>1, <1>2, <1>3, <1>4, <1>5, OneTells, TwoTell
-----------------------------------------------------------------------------
(* What an instruction leaves known.                                       *)

\* Nothing, or what was known before, or one register more or less; what is assigned is
\* the result of the instruction, or the register is stale after it.
Moves(i, r, regs, S, known) ==
  \/ known = NothingKnown
  \/ known = r /\ (i.d \in Registers => i.d \in Overlooked(i))
  \/ \E v \in Int \cup {None} :
       /\ known = Assign(r, i.d, v)
       /\ v # None => i.m \notin Conditional
       /\ v # None /\ i.d \in Registers => Results(i, regs) = {v % Word} \/ i.d \in StaleAfter(i, S)

Sound(i, r, regs, S, e) ==
  /\ Tells(i, regs, S, e.facts) /\ Fact("UNKNOWN") \notin e.facts
  /\ Moves(i, r, regs, S, e.known)

QuietKinds ==
  {"INSTRUCTION", "MEMORY_BARRIER", "INSTRUCTION_BARRIER", "TLB_INVALIDATE", "RETURN",
   "EXCEPTION_RETURN", "CONDITIONAL_BRANCH", "DIRECT_CALL", "INDIRECT_CALL", "DIRECT_BRANCH",
   "INDIRECT_BRANCH"}

LEMMA QuietSound ==
  ASSUME NEW i, NEW r, NEW regs, NEW S, NEW known, NEW f, Moves(i, r, regs, S, known),
         i.m \notin AnyAccess \/ i.m = "push", f.kind \in QuietKinds
  PROVE  Sound(i, r, regs, S, Effect(known, {f}))
<1>1. f.kind \notin AccessKinds /\ f.kind # "UNKNOWN"
  BY DEF QuietKinds, AccessKinds
<1>2. Tells(i, regs, S, {f})
  BY <1>1, QuietTells
<1>3. f # Fact("UNKNOWN")
  BY <1>1 DEF Fact
<1> QED
  BY <1>2, <1>3 DEF Sound, Effect

LEMMA KillMoves ==
  ASSUME NEW i, NEW r, NEW regs, NEW S
  PROVE  Moves(i, r, regs, S, Kill(r, i.d))
BY DEF Moves, Kill

LEMMA StayMoves ==
  ASSUME NEW i, NEW r, NEW regs, NEW S, Listed(i), i.m \in WithoutResult
  PROVE  Moves(i, r, regs, S, r)
BY DEF Moves, Listed

LEMMA EndMoves ==
  ASSUME NEW i, NEW r, NEW regs, NEW S
  PROVE  Moves(i, r, regs, S, NothingKnown)
BY DEF Moves

LEMMA AssignMoves ==
  ASSUME NEW i, NEW r, NEW regs, NEW S, NEW v \in Int \cup {None}, i.m \notin Conditional,
         v # None /\ i.d \in Registers => Results(i, regs) = {v % Word} \/ i.d \in StaleAfter(i, S)
  PROVE  Moves(i, r, regs, S, Assign(r, i.d, v))
BY DEF Moves

Constants == {"li", "mov", "movs", "movw", "lui", "lis", "addi", "mv", "addis", "movt"}

\* The constants that are moved to a register.
LEMMA ConstantMoves ==
  ASSUME NEW i, NEW r, NEW regs, NEW S, Agrees(r, regs, S), Listed(i), i.m \in Constants
  PROVE  /\ i.m \in {"li", "mov", "movs", "movw"} => Moves(i, r, regs, S, Assign(r, i.d, i.n))
         /\ i.m \in {"lui", "lis"} => Moves(i, r, regs, S, Assign(r, i.d, Times(i.n, Upper)))
         /\ i.m = "addi" => Moves(i, r, regs, S, Assign(r, i.d, Plus(Known(r, i.s), i.n)))
         /\ i.m = "mv" => Moves(i, r, regs, S, Assign(r, i.d, Known(r, i.s)))
         /\ i.m = "addis" => Moves(i, r, regs, S, Assign(r, i.d, Plus(Known(r, i.s), Times(i.n, Upper))))
         /\ i.m = "movt" => Moves(i, r, regs, S, Assign(r, i.d, Movt(i, r)))
<1>0. i.m \notin Conditional /\ i.n \in Int \cup {None}
  BY DEF Conditional, Constants, Listed
<1>a. CopiedFrom(i) \in S => i.d \in StaleAfter(i, S)
  BY DEF StaleAfter
<1>1. ASSUME i.m \in {"li", "mov", "movs", "movw"}
      PROVE  Moves(i, r, regs, S, Assign(r, i.d, i.n))
  <2>1. i.n # None => Results(i, regs) = {i.n % Word}
    BY <1>1 DEF Results
  <2> QED
    BY <1>0, <2>1, AssignMoves
<1>2. ASSUME i.m \in {"lui", "lis"}
      PROVE  Moves(i, r, regs, S, Assign(r, i.d, Times(i.n, Upper)))
  <2>1. i.n \in Int
    BY <1>2 DEF Listed
  <2>2. Results(i, regs) = {SignExtended(i.n * Upper)}
    BY <1>2 DEF Results
  <2>3. Times(i.n, Upper) = i.n * Upper /\ i.n * Upper \in Int
    BY <2>1, UpperAssumption, ProgramsAssumption DEF Times
  <2>4. i.d \in Registers => SignExtended(i.n * Upper) = (i.n * Upper) % Word \/ i.d \in StaleAfter(i, S)
    BY <1>2 DEF StaleAfter, Overlooked
  <2> QED
    BY <1>0, <2>2, <2>3, <2>4, AssignMoves
<1>3. ASSUME i.m = "addi"
      PROVE  Moves(i, r, regs, S, Assign(r, i.d, Plus(Known(r, i.s), i.n)))
  <2>1. Results(i, regs) = {Effective(i, regs)} /\ CopiedFrom(i) = i.s
    BY <1>3 DEF Results, CopiedFrom
  <2> QED
    BY <1>0, <1>a, <2>1, AddressAgrees, AssignMoves
<1>4. ASSUME i.m = "mv"
      PROVE  Moves(i, r, regs, S, Assign(r, i.d, Known(r, i.s)))
  <2>1. Results(i, regs) = {Content(regs, i.s)} /\ CopiedFrom(i) = i.s
    BY <1>4 DEF Results, CopiedFrom
  <2> QED
    BY <1>0, <1>a, <2>1, KnownAgrees, AssignMoves
<1>5. ASSUME i.m = "addis"
      PROVE  Moves(i, r, regs, S, Assign(r, i.d, Plus(Known(r, i.s), Times(i.n, Upper))))
  <2>1. Results(i, regs) = {(Content(regs, i.s) + i.n * Upper) % Word} /\ CopiedFrom(i) = i.s
    BY <1>5 DEF Results, CopiedFrom
  <2> DEFINE k == Known(r, i.s)
             n == Times(i.n, Upper)
             v == Plus(k, n)
  <2>2. k \in Int \cup {None} /\ (k # None => k % Word = Content(regs, i.s) \/ i.s \in S)
    BY KnownAgrees
  <2>3. n \in Int \cup {None} /\ (n # None => n = i.n * Upper)
    BY <1>0, UpperAssumption DEF Times
  <2>4. v \in Int \cup {None}
    <3> HIDE DEF k, n
    <3> QED
      BY <2>2, <2>3 DEF Plus
  <2>5. CASE k = None \/ n = None \/ i.s \in S
    <3>1. v = None \/ i.d \in StaleAfter(i, S)
      BY <1>a, <2>1, <2>5 DEF Plus
    <3> QED
      BY <1>0, <2>4, <3>1, AssignMoves
  <2>6. CASE k # None /\ n # None /\ i.s \notin S
    <3> HIDE DEF k, n
    <3>1. k \in Int /\ n \in Int /\ v = k + n
      BY <2>2, <2>3, <2>6 DEF Plus
    <3>2. ((k % Word) + n) % Word = (k + n) % Word
      BY <3>1, ProgramsAssumption, ModPlus
    <3>3. Results(i, regs) = {v % Word}
      BY <2>1, <2>2, <2>3, <2>6, <3>1, <3>2
    <3> QED
      BY <1>0, <2>4, <3>3, AssignMoves DEF k, n
  <2> QED
    BY <2>5, <2>6
<1>6. ASSUME i.m = "movt"
      PROVE  Moves(i, r, regs, S, Assign(r, i.d, Movt(i, r)))
  <2>1. Results(i, regs) = {((Content(regs, i.d) % Upper) + i.n * Upper) % Word} /\ CopiedFrom(i) = i.d
    BY <1>6 DEF Results, CopiedFrom
  <2> DEFINE k == Known(r, i.d)
             v == Movt(i, r)
  <2>2. k \in Int \cup {None} /\ (k # None => k % Word = Content(regs, i.d) \/ i.d \in S)
    BY KnownAgrees
  <2>3. v = IF i.n = None \/ k = None THEN None ELSE (k % Upper) + (i.n * Upper)
    BY DEF Movt
  <2> HIDE DEF k, v
  <2>4. CASE k = None \/ i.n = None
    <3>1. v = None
      BY <2>3, <2>4
    <3> QED
      BY <1>0, <3>1, AssignMoves DEF v
  <2>5. CASE k # None /\ i.n # None
    <3>1. k \in Int /\ i.n \in Int
      BY <1>0, <2>2, <2>5
    <3>2. v = (k % Upper) + (i.n * Upper)
      BY <2>3, <2>5
    <3>3. v \in Int /\ v % Word = (((k % Word) % Upper) + (i.n * Upper)) % Word
      BY <3>1, <3>2, HalvesAgree
    <3>4. Results(i, regs) = {v % Word} \/ i.d \in StaleAfter(i, S)
      BY <1>a, <2>1, <2>2, <2>5, <3>3
    <3> QED
      BY <1>0, <3>3, <3>4, AssignMoves DEF v
  <2> QED
    BY <2>4, <2>5
<1> QED
  BY <1>1, <1>2, <1>3, <1>4, <1>5, <1>6

-----------------------------------------------------------------------------
(* The three decoders, arm by arm.                                         *)

RiscvNames ==
  CsrAll
  \cup {"li"}
  \cup {"lui"}
  \cup {"addi"}
  \cup {"mv"}
  \cup DOMAIN RiscvLoads
  \cup DOMAIN RiscvStores
  \cup {"fence", "fence.tso"}
  \cup {"fence.i"}
  \cup {"sfence.vma"}
  \cup {"lr"}
  \cup {"sc"}
  \cup RiscvAmo
  \cup {"ret"}
  \cup {"mret", "sret", "uret"}
  \cup RiscvBranches
  \cup RiscvCalls
  \cup {"j", "jr"}
  \cup RiscvAlu
  \cup {"nop"}

LEMMA RiscvUnknown ==
  ASSUME NEW i, NEW r, i.m \notin RiscvNames
  PROVE  Riscv(i, r) = Unsupported
BY DEF Riscv, RiscvNames

LEMMA RiscvSound ==
  ASSUME NEW i, NEW r, NEW regs, NEW S, Agrees(r, regs, S), Listed(i), i.m \in RiscvNames
  PROVE  Sound(i, r, regs, S, Riscv(i, r))
<1> DEFINE e == Riscv(i, r)
<1>1. CASE i.m \in CsrAll
  <2>1. e = Csr(i, r)
    BY <1>1 DEF Riscv, CsrAll, CsrWrites, CsrSwaps, CsrSetsClears, RiscvLoads, RiscvStores,
       RiscvAmo, RiscvBranches, RiscvCalls, RiscvAlu
  <2>2. Tells(i, regs, S, e.facts)
    BY <1>1, <2>1, CsrTells
  <2>3. e.known = Kill(r, i.d) /\ Fact("UNKNOWN") \notin e.facts
    BY <2>1 DEF Csr, Effect, Fact
  <2> QED
    BY <2>2, <2>3, KillMoves DEF Sound
<1>2. CASE i.m = "li"
  <2>1. e = Effect(Assign(r, i.d, i.n), {Fact("INSTRUCTION")})
    BY <1>2 DEF Riscv, CsrAll, CsrWrites, CsrSwaps, CsrSetsClears, RiscvLoads, RiscvStores,
       RiscvAmo, RiscvBranches, RiscvCalls, RiscvAlu
  <2>2. Moves(i, r, regs, S, Assign(r, i.d, i.n))
    BY <1>2, ConstantMoves DEF Constants
  <2>3. i.m \notin AnyAccess
    BY <1>2 DEF AnyAccess, Loads, Stores, Atomics, Exclusive, Systems, CsrAll, CsrWrites, CsrSwaps,
       CsrSetsClears, ArmLoads, ArmStores, ArmExclusiveLoads, ArmExclusiveStores, RiscvAmo
  <2>4. (Fact("INSTRUCTION")).kind \in QuietKinds
    BY DEF Fact, QuietKinds
  <2> QED
    BY <2>1, <2>2, <2>3, <2>4, QuietSound
<1>3. CASE i.m = "lui"
  <2>1. e = Effect(Assign(r, i.d, Times(i.n, Upper)), {Fact("INSTRUCTION")})
    BY <1>3 DEF Riscv, CsrAll, CsrWrites, CsrSwaps, CsrSetsClears, RiscvLoads, RiscvStores,
       RiscvAmo, RiscvBranches, RiscvCalls, RiscvAlu
  <2>2. Moves(i, r, regs, S, Assign(r, i.d, Times(i.n, Upper)))
    BY <1>3, ConstantMoves DEF Constants
  <2>3. i.m \notin AnyAccess
    BY <1>3 DEF AnyAccess, Loads, Stores, Atomics, Exclusive, Systems, CsrAll, CsrWrites, CsrSwaps,
       CsrSetsClears, ArmLoads, ArmStores, ArmExclusiveLoads, ArmExclusiveStores, RiscvAmo
  <2>4. (Fact("INSTRUCTION")).kind \in QuietKinds
    BY DEF Fact, QuietKinds
  <2> QED
    BY <2>1, <2>2, <2>3, <2>4, QuietSound
<1>4. CASE i.m = "addi"
  <2>1. e = Effect(Assign(r, i.d, Plus(Known(r, i.s), i.n)), {Fact("INSTRUCTION")})
    BY <1>4 DEF Riscv, CsrAll, CsrWrites, CsrSwaps, CsrSetsClears, RiscvLoads, RiscvStores,
       RiscvAmo, RiscvBranches, RiscvCalls, RiscvAlu
  <2>2. Moves(i, r, regs, S, Assign(r, i.d, Plus(Known(r, i.s), i.n)))
    BY <1>4, ConstantMoves DEF Constants
  <2>3. i.m \notin AnyAccess
    BY <1>4 DEF AnyAccess, Loads, Stores, Atomics, Exclusive, Systems, CsrAll, CsrWrites, CsrSwaps,
       CsrSetsClears, ArmLoads, ArmStores, ArmExclusiveLoads, ArmExclusiveStores, RiscvAmo
  <2>4. (Fact("INSTRUCTION")).kind \in QuietKinds
    BY DEF Fact, QuietKinds
  <2> QED
    BY <2>1, <2>2, <2>3, <2>4, QuietSound
<1>5. CASE i.m = "mv"
  <2>1. e = Effect(Assign(r, i.d, Known(r, i.s)), {Fact("INSTRUCTION")})
    BY <1>5 DEF Riscv, CsrAll, CsrWrites, CsrSwaps, CsrSetsClears, RiscvLoads, RiscvStores,
       RiscvAmo, RiscvBranches, RiscvCalls, RiscvAlu
  <2>2. Moves(i, r, regs, S, Assign(r, i.d, Known(r, i.s)))
    BY <1>5, ConstantMoves DEF Constants
  <2>3. i.m \notin AnyAccess
    BY <1>5 DEF AnyAccess, Loads, Stores, Atomics, Exclusive, Systems, CsrAll, CsrWrites, CsrSwaps,
       CsrSetsClears, ArmLoads, ArmStores, ArmExclusiveLoads, ArmExclusiveStores, RiscvAmo
  <2>4. (Fact("INSTRUCTION")).kind \in QuietKinds
    BY DEF Fact, QuietKinds
  <2> QED
    BY <2>1, <2>2, <2>3, <2>4, QuietSound
<1>6. CASE i.m \in DOMAIN RiscvLoads
  <2>1. e = Effect(Kill(r, i.d),
                   {Memory("MEMORY_LOAD", Plus(Known(r, i.s), i.n), None, RiscvLoads[i.m])})
    BY <1>6 DEF Riscv, CsrAll, CsrWrites, CsrSwaps, CsrSetsClears, RiscvLoads, RiscvStores,
       RiscvAmo, RiscvBranches, RiscvCalls, RiscvAlu
  <2>2. Moves(i, r, regs, S, Kill(r, i.d))
    BY <1>6, KillMoves
  <2>3. i.m \in Loads /\ RiscvLoads[i.m] = Width(i.m) /\ i.m \notin Mismeasured
    BY <1>6 DEF RiscvLoads, Loads, Width, Bytes, Halves, Doubles, Mismeasured
  <2>4. Tells(i, regs, S, e.facts)
    <3>1. Placed(i, r, Plus(Known(r, i.s), i.n)) /\ i.n \in Int \cup {None}
      BY DEF Placed, Listed
    <3>2. e.facts = {Memory("MEMORY_LOAD", Plus(Known(r, i.s), i.n), None, RiscvLoads[i.m])}
      BY <2>1 DEF Effect
    <3> QED
      BY <2>3, <3>1, <3>2, LoadTells
  <2>5. Fact("UNKNOWN") \notin e.facts
    BY <2>1 DEF Effect, Fact, Memory
  <2> QED
    BY <2>1, <2>2, <2>4, <2>5 DEF Sound, Effect
<1>7. CASE i.m \in DOMAIN RiscvStores
  <2>1. e = Effect(r, {Memory("MEMORY_STORE", Plus(Known(r, i.s), i.n), Known(r, i.v),
                             RiscvStores[i.m])})
    BY <1>7 DEF Riscv, CsrAll, CsrWrites, CsrSwaps, CsrSetsClears, RiscvLoads, RiscvStores,
       RiscvAmo, RiscvBranches, RiscvCalls, RiscvAlu
  <2>2. Moves(i, r, regs, S, r)
    BY <1>7, StayMoves DEF WithoutResult, Stores, ArmExclusiveStores, RiscvStores
  <2>3. i.m \in Stores /\ RiscvStores[i.m] = Width(i.m) /\ i.m \notin Mismeasured
    BY <1>7 DEF RiscvStores, Stores, Width, Bytes, Halves, Doubles, Mismeasured
  <2>4. Tells(i, regs, S, e.facts)
    <3>1. Placed(i, r, Plus(Known(r, i.s), i.n)) /\ i.n \in Int \cup {None}
      BY DEF Placed, Listed
    <3>2. e.facts = {Memory("MEMORY_STORE", Plus(Known(r, i.s), i.n), Known(r, i.v), RiscvStores[i.m])}
      BY <2>1 DEF Effect
    <3> QED
      BY <2>3, <3>1, <3>2, StoreTells
  <2>5. Fact("UNKNOWN") \notin e.facts
    BY <2>1 DEF Effect, Fact, Memory
  <2> QED
    BY <2>1, <2>2, <2>4, <2>5 DEF Sound, Effect
<1>8. CASE i.m \in {"fence", "fence.tso"}
  <2>1. e = Effect(r, {Fact("MEMORY_BARRIER")})
    BY <1>8 DEF Riscv, CsrAll, CsrWrites, CsrSwaps, CsrSetsClears, RiscvLoads, RiscvStores,
       RiscvAmo, RiscvBranches, RiscvCalls, RiscvAlu
  <2>2. Moves(i, r, regs, S, r)
    BY <1>8, StayMoves DEF WithoutResult, Stores
  <2>3. i.m \notin AnyAccess
    BY <1>8 DEF AnyAccess, Loads, Stores, Atomics, Exclusive, Systems, CsrAll, CsrWrites, CsrSwaps,
       CsrSetsClears, ArmLoads, ArmStores, ArmExclusiveLoads, ArmExclusiveStores, RiscvAmo
  <2>4. (Fact("MEMORY_BARRIER")).kind \in QuietKinds
    BY DEF Fact, QuietKinds
  <2> QED
    BY <2>1, <2>2, <2>3, <2>4, QuietSound
<1>9. CASE i.m = "fence.i"
  <2>1. e = Effect(r, {Fact("INSTRUCTION_BARRIER")})
    BY <1>9 DEF Riscv, CsrAll, CsrWrites, CsrSwaps, CsrSetsClears, RiscvLoads, RiscvStores,
       RiscvAmo, RiscvBranches, RiscvCalls, RiscvAlu
  <2>2. Moves(i, r, regs, S, r)
    BY <1>9, StayMoves DEF WithoutResult, Stores
  <2>3. i.m \notin AnyAccess
    BY <1>9 DEF AnyAccess, Loads, Stores, Atomics, Exclusive, Systems, CsrAll, CsrWrites, CsrSwaps,
       CsrSetsClears, ArmLoads, ArmStores, ArmExclusiveLoads, ArmExclusiveStores, RiscvAmo
  <2>4. (Fact("INSTRUCTION_BARRIER")).kind \in QuietKinds
    BY DEF Fact, QuietKinds
  <2> QED
    BY <2>1, <2>2, <2>3, <2>4, QuietSound
<1>10. CASE i.m = "sfence.vma"
  <2>1. e = Effect(r, {Fact("TLB_INVALIDATE")})
    BY <1>10 DEF Riscv, CsrAll, CsrWrites, CsrSwaps, CsrSetsClears, RiscvLoads, RiscvStores,
       RiscvAmo, RiscvBranches, RiscvCalls, RiscvAlu
  <2>2. Moves(i, r, regs, S, r)
    BY <1>10, StayMoves DEF WithoutResult, Stores
  <2>3. i.m \notin AnyAccess
    BY <1>10 DEF AnyAccess, Loads, Stores, Atomics, Exclusive, Systems, CsrAll, CsrWrites, CsrSwaps,
       CsrSetsClears, ArmLoads, ArmStores, ArmExclusiveLoads, ArmExclusiveStores, RiscvAmo
  <2>4. (Fact("TLB_INVALIDATE")).kind \in QuietKinds
    BY DEF Fact, QuietKinds
  <2> QED
    BY <2>1, <2>2, <2>3, <2>4, QuietSound
<1>11. CASE i.m = "lr"
  <2>1. e = Effect(Kill(r, i.d), {Memory("ATOMIC_LOAD", Known(r, i.s), None, 32)})
    BY <1>11 DEF Riscv, CsrAll, CsrWrites, CsrSwaps, CsrSetsClears, RiscvLoads, RiscvStores,
       RiscvAmo, RiscvBranches, RiscvCalls, RiscvAlu
  <2>2. Moves(i, r, regs, S, Kill(r, i.d))
    BY <1>11, KillMoves
  <2>4. e.facts = {Memory("ATOMIC_LOAD", Known(r, i.s), None, 32)}
    BY <2>1 DEF Effect
  <2>5. Tells(i, regs, S, {Memory("ATOMIC_LOAD", Known(r, i.s), None, 32)})
    BY <1>11, AtomicTells
  <2>6. Fact("UNKNOWN") \notin e.facts
    BY <2>1 DEF Effect, Fact, Memory
  <2>7. Moves(i, r, regs, S, e.known)
    BY <2>1, <2>2 DEF Effect
  <2> QED
    BY <2>4, <2>5, <2>6, <2>7 DEF Sound
<1>12. CASE i.m = "sc"
  <2>1. e = Effect(Kill(r, i.d), {Memory("ATOMIC_STORE", Known(r, i.s), Known(r, i.v), 32)})
    BY <1>12 DEF Riscv, CsrAll, CsrWrites, CsrSwaps, CsrSetsClears, RiscvLoads, RiscvStores,
       RiscvAmo, RiscvBranches, RiscvCalls, RiscvAlu
  <2>2. Moves(i, r, regs, S, Kill(r, i.d))
    BY <1>12, KillMoves
  <2>4. e.facts = {Memory("ATOMIC_STORE", Known(r, i.s), Known(r, i.v), 32)}
    BY <2>1 DEF Effect
  <2>5. Tells(i, regs, S, {Memory("ATOMIC_STORE", Known(r, i.s), Known(r, i.v), 32)})
    BY <1>12, AtomicTells
  <2>6. Fact("UNKNOWN") \notin e.facts
    BY <2>1 DEF Effect, Fact, Memory
  <2>7. Moves(i, r, regs, S, e.known)
    BY <2>1, <2>2 DEF Effect
  <2> QED
    BY <2>4, <2>5, <2>6, <2>7 DEF Sound
<1>13. CASE i.m \in RiscvAmo
  <2>1. e = Effect(Kill(r, i.d), {Memory("ATOMIC_LOAD", Known(r, i.s), None, 32),
                                  Memory("ATOMIC_STORE", Known(r, i.s), Known(r, i.v), 32)})
    BY <1>13 DEF Riscv, CsrAll, CsrWrites, CsrSwaps, CsrSetsClears, RiscvLoads, RiscvStores,
       RiscvAmo, RiscvBranches, RiscvCalls, RiscvAlu
  <2>2. Moves(i, r, regs, S, Kill(r, i.d))
    BY <1>13, KillMoves
  <2>4. e.facts = {Memory("ATOMIC_LOAD", Known(r, i.s), None, 32),
                   Memory("ATOMIC_STORE", Known(r, i.s), Known(r, i.v), 32)}
    BY <2>1 DEF Effect
  <2>5. Tells(i, regs, S, {Memory("ATOMIC_LOAD", Known(r, i.s), None, 32),
                        Memory("ATOMIC_STORE", Known(r, i.s), Known(r, i.v), 32)})
    BY <1>13, AtomicTells
  <2>6. Fact("UNKNOWN") \notin e.facts
    BY <2>1 DEF Effect, Fact, Memory
  <2>7. Moves(i, r, regs, S, e.known)
    BY <2>1, <2>2 DEF Effect
  <2> QED
    BY <2>4, <2>5, <2>6, <2>7 DEF Sound
<1>14. CASE i.m = "ret"
  <2>1. e = Effect(NothingKnown, {Fact("RETURN")})
    BY <1>14 DEF Riscv, CsrAll, CsrWrites, CsrSwaps, CsrSetsClears, RiscvLoads, RiscvStores,
       RiscvAmo, RiscvBranches, RiscvCalls, RiscvAlu
  <2>2. Moves(i, r, regs, S, NothingKnown)
    BY <1>14, EndMoves
  <2>3. i.m \notin AnyAccess
    BY <1>14 DEF AnyAccess, Loads, Stores, Atomics, Exclusive, Systems, CsrAll, CsrWrites, CsrSwaps,
       CsrSetsClears, ArmLoads, ArmStores, ArmExclusiveLoads, ArmExclusiveStores, RiscvAmo
  <2>4. (Fact("RETURN")).kind \in QuietKinds
    BY DEF Fact, QuietKinds
  <2> QED
    BY <2>1, <2>2, <2>3, <2>4, QuietSound
<1>15. CASE i.m \in {"mret", "sret", "uret"}
  <2>1. e = Effect(NothingKnown, {Fact("EXCEPTION_RETURN")})
    BY <1>15 DEF Riscv, CsrAll, CsrWrites, CsrSwaps, CsrSetsClears, RiscvLoads, RiscvStores,
       RiscvAmo, RiscvBranches, RiscvCalls, RiscvAlu
  <2>2. Moves(i, r, regs, S, NothingKnown)
    BY <1>15, EndMoves
  <2>3. i.m \notin AnyAccess
    BY <1>15 DEF AnyAccess, Loads, Stores, Atomics, Exclusive, Systems, CsrAll, CsrWrites, CsrSwaps,
       CsrSetsClears, ArmLoads, ArmStores, ArmExclusiveLoads, ArmExclusiveStores, RiscvAmo
  <2>4. (Fact("EXCEPTION_RETURN")).kind \in QuietKinds
    BY DEF Fact, QuietKinds
  <2> QED
    BY <2>1, <2>2, <2>3, <2>4, QuietSound
<1>16. CASE i.m \in RiscvBranches
  <2>1. PICK f : f = [Fact("CONDITIONAL_BRANCH") EXCEPT !.address = i.n]
    OBVIOUS
  <2>2. e = Effect(NothingKnown, {f})
    BY <1>16, <2>1 DEF Riscv, CsrAll, CsrWrites, CsrSwaps, CsrSetsClears, RiscvLoads,
       RiscvStores, RiscvAmo, RiscvBranches, RiscvCalls, RiscvAlu
  <2>3. i.m \notin AnyAccess
    BY <1>16 DEF AnyAccess, Loads, Stores, Atomics, Exclusive, Systems, CsrAll, CsrWrites, CsrSwaps,
       CsrSetsClears, ArmLoads, ArmStores, ArmExclusiveLoads, ArmExclusiveStores, RiscvAmo, RiscvBranches
  <2>4. f.kind \in QuietKinds
    BY <2>1 DEF Fact, QuietKinds
  <2> QED
    BY <2>2, <2>3, <2>4, EndMoves, QuietSound
<1>17. CASE i.m \in RiscvCalls /\ i.d # Zero
  <2>1. e = Effect(NothingKnown, {Flow("DIRECT_CALL", "INDIRECT_CALL", i.n)})
    BY <1>17 DEF Riscv, CsrAll, CsrWrites, CsrSwaps, CsrSetsClears, RiscvLoads, RiscvStores,
       RiscvAmo, RiscvBranches, RiscvCalls, RiscvAlu
  <2>2. Moves(i, r, regs, S, NothingKnown)
    BY <1>17, EndMoves
  <2>3. i.m \notin AnyAccess
    BY <1>17 DEF AnyAccess, Loads, Stores, Atomics, Exclusive, Systems, CsrAll, CsrWrites, CsrSwaps,
       CsrSetsClears, ArmLoads, ArmStores, ArmExclusiveLoads, ArmExclusiveStores, RiscvAmo, RiscvCalls
  <2>4. (Flow("DIRECT_CALL", "INDIRECT_CALL", i.n)).kind \in QuietKinds
    BY DEF Flow, Fact, QuietKinds
  <2> QED
    BY <2>1, <2>2, <2>3, <2>4, QuietSound
<1>18. CASE i.m \in {"j", "jr"} \/ (i.m \in RiscvCalls /\ i.d = Zero)
  <2>1. e = Effect(NothingKnown, {Flow("DIRECT_BRANCH", "INDIRECT_BRANCH", i.n)})
    BY <1>18 DEF Riscv, CsrAll, CsrWrites, CsrSwaps, CsrSetsClears, RiscvLoads, RiscvStores,
       RiscvAmo, RiscvBranches, RiscvCalls, RiscvAlu
  <2>2. Moves(i, r, regs, S, NothingKnown)
    BY <1>18, EndMoves
  <2>3. i.m \notin AnyAccess
    BY <1>18 DEF AnyAccess, Loads, Stores, Atomics, Exclusive, Systems, CsrAll, CsrWrites, CsrSwaps,
       CsrSetsClears, ArmLoads, ArmStores, ArmExclusiveLoads, ArmExclusiveStores, RiscvAmo, RiscvCalls
  <2>4. (Flow("DIRECT_BRANCH", "INDIRECT_BRANCH", i.n)).kind \in QuietKinds
    BY DEF Flow, Fact, QuietKinds
  <2> QED
    BY <2>1, <2>2, <2>3, <2>4, QuietSound
<1>19. CASE i.m \in RiscvAlu
  <2>1. e = Effect(Kill(r, i.d), {Fact("INSTRUCTION")})
    BY <1>19 DEF Riscv, CsrAll, CsrWrites, CsrSwaps, CsrSetsClears, RiscvLoads, RiscvStores,
       RiscvAmo, RiscvBranches, RiscvCalls, RiscvAlu
  <2>2. Moves(i, r, regs, S, Kill(r, i.d))
    BY <1>19, KillMoves
  <2>3. i.m \notin AnyAccess
    BY <1>19 DEF AnyAccess, Loads, Stores, Atomics, Exclusive, Systems, CsrAll, CsrWrites, CsrSwaps,
       CsrSetsClears, ArmLoads, ArmStores, ArmExclusiveLoads, ArmExclusiveStores, RiscvAmo, RiscvAlu
  <2>4. (Fact("INSTRUCTION")).kind \in QuietKinds
    BY DEF Fact, QuietKinds
  <2> QED
    BY <2>1, <2>2, <2>3, <2>4, QuietSound
<1>20. CASE i.m = "nop"
  <2>1. e = Effect(r, {Fact("INSTRUCTION")})
    BY <1>20 DEF Riscv, CsrAll, CsrWrites, CsrSwaps, CsrSetsClears, RiscvLoads, RiscvStores,
       RiscvAmo, RiscvBranches, RiscvCalls, RiscvAlu
  <2>2. Moves(i, r, regs, S, r)
    BY <1>20, StayMoves DEF WithoutResult, Stores
  <2>3. i.m \notin AnyAccess
    BY <1>20 DEF AnyAccess, Loads, Stores, Atomics, Exclusive, Systems, CsrAll, CsrWrites, CsrSwaps,
       CsrSetsClears, ArmLoads, ArmStores, ArmExclusiveLoads, ArmExclusiveStores, RiscvAmo
  <2>4. (Fact("INSTRUCTION")).kind \in QuietKinds
    BY DEF Fact, QuietKinds
  <2> QED
    BY <2>1, <2>2, <2>3, <2>4, QuietSound
<1> HIDE DEF e
<1>21. \/ i.m \in CsrAll
       \/ i.m = "li"
       \/ i.m = "lui"
       \/ i.m = "addi"
       \/ i.m = "mv"
       \/ i.m \in DOMAIN RiscvLoads
       \/ i.m \in DOMAIN RiscvStores
       \/ i.m \in {"fence", "fence.tso"}
       \/ i.m = "fence.i"
       \/ i.m = "sfence.vma"
       \/ i.m = "lr"
       \/ i.m = "sc"
       \/ i.m \in RiscvAmo
       \/ i.m = "ret"
       \/ i.m \in {"mret", "sret", "uret"}
       \/ i.m \in RiscvBranches
       \/ i.m \in RiscvCalls /\ i.d # Zero
       \/ i.m \in {"j", "jr"} \/ (i.m \in RiscvCalls /\ i.d = Zero)
       \/ i.m \in RiscvAlu
       \/ i.m = "nop"
  BY DEF RiscvNames
<1> QED
  BY <1>1, <1>2, <1>3, <1>4, <1>5, <1>6, <1>7, <1>8, <1>9, <1>10, <1>11, <1>12, <1>13, <1>14,
     <1>15, <1>16, <1>17, <1>18, <1>19, <1>20, <1>21 DEF e

ArmNames ==
  {"mov", "movs", "movw"}
  \cup {"movt"}
  \cup ArmLoads
  \cup ArmStores
  \cup {"mrs"}
  \cup {"msr"}
  \cup {"dmb", "dsb"}
  \cup {"isb"}
  \cup {"bl", "blx"}
  \cup {"bx lr", "pop pc"}
  \cup {"b"}
  \cup {"beq", "bne", "bx", "bleq", "bics"}
  \cup {"push"}
  \cup ArmKills
  \cup {"cmp", "cmn", "tst", "nop"}

LEMMA ArmUnknown ==
  ASSUME NEW i, NEW r, i.m \notin ArmNames
  PROVE  Arm(i, r) = Unsupported
BY DEF Arm, ArmNames

LEMMA ArmLoadWidth ==
  ASSUME NEW m \in ArmLoads
  PROVE  ArmWidth(m) = Width(m) <=> m \notin Mismeasured
<1>1. CASE m \in {"ldrb", "ldrsb", "ldrexb"}
  BY <1>1 DEF ArmWidth, Width, Bytes, Halves, Doubles, Mismeasured
<1>2. CASE m \in {"ldrh", "ldrsh", "ldrexh"}
  BY <1>2 DEF ArmWidth, Width, Bytes, Halves, Doubles, Mismeasured
<1>3. CASE m \in {"ldr", "ldr.w", "ldreq", "ldrex"}
  BY <1>3 DEF ArmWidth, Width, Bytes, Halves, Doubles, Mismeasured
<1>4. CASE m \in {"ldrb.w", "ldrbeq"}
  <2>1. Width(m) = 8
    BY <1>4 DEF Width, Bytes, Halves, Doubles
  <2>2. ArmWidth(m) = 32
    BY <1>4 DEF ArmWidth
  <2> QED
    BY <1>4, <2>1, <2>2 DEF Mismeasured
<1>5. CASE m = "ldrh.w"
  <2>1. Width(m) = 16
    BY <1>5 DEF Width, Bytes, Halves, Doubles
  <2>2. ArmWidth(m) = 32
    BY <1>5 DEF ArmWidth
  <2> QED
    BY <1>5, <2>1, <2>2 DEF Mismeasured
<1>6. CASE m \in {"ldrd", "ldrexd"}
  BY <1>6 DEF ArmWidth, Width, Bytes, Halves, Doubles, Mismeasured
<1> QED
  BY <1>1, <1>2, <1>3, <1>4, <1>5, <1>6 DEF ArmLoads

LEMMA ArmStoreWidth ==
  ASSUME NEW m \in ArmStores
  PROVE  ArmWidth(m) = Width(m) <=> m \notin Mismeasured
<1>1. CASE m \in {"strb", "strexb"}
  BY <1>1 DEF ArmWidth, Width, Bytes, Halves, Doubles, Mismeasured
<1>2. CASE m \in {"strh", "strexh"}
  BY <1>2 DEF ArmWidth, Width, Bytes, Halves, Doubles, Mismeasured
<1>3. CASE m \in {"str", "str.w", "streq", "strex"}
  BY <1>3 DEF ArmWidth, Width, Bytes, Halves, Doubles, Mismeasured
<1>4. CASE m \in {"strb.w", "strbeq"}
  <2>1. Width(m) = 8
    BY <1>4 DEF Width, Bytes, Halves, Doubles
  <2>2. ArmWidth(m) = 32
    BY <1>4 DEF ArmWidth
  <2> QED
    BY <1>4, <2>1, <2>2 DEF Mismeasured
<1>5. CASE m = "strh.w"
  <2>1. Width(m) = 16
    BY <1>5 DEF Width, Bytes, Halves, Doubles
  <2>2. ArmWidth(m) = 32
    BY <1>5 DEF ArmWidth
  <2> QED
    BY <1>5, <2>1, <2>2 DEF Mismeasured
<1>6. CASE m \in {"strd", "strexd"}
  BY <1>6 DEF ArmWidth, Width, Bytes, Halves, Doubles, Mismeasured
<1> QED
  BY <1>1, <1>2, <1>3, <1>4, <1>5, <1>6 DEF ArmStores

LEMMA ArmSound ==
  ASSUME NEW i, NEW r, NEW regs, NEW S, Agrees(r, regs, S), Listed(i), i.m \in ArmNames
  PROVE  Sound(i, r, regs, S, Arm(i, r))
<1> DEFINE e == Arm(i, r)
<1>1. CASE i.m \in {"mov", "movs", "movw"}
  <2>1. e = Effect(Assign(r, i.d, i.n), {Fact("INSTRUCTION")})
    BY <1>1 DEF Arm, ArmLoads, ArmStores, ArmKills
  <2>2. Moves(i, r, regs, S, Assign(r, i.d, i.n))
    BY <1>1, ConstantMoves DEF Constants
  <2>3. i.m \notin AnyAccess
    BY <1>1 DEF AnyAccess, Loads, Stores, Atomics, Exclusive, Systems, CsrAll, CsrWrites, CsrSwaps,
       CsrSetsClears, ArmLoads, ArmStores, ArmExclusiveLoads, ArmExclusiveStores, RiscvAmo
  <2>4. (Fact("INSTRUCTION")).kind \in QuietKinds
    BY DEF Fact, QuietKinds
  <2> QED
    BY <2>1, <2>2, <2>3, <2>4, QuietSound
<1>2. CASE i.m = "movt"
  <2>1. e = Effect(Assign(r, i.d, Movt(i, r)), {Fact("INSTRUCTION")})
    BY <1>2 DEF Arm, ArmLoads, ArmStores, ArmKills
  <2>2. Moves(i, r, regs, S, Assign(r, i.d, Movt(i, r)))
    BY <1>2, ConstantMoves DEF Constants
  <2>3. i.m \notin AnyAccess
    BY <1>2 DEF AnyAccess, Loads, Stores, Atomics, Exclusive, Systems, CsrAll, CsrWrites, CsrSwaps,
       CsrSetsClears, ArmLoads, ArmStores, ArmExclusiveLoads, ArmExclusiveStores, RiscvAmo
  <2>4. (Fact("INSTRUCTION")).kind \in QuietKinds
    BY DEF Fact, QuietKinds
  <2> QED
    BY <2>1, <2>2, <2>3, <2>4, QuietSound
<1> DEFINE address == IF i.m \in ArmRegisterSecond THEN None ELSE Plus(Known(r, i.s), i.n)
           first == Known(r, IF i.m \in ArmExclusiveStores THEN i.d ELSE i.v)
<1>a. Placed(i, r, address) /\ i.n \in Int \cup {None}
  BY DEF Placed, Listed
<1>3. CASE i.m \in ArmLoads
  <2>1. e = Effect(Kill(r, i.d), {Memory("MEMORY_LOAD", address, None, ArmWidth(i.m))})
    <3>1. /\ i.m \notin {"mov", "movs", "movw", "movt", "mrs", "msr", "dmb", "dsb", "isb", "bl", "blx", "bx lr",
                   "pop pc", "b", "beq", "bne", "bx", "bleq", "bics", "push", "cmp", "cmn", "tst", "nop"}
          /\ i.m \notin ArmKills
          /\ i.m \notin ArmStores
      BY <1>3 DEF ArmLoads, ArmStores, ArmKills
    <3> QED
      BY <1>3, <3>1 DEF Arm
  <2>2. Moves(i, r, regs, S, Kill(r, i.d))
    BY KillMoves
  <2>3. ArmWidth(i.m) = Width(i.m) <=> i.m \notin Mismeasured
    BY <1>3, ArmLoadWidth
  <2>4. i.m \in Loads \/ i.m \in ArmExclusiveLoads
    BY <1>3 DEF Loads
  <2> HIDE DEF address
  <2>5. Tells(i, regs, S, {Memory("MEMORY_LOAD", address, None, ArmWidth(i.m))})
    BY <1>a, <2>3, <2>4, LoadTells, ExclusiveTells
  <2>6. Tells(i, regs, S, e.facts)
    BY <2>1, <2>5 DEF Effect
  <2>7. Fact("UNKNOWN") \notin e.facts
    BY <2>1 DEF Effect, Fact, Memory
  <2> QED
    BY <2>1, <2>2, <2>6, <2>7 DEF Sound, Effect
<1>4. CASE i.m \in ArmStores
  <2>1. e = Effect(r, {Memory("MEMORY_STORE", address, first, ArmWidth(i.m))})
    <3>1. /\ i.m \notin {"mov", "movs", "movw", "movt", "mrs", "msr", "dmb", "dsb", "isb", "bl", "blx", "bx lr",
                   "pop pc", "b", "beq", "bne", "bx", "bleq", "bics", "push", "cmp", "cmn", "tst", "nop"}
          /\ i.m \notin ArmKills
          /\ i.m \notin ArmLoads
      BY <1>4 DEF ArmLoads, ArmStores, ArmKills
    <3> QED
      BY <1>4, <3>1 DEF Arm
  <2>2. Moves(i, r, regs, S, r)
    <3>1. CASE i.m \in ArmExclusiveStores
      BY <3>1 DEF Moves, Overlooked
    <3>2. CASE i.m \notin ArmExclusiveStores
      BY <1>4, <3>2, StayMoves DEF WithoutResult, Stores
    <3> QED
      BY <3>1, <3>2
  <2>3. ArmWidth(i.m) = Width(i.m) <=> i.m \notin Mismeasured
    BY <1>4, ArmStoreWidth
  <2>4. Tells(i, regs, S, {Memory("MEMORY_STORE", address, first, ArmWidth(i.m))})
    <3> HIDE DEF address
    <3>1. CASE i.m \in ArmExclusiveStores
      BY <1>a, <2>3, <3>1, ExclusiveTells
    <3>2. CASE i.m \notin ArmExclusiveStores
      <4>1. i.m \in Stores /\ first = Known(r, i.v)
        BY <1>4, <3>2 DEF Stores
      <4> HIDE DEF first
      <4> QED
        BY <1>a, <2>3, <4>1, StoreTells
    <3> QED
      BY <3>1, <3>2
  <2> HIDE DEF address, first
  <2>5. Tells(i, regs, S, e.facts)
    BY <2>1, <2>4 DEF Effect
  <2>6. Fact("UNKNOWN") \notin e.facts
    BY <2>1 DEF Effect, Fact, Memory
  <2> QED
    BY <2>1, <2>2, <2>5, <2>6 DEF Sound, Effect
<1>5. CASE i.m = "mrs"
  <2>1. e = Effect(Kill(r, i.d), {Fact("SYSTEM_REGISTER_READ")})
    BY <1>5 DEF Arm, ArmLoads, ArmStores, ArmKills
  <2>2. Moves(i, r, regs, S, Kill(r, i.d))
    BY <1>5, KillMoves
  <2>4. Tells(i, regs, S, e.facts)
    <3>1. i.m \notin Exclusive
      BY <1>5 DEF Exclusive, ArmExclusiveLoads, ArmExclusiveStores
    <3> QED
      BY <1>5, <2>1, <3>1, SystemAccess, SystemTells DEF Effect
  <2>5. Fact("UNKNOWN") \notin e.facts
    BY <2>1 DEF Effect, Fact
  <2> QED
    BY <2>1, <2>2, <2>4, <2>5 DEF Sound, Effect
<1>6. CASE i.m = "msr"
  <2>1. e = Effect(r, {Fact("SYSTEM_REGISTER_WRITE")})
    BY <1>6 DEF Arm, ArmLoads, ArmStores, ArmKills
  <2>2. Moves(i, r, regs, S, r)
    BY <1>6, StayMoves DEF WithoutResult, Stores
  <2>4. Tells(i, regs, S, e.facts)
    <3>1. i.m \notin Exclusive
      BY <1>6 DEF Exclusive, ArmExclusiveLoads, ArmExclusiveStores
    <3> QED
      BY <1>6, <2>1, <3>1, SystemAccess, SystemTells DEF Effect
  <2>5. Fact("UNKNOWN") \notin e.facts
    BY <2>1 DEF Effect, Fact
  <2> QED
    BY <2>1, <2>2, <2>4, <2>5 DEF Sound, Effect
<1>7. CASE i.m \in {"dmb", "dsb"}
  <2>1. e = Effect(r, {Fact("MEMORY_BARRIER")})
    BY <1>7 DEF Arm, ArmLoads, ArmStores, ArmKills
  <2>2. Moves(i, r, regs, S, r)
    BY <1>7, StayMoves DEF WithoutResult, Stores
  <2>3. i.m \notin AnyAccess
    BY <1>7 DEF AnyAccess, Loads, Stores, Atomics, Exclusive, Systems, CsrAll, CsrWrites, CsrSwaps,
       CsrSetsClears, ArmLoads, ArmStores, ArmExclusiveLoads, ArmExclusiveStores, RiscvAmo
  <2>4. (Fact("MEMORY_BARRIER")).kind \in QuietKinds
    BY DEF Fact, QuietKinds
  <2> QED
    BY <2>1, <2>2, <2>3, <2>4, QuietSound
<1>8. CASE i.m = "isb"
  <2>1. e = Effect(r, {Fact("INSTRUCTION_BARRIER")})
    BY <1>8 DEF Arm, ArmLoads, ArmStores, ArmKills
  <2>2. Moves(i, r, regs, S, r)
    BY <1>8, StayMoves DEF WithoutResult, Stores
  <2>3. i.m \notin AnyAccess
    BY <1>8 DEF AnyAccess, Loads, Stores, Atomics, Exclusive, Systems, CsrAll, CsrWrites, CsrSwaps,
       CsrSetsClears, ArmLoads, ArmStores, ArmExclusiveLoads, ArmExclusiveStores, RiscvAmo
  <2>4. (Fact("INSTRUCTION_BARRIER")).kind \in QuietKinds
    BY DEF Fact, QuietKinds
  <2> QED
    BY <2>1, <2>2, <2>3, <2>4, QuietSound
<1>9. CASE i.m \in {"bl", "blx"}
  <2>1. e = Effect(NothingKnown, {Flow("DIRECT_CALL", "INDIRECT_CALL", i.n)})
    BY <1>9 DEF Arm, ArmLoads, ArmStores, ArmKills
  <2>2. Moves(i, r, regs, S, NothingKnown)
    BY <1>9, EndMoves
  <2>3. i.m \notin AnyAccess
    BY <1>9 DEF AnyAccess, Loads, Stores, Atomics, Exclusive, Systems, CsrAll, CsrWrites, CsrSwaps,
       CsrSetsClears, ArmLoads, ArmStores, ArmExclusiveLoads, ArmExclusiveStores, RiscvAmo
  <2>4. (Flow("DIRECT_CALL", "INDIRECT_CALL", i.n)).kind \in QuietKinds
    BY DEF Flow, Fact, QuietKinds
  <2> QED
    BY <2>1, <2>2, <2>3, <2>4, QuietSound
<1>10. CASE i.m \in {"bx lr", "pop pc"}
  <2>1. e = Effect(NothingKnown, {Fact("RETURN")})
    BY <1>10 DEF Arm, ArmLoads, ArmStores, ArmKills
  <2>2. Moves(i, r, regs, S, NothingKnown)
    BY <1>10, EndMoves
  <2>3. i.m \notin AnyAccess
    BY <1>10 DEF AnyAccess, Loads, Stores, Atomics, Exclusive, Systems, CsrAll, CsrWrites, CsrSwaps,
       CsrSetsClears, ArmLoads, ArmStores, ArmExclusiveLoads, ArmExclusiveStores, RiscvAmo
  <2>4. (Fact("RETURN")).kind \in QuietKinds
    BY DEF Fact, QuietKinds
  <2> QED
    BY <2>1, <2>2, <2>3, <2>4, QuietSound
<1>11. CASE i.m = "b"
  <2>1. e = Effect(NothingKnown, {Flow("DIRECT_BRANCH", "INDIRECT_BRANCH", i.n)})
    BY <1>11 DEF Arm, ArmLoads, ArmStores, ArmKills
  <2>2. Moves(i, r, regs, S, NothingKnown)
    BY <1>11, EndMoves
  <2>3. i.m \notin AnyAccess
    BY <1>11 DEF AnyAccess, Loads, Stores, Atomics, Exclusive, Systems, CsrAll, CsrWrites, CsrSwaps,
       CsrSetsClears, ArmLoads, ArmStores, ArmExclusiveLoads, ArmExclusiveStores, RiscvAmo
  <2>4. (Flow("DIRECT_BRANCH", "INDIRECT_BRANCH", i.n)).kind \in QuietKinds
    BY DEF Flow, Fact, QuietKinds
  <2> QED
    BY <2>1, <2>2, <2>3, <2>4, QuietSound
<1>12. CASE i.m \in {"beq", "bne", "bx", "bleq", "bics"}
  <2>1. e = Effect(NothingKnown, {Flow("CONDITIONAL_BRANCH", "INDIRECT_BRANCH", i.n)})
    BY <1>12 DEF Arm, ArmLoads, ArmStores, ArmKills
  <2>2. Moves(i, r, regs, S, NothingKnown)
    BY <1>12, EndMoves
  <2>3. i.m \notin AnyAccess
    BY <1>12 DEF AnyAccess, Loads, Stores, Atomics, Exclusive, Systems, CsrAll, CsrWrites, CsrSwaps,
       CsrSetsClears, ArmLoads, ArmStores, ArmExclusiveLoads, ArmExclusiveStores, RiscvAmo
  <2>4. (Flow("CONDITIONAL_BRANCH", "INDIRECT_BRANCH", i.n)).kind \in QuietKinds
    BY DEF Flow, Fact, QuietKinds
  <2> QED
    BY <2>1, <2>2, <2>3, <2>4, QuietSound
<1>13. CASE i.m = "push"
  <2>1. e = Effect(Kill(r, "sp"), {Fact("INSTRUCTION")})
    BY <1>13 DEF Arm, ArmLoads, ArmStores, ArmKills
  <2>2. Moves(i, r, regs, S, Kill(r, "sp"))
    <3>1. i.d = "sp"
      BY <1>13 DEF Listed
    <3> QED
      BY <3>1, KillMoves
  <2>4. (Fact("INSTRUCTION")).kind \in QuietKinds
    BY DEF Fact, QuietKinds
  <2> QED
    BY <1>13, <2>1, <2>2, <2>4, QuietSound
<1>14. CASE i.m \in ArmKills
  <2>1. e = Effect(Kill(r, i.d), {Fact("INSTRUCTION")})
    BY <1>14 DEF Arm, ArmLoads, ArmStores, ArmKills
  <2>2. Moves(i, r, regs, S, Kill(r, i.d))
    BY <1>14, KillMoves
  <2>3. i.m \notin AnyAccess
    BY <1>14 DEF AnyAccess, Loads, Stores, Atomics, Exclusive, Systems, CsrAll, CsrWrites, CsrSwaps,
       CsrSetsClears, ArmLoads, ArmStores, ArmExclusiveLoads, ArmExclusiveStores, RiscvAmo, ArmKills
  <2>4. (Fact("INSTRUCTION")).kind \in QuietKinds
    BY DEF Fact, QuietKinds
  <2> QED
    BY <2>1, <2>2, <2>3, <2>4, QuietSound
<1>15. CASE i.m \in {"cmp", "cmn", "tst", "nop"}
  <2>1. e = Effect(r, {Fact("INSTRUCTION")})
    BY <1>15 DEF Arm, ArmLoads, ArmStores, ArmKills
  <2>2. Moves(i, r, regs, S, r)
    BY <1>15, StayMoves DEF WithoutResult, Stores
  <2>3. i.m \notin AnyAccess
    BY <1>15 DEF AnyAccess, Loads, Stores, Atomics, Exclusive, Systems, CsrAll, CsrWrites, CsrSwaps,
       CsrSetsClears, ArmLoads, ArmStores, ArmExclusiveLoads, ArmExclusiveStores, RiscvAmo
  <2>4. (Fact("INSTRUCTION")).kind \in QuietKinds
    BY DEF Fact, QuietKinds
  <2> QED
    BY <2>1, <2>2, <2>3, <2>4, QuietSound
<1> HIDE DEF e
<1>16. \/ i.m \in {"mov", "movs", "movw"}
       \/ i.m = "movt"
       \/ i.m \in ArmLoads
       \/ i.m \in ArmStores
       \/ i.m = "mrs"
       \/ i.m = "msr"
       \/ i.m \in {"dmb", "dsb"}
       \/ i.m = "isb"
       \/ i.m \in {"bl", "blx"}
       \/ i.m \in {"bx lr", "pop pc"}
       \/ i.m = "b"
       \/ i.m \in {"beq", "bne", "bx", "bleq", "bics"}
       \/ i.m = "push"
       \/ i.m \in ArmKills
       \/ i.m \in {"cmp", "cmn", "tst", "nop"}
  BY DEF ArmNames
<1> QED
  BY <1>1, <1>2, <1>3, <1>4, <1>5, <1>6, <1>7, <1>8, <1>9, <1>10, <1>11, <1>12, <1>13, <1>14,
     <1>15, <1>16 DEF e

PowerpcNames ==
  {"li"}
  \cup {"lis"}
  \cup {"addi"}
  \cup {"addis"}
  \cup DOMAIN PowerpcLoads
  \cup DOMAIN PowerpcStores
  \cup {"mfspr"}
  \cup {"mtspr"}
  \cup {"sync", "lwsync", "eieio"}
  \cup {"isync"}
  \cup {"lwarx"}
  \cup {"stwcx."}
  \cup {"rfi", "rfid"}
  \cup {"blr", "bclr"}
  \cup {"bl", "bctrl"}
  \cup {"b", "ba"}
  \cup {"bctr", "beq", "bne"}
  \cup {"or", "ori", "add", "subf"}
  \cup {"cmpwi", "cmplwi", "nop"}

LEMMA PowerpcUnknown ==
  ASSUME NEW i, NEW r, i.m \notin PowerpcNames
  PROVE  Powerpc(i, r) = Unsupported
BY DEF Powerpc, PowerpcNames

LEMMA PowerpcSound ==
  ASSUME NEW i, NEW r, NEW regs, NEW S, Agrees(r, regs, S), Listed(i), i.m \in PowerpcNames
  PROVE  Sound(i, r, regs, S, Powerpc(i, r))
<1> DEFINE e == Powerpc(i, r)
<1>1. CASE i.m = "li"
  <2>1. e = Effect(Assign(r, i.d, i.n), {Fact("INSTRUCTION")})
    BY <1>1 DEF Powerpc, PowerpcLoads, PowerpcStores
  <2>2. Moves(i, r, regs, S, Assign(r, i.d, i.n))
    BY <1>1, ConstantMoves DEF Constants
  <2>3. i.m \notin AnyAccess
    BY <1>1 DEF AnyAccess, Loads, Stores, Atomics, Exclusive, Systems, CsrAll, CsrWrites, CsrSwaps,
       CsrSetsClears, ArmLoads, ArmStores, ArmExclusiveLoads, ArmExclusiveStores, RiscvAmo
  <2>4. (Fact("INSTRUCTION")).kind \in QuietKinds
    BY DEF Fact, QuietKinds
  <2> QED
    BY <2>1, <2>2, <2>3, <2>4, QuietSound
<1>2. CASE i.m = "lis"
  <2>1. e = Effect(Assign(r, i.d, Times(i.n, Upper)), {Fact("INSTRUCTION")})
    BY <1>2 DEF Powerpc, PowerpcLoads, PowerpcStores
  <2>2. Moves(i, r, regs, S, Assign(r, i.d, Times(i.n, Upper)))
    BY <1>2, ConstantMoves DEF Constants
  <2>3. i.m \notin AnyAccess
    BY <1>2 DEF AnyAccess, Loads, Stores, Atomics, Exclusive, Systems, CsrAll, CsrWrites, CsrSwaps,
       CsrSetsClears, ArmLoads, ArmStores, ArmExclusiveLoads, ArmExclusiveStores, RiscvAmo
  <2>4. (Fact("INSTRUCTION")).kind \in QuietKinds
    BY DEF Fact, QuietKinds
  <2> QED
    BY <2>1, <2>2, <2>3, <2>4, QuietSound
<1>3. CASE i.m = "addi"
  <2>1. e = Effect(Assign(r, i.d, Plus(Known(r, i.s), i.n)), {Fact("INSTRUCTION")})
    BY <1>3 DEF Powerpc, PowerpcLoads, PowerpcStores
  <2>2. Moves(i, r, regs, S, Assign(r, i.d, Plus(Known(r, i.s), i.n)))
    BY <1>3, ConstantMoves DEF Constants
  <2>3. i.m \notin AnyAccess
    BY <1>3 DEF AnyAccess, Loads, Stores, Atomics, Exclusive, Systems, CsrAll, CsrWrites, CsrSwaps,
       CsrSetsClears, ArmLoads, ArmStores, ArmExclusiveLoads, ArmExclusiveStores, RiscvAmo
  <2>4. (Fact("INSTRUCTION")).kind \in QuietKinds
    BY DEF Fact, QuietKinds
  <2> QED
    BY <2>1, <2>2, <2>3, <2>4, QuietSound
<1>4. CASE i.m = "addis"
  <2>1. e = Effect(Assign(r, i.d, Plus(Known(r, i.s), Times(i.n, Upper))), {Fact("INSTRUCTION")})
    BY <1>4 DEF Powerpc, PowerpcLoads, PowerpcStores
  <2>2. Moves(i, r, regs, S, Assign(r, i.d, Plus(Known(r, i.s), Times(i.n, Upper))))
    BY <1>4, ConstantMoves DEF Constants
  <2>3. i.m \notin AnyAccess
    BY <1>4 DEF AnyAccess, Loads, Stores, Atomics, Exclusive, Systems, CsrAll, CsrWrites, CsrSwaps,
       CsrSetsClears, ArmLoads, ArmStores, ArmExclusiveLoads, ArmExclusiveStores, RiscvAmo
  <2>4. (Fact("INSTRUCTION")).kind \in QuietKinds
    BY DEF Fact, QuietKinds
  <2> QED
    BY <2>1, <2>2, <2>3, <2>4, QuietSound
<1>5. CASE i.m \in DOMAIN PowerpcLoads
  <2>1. e = Effect(Kill(r, i.d),
                   {Memory("MEMORY_LOAD", Plus(Known(r, i.s), i.n), None, PowerpcLoads[i.m])})
    BY <1>5 DEF Powerpc, PowerpcLoads, PowerpcStores
  <2>2. Moves(i, r, regs, S, Kill(r, i.d))
    BY <1>5, KillMoves
  <2>3. i.m \in Loads /\ PowerpcLoads[i.m] = Width(i.m) /\ i.m \notin Mismeasured
    BY <1>5 DEF PowerpcLoads, Loads, Width, Bytes, Halves, Doubles, Mismeasured
  <2>4. Tells(i, regs, S, e.facts)
    <3>1. Placed(i, r, Plus(Known(r, i.s), i.n)) /\ i.n \in Int \cup {None}
      BY DEF Placed, Listed
    <3>2. e.facts = {Memory("MEMORY_LOAD", Plus(Known(r, i.s), i.n), None, PowerpcLoads[i.m])}
      BY <2>1 DEF Effect
    <3> QED
      BY <2>3, <3>1, <3>2, LoadTells
  <2>5. Fact("UNKNOWN") \notin e.facts
    BY <2>1 DEF Effect, Fact, Memory
  <2> QED
    BY <2>1, <2>2, <2>4, <2>5 DEF Sound, Effect
<1>6. CASE i.m \in DOMAIN PowerpcStores
  <2>1. e = Effect(r, {Memory("MEMORY_STORE", Plus(Known(r, i.s), i.n), Known(r, i.v),
                             PowerpcStores[i.m])})
    BY <1>6 DEF Powerpc, PowerpcLoads, PowerpcStores
  <2>2. Moves(i, r, regs, S, r)
    BY <1>6, StayMoves DEF WithoutResult, Stores, ArmExclusiveStores, PowerpcStores
  <2>3. i.m \in Stores /\ PowerpcStores[i.m] = Width(i.m) /\ i.m \notin Mismeasured
    BY <1>6 DEF PowerpcStores, Stores, Width, Bytes, Halves, Doubles, Mismeasured
  <2>4. Tells(i, regs, S, e.facts)
    <3>1. Placed(i, r, Plus(Known(r, i.s), i.n)) /\ i.n \in Int \cup {None}
      BY DEF Placed, Listed
    <3>2. e.facts = {Memory("MEMORY_STORE", Plus(Known(r, i.s), i.n), Known(r, i.v), PowerpcStores[i.m])}
      BY <2>1 DEF Effect
    <3> QED
      BY <2>3, <3>1, <3>2, StoreTells
  <2>5. Fact("UNKNOWN") \notin e.facts
    BY <2>1 DEF Effect, Fact, Memory
  <2> QED
    BY <2>1, <2>2, <2>4, <2>5 DEF Sound, Effect
<1>7. CASE i.m = "mfspr"
  <2>1. e = Effect(Kill(r, i.d), {Fact("SYSTEM_REGISTER_READ")})
    BY <1>7 DEF Powerpc, PowerpcLoads, PowerpcStores
  <2>2. Moves(i, r, regs, S, Kill(r, i.d))
    BY <1>7, KillMoves
  <2>4. Tells(i, regs, S, e.facts)
    <3>1. i.m \notin Exclusive
      BY <1>7 DEF Exclusive, ArmExclusiveLoads, ArmExclusiveStores
    <3> QED
      BY <1>7, <2>1, <3>1, SystemAccess, SystemTells DEF Effect
  <2>5. Fact("UNKNOWN") \notin e.facts
    BY <2>1 DEF Effect, Fact
  <2> QED
    BY <2>1, <2>2, <2>4, <2>5 DEF Sound, Effect
<1>8. CASE i.m = "mtspr"
  <2>1. e = Effect(r, {Fact("SYSTEM_REGISTER_WRITE")})
    BY <1>8 DEF Powerpc, PowerpcLoads, PowerpcStores
  <2>2. Moves(i, r, regs, S, r)
    BY <1>8, StayMoves DEF WithoutResult, Stores
  <2>4. Tells(i, regs, S, e.facts)
    <3>1. i.m \notin Exclusive
      BY <1>8 DEF Exclusive, ArmExclusiveLoads, ArmExclusiveStores
    <3> QED
      BY <1>8, <2>1, <3>1, SystemAccess, SystemTells DEF Effect
  <2>5. Fact("UNKNOWN") \notin e.facts
    BY <2>1 DEF Effect, Fact
  <2> QED
    BY <2>1, <2>2, <2>4, <2>5 DEF Sound, Effect
<1>9. CASE i.m \in {"sync", "lwsync", "eieio"}
  <2>1. e = Effect(r, {Fact("MEMORY_BARRIER")})
    BY <1>9 DEF Powerpc, PowerpcLoads, PowerpcStores
  <2>2. Moves(i, r, regs, S, r)
    BY <1>9, StayMoves DEF WithoutResult, Stores
  <2>3. i.m \notin AnyAccess
    BY <1>9 DEF AnyAccess, Loads, Stores, Atomics, Exclusive, Systems, CsrAll, CsrWrites, CsrSwaps,
       CsrSetsClears, ArmLoads, ArmStores, ArmExclusiveLoads, ArmExclusiveStores, RiscvAmo
  <2>4. (Fact("MEMORY_BARRIER")).kind \in QuietKinds
    BY DEF Fact, QuietKinds
  <2> QED
    BY <2>1, <2>2, <2>3, <2>4, QuietSound
<1>10. CASE i.m = "isync"
  <2>1. e = Effect(r, {Fact("INSTRUCTION_BARRIER")})
    BY <1>10 DEF Powerpc, PowerpcLoads, PowerpcStores
  <2>2. Moves(i, r, regs, S, r)
    BY <1>10, StayMoves DEF WithoutResult, Stores
  <2>3. i.m \notin AnyAccess
    BY <1>10 DEF AnyAccess, Loads, Stores, Atomics, Exclusive, Systems, CsrAll, CsrWrites, CsrSwaps,
       CsrSetsClears, ArmLoads, ArmStores, ArmExclusiveLoads, ArmExclusiveStores, RiscvAmo
  <2>4. (Fact("INSTRUCTION_BARRIER")).kind \in QuietKinds
    BY DEF Fact, QuietKinds
  <2> QED
    BY <2>1, <2>2, <2>3, <2>4, QuietSound
<1>11. CASE i.m = "lwarx"
  <2>1. e = Effect(Kill(r, i.d), {Fact("ATOMIC_LOAD")})
    BY <1>11 DEF Powerpc, PowerpcLoads, PowerpcStores
  <2>2. Moves(i, r, regs, S, Kill(r, i.d))
    BY <1>11, KillMoves
  <2>4. e.facts = {Fact("ATOMIC_LOAD")}
    BY <2>1 DEF Effect
  <2>5. Tells(i, regs, S, {Fact("ATOMIC_LOAD")})
    BY <1>11, AtomicTells
  <2>6. Fact("UNKNOWN") \notin e.facts
    BY <2>1 DEF Effect, Fact, Memory
  <2>7. Moves(i, r, regs, S, e.known)
    BY <2>1, <2>2 DEF Effect
  <2> QED
    BY <2>4, <2>5, <2>6, <2>7 DEF Sound
<1>12. CASE i.m = "stwcx."
  <2>1. e = Effect(r, {Fact("ATOMIC_STORE")})
    BY <1>12 DEF Powerpc, PowerpcLoads, PowerpcStores
  <2>2. Moves(i, r, regs, S, r)
    BY <1>12, StayMoves DEF WithoutResult, Stores
  <2>4. e.facts = {Fact("ATOMIC_STORE")}
    BY <2>1 DEF Effect
  <2>5. Tells(i, regs, S, {Fact("ATOMIC_STORE")})
    BY <1>12, AtomicTells
  <2>6. Fact("UNKNOWN") \notin e.facts
    BY <2>1 DEF Effect, Fact, Memory
  <2>7. Moves(i, r, regs, S, e.known)
    BY <2>1, <2>2 DEF Effect
  <2> QED
    BY <2>4, <2>5, <2>6, <2>7 DEF Sound
<1>13. CASE i.m \in {"rfi", "rfid"}
  <2>1. e = Effect(NothingKnown, {Fact("EXCEPTION_RETURN")})
    BY <1>13 DEF Powerpc, PowerpcLoads, PowerpcStores
  <2>2. Moves(i, r, regs, S, NothingKnown)
    BY <1>13, EndMoves
  <2>3. i.m \notin AnyAccess
    BY <1>13 DEF AnyAccess, Loads, Stores, Atomics, Exclusive, Systems, CsrAll, CsrWrites, CsrSwaps,
       CsrSetsClears, ArmLoads, ArmStores, ArmExclusiveLoads, ArmExclusiveStores, RiscvAmo
  <2>4. (Fact("EXCEPTION_RETURN")).kind \in QuietKinds
    BY DEF Fact, QuietKinds
  <2> QED
    BY <2>1, <2>2, <2>3, <2>4, QuietSound
<1>14. CASE i.m \in {"blr", "bclr"}
  <2>1. e = Effect(NothingKnown, {Fact("RETURN")})
    BY <1>14 DEF Powerpc, PowerpcLoads, PowerpcStores
  <2>2. Moves(i, r, regs, S, NothingKnown)
    BY <1>14, EndMoves
  <2>3. i.m \notin AnyAccess
    BY <1>14 DEF AnyAccess, Loads, Stores, Atomics, Exclusive, Systems, CsrAll, CsrWrites, CsrSwaps,
       CsrSetsClears, ArmLoads, ArmStores, ArmExclusiveLoads, ArmExclusiveStores, RiscvAmo
  <2>4. (Fact("RETURN")).kind \in QuietKinds
    BY DEF Fact, QuietKinds
  <2> QED
    BY <2>1, <2>2, <2>3, <2>4, QuietSound
<1>15. CASE i.m \in {"bl", "bctrl"}
  <2>1. e = Effect(NothingKnown, {Flow("DIRECT_CALL", "INDIRECT_CALL", i.n)})
    BY <1>15 DEF Powerpc, PowerpcLoads, PowerpcStores
  <2>2. Moves(i, r, regs, S, NothingKnown)
    BY <1>15, EndMoves
  <2>3. i.m \notin AnyAccess
    BY <1>15 DEF AnyAccess, Loads, Stores, Atomics, Exclusive, Systems, CsrAll, CsrWrites, CsrSwaps,
       CsrSetsClears, ArmLoads, ArmStores, ArmExclusiveLoads, ArmExclusiveStores, RiscvAmo
  <2>4. (Flow("DIRECT_CALL", "INDIRECT_CALL", i.n)).kind \in QuietKinds
    BY DEF Flow, Fact, QuietKinds
  <2> QED
    BY <2>1, <2>2, <2>3, <2>4, QuietSound
<1>16. CASE i.m \in {"b", "ba"}
  <2>1. e = Effect(NothingKnown, {Flow("DIRECT_BRANCH", "INDIRECT_BRANCH", i.n)})
    BY <1>16 DEF Powerpc, PowerpcLoads, PowerpcStores
  <2>2. Moves(i, r, regs, S, NothingKnown)
    BY <1>16, EndMoves
  <2>3. i.m \notin AnyAccess
    BY <1>16 DEF AnyAccess, Loads, Stores, Atomics, Exclusive, Systems, CsrAll, CsrWrites, CsrSwaps,
       CsrSetsClears, ArmLoads, ArmStores, ArmExclusiveLoads, ArmExclusiveStores, RiscvAmo
  <2>4. (Flow("DIRECT_BRANCH", "INDIRECT_BRANCH", i.n)).kind \in QuietKinds
    BY DEF Flow, Fact, QuietKinds
  <2> QED
    BY <2>1, <2>2, <2>3, <2>4, QuietSound
<1>17. CASE i.m \in {"bctr", "beq", "bne"}
  <2>1. e = Effect(NothingKnown, {Flow("CONDITIONAL_BRANCH", "INDIRECT_BRANCH", i.n)})
    BY <1>17 DEF Powerpc, PowerpcLoads, PowerpcStores
  <2>2. Moves(i, r, regs, S, NothingKnown)
    BY <1>17, EndMoves
  <2>3. i.m \notin AnyAccess
    BY <1>17 DEF AnyAccess, Loads, Stores, Atomics, Exclusive, Systems, CsrAll, CsrWrites, CsrSwaps,
       CsrSetsClears, ArmLoads, ArmStores, ArmExclusiveLoads, ArmExclusiveStores, RiscvAmo
  <2>4. (Flow("CONDITIONAL_BRANCH", "INDIRECT_BRANCH", i.n)).kind \in QuietKinds
    BY DEF Flow, Fact, QuietKinds
  <2> QED
    BY <2>1, <2>2, <2>3, <2>4, QuietSound
<1>18. CASE i.m \in {"or", "ori", "add", "subf"}
  <2>1. e = Effect(Kill(r, i.d), {Fact("INSTRUCTION")})
    BY <1>18 DEF Powerpc, PowerpcLoads, PowerpcStores
  <2>2. Moves(i, r, regs, S, Kill(r, i.d))
    BY <1>18, KillMoves
  <2>3. i.m \notin AnyAccess
    BY <1>18 DEF AnyAccess, Loads, Stores, Atomics, Exclusive, Systems, CsrAll, CsrWrites, CsrSwaps,
       CsrSetsClears, ArmLoads, ArmStores, ArmExclusiveLoads, ArmExclusiveStores, RiscvAmo
  <2>4. (Fact("INSTRUCTION")).kind \in QuietKinds
    BY DEF Fact, QuietKinds
  <2> QED
    BY <2>1, <2>2, <2>3, <2>4, QuietSound
<1>19. CASE i.m \in {"cmpwi", "cmplwi", "nop"}
  <2>1. e = Effect(r, {Fact("INSTRUCTION")})
    BY <1>19 DEF Powerpc, PowerpcLoads, PowerpcStores
  <2>2. Moves(i, r, regs, S, r)
    BY <1>19, StayMoves DEF WithoutResult, Stores
  <2>3. i.m \notin AnyAccess
    BY <1>19 DEF AnyAccess, Loads, Stores, Atomics, Exclusive, Systems, CsrAll, CsrWrites, CsrSwaps,
       CsrSetsClears, ArmLoads, ArmStores, ArmExclusiveLoads, ArmExclusiveStores, RiscvAmo
  <2>4. (Fact("INSTRUCTION")).kind \in QuietKinds
    BY DEF Fact, QuietKinds
  <2> QED
    BY <2>1, <2>2, <2>3, <2>4, QuietSound
<1> HIDE DEF e
<1>20. \/ i.m = "li"
       \/ i.m = "lis"
       \/ i.m = "addi"
       \/ i.m = "addis"
       \/ i.m \in DOMAIN PowerpcLoads
       \/ i.m \in DOMAIN PowerpcStores
       \/ i.m = "mfspr"
       \/ i.m = "mtspr"
       \/ i.m \in {"sync", "lwsync", "eieio"}
       \/ i.m = "isync"
       \/ i.m = "lwarx"
       \/ i.m = "stwcx."
       \/ i.m \in {"rfi", "rfid"}
       \/ i.m \in {"blr", "bclr"}
       \/ i.m \in {"bl", "bctrl"}
       \/ i.m \in {"b", "ba"}
       \/ i.m \in {"bctr", "beq", "bne"}
       \/ i.m \in {"or", "ori", "add", "subf"}
       \/ i.m \in {"cmpwi", "cmplwi", "nop"}
  BY DEF PowerpcNames
<1> QED
  BY <1>1, <1>2, <1>3, <1>4, <1>5, <1>6, <1>7, <1>8, <1>9, <1>10, <1>11, <1>12, <1>13, <1>14,
     <1>15, <1>16, <1>17, <1>18, <1>19, <1>20 DEF e
-----------------------------------------------------------------------------
(* One instruction: its facts, and what is known after it.                 *)
Names(isa) ==
  IF isa = "riscv" THEN RiscvNames ELSE IF isa = "arm" THEN ArmNames ELSE PowerpcNames

LEMMA ClassifySound ==
  ASSUME NEW isa \in Isas, NEW i, Listed(i), NEW r, NEW regs, NEW S, Agrees(r, regs, S)
  PROVE  IF i.m \in Names(isa) THEN Sound(i, r, regs, S, Classify(isa, i, r))
         ELSE Classify(isa, i, r) = Unsupported
<1>1. CASE isa = "riscv"
  <2>1. Classify(isa, i, r) = Riscv(i, r) /\ Names(isa) = RiscvNames
    BY <1>1 DEF Classify, Names
  <2> QED
    BY <1>1, <2>1, RiscvSound, RiscvUnknown
<1>2. CASE isa = "arm"
  <2>1. Classify(isa, i, r) = Arm(i, r) /\ Names(isa) = ArmNames
    BY <1>2 DEF Classify, Names
  <2> QED
    BY <1>2, <2>1, ArmSound, ArmUnknown
<1>3. CASE isa = "powerpc"
  <2>1. Classify(isa, i, r) = Powerpc(i, r) /\ Names(isa) = PowerpcNames
    BY <1>3 DEF Classify, Names
  <2> QED
    BY <1>3, <2>1, PowerpcSound, PowerpcUnknown
<1> QED
  BY <1>1, <1>2, <1>3 DEF Isas

\* The facts of an instruction are true where what is known is.
LEMMA FactsTell ==
  ASSUME NEW isa \in Isas, NEW i, Listed(i), NEW r, NEW regs, NEW S, Agrees(r, regs, S)
  PROVE  Tells(i, regs, S, Classify(isa, i, r).facts)
<1>1. CASE i.m \in Names(isa)
  BY <1>1, ClassifySound DEF Sound
<1>2. CASE i.m \notin Names(isa)
  <2>1. Classify(isa, i, r) = Unsupported
    BY <1>2, ClassifySound
  <2>2. Classify(isa, i, r).facts = {Fact("UNKNOWN")}
    BY <2>1 DEF Unsupported, Effect
  <2> QED
    BY <2>2, UnknownTells
<1> QED
  BY <1>1, <1>2

\* What does not come to the next instruction by itself leaves nothing known.
LEMMA EndsForget ==
  ASSUME NEW isa \in Isas, NEW i, NEW r, EndsBlock(i) \/ IsCall(i)
  PROVE  Classify(isa, i, r).known = NothingKnown
<1>1. i.m \in {"beq", "bne", "blt", "bge", "bltu", "bgeu", "ret", "mret", "bx lr",
               "pop pc", "blr", "rfi", "jr", "bx", "bctr", "j", "b", "ba", "jal",
               "call", "jalr", "bl", "blx", "bleq", "bctrl"}
  BY DEF EndsBlock, IsCall, IsJump, Branches, Returns, Indirect, Jumps, Calls, RiscvBranches, RiscvCalls
<1>2. Unsupported.known = NothingKnown
  BY DEF Unsupported, Effect
<1>3. CASE isa = "riscv"
  <2>1. Classify(isa, i, r) = Riscv(i, r)
    BY <1>3 DEF Classify
  <2>2. CASE i.m \in RiscvNames
    <3>1. i.m \in {"beq", "bne", "blt", "bge", "bltu", "bgeu", "ret", "mret", "jr", "j",
                   "jal", "call", "jalr"}
      BY <1>1, <2>2 DEF RiscvNames, CsrAll, CsrWrites, CsrSwaps, CsrSetsClears, RiscvLoads,
         RiscvStores, RiscvAmo, RiscvBranches, RiscvCalls, RiscvAlu
    <3>2. Riscv(i, r).known = NothingKnown
      BY <3>1 DEF Riscv, CsrAll, CsrWrites, CsrSwaps, CsrSetsClears, RiscvLoads, RiscvStores,
         RiscvAmo, RiscvBranches, RiscvCalls, RiscvAlu, Effect
    <3> QED
      BY <2>1, <3>2
  <2>3. CASE i.m \notin RiscvNames
    BY <1>2, <2>1, <2>3, RiscvUnknown
  <2> QED
    BY <2>2, <2>3
<1>4. CASE isa = "arm"
  <2>1. Classify(isa, i, r) = Arm(i, r)
    BY <1>4 DEF Classify
  <2>2. CASE i.m \in ArmNames
    <3>1. i.m \in {"bl", "blx", "bx lr", "pop pc", "b", "beq", "bne", "bx", "bleq"}
      BY <1>1, <2>2 DEF ArmNames, ArmLoads, ArmStores, ArmKills
    <3>2. Arm(i, r).known = NothingKnown
      BY <3>1 DEF Arm, ArmLoads, ArmStores, ArmKills, Effect
    <3> QED
      BY <2>1, <3>2
  <2>3. CASE i.m \notin ArmNames
    BY <1>2, <2>1, <2>3, ArmUnknown
  <2> QED
    BY <2>2, <2>3
<1>5. CASE isa = "powerpc"
  <2>1. Classify(isa, i, r) = Powerpc(i, r)
    BY <1>5 DEF Classify
  <2>2. CASE i.m \in PowerpcNames
    <3>1. i.m \in {"bl", "bctrl", "blr", "b", "ba", "beq", "bne", "bctr", "rfi"}
      BY <1>1, <2>2 DEF PowerpcNames, PowerpcLoads, PowerpcStores
    <3>2. Powerpc(i, r).known = NothingKnown
      BY <3>1 DEF Powerpc, PowerpcLoads, PowerpcStores, Effect
    <3> QED
      BY <2>1, <3>2
  <2>3. CASE i.m \notin PowerpcNames
    BY <1>2, <2>1, <2>3, PowerpcUnknown
  <2> QED
    BY <2>2, <2>3
<1> QED
  BY <1>3, <1>4, <1>5 DEF Isas

\* The registers that a decoded instruction does not write stay as they are.
LEMMA WrittenOnly ==
  ASSUME NEW i, NEW regs, DOMAIN regs = Registers,
         NEW after \in Completed(i, regs)
  PROVE  /\ DOMAIN after = Registers
         /\ \A x \in Registers \ {i.d, i.w} : after[x] = regs[x]
         /\ i.d \in Registers /\ i.d # i.w => after[i.d] \in Results(i, regs)
<1>1. PICK t \in Written(regs, i.d, Results(i, regs)) : after \in Written(t, i.w, Samples)
  BY DEF Completed
<1>2. /\ DOMAIN t = Registers
      /\ \A x \in Registers \ {i.d} : t[x] = regs[x]
      /\ i.d \in Registers => t[i.d] \in Results(i, regs)
  BY DEF Written
<1> QED
  BY <1>1, <1>2 DEF Written

\* What is known after an instruction is true after it, but for what is stale then.
LEMMA StepAgrees ==
  ASSUME NEW isa \in Isas, NEW i, Listed(i), NEW r, NEW regs, NEW S, Agrees(r, regs, S),
         NEW after \in After(isa, i, regs)
  PROVE  DOMAIN after = Registers /\ Agrees(Classify(isa, i, r).known, after, StaleAfter(i, S))
<1> DEFINE known == Classify(isa, i, r).known
           T == StaleAfter(i, S)
<1>1. CASE IsCall(i) \/ i.m \notin Names(isa)
  <2>1. known = NothingKnown
    <3>1. CASE IsCall(i)
      BY <3>1, EndsForget
    <3>2. CASE i.m \notin Names(isa)
      BY <3>2, ClassifySound DEF Unsupported, Effect
    <3> QED
      BY <1>1, <3>1, <3>2
  <2>2. Classify(isa, i, NothingKnown) = Unsupported \/ IsCall(i)
    <3>1. Agrees(NothingKnown, regs, S)
      BY NothingAgrees DEF Agrees
    <3> QED
      BY <1>1, <3>1, ClassifySound
  <2>3. DOMAIN after = Registers
    BY <2>2 DEF After
  <2> QED
    BY <2>1, <2>3, NothingAgrees
<1>2. CASE ~IsCall(i) /\ i.m \in Names(isa)
  <2>1. Classify(isa, i, NothingKnown) # Unsupported
    <3>1. Agrees(NothingKnown, regs, S)
      BY NothingAgrees DEF Agrees
    <3>2. Fact("UNKNOWN") \notin Classify(isa, i, NothingKnown).facts
      BY <1>2, <3>1, ClassifySound DEF Sound
    <3> QED
      BY <3>2 DEF Unsupported, Effect
  <2>2. after \in Completed(i, regs) \/ (after = regs /\ i.m \in Conditional)
    <3>1. After(isa, i, regs) = Completed(i, regs) \cup (IF i.m \in Conditional THEN {regs} ELSE {})
      BY <1>2, <2>1 DEF After
    <3> QED
      BY <3>1
  <2>3. /\ r \in [Registers -> Int \cup {None}] /\ DOMAIN regs = Registers
        /\ \A x \in Registers \ S : r[x] # None => r[x] % Word = regs[x]
    BY DEF Agrees
  <2>4. /\ DOMAIN after = Registers
        /\ \A x \in Registers \ {i.d, i.w} : after[x] = regs[x]
        /\ i.d \in Registers /\ i.d # i.w /\ i.m \notin Conditional => after[i.d] \in Results(i, regs)
    <3>1. CASE after \in Completed(i, regs)
      BY <2>3, <3>1, WrittenOnly
    <3>2. CASE after = regs /\ i.m \in Conditional
      BY <2>3, <3>2
    <3> QED
      BY <2>2, <3>1, <3>2
  <2>5. /\ S \ {i.d} \subseteq T /\ Overlooked(i) \subseteq T
        /\ i.w \in Registers => i.w \in T
    BY DEF StaleAfter, Overlooked
  <2>6. Moves(i, r, regs, S, known)
    BY <1>2, ClassifySound DEF Sound
  <2> HIDE DEF known, T
  <2>7. ASSUME known = NothingKnown PROVE Agrees(known, after, T)
    BY <2>4, <2>7, NothingAgrees
  <2>8. ASSUME known = r, i.d \in Registers => i.d \in Overlooked(i)
        PROVE  Agrees(known, after, T)
    <3>1. ASSUME NEW x \in Registers \ T PROVE x \notin S /\ after[x] = regs[x]
      BY <2>4, <2>5, <2>8, <3>1
    <3> QED
      BY <2>3, <2>4, <2>8, <3>1 DEF Agrees
  <2>9. ASSUME NEW v \in Int \cup {None}, known = Assign(r, i.d, v), v # None => i.m \notin Conditional,
               v # None /\ i.d \in Registers => Results(i, regs) = {v % Word} \/ i.d \in T
        PROVE  Agrees(known, after, T)
    <3>1. known \in [Registers -> Int \cup {None}]
      BY <2>3, <2>9, AssignTyped
    <3>2. ASSUME NEW x \in Registers \ T, known[x] # None PROVE known[x] % Word = after[x]
      <4>1. x # i.w
        BY <2>5, <3>2
      <4>2. CASE x = i.d
        <5>1. known[x] = v
          BY <2>3, <2>9, <4>2 DEF Assign
        <5>2. after[x] \in Results(i, regs) /\ Results(i, regs) = {v % Word}
          BY <2>4, <2>9, <3>2, <4>1, <4>2, <5>1
        <5> QED
          BY <5>1, <5>2
      <4>3. CASE x # i.d
        <5>1. known[x] = r[x] /\ after[x] = regs[x] /\ x \notin S
          BY <2>3, <2>4, <2>5, <2>9, <3>2, <4>1, <4>3 DEF Assign
        <5> QED
          BY <2>3, <3>2, <5>1
      <4> QED
        BY <4>2, <4>3
    <3> QED
      BY <2>4, <3>1, <3>2 DEF Agrees
  <2>10. Agrees(known, after, T)
    BY <2>6, <2>7, <2>8, <2>9 DEF Moves, T
  <2> QED
    BY <2>4, <2>10 DEF known, T
<1> QED
  BY <1>1, <1>2
-----------------------------------------------------------------------------
(* What is known before each instruction.                                  *)

LEMMA ProgramsListed ==
  ASSUME NEW p \in Programs
  PROVE  Listing(p)
BY ProgramsAssumption

LEMMA CodeDomain ==
  ASSUME NEW p, Listing(p)
  PROVE  Len(p.code) \in Nat /\ DOMAIN p.code = 1 .. Len(p.code)
BY DEF Listing

LEMMA LessWF == IsWellFoundedOn({p \in Nat \X Nat : p[1] < p[2]}, Nat)
BY NatLessThanWellFounded DEF OpToRel

LEMMA NatSet ==
  ASSUME NEW S, 0 \in S, \A n \in Nat : n \in S => n + 1 \in S
  PROVE  Nat \subseteq S
<1> DEFINE T == {n \in Nat : n \notin S}
           R == {p \in Nat \X Nat : p[1] < p[2]}
<1>1. ASSUME T # {} PROVE FALSE
  <2>1. T \subseteq Nat
    OBVIOUS
  <2>2. IsWellFoundedOn(R, Nat)
    BY LessWF
  <2> HIDE DEF R, T
  <2>3. PICK x \in T : \A y \in T : ~(<<y, x>> \in R)
    BY <1>1, <2>1, <2>2, WFMin
  <2> USE DEF T
  <2>4. x \in Nat /\ x \notin S /\ x # 0
    OBVIOUS
  <2>5. x - 1 \in Nat /\ x - 1 + 1 = x
    BY <2>4
  <2>6. x - 1 \notin S
    BY <2>4, <2>5
  <2>7. <<x - 1, x>> \in R
    BY <2>4, <2>5 DEF R
  <2> QED
    BY <2>3, <2>5, <2>6, <2>7
<1> QED
  BY <1>1

\* The recursion of KnownBefore has a solution.
LEMMA KnownExists ==
  ASSUME NEW p, NEW N \in Nat
  PROVE  \E f : f = [pc \in 1 .. N |-> IF pc = 1 \/ Forgets(p, pc) THEN NothingKnown
                                       ELSE Classify(p.isa, p.code[pc - 1], f[pc - 1]).known]
<1> DEFINE E(f, pc) == IF pc = 1 \/ Forgets(p, pc) THEN NothingKnown
                       ELSE Classify(p.isa, p.code[pc - 1], f[pc - 1]).known
           D(m, f) == f = [pc \in 1 .. m |-> E(f, pc)]
           S == {m \in Nat : \E f : D(m, f)}
<1>1. 0 \in S
  <2>1. D(0, [pc \in 1 .. 0 |-> NothingKnown])
    OBVIOUS
  <2> QED
    BY <2>1
<1>2. ASSUME NEW m \in Nat, m \in S PROVE m + 1 \in S
  <2>1. PICK f : D(m, f)
    BY <1>2
  <2> DEFINE g == [pc \in 1 .. m + 1 |-> IF pc = m + 1 THEN E(f, m + 1) ELSE f[pc]]
  <2>2. D(m + 1, g)
    <3>1. ASSUME NEW pc \in 1 .. m + 1 PROVE g[pc] = E(g, pc)
      <4>1. pc = 1 \/ g[pc - 1] = f[pc - 1]
        OBVIOUS
      <4>2. E(g, pc) = E(f, pc)
        BY <4>1
      <4>3. CASE pc = m + 1
        BY <4>2, <4>3
      <4>4. CASE pc # m + 1
        <5>1. pc \in 1 .. m
          BY <4>4
        <5>2. f[pc] = E(f, pc)
          BY <2>1, <5>1
        <5> HIDE DEF E
        <5> QED
          BY <4>2, <4>4, <5>2
      <4> QED
        BY <4>3, <4>4
    <3> HIDE DEF E
    <3> QED
      BY <3>1
  <2> HIDE DEF D
  <2> QED
    BY <2>2
<1> HIDE DEF D
<1>3. N \in S
  BY <1>1, <1>2, NatSet
<1> QED
  BY <1>3 DEF D

LEMMA KnownUnroll ==
  ASSUME NEW p, Listing(p)
  PROVE  KnownBefore(p) = [pc \in DOMAIN p.code |->
           IF pc = 1 \/ Forgets(p, pc) THEN NothingKnown
           ELSE Classify(p.isa, p.code[pc - 1], KnownBefore(p)[pc - 1]).known]
<1>1. \E f : f = [pc \in DOMAIN p.code |->
        IF pc = 1 \/ Forgets(p, pc) THEN NothingKnown
        ELSE Classify(p.isa, p.code[pc - 1], f[pc - 1]).known]
  <2> DEFINE N == Len(p.code)
  <2>1. N \in Nat /\ DOMAIN p.code = 1 .. N
    BY CodeDomain
  <2>2. PICK f : f = [pc \in 1 .. N |->
        IF pc = 1 \/ Forgets(p, pc) THEN NothingKnown
        ELSE Classify(p.isa, p.code[pc - 1], f[pc - 1]).known]
    BY <2>1, KnownExists
  <2> QED
    BY <2>1, <2>2
<1> QED
  BY <1>1 DEF KnownBefore

\* So has that of Stale.
LEMMA StaleExists ==
  ASSUME NEW p, NEW N \in Nat
  PROVE  \E f : f = [pc \in 1 .. N |-> IF pc = 1 \/ Forgets(p, pc) THEN {}
                                       ELSE StaleAfter(p.code[pc - 1], f[pc - 1])]
<1> DEFINE E(f, pc) == IF pc = 1 \/ Forgets(p, pc) THEN {} ELSE StaleAfter(p.code[pc - 1], f[pc - 1])
           D(m, f) == f = [pc \in 1 .. m |-> E(f, pc)]
           S == {m \in Nat : \E f : D(m, f)}
<1>1. 0 \in S
  <2>1. D(0, [pc \in 1 .. 0 |-> {}])
    OBVIOUS
  <2> QED
    BY <2>1
<1>2. ASSUME NEW m \in Nat, m \in S PROVE m + 1 \in S
  <2>1. PICK f : D(m, f)
    BY <1>2
  <2> DEFINE g == [pc \in 1 .. m + 1 |-> IF pc = m + 1 THEN E(f, m + 1) ELSE f[pc]]
  <2>2. D(m + 1, g)
    <3>1. ASSUME NEW pc \in 1 .. m + 1 PROVE g[pc] = E(g, pc)
      <4>1. pc = 1 \/ g[pc - 1] = f[pc - 1]
        OBVIOUS
      <4>2. E(g, pc) = E(f, pc)
        BY <4>1
      <4>3. CASE pc = m + 1
        BY <4>2, <4>3
      <4>4. CASE pc # m + 1
        <5>1. pc \in 1 .. m
          BY <4>4
        <5>2. f[pc] = E(f, pc)
          BY <2>1, <5>1
        <5> HIDE DEF E
        <5> QED
          BY <4>2, <4>4, <5>2
      <4> QED
        BY <4>3, <4>4
    <3> HIDE DEF E
    <3> QED
      BY <3>1
  <2> HIDE DEF D
  <2> QED
    BY <2>2
<1> HIDE DEF D
<1>3. N \in S
  BY <1>1, <1>2, NatSet
<1> QED
  BY <1>3 DEF D

LEMMA StaleUnroll ==
  ASSUME NEW p, Listing(p)
  PROVE  Stale(p) = [pc \in DOMAIN p.code |->
           IF pc = 1 \/ Forgets(p, pc) THEN {} ELSE StaleAfter(p.code[pc - 1], Stale(p)[pc - 1])]
<1>1. \E f : f = [pc \in DOMAIN p.code |->
        IF pc = 1 \/ Forgets(p, pc) THEN {} ELSE StaleAfter(p.code[pc - 1], f[pc - 1])]
  <2> DEFINE N == Len(p.code)
  <2>1. N \in Nat /\ DOMAIN p.code = 1 .. N
    BY CodeDomain
  <2>2. PICK f : f = [pc \in 1 .. N |->
        IF pc = 1 \/ Forgets(p, pc) THEN {} ELSE StaleAfter(p.code[pc - 1], f[pc - 1])]
    BY <2>1, StaleExists
  <2> QED
    BY <2>1, <2>2
<1> QED
  BY <1>1 DEF Stale

-----------------------------------------------------------------------------
(* Where what is known is forgotten.                                       *)
LEMMA GreatestExists ==
  ASSUME NEW N \in Nat, NEW S \in SUBSET (1 .. N), S # {}
  PROVE  Greatest(S) \in S /\ \A y \in S : y <= Greatest(S)
<1> DEFINE Q(n) == \A R \in SUBSET (1 .. n) : R # {} => \E x \in R : \A y \in R : y <= x
           T == {n \in Nat : Q(n)}
<1>1. 0 \in T
  <2>1. 1 .. 0 = {}
    OBVIOUS
  <2>2. \A R \in SUBSET (1 .. 0) : R = {}
    BY <2>1
  <2> QED
    BY <2>2
<1>2. ASSUME NEW n \in Nat, n \in T PROVE n + 1 \in T
  <2> SUFFICES ASSUME NEW R \in SUBSET (1 .. n + 1), R # {}
               PROVE  \E x \in R : \A y \in R : y <= x
    OBVIOUS
  <2>1. CASE n + 1 \in R
    BY <2>1
  <2>2. CASE n + 1 \notin R
    <3>1. R \in SUBSET (1 .. n)
      BY <2>2
    <3> QED
      BY <1>2, <3>1
  <2> QED
    BY <2>1, <2>2
<1> HIDE DEF Q
<1>3. N \in T
  BY <1>1, <1>2, NatSet
<1>4. Q(N)
  BY <1>3
<1>5. \E x \in S : \A y \in S : y <= x
  BY <1>4 DEF Q
<1> QED
  BY <1>5 DEF Greatest

\* The last of a set of addresses with 1 at or before an address.
LEMMA LastBefore ==
  ASSUME NEW N \in Nat, NEW S \in SUBSET (1 .. N), 1 \in S, NEW pc \in 1 .. N
  PROVE  LET last == Greatest({x \in S : x <= pc})
         IN  last \in S /\ last <= pc /\ (pc \in S => last = pc)
<1> DEFINE R == {x \in S : x <= pc}
<1>0. S \subseteq 1 .. N /\ pc \in Nat /\ 1 <= pc
  OBVIOUS
<1>1. R \in SUBSET (1 .. N) /\ R # {}
  <2>1. 1 \in R
    BY <1>0
  <2>2. R \subseteq 1 .. N
    BY <1>0
  <2> QED
    BY <2>1, <2>2
<1>2. Greatest(R) \in R /\ \A y \in R : y <= Greatest(R)
  BY <1>1, GreatestExists
<1> HIDE DEF R
<1>3. Greatest(R) \in S /\ Greatest(R) <= pc
  BY <1>2 DEF R
<1>4. pc \in S => pc <= Greatest(R)
  BY <1>2 DEF R
<1>5. pc \in S => Greatest(R) = pc
  <2>0. \A x \in S : x \in Nat
    BY <1>0
  <2>1. Greatest(R) \in Nat
    BY <1>3, <2>0
  <2> QED
    BY <1>0, <1>3, <1>4, <2>1
<1> QED
  BY <1>3, <1>5 DEF R

LEMMA EntryForgets ==
  ASSUME NEW p, Listing(p), NEW e \in p.entries, e # 1
  PROVE  Forgets(p, e)
<1> DEFINE N == Len(p.code)
<1>1. N \in Nat /\ p.entries \in SUBSET (1 .. N) /\ 1 \in p.entries /\ e \in 1 .. N
  BY CodeDomain DEF Listing
<1>2. e - 1 \in 1 .. N
  BY <1>1
<1> HIDE DEF N
<1>3. Owner(p, e) = e
  BY <1>1, LastBefore DEF Owner
<1>4. Owner(p, e - 1) \in p.entries /\ Owner(p, e - 1) <= e - 1
  BY <1>1, <1>2, LastBefore DEF Owner
<1>5. Owner(p, e - 1) # e
  BY <1>1, <1>4
<1> QED
  BY <1>3, <1>5 DEF Forgets

\* A jump has an edge of its own, so its target does not keep what is known.
LEMMA TargetForgets ==
  ASSUME NEW p, Listing(p), NEW k \in DOMAIN p.code,
         p.code[k].m \in Branches \/ IsJump(p.code[k]),
         p.code[k].n \in DOMAIN p.code, p.code[k].n # 1
  PROVE  Forgets(p, p.code[k].n)
<1> DEFINE N == Len(p.code)
           t == p.code[k].n
           L == Leaders(p)
<1>1. N \in Nat /\ DOMAIN p.code = 1 .. N
  BY CodeDomain
<1>2. EndsBlock(p.code[k])
  BY DEF EndsBlock
<1>3. L \in SUBSET (1 .. N) /\ 1 \in L
  BY <1>1 DEF Leaders, Listing
<1>4. t \in L
  BY DEF Leaders, Targets
<1>5. k = N \/ k + 1 \in L
  BY <1>1, <1>2 DEF Leaders
<1>6. t \in 1 .. N /\ t - 1 \in 1 .. N
  BY <1>1
<1> DEFINE jump == [source |-> Block(p, k), target |-> t, type |-> "JUMP"]
<1>7. jump \in Edges(p)
  BY <1>5 DEF Edges
<1> HIDE DEF N, L, t
<1>8. Block(p, t) = t
  BY <1>1, <1>3, <1>4, <1>6, LastBefore DEF Block, L
<1>9. Block(p, t - 1) \in L /\ Block(p, t - 1) <= t - 1
  BY <1>1, <1>3, <1>6, LastBefore DEF Block, L
<1>10. Block(p, t - 1) # t
  BY <1>1, <1>3, <1>6, <1>9
<1>11. ~StraightFallthrough(p, t)
  BY <1>7, <1>8 DEF StraightFallthrough
<1>12. Forgets(p, t)
  BY <1>8, <1>10, <1>11 DEF Forgets
<1> QED
  BY <1>12 DEF t
-----------------------------------------------------------------------------
(* A run, and what the frontend knows where it is.                         *)
KnownHere ==
  /\ program \in Programs /\ facts = Normalize(program)
  /\ run # Nothing =>
       run.pc \in DOMAIN program.code /\ Agrees(KnownBefore(program)[run.pc], run.regs, Stale(program)[run.pc])

\* The run is at an address before which everything is forgotten.
LEMMA ForgottenAgrees ==
  ASSUME NEW p, Listing(p), NEW pc \in DOMAIN p.code, pc = 1 \/ Forgets(p, pc),
         NEW regs, DOMAIN regs = Registers
  PROVE  Agrees(KnownBefore(p)[pc], regs, Stale(p)[pc])
<1>1. KnownBefore(p)[pc] = NothingKnown
  BY KnownUnroll
<1> QED
  BY <1>1, NothingAgrees

\* The run comes from the instruction before.
LEMMA NextAgrees ==
  ASSUME NEW p, Listing(p), NEW pc \in DOMAIN p.code, pc + 1 \in DOMAIN p.code,
         NEW regs, DOMAIN regs = Registers,
         Agrees(Classify(p.isa, p.code[pc], KnownBefore(p)[pc]).known, regs,
                StaleAfter(p.code[pc], Stale(p)[pc]))
  PROVE  Agrees(KnownBefore(p)[pc + 1], regs, Stale(p)[pc + 1])
<1>1. CASE Forgets(p, pc + 1)
  BY <1>1, ForgottenAgrees
<1>2. CASE ~Forgets(p, pc + 1)
  <2>1. pc \in Nat /\ pc + 1 # 1 /\ pc + 1 - 1 = pc
    BY CodeDomain
  <2>2. KnownBefore(p)[pc + 1] = Classify(p.isa, p.code[pc], KnownBefore(p)[pc]).known
    BY <1>2, <2>1, KnownUnroll
  <2>3. Stale(p)[pc + 1] = StaleAfter(p.code[pc], Stale(p)[pc])
    BY <1>2, <2>1, StaleUnroll
  <2> QED
    BY <2>2, <2>3
<1> QED
  BY <1>1, <1>2

LEMMA GoToKnows ==
  ASSUME KnownHere, NEW target, NEW regs, NEW kind, GoTo(target, regs, kind),
         target \in DOMAIN program.code => Agrees(KnownBefore(program)[target], regs, Stale(program)[target])
  PROVE  KnownHere'
<1>1. /\ target \in DOMAIN program.code /\ run'.pc = target /\ run'.regs = regs
      /\ program' = program /\ facts' = facts
  BY DEF GoTo
<1> QED
  BY <1>1 DEF KnownHere

LEMMA InitKnows == FirmwareInit => KnownHere
BY DEF FirmwareInit, KnownHere

LEMMA NextKnows ==
  ASSUME KnownHere, [FirmwareNext]_<<vars, firmware>>
  PROVE  KnownHere'
<1> DEFINE p == program
           i == Instruction
<1>0. Listing(p)
  BY ProgramsListed DEF KnownHere
<1>a. ASSUME run # Nothing
      PROVE  /\ run.pc \in DOMAIN p.code /\ i = p.code[run.pc] /\ Listed(i) /\ p.isa \in Isas
             /\ Agrees(KnownBefore(p)[run.pc], run.regs, Stale(p)[run.pc]) /\ DOMAIN run.regs = Registers
  BY <1>0, <1>a DEF KnownHere, Listing, Instruction, Agrees
<1>b. ASSUME run # Nothing, NEW regs \in After(p.isa, i, run.regs)
      PROVE  /\ DOMAIN regs = Registers
             /\ Agrees(Classify(p.isa, i, KnownBefore(p)[run.pc]).known, regs, StaleAfter(i, Stale(p)[run.pc]))
  BY <1>a, <1>b, StepAgrees
<1>1. CASE UNCHANGED <<vars, firmware>>
  BY <1>1 DEF KnownHere, firmware
<1>2. CASE Analyse
  BY <1>2 DEF KnownHere, Analyse, firmware
<1>3. CASE Enter
  <2>1. PICK entry \in p.entries, regs \in [Registers -> Samples] :
          run'.pc = entry /\ run'.regs = regs
    BY <1>3 DEF Enter
  <2>2. entry \in DOMAIN p.code /\ DOMAIN regs = Registers
    BY <1>0, <2>1 DEF Listing
  <2>3. Agrees(KnownBefore(p)[entry], regs, Stale(p)[entry])
    BY <1>0, <2>2, EntryForgets, ForgottenAgrees
  <2>4. run'.pc = entry /\ run'.regs = regs /\ program' = p /\ facts' = facts
    BY <1>3, <2>1 DEF Enter
  <2> QED
    BY <2>2, <2>3, <2>4 DEF KnownHere
<1>4. CASE Operate
  <2>1. PICK regs \in After(p.isa, i, run.regs) : GoTo(run.pc + 1, regs, "branch")
    BY <1>4 DEF Operate
  <2>2. run.pc + 1 \in DOMAIN p.code => Agrees(KnownBefore(p)[run.pc + 1], regs, Stale(p)[run.pc + 1])
    BY <1>0, <1>4, <1>a, <1>b, <2>1, NextAgrees DEF Operate
  <2> QED
    BY <2>1, <2>2, GoToKnows
<1>5. CASE Branch
  <2>1. PICK target \in {i.n, run.pc + 1} : GoTo(target, run.regs, "branch")
    BY <1>5 DEF Branch
  <2>2. run # Nothing /\ i.m \in Branches /\ EndsBlock(i)
    BY <1>5 DEF Branch, EndsBlock
  <2>3. Agrees(Classify(p.isa, i, KnownBefore(p)[run.pc]).known, run.regs, StaleAfter(i, Stale(p)[run.pc]))
    BY <1>a, <2>2, EndsForget, NothingAgrees
  <2>4. run.pc + 1 \in DOMAIN p.code => Agrees(KnownBefore(p)[run.pc + 1], run.regs, Stale(p)[run.pc + 1])
    BY <1>0, <1>a, <2>2, <2>3, NextAgrees
  <2>5. i.n \in DOMAIN p.code => Agrees(KnownBefore(p)[i.n], run.regs, Stale(p)[i.n])
    BY <1>0, <1>a, <2>2, TargetForgets, ForgottenAgrees
  <2> QED
    BY <2>1, <2>4, <2>5, GoToKnows
<1>6. CASE Jump
  <2>1. GoTo(i.n, run.regs, "branch") /\ run # Nothing /\ IsJump(i)
    BY <1>6 DEF Jump
  <2>2. i.n \in DOMAIN p.code => Agrees(KnownBefore(p)[i.n], run.regs, Stale(p)[i.n])
    BY <1>0, <1>a, <2>1, TargetForgets, ForgottenAgrees
  <2> QED
    BY <2>1, <2>2, GoToKnows
<1>7. CASE Return
  <2>1. PICK regs \in After(p.isa, i, run.regs) : GoTo(run.pc + 1, regs, "fakeret")
    BY <1>7 DEF Return
  <2>2. run.pc + 1 \in DOMAIN p.code => Agrees(KnownBefore(p)[run.pc + 1], regs, Stale(p)[run.pc + 1])
    BY <1>0, <1>7, <1>a, <1>b, <2>1, NextAgrees DEF Return
  <2> QED
    BY <2>1, <2>2, GoToKnows
<1>8. CASE Call
  <2>1. PICK regs \in After(p.isa, i, run.regs) : GoTo(i.n, regs, "call")
    BY <1>8 DEF Call
  <2>2. run # Nothing /\ IsCall(i)
    BY <1>8 DEF Call
  <2>3. i.n \in DOMAIN p.code => i.n \in p.entries
    BY <1>0, <1>a, <2>2 DEF Listing
  <2>4. i.n \in DOMAIN p.code => Agrees(KnownBefore(p)[i.n], regs, Stale(p)[i.n])
    BY <1>0, <1>b, <2>1, <2>2, <2>3, EntryForgets, ForgottenAgrees
  <2> QED
    BY <2>1, <2>4, GoToKnows
<1> QED
  BY <1>1, <1>2, <1>3, <1>4, <1>5, <1>6, <1>7, <1>8 DEF FirmwareNext

LEMMA KnownTells == KnownHere => FactsAreTrue
<1> SUFFICES ASSUME KnownHere, run # Nothing
             PROVE  Tells(Instruction, run.regs, Stale(program)[run.pc], facts[run.pc])
  BY DEF FactsAreTrue, Tells
<1> DEFINE p == program
<1>1. Listing(p)
  BY ProgramsListed DEF KnownHere
<1>2. /\ run.pc \in DOMAIN p.code /\ Instruction = p.code[run.pc]
      /\ Listed(Instruction) /\ p.isa \in Isas
      /\ Agrees(KnownBefore(p)[run.pc], run.regs, Stale(p)[run.pc])
  BY <1>1 DEF KnownHere, Listing, Instruction
<1>3. facts[run.pc] = Classify(p.isa, Instruction, KnownBefore(p)[run.pc]).facts
  BY <1>2 DEF KnownHere, Normalize
<1> QED
  BY <1>2, <1>3, FactsTell

\* The facts of every instruction are true wherever a run of the firmware is, in all
\* respects but those in which FactsAreTrue says that they are not.
THEOREM FactsSayTheTruth == FirmwareSpec => []FactsAreTrue
<1>1. FirmwareInit => KnownHere
  BY InitKnows
<1>2. KnownHere /\ [FirmwareNext]_<<vars, firmware>> => KnownHere'
  BY NextKnows
<1>3. KnownHere => FactsAreTrue
  BY KnownTells
<1> QED
  BY <1>1, <1>2, <1>3, PTL DEF FirmwareSpec
=============================================================================
