------------------------- MODULE StaticReachability -------------------------
(***************************************************************************)
(* tools/firmware/static_reachability.py: from the control-flow graph that *)
(* angr recovered, is a site reached from the entry of its function, and   *)
(* one function from another?  The answer is a bounded breadth-first       *)
(* search, along branches first and then also over calls that are assumed  *)
(* to return (fakeret), and a witness that a validator checks again.       *)
(*                                                                         *)
(* A graph is [nodes, edges, calls, at, owner, holds, exact]: edges between*)
(* nodes and calls between functions are records [id, source, target,      *)
(* kind]; at, owner and holds give the address of a node, its function and *)
(* the instructions in it; exact are the functions that angr found at the  *)
(* entry that is expected of them.  The questions of the catalog do not    *)
(* share anything, so a behaviour asks one.                                *)
(*                                                                         *)
(* The walker is a run of the firmware, as far as the graph tells: it goes *)
(* along the edges of the function (or of the call graph) from its entry.  *)
(***************************************************************************)
EXTENDS Integers, Sequences

CONSTANTS
  Cfgs,              \* the graphs asked about
  MaxFunctionEdges,  \* MAX_FUNCTION_PATH_EDGES
  MaxSiteEdges,      \* MAX_SITE_PATH_EDGES
  Nothing            \* no owner, no item, no witness, no walker

ASSUME BoundAssumption == MaxFunctionEdges \in Nat /\ MaxSiteEdges \in Nat

VARIABLES
  cfg, ask,          \* the graph and the question, fixed
  pass,              \* the pass of the search, 0 before it
  queue,             \* what is to be looked at: [path, edges] of nodes and edges
  depth,             \* per pass, the visited nodes, each with the length at which
                     \*   it was visited (the code keeps the nodes only)
  item, todo,        \* the item looked at and its edges not yet followed
  status, witness,   \* the fact of the catalog
  walker

search == <<pass, queue, depth, item, todo, status, witness>>
vars   == <<cfg, ask, search, walker>>

-----------------------------------------------------------------------------
Owned(c, f) == {n \in c.nodes : c.owner[n] = f}

\* The edges of a function's own nodes.
Local(c, f, kinds) ==
  {e \in c.edges : {e.source, e.target} \subseteq Owned(c, f) /\ e.kind \in kinds}

Passes(c, a) ==
  IF a.kind = "site"
  THEN <<Local(c, a.home, {"branch"}), Local(c, a.home, {"branch", "fakeret"})>>
  ELSE <<c.calls>>

Starts(c, a) ==
  IF a.kind = "site" THEN {n \in Owned(c, a.home) : c.at[n] = a.home} ELSE {a.home}

Goals(c, a) ==
  IF a.kind = "site" THEN {n \in Owned(c, a.home) : a.goal \in c.holds[n]} ELSE {a.goal}

Bound(a) == IF a.kind = "site" THEN MaxSiteEdges ELSE MaxFunctionEdges

\* The questions: every site of a function or of none, and every pair of functions.
Asks(c) ==
  LET sites == UNION {c.holds[n] : n \in c.nodes}
      functions == c.exact \cup {c.owner[n] : n \in c.nodes}
  IN  [kind : {"site"}, home : functions \cup {Nothing}, goal : sites]
      \cup {a \in [kind : {"function"}, home : functions, goal : functions] : a.home # a.goal}

\* Why a question is not searched for.
Missing(c, a) ==
  CASE a.home = Nothing -> "owner_mapping_missing"
    [] a.home # Nothing /\ a.home \notin c.exact -> "source_mapping_missing"
    [] a.kind = "function" /\ a.home \in c.exact /\ a.goal \notin c.exact -> "target_mapping_missing"
    [] OTHER -> "none"

Graph == Passes(cfg, ask)[pass]
Final(it) == it.path[Len(it.path)]
UsesFakeret(it) == \E k \in DOMAIN it.edges : it.edges[k].kind = "fakeret"

NotFound == IF ask.kind = "site" THEN "not_found_in_cfg" ELSE "not_found_within_bound"
Found(it) ==
  CASE ask.kind = "function" -> "reachable_static"
    [] ask.kind = "site" /\ UsesFakeret(it)  -> "reachable_static_with_fakeret"
    [] ask.kind = "site" /\ ~UsesFakeret(it) -> "reachable_static_no_fakeret"

Reachable == {"reachable_static", "reachable_static_no_fakeret", "reachable_static_with_fakeret"}
Decided   == Reachable \cup {"not_found_in_cfg", "not_found_within_bound"}

Source(n) == <<[path |-> <<n>>, edges |-> <<>>]>>

\* A function of the nodes visited so far, with one more.
With(f, n, d) == [m \in DOMAIN f \cup {n} |-> IF m = n THEN d ELSE f[m]]

-----------------------------------------------------------------------------
Idle ==
  /\ pass = 0 /\ queue = <<>> /\ depth = <<>>
  /\ item = Nothing /\ todo = {}
  /\ status = "asked" /\ witness = Nothing
  /\ walker = Nothing

Init == cfg \in Cfgs /\ ask \in Asks(cfg) /\ Idle

\* The bindings are looked at before the graph.
Answer ==
  /\ status = "asked"
  /\ Missing(cfg, ask) # "none"
  /\ status' = Missing(cfg, ask)
  /\ UNCHANGED <<cfg, ask, pass, queue, depth, item, todo, witness, walker>>

\* Without one node at the entry nothing is searched.
NoStart ==
  /\ status = "asked" /\ Missing(cfg, ask) = "none"
  /\ \A n \in Starts(cfg, ask) : Starts(cfg, ask) # {n}
  /\ status' = NotFound
  /\ UNCHANGED <<cfg, ask, pass, queue, depth, item, todo, witness, walker>>

Begin ==
  /\ status = "asked" /\ Missing(cfg, ask) = "none"
  /\ \E n \in Starts(cfg, ask) :
       /\ Starts(cfg, ask) = {n}
       /\ queue' = Source(n) /\ depth' = <<[m \in {n} |-> 0]>>
       /\ walker' = [node |-> n, hops |-> 0, fakeret |-> FALSE]
  /\ pass' = 1 /\ status' = "searching"
  /\ UNCHANGED <<cfg, ask, item, todo, witness>>

Popping == status = "searching" /\ todo = {} /\ queue # <<>>

Arrive ==
  /\ Popping /\ Final(Head(queue)) \in Goals(cfg, ask)
  /\ witness' = Head(queue) /\ status' = Found(Head(queue))
  /\ UNCHANGED <<cfg, ask, pass, queue, depth, item, todo, walker>>

\* A variant: a path as long as the bound is expanded too.
Expand_OneMore ==
  /\ Popping /\ Final(Head(queue)) \notin Goals(cfg, ask)
  /\ queue' = Tail(queue)
  /\ IF Len(Head(queue).edges) > Bound(ask)
     THEN UNCHANGED <<item, todo>>
     ELSE /\ item' = Head(queue)
          /\ todo' = {e \in Graph : e.source = Final(Head(queue))}
  /\ UNCHANGED <<cfg, ask, pass, depth, status, witness, walker>>

\* A path as long as the bound is dropped, another one is expanded.
Expand ==
  /\ Popping /\ Final(Head(queue)) \notin Goals(cfg, ask)
  /\ queue' = Tail(queue)
  /\ IF Len(Head(queue).edges) >= Bound(ask)
     THEN UNCHANGED <<item, todo>>
     ELSE /\ item' = Head(queue)
          /\ todo' = {e \in Graph : e.source = Final(Head(queue))}
  /\ UNCHANGED <<cfg, ask, pass, depth, status, witness, walker>>

Earlier(e, f) == e.target < f.target \/ (e.target = f.target /\ e.id < f.id)

\* The neighbours in the order of their identities: the first edge to each counts.
Visit ==
  /\ status = "searching"
  /\ \E e \in todo :
       /\ \A f \in todo \ {e} : Earlier(e, f)
       /\ todo' = todo \ {e}
       /\ IF e.target \in DOMAIN depth[pass]
          THEN UNCHANGED <<queue, depth>>
          ELSE /\ queue' = Append(queue, [path |-> Append(item.path, e.target),
                                          edges |-> Append(item.edges, e)])
               /\ depth' = [depth EXCEPT ![pass] = With(@, e.target, Len(item.edges) + 1)]
  /\ UNCHANGED <<cfg, ask, pass, item, status, witness, walker>>

Exhausted == status = "searching" /\ todo = {} /\ queue = <<>>

\* A variant: the second pass does not look again at what the first has visited.
NextPass_KeepsVisited ==
  /\ Exhausted /\ pass < Len(Passes(cfg, ask))
  /\ \E n \in Starts(cfg, ask) : queue' = Source(n)
  /\ depth' = Append(depth, depth[pass])
  /\ pass' = pass + 1
  /\ UNCHANGED <<cfg, ask, item, todo, status, witness, walker>>

NextPass ==
  /\ Exhausted /\ pass < Len(Passes(cfg, ask))
  /\ \E n \in Starts(cfg, ask) :
       /\ queue' = Source(n) /\ depth' = Append(depth, [m \in {n} |-> 0])
  /\ pass' = pass + 1
  /\ UNCHANGED <<cfg, ask, item, todo, status, witness, walker>>

GiveUp ==
  /\ Exhausted /\ pass = Len(Passes(cfg, ask))
  /\ status' = NotFound
  /\ UNCHANGED <<cfg, ask, pass, queue, depth, item, todo, witness, walker>>

Search == Answer \/ NoStart \/ Begin \/ Arrive \/ Expand \/ Visit \/ NextPass \/ GiveUp

\* One more edge of a run; runs longer than the bound by one edge are not followed.
Step(n, kind) ==
  walker' = [node |-> n, hops |-> walker.hops + 1,
             fakeret |-> walker.fakeret \/ kind = "fakeret"]

Walk ==
  /\ status \in Decided /\ walker # Nothing
  /\ walker.hops <= Bound(ask)
  /\ \E p \in DOMAIN Passes(cfg, ask) : \E e \in Passes(cfg, ask)[p] :
       e.source = walker.node /\ Step(e.target, e.kind)
  /\ UNCHANGED <<cfg, ask, search>>

Next == Search \/ Walk

Spec == Init /\ [][Next]_vars

-----------------------------------------------------------------------------
(* What the contracts of the catalog and validate_reachability_witnesses   *)
(* ask of a witness.                                                       *)
IsWalk(it, edges) ==
  /\ Len(it.path) = Len(it.edges) + 1
  /\ \A k \in DOMAIN it.edges :
       /\ it.edges[k] \in edges
       /\ it.edges[k].source = it.path[k] /\ it.edges[k].target = it.path[k + 1]

Validates(it) ==
  /\ Len(it.edges) <= Bound(ask)
  /\ IF ask.kind = "site"
     THEN /\ IsWalk(it, cfg.edges)
          /\ \A k \in DOMAIN it.path : it.path[k] \in Owned(cfg, ask.home)
          /\ cfg.at[it.path[1]] = ask.home /\ ask.goal \in cfg.holds[Final(it)]
          /\ \A k \in DOMAIN it.edges : it.edges[k].kind \in {"branch", "fakeret"}
          /\ (status = "reachable_static_with_fakeret") = UsesFakeret(it)
     ELSE /\ IsWalk(it, cfg.calls)
          /\ it.path[1] = ask.home /\ Final(it) = ask.goal
          /\ Len(it.edges) >= 1

\* The validator, which reads the catalog again, accepts every witness the search
\* gives: a path of the graph, within the bound, from the entry of the function to
\* the site and through its own nodes, with a fakeret exactly when the status says so.
WitnessesValidate == status \in Reachable => Validates(witness)

\* A run is where the question asks, within the bound.
Arrived ==
  /\ status \in Decided /\ walker # Nothing
  /\ walker.hops <= Bound(ask) /\ walker.node \in Goals(cfg, ask)

\* The search misses nothing within its bound, in whatever order it visits: what a
\* run reaches along the graph is reported reachable, and what it reaches without
\* relying on the return of a call is not reported to rely on one.
ReachedIsReachable ==
  Arrived =>
    /\ status \in Reachable
    /\ ~walker.fakeret => status # "reachable_static_with_fakeret"
=============================================================================
