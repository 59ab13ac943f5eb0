----------------------------- MODULE RawStream -----------------------------
(***************************************************************************)
(* The raw execution stream: what chipchain_trace.c writes, and what       *)
(* parse_raw_stream (runtime/acquisition.py) accepts of it.  The two are    *)
(* written in different languages and decide independently where a window  *)
(* ends.  A record is one line; the JSON around it is abstracted.          *)
(***************************************************************************)
EXTENDS Integers, Sequences

CONSTANTS
  Pc,          \* the program counters
  Codes,       \* the instruction bytes seen at a program counter
  Limit,       \* the largest bound that may be declared: 1000000
  Declared,    \* the policies that a caller may ask for
  NoTarget,    \* no target program counter, and no target event
  NoEnd        \* no terminator

ASSUME LimitAssumption == Limit \in Nat

ASSUME NoTargetAssumption == NoTarget \notin Pc /\ NoTarget \notin Int

Policies == [target : Pc \cup {NoTarget}, successors : Nat, maximum : Nat]

ASSUME DeclaredAssumption == Declared \subseteq Policies

\* validate_policy, and the same four conditions in qemu_plugin_install.
ValidPolicy(p) ==
  /\ p.maximum \in 1 .. Limit
  /\ p.successors < p.maximum
  /\ p.target = NoTarget => p.successors = 0

\* AcquisitionPolicy is stricter: a target has a successor at least.
CanonicalPolicy(p) ==
  ValidPolicy(p) /\ (p.target # NoTarget => p.successors >= 1)

Events == [sequence : Nat, pc : Pc, code : Codes]

Reasons == {"target_window_complete", "event_bound"}

Ends == [reason : Reasons, count : Nat, target : Nat \cup {NoTarget}]

ASSUME NoEndAssumption == NoEnd \notin Ends

\* torn: the file breaks off inside a record.
Streams == [header : BOOLEAN, events : Seq(Events), end : Ends \cup {NoEnd}, torn : BOOLEAN]

Empty == [header |-> FALSE, events |-> <<>>, end |-> NoEnd, torn |-> FALSE]

\* t is the number of the first event at the target, NoTarget if there is none.
IsTargetSequence(t, events, p) ==
  IF t = NoTarget
  THEN \A n \in DOMAIN events : events[n].pc # p.target
  ELSE /\ t + 1 \in DOMAIN events /\ events[t + 1].pc = p.target
       /\ \A n \in 1 .. t : events[n].pc # p.target

WindowFits(t, p) == t # NoTarget /\ t + p.successors + 1 <= p.maximum

ExpectedCount(t, p) ==
  IF WindowFits(t, p) THEN t + p.successors + 1 ELSE p.maximum

ExpectedReason(t, p) ==
  IF WindowFits(t, p) THEN "target_window_complete" ELSE "event_bound"

Contiguous(events) == \A n \in DOMAIN events : events[n].sequence = n - 1

\* The events are what the policy declares, t being the target's.
Window(t, events, p) ==
  /\ Len(events) \in 1 .. p.maximum
  /\ Contiguous(events)
  /\ IsTargetSequence(t, events, p)
  /\ Len(events) = ExpectedCount(t, p)

\* parse_raw_stream: a complete stream of the declared policy.
Parses(s, p) ==
  /\ s.header /\ ~s.torn /\ s.end # NoEnd
  /\ Window(s.end.target, s.events, p)
  /\ s.end.count = Len(s.events)
  /\ s.end.reason = ExpectedReason(s.end.target, p)
=============================================================================
