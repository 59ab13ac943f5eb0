------------------------ MODULE MmioApparatusProofs ------------------------
(***************************************************************************)
(* The monitor of the instrumented peripheral and the reader of its trace, *)
(* for every processor behaviour, every initial content of the registers,  *)
(* every length of a run and every damage of one record.                   *)
(*                                                                         *)
(* The reader is a recursive function of the file, the simulation a state  *)
(* machine.  The proof follows the parser's variables along the log while  *)
(* the monitor writes it: the first parts unroll the two recursive         *)
(* functions (Prefixes and Replay) and say what one more record does to    *)
(* them, the next ones take the parser through one event of each kind, and *)
(* the last ones put the events of an edge together.                       *)
(***************************************************************************)
EXTENDS MmioApparatus, FiniteSetTheorems, WellFoundedInduction, NaturalsInduction, TLAPS

\* Smaller-than is well founded on the numbers.
LEMMA LessWF == IsWellFoundedOn({p \in Nat \X Nat : p[1] < p[2]}, Nat)
BY NatLessThanWellFounded DEF OpToRel

\* A set of numbers with 0 and closed under successor is Nat.
LEMMA NatSet ==
  ASSUME NEW S, 0 \in S, \A n \in Nat : n \in S => n + 1 \in S
  PROVE  Nat \subseteq S
<1> DEFINE T == {n \in Nat : n \notin S}
           R == {p \in Nat \X Nat : p[1] < p[2]}
<1>1. ASSUME T # {} PROVE FALSE
  <2>1. T \subseteq Nat
    OBVIOUS
  <2>2. IsWellFoundedOn(R, Nat)
    BY LessWF
  <2> HIDE DEF R, T
  <2>3. PICK x \in T : \A y \in T : ~(<<y, x>> \in R)
    BY <1>1, <2>1, <2>2, WFMin
  <2> USE DEF T
  <2>4. x \in Nat /\ x \notin S /\ x # 0
    OBVIOUS
  <2>5. x - 1 \in Nat /\ x - 1 + 1 = x
    BY <2>4
  <2>6. x - 1 \notin S
    BY <2>4, <2>5
  <2>7. <<x - 1, x>> \in R
    BY <2>4, <2>5 DEF R
  <2> QED
    BY <2>3, <2>5, <2>6, <2>7
<1> QED
  BY <1>1

\* The recursion of Prefixes has a solution
LEMMA PrefixesExist ==
  ASSUME NEW es, NEW N \in Nat
  PROVE  \E f : f = [n \in 0 .. N |-> IF n = 0 THEN Reader!Start
                                      ELSE Reader!Step(f[n - 1], es[n])]
<1> DEFINE D(m, f) == f = [n \in 0 .. m |-> IF n = 0 THEN Reader!Start
                                      ELSE Reader!Step(f[n - 1], es[n])]
           S == {m \in Nat : \E f : D(m, f)}
<1>1. 0 \in S
  <2>1. D(0, [n \in 0 .. 0 |-> Reader!Start])
    OBVIOUS
  <2> QED
    BY <2>1
<1>2. ASSUME NEW m \in Nat, m \in S PROVE m + 1 \in S
  <2>1. PICK f : D(m, f)
    BY <1>2
  <2> DEFINE g == [n \in 0 .. m + 1 |-> IF n = m + 1 THEN Reader!Step(f[m], es[m + 1]) ELSE f[n]]
  <2>2. D(m + 1, g)
    <3>1. ASSUME NEW n \in 0 .. m + 1
          PROVE  g[n] = IF n = 0 THEN Reader!Start ELSE Reader!Step(g[n - 1], es[n])
      BY <2>1
    <3> QED
      BY <3>1
  <2> HIDE DEF D
  <2> QED
    BY <2>2
<1> HIDE DEF D
<1>3. N \in S
  BY <1>1, <1>2, NatSet
<1> QED
  BY <1>3 DEF D

\* The parser after n events is one step further than after n - 1.
LEMMA PrefixesUnroll ==
  ASSUME NEW es, Len(es) \in Nat
  PROVE  Reader!Prefixes(es) = [n \in 0 .. Len(es) |-> IF n = 0 THEN Reader!Start
                                      ELSE Reader!Step(Reader!Prefixes(es)[n - 1], es[n])]
BY PrefixesExist DEF Reader!Prefixes

\* The registers after the first n transactions of t, in the tree tr.
ReplayIn(tr, t) ==
  LET after[n \in 0 .. Len(t)] ==
        IF n = 0 THEN ResetValues
        ELSE AfterAccess(tr, after[n - 1], t[n].request.req)
  IN  after

\* The recursion of ReplayIn has a solution.
LEMMA ReplayExists ==
  ASSUME NEW tr, NEW t, NEW N \in Nat
  PROVE  \E f : f = [n \in 0 .. N |-> IF n = 0 THEN ResetValues
                                      ELSE AfterAccess(tr, f[n - 1], t[n].request.req)]
<1> DEFINE D(m, f) == f = [n \in 0 .. m |-> IF n = 0 THEN ResetValues
                                      ELSE AfterAccess(tr, f[n - 1], t[n].request.req)]
           S == {m \in Nat : \E f : D(m, f)}
<1>1. 0 \in S
  <2>1. D(0, [n \in 0 .. 0 |-> ResetValues])
    OBVIOUS
  <2> QED
    BY <2>1
<1>2. ASSUME NEW m \in Nat, m \in S PROVE m + 1 \in S
  <2>1. PICK f : D(m, f)
    BY <1>2
  <2> DEFINE g == [n \in 0 .. m + 1 |->
                     IF n = m + 1 THEN AfterAccess(tr, f[m], t[m + 1].request.req) ELSE f[n]]
  <2>2. D(m + 1, g)
    <3>1. ASSUME NEW n \in 0 .. m + 1
          PROVE  g[n] = IF n = 0 THEN ResetValues
                        ELSE AfterAccess(tr, g[n - 1], t[n].request.req)
      BY <2>1
    <3> QED
      BY <3>1
  <2> HIDE DEF D
  <2> QED
    BY <2>2
<1> HIDE DEF D
<1>3. N \in S
  BY <1>1, <1>2, NatSet
<1> QED
  BY <1>3 DEF D

\* The registers after n transactions are those after n - 1 and one access.
LEMMA ReplayUnroll ==
  ASSUME NEW tr, NEW t, Len(t) \in Nat
  PROVE  ReplayIn(tr, t) = [n \in 0 .. Len(t) |-> IF n = 0 THEN ResetValues
                              ELSE AfterAccess(tr, ReplayIn(tr, t)[n - 1], t[n].request.req)]
BY ReplayExists DEF ReplayIn

\* The Replay of the properties, with the tree as a parameter.
LEMMA ReplayIsReplayIn == \A t : Replay(t) = ReplayIn(tree, t)
BY DEF Replay, ReplayIn

-----------------------------------------------------------------------------
(* What the two functions do with one more record.                         *)

\* What comes later does not change what the parser was before it.
LEMMA PrefixesAppend ==
  ASSUME NEW T, NEW l \in Seq(T), NEW e \in T
  PROVE  \A n \in 0 .. Len(l) : Reader!Prefixes(Append(l, e))[n] = Reader!Prefixes(l)[n]
<1> DEFINE m == Append(l, e)
           S == {n \in Nat : n \in 0 .. Len(l) => Reader!Prefixes(m)[n] = Reader!Prefixes(l)[n]}
<1>1. /\ Len(l) \in Nat /\ Len(m) = Len(l) + 1
      /\ \A n \in 1 .. Len(l) : m[n] = l[n]
  OBVIOUS
<1> HIDE DEF m
<1>2. \A n \in 0 .. Len(m) : Reader!Prefixes(m)[n] =
        IF n = 0 THEN Reader!Start ELSE Reader!Step(Reader!Prefixes(m)[n - 1], m[n])
  BY <1>1, PrefixesUnroll
<1>3. \A n \in 0 .. Len(l) : Reader!Prefixes(l)[n] =
        IF n = 0 THEN Reader!Start ELSE Reader!Step(Reader!Prefixes(l)[n - 1], l[n])
  BY <1>1, PrefixesUnroll
<1>4. 0 \in S
  BY <1>1, <1>2, <1>3
<1>5. ASSUME NEW n \in Nat, n \in S PROVE n + 1 \in S
  <2> SUFFICES ASSUME n + 1 \in 0 .. Len(l)
               PROVE  Reader!Prefixes(m)[n + 1] = Reader!Prefixes(l)[n + 1]
    OBVIOUS
  <2>1. n \in 0 .. Len(l) /\ n + 1 \in 0 .. Len(m) /\ n + 1 # 0 /\ n + 1 - 1 = n /\ n + 1 \in 1 .. Len(l)
    BY <1>1
  <2>2. Reader!Prefixes(m)[n] = Reader!Prefixes(l)[n] /\ m[n + 1] = l[n + 1]
    BY <1>1, <1>5, <2>1
  <2> QED
    BY <1>2, <1>3, <2>1, <2>2
<1> HIDE DEF S
<1>6. Nat \subseteq S
  BY <1>4, <1>5, NatSet
<1> QED
  BY <1>1, <1>6 DEF S, m

\* One more record is one more step of the parser.
LEMMA ParseAppend ==
  ASSUME NEW T, NEW l \in Seq(T), NEW e \in T
  PROVE  Reader!Parse(Append(l, e)) = Reader!Step(Reader!Parse(l), e)
<1>1. /\ Len(Append(l, e)) = Len(l) + 1 /\ Append(l, e)[Len(l) + 1] = e
      /\ Len(l) \in Nat
  OBVIOUS
<1>2. Reader!Prefixes(Append(l, e))[Len(l) + 1] =
        Reader!Step(Reader!Prefixes(Append(l, e))[Len(l)], Append(l, e)[Len(l) + 1])
  BY <1>1, PrefixesUnroll
<1>3. Reader!Prefixes(Append(l, e))[Len(l)] = Reader!Prefixes(l)[Len(l)]
  BY <1>1, PrefixesAppend
<1> QED
  BY <1>1, <1>2, <1>3 DEF Reader!Parse

\* Before the first record the parser is in its initial state.
LEMMA ParseEmpty == Reader!Parse(<<>>) = Reader!Start
<1>1. Len(<<>>) = 0
  OBVIOUS
<1> QED
  BY <1>1, PrefixesUnroll DEF Reader!Parse

\* One more transaction is one more access.
LEMMA ReplayAppend ==
  ASSUME NEW tr, NEW T, NEW t \in Seq(T), NEW x \in T
  PROVE  /\ \A n \in 0 .. Len(t) : ReplayIn(tr, Append(t, x))[n] = ReplayIn(tr, t)[n]
         /\ ReplayIn(tr, Append(t, x))[Len(t) + 1] =
              AfterAccess(tr, ReplayIn(tr, t)[Len(t)], x.request.req)
<1> DEFINE m == Append(t, x)
           S == {n \in Nat : n \in 0 .. Len(t) => ReplayIn(tr, m)[n] = ReplayIn(tr, t)[n]}
<1>1. /\ Len(t) \in Nat /\ Len(m) = Len(t) + 1 /\ m[Len(t) + 1] = x
      /\ \A n \in 1 .. Len(t) : m[n] = t[n]
  OBVIOUS
<1> HIDE DEF m
<1>2. \A n \in 0 .. Len(m) : ReplayIn(tr, m)[n] =
        IF n = 0 THEN ResetValues ELSE AfterAccess(tr, ReplayIn(tr, m)[n - 1], m[n].request.req)
  BY <1>1, ReplayUnroll
<1>3. \A n \in 0 .. Len(t) : ReplayIn(tr, t)[n] =
        IF n = 0 THEN ResetValues ELSE AfterAccess(tr, ReplayIn(tr, t)[n - 1], t[n].request.req)
  BY <1>1, ReplayUnroll
<1>4. 0 \in S
  BY <1>1, <1>2, <1>3
<1>5. ASSUME NEW n \in Nat, n \in S PROVE n + 1 \in S
  <2> SUFFICES ASSUME n + 1 \in 0 .. Len(t)
               PROVE  ReplayIn(tr, m)[n + 1] = ReplayIn(tr, t)[n + 1]
    OBVIOUS
  <2>1. n \in 0 .. Len(t) /\ n + 1 \in 0 .. Len(m) /\ n + 1 # 0 /\ n + 1 - 1 = n /\ n + 1 \in 1 .. Len(t)
    BY <1>1
  <2>2. ReplayIn(tr, m)[n] = ReplayIn(tr, t)[n] /\ m[n + 1] = t[n + 1]
    BY <1>1, <1>5, <2>1
  <2> QED
    BY <1>2, <1>3, <2>1, <2>2
<1> HIDE DEF S
<1>6. Nat \subseteq S
  BY <1>4, <1>5, NatSet
<1>7. \A n \in 0 .. Len(t) : ReplayIn(tr, m)[n] = ReplayIn(tr, t)[n]
  BY <1>1, <1>6 DEF S
<1>8. ReplayIn(tr, m)[Len(t) + 1] = AfterAccess(tr, ReplayIn(tr, m)[Len(t)], x.request.req)
  BY <1>1, <1>2
<1> QED
  BY <1>1, <1>7, <1>8 DEF m

EventType == Reader!EventType
Tx        == Reader!Transaction

SamplesOf(l) == {l[i] : i \in {j \in DOMAIN l : l[j].phase = "status_sample"}}

-----------------------------------------------------------------------------
(* The reader's copy of the register file is the same register file.       *)

\* The definitions of the two instances of MmioRegisterFile agree.
LEMMA SameRegisterFile ==
  /\ Reader!Window = Window /\ Reader!Requests = Requests
  /\ Reader!ResetValues = ResetValues /\ Reader!RegisterValues = RegisterValues
  /\ \A q : Reader!Legal(q) = Legal(q)
BY DEF Reader!Window, Window, Reader!Registers, Registers, Reader!Requests, Requests,
       Reader!Addresses, Addresses, Reader!ResetValues, ResetValues,
       Reader!RegisterValues, RegisterValues, Reader!Legal, Legal

\* An event takes its place in the log.
LEMMA Placed ==
  ASSUME NEW e \in EventType, NEW n \in Nat
  PROVE  /\ [e EXCEPT !.seq = n] \in EventType
         /\ [e EXCEPT !.seq = n].seq = n
         /\ [e EXCEPT !.seq = n].phase = e.phase /\ [e EXCEPT !.seq = n].tid = e.tid
         /\ [e EXCEPT !.seq = n].req = e.req     /\ [e EXCEPT !.seq = n].rd = e.rd
         /\ [e EXCEPT !.seq = n].err = e.err     /\ [e EXCEPT !.seq = n].cycle = e.cycle
         /\ [e EXCEPT !.seq = n].epoch = e.epoch /\ [e EXCEPT !.seq = n].rstn = e.rstn
         /\ [e EXCEPT !.seq = n].regs = e.regs
BY DEF EventType, Reader!EventType

\* An access keeps the registers and its answer among the data.
LEMMA RegistersTyped ==
  ASSUME NEW r \in RegisterValues, NEW q \in Requests, NEW tr
  PROVE  /\ AfterAccess(tr, r, q) \in RegisterValues
         /\ Answer(r, q) \in Data
<1>1. {0, 1, A5, DEAD} \subseteq Data
  BY DataAssumption
<1>2. q.addr \in Addresses /\ q.wd \in Data
  BY DEF Requests
<1>3. Legal(q) => q.addr \in Registers
  BY DEF Legal
<1>4. AfterAccess(tr, r, q) \in RegisterValues
  BY <1>1, <1>2, <1>3 DEF AfterAccess, RegisterValues
<1>5. Answer(r, q) \in Data
  BY <1>1, <1>3 DEF Answer, RegisterValues
<1> QED
  BY <1>4, <1>5

\* The reset values are values.
LEMMA ResetTyped == ResetValues \in RegisterValues
BY DataAssumption DEF ResetValues, RegisterValues, Registers

-----------------------------------------------------------------------------
(* Recording: a batch of events is appended one after the other.           *)

Numbering(l, b) == l \o [i \in DOMAIN b |-> [b[i] EXCEPT !.seq = Len(l) + i - 1]]

\* A numbered batch: its type, its length and its elements.
LEMMA NumberingTyped ==
  ASSUME NEW l \in Seq(EventType), NEW b \in Seq(EventType)
  PROVE  /\ Numbering(l, b) \in Seq(EventType)
         /\ Len(Numbering(l, b)) = Len(l) + Len(b)
         /\ \A i \in 1 .. Len(l) : Numbering(l, b)[i] = l[i]
         /\ \A i \in 1 .. Len(b) : Numbering(l, b)[Len(l) + i] = [b[i] EXCEPT !.seq = Len(l) + i - 1]
<1> DEFINE nb == [i \in DOMAIN b |-> [b[i] EXCEPT !.seq = Len(l) + i - 1]]
<1>1. Len(l) \in Nat /\ Len(b) \in Nat /\ DOMAIN b = 1 .. Len(b)
  OBVIOUS
<1>2. \A i \in DOMAIN b : [b[i] EXCEPT !.seq = Len(l) + i - 1] \in EventType
  <2> TAKE i \in DOMAIN b
  <2>1. b[i] \in EventType /\ Len(l) + i - 1 \in Nat
    BY <1>1
  <2> QED
    BY <2>1, Placed
<1> HIDE DEF EventType
<1>3. nb \in [1 .. Len(b) -> EventType]
  BY <1>1, <1>2
<1>4. nb \in Seq(EventType) /\ Len(nb) = Len(b)
  BY <1>1, <1>3
<1>5. \A i \in 1 .. Len(b) : nb[i] = [b[i] EXCEPT !.seq = Len(l) + i - 1]
  BY <1>1
<1> HIDE DEF nb
<1>6. Numbering(l, b) = l \o nb
  BY DEF Numbering, nb
<1> QED
  BY <1>1, <1>4, <1>5, <1>6

\* Two sequences with the same elements are the same.
LEMMA SameSequence ==
  ASSUME NEW T, NEW x \in Seq(T), NEW y \in Seq(T), Len(x) = Len(y),
         \A k \in 1 .. Len(x) : x[k] = y[k]
  PROVE  x = y
OBVIOUS

\* Numbering a batch in two parts is numbering it at once.
LEMMA NumberingConcat ==
  ASSUME NEW l \in Seq(EventType), NEW b \in Seq(EventType), NEW c \in Seq(EventType)
  PROVE  Numbering(l, b \o c) = Numbering(Numbering(l, b), c)
<1> DEFINE bc == b \o c
           x == Numbering(l, bc)
           m == Numbering(l, b)
           y == Numbering(m, c)
<1>1. /\ Len(l) \in Nat /\ Len(b) \in Nat /\ Len(c) \in Nat
      /\ bc \in Seq(EventType) /\ Len(bc) = Len(b) + Len(c)
      /\ \A i \in 1 .. Len(b) : bc[i] = b[i]
      /\ \A i \in 1 .. Len(c) : bc[Len(b) + i] = c[i]
  OBVIOUS
<1> HIDE DEF bc
<1>2. /\ x \in Seq(EventType) /\ Len(x) = Len(l) + Len(b) + Len(c)
      /\ \A i \in 1 .. Len(l) : x[i] = l[i]
      /\ \A i \in 1 .. Len(b) + Len(c) : x[Len(l) + i] = [bc[i] EXCEPT !.seq = Len(l) + i - 1]
  <2>1. /\ Numbering(l, bc) \in Seq(EventType)
        /\ Len(Numbering(l, bc)) = Len(l) + Len(bc)
        /\ \A i \in 1 .. Len(l) : Numbering(l, bc)[i] = l[i]
        /\ \A i \in 1 .. Len(bc) : Numbering(l, bc)[Len(l) + i] = [bc[i] EXCEPT !.seq = Len(l) + i - 1]
    BY <1>1, NumberingTyped
  <2> HIDE DEF x
  <2>2. x = Numbering(l, bc)
    BY DEF x
  <2>3. Len(x) = Len(l) + Len(b) + Len(c)
    BY <1>1, <2>1, <2>2
  <2> QED
    BY <1>1, <2>1, <2>2, <2>3
<1>3. /\ m \in Seq(EventType) /\ Len(m) = Len(l) + Len(b)
      /\ \A i \in 1 .. Len(l) : m[i] = l[i]
      /\ \A i \in 1 .. Len(b) : m[Len(l) + i] = [b[i] EXCEPT !.seq = Len(l) + i - 1]
  BY NumberingTyped
<1> HIDE DEF m
<1>4. /\ y \in Seq(EventType) /\ Len(y) = Len(m) + Len(c)
      /\ \A i \in 1 .. Len(m) : y[i] = m[i]
      /\ \A i \in 1 .. Len(c) : y[Len(m) + i] = [c[i] EXCEPT !.seq = Len(m) + i - 1]
  BY <1>3, NumberingTyped
<1> HIDE DEF x, y
<1>5. ASSUME NEW k \in 1 .. Len(x) PROVE x[k] = y[k]
  <2>1. CASE k <= Len(l)
    BY <2>1, <1>1, <1>2, <1>3, <1>4
  <2>2. CASE Len(l) < k /\ k <= Len(l) + Len(b)
    <3> DEFINE i == k - Len(l)
    <3>1. i \in 1 .. Len(b) /\ i \in 1 .. Len(b) + Len(c) /\ k = Len(l) + i
      BY <2>2, <1>1
    <3> HIDE DEF i
    <3>2. x[k] = [b[i] EXCEPT !.seq = Len(l) + i - 1]
      <4>1. x[Len(l) + i] = [bc[i] EXCEPT !.seq = Len(l) + i - 1]
        BY <3>1, <1>2
      <4>2. bc[i] = b[i]
        BY <3>1, <1>1
      <4> QED
        BY <3>1, <4>1, <4>2
    <3>3. y[k] = m[k]
      BY <2>2, <1>1, <1>3, <1>4
    <3> QED
      BY <3>1, <3>2, <3>3, <1>3
  <2>3. CASE Len(l) + Len(b) < k
    <3> DEFINE i == k - (Len(l) + Len(b))
    <3>1. i \in 1 .. Len(c) /\ k = Len(l) + Len(b) + i
      BY <2>3, <1>1, <1>2
    <3> HIDE DEF i
    <3> DEFINE j == Len(b) + i
    <3>2. /\ j \in 1 .. Len(b) + Len(c) /\ k = Len(l) + j
          /\ Len(l) + j - 1 = Len(m) + i - 1 /\ k = Len(m) + i
      BY <3>1, <1>1, <1>3
    <3>5. bc[j] = c[i]
      BY <3>1, <1>1
    <3> HIDE DEF j
    <3>3. x[k] = [bc[j] EXCEPT !.seq = Len(l) + j - 1]
      BY <3>2, <1>2
    <3>4. y[k] = [c[i] EXCEPT !.seq = Len(m) + i - 1]
      BY <3>1, <3>2, <1>4
    <3> QED
      BY <3>2, <3>3, <3>4, <3>5
  <2> QED
    BY <2>1, <2>2, <2>3, <1>1, <1>2
<1>6. x = y
  <2>1. Len(x) = Len(y)
    BY <1>1, <1>2, <1>3, <1>4
  <2> QED
    BY <2>1, <1>2, <1>4, <1>5, SameSequence
<1> QED
  BY <1>6 DEF x, y, m, bc

\* A batch of at most one event.
LEMMA NumberingWhen ==
  ASSUME NEW l \in Seq(EventType), NEW c \in BOOLEAN, NEW e, c => e \in EventType
  PROVE  /\ When(c, e) \in Seq(EventType)
         /\ Numbering(l, When(c, e)) = IF c THEN Append(l, [e EXCEPT !.seq = Len(l)]) ELSE l
<1>1. CASE c
  <2>1. When(c, e) = <<e>>
    BY <1>1 DEF When
  <2>2. <<e>> \in Seq(EventType) /\ Len(<<e>>) = 1 /\ <<e>>[1] = e /\ Len(l) \in Nat
    BY <1>1
  <2>10. Len(l) + 1 - 1 = Len(l)
    BY <2>2
  <2> DEFINE f == [e EXCEPT !.seq = Len(l)]
  <2>3. f \in EventType
    BY <1>1, <2>2, Placed
  <2> DEFINE b == <<e>>
  <2>7. b \in Seq(EventType) /\ Len(b) = 1 /\ b[1] = e
    BY <2>2
  <2> HIDE DEF b
  <2>8. /\ Numbering(l, b) \in Seq(EventType)
        /\ Len(Numbering(l, b)) = Len(l) + Len(b)
        /\ \A i \in 1 .. Len(l) : Numbering(l, b)[i] = l[i]
        /\ \A i \in 1 .. Len(b) : Numbering(l, b)[Len(l) + i] = [b[i] EXCEPT !.seq = Len(l) + i - 1]
    BY <2>7, NumberingTyped
  <2>9. Numbering(l, b)[Len(l) + 1] = [b[1] EXCEPT !.seq = Len(l) + 1 - 1]
    BY <2>7, <2>8
  <2>4. /\ Numbering(l, <<e>>) \in Seq(EventType)
        /\ Len(Numbering(l, <<e>>)) = Len(l) + 1
        /\ \A i \in 1 .. Len(l) : Numbering(l, <<e>>)[i] = l[i]
        /\ Numbering(l, <<e>>)[Len(l) + 1] = [e EXCEPT !.seq = Len(l) + 1 - 1]
    BY <2>7, <2>8, <2>9 DEF b
  <2>5. Numbering(l, <<e>>)[Len(l) + 1] = f
    BY <2>4, <2>10
  <2> HIDE DEF f
  <2>6. Numbering(l, <<e>>) = Append(l, f)
    BY <2>2, <2>3, <2>4, <2>5
  <2> QED
    BY <1>1, <2>1, <2>2, <2>6 DEF f
<1>2. CASE ~c
  <2>1. When(c, e) = <<>> /\ <<>> \in Seq(EventType) /\ Len(<<>>) = 0 /\ Len(l) \in Nat
    BY <1>2 DEF When
  <2>2. /\ Numbering(l, <<>>) \in Seq(EventType)
        /\ Len(Numbering(l, <<>>)) = Len(l) + 0
        /\ \A i \in 1 .. Len(l) : Numbering(l, <<>>)[i] = l[i]
    BY <2>1, NumberingTyped
  <2>3. Numbering(l, <<>>) = l
    BY <2>1, <2>2
  <2> QED
    BY <1>2, <2>1, <2>3
<1> QED
  BY <1>1, <1>2

\* A file whose events are all accepted holds the numbers 0, 1, 2... in order.
LEMMA ParseReads ==
  ASSUME NEW es \in Seq(EventType), Reader!Parse(es).ok
  PROVE  /\ Reader!Parse(es).read = Len(es)
         /\ \A i \in DOMAIN es : es[i].seq = i - 1
<1> DEFINE P(n) == Reader!Prefixes(es)[n]
           G(n) == /\ "ok" \in DOMAIN P(n)
                   /\ P(n).ok => P(n).read = n /\ \A i \in 1 .. n : es[i].seq = i - 1
           S == {n \in Nat : n \in 0 .. Len(es) => G(n)}
<1>1. \A n \in 0 .. Len(es) : P(n) = IF n = 0 THEN Reader!Start ELSE Reader!Step(P(n - 1), es[n])
  BY PrefixesUnroll
<1> HIDE DEF P
<1>2. 0 \in S
  BY <1>1 DEF Reader!Start
<1>3. ASSUME NEW n \in Nat, n \in S PROVE n + 1 \in S
  <2> SUFFICES ASSUME n + 1 \in 0 .. Len(es) PROVE G(n + 1)
    OBVIOUS
  <2>1. n \in 0 .. Len(es) /\ P(n + 1) = Reader!Step(P(n), es[n + 1])
    BY <1>1
  <2>7. G(n)
    BY <1>3, <2>1
  <2>6. "ok" \in DOMAIN P(n + 1)
    BY <2>1, <2>7 DEF Reader!Step, Reader!After
  <2> SUFFICES ASSUME P(n + 1).ok
               PROVE  P(n + 1).read = n + 1 /\ \A i \in 1 .. n + 1 : es[i].seq = i - 1
    BY <2>6
  <2>2. P(n).ok /\ Reader!Admits(P(n), es[n + 1])
    BY <2>1, <2>7 DEF Reader!Step
  <2>3. P(n).read = n /\ \A i \in 1 .. n : es[i].seq = i - 1
    BY <2>7, <2>2
  <2>4. es[n + 1].seq = n /\ P(n + 1).read = n + 1
    BY <2>1, <2>2, <2>3 DEF Reader!Step, Reader!Admits, Reader!InOrder, Reader!After
  <2>5. ASSUME NEW i \in 1 .. n + 1 PROVE es[i].seq = i - 1
    <3>1. i \in 1 .. n \/ i = n + 1
      OBVIOUS
    <3> QED
      BY <3>1, <2>3, <2>4
  <2> QED
    BY <2>4, <2>5
<1> HIDE DEF S
<1>4. Len(es) \in S /\ Len(es) \in Nat
  BY <1>2, <1>3, NatSet
<1> QED
  BY <1>4 DEF S, P, Reader!Parse

Count(t, c) == Cardinality({i \in DOMAIN t : t[i].request.cycle <= c})

\* The registers at cycle c, after a replay of the requests up to it.
RegistersAt(tr, p, c) ==
  IF \E q \in p.pending : q.cycle <= c
  THEN AfterAccess(tr, ReplayIn(tr, p.txs)[Len(p.txs)], (CHOOSE q \in p.pending : TRUE).req)
  ELSE ReplayIn(tr, p.txs)[Count(p.txs, c)]

-----------------------------------------------------------------------------
(* Counting the transactions up to a cycle.                                *)

\* A count of transactions does not exceed their number.
LEMMA CountBounds ==
  ASSUME NEW t \in Seq(Tx), NEW c
  PROVE  Count(t, c) \in 0 .. Len(t)
<1> DEFINE S == {i \in DOMAIN t : t[i].request.cycle <= c}
<1>1. Len(t) \in Nat /\ DOMAIN t = 1 .. Len(t)
  OBVIOUS
<1>2. IsFiniteSet(1 .. Len(t)) /\ Cardinality(1 .. Len(t)) = Len(t)
  BY <1>1, FS_Interval
<1>3. S \subseteq 1 .. Len(t)
  BY <1>1
<1>4. IsFiniteSet(S) /\ Cardinality(S) <= Len(t)
  BY <1>2, <1>3, FS_Subset
<1>5. Cardinality(S) \in Nat
  BY <1>4, FS_CardinalityType
<1> QED
  BY <1>1, <1>4, <1>5 DEF Count

\* If exactly the first n transactions are up to c, there are n of them.
LEMMA CountPrefix ==
  ASSUME NEW t \in Seq(Tx), NEW c, NEW n \in 0 .. Len(t),
         \A i \in 1 .. Len(t) : t[i].request.cycle <= c <=> i <= n
  PROVE  Count(t, c) = n
<1>1. Len(t) \in Nat /\ DOMAIN t = 1 .. Len(t)
  OBVIOUS
<1>2. {i \in DOMAIN t : t[i].request.cycle <= c} = 1 .. n
  BY <1>1
<1>3. Cardinality(1 .. n) = n
  BY <1>1, FS_Interval
<1> QED
  BY <1>2, <1>3 DEF Count

\* A later transaction does not change the count up to a cycle.
LEMMA CountLater ==
  ASSUME NEW t \in Seq(Tx), NEW x \in Tx, NEW c, ~(x.request.cycle <= c)
  PROVE  Count(Append(t, x), c) = Count(t, c)
<1>1. /\ Len(t) \in Nat /\ DOMAIN t = 1 .. Len(t) /\ DOMAIN Append(t, x) = 1 .. Len(t) + 1
      /\ Append(t, x)[Len(t) + 1] = x
      /\ \A i \in 1 .. Len(t) : Append(t, x)[i] = t[i]
  OBVIOUS
<1>2. {i \in DOMAIN Append(t, x) : Append(t, x)[i].request.cycle <= c}
        = {i \in DOMAIN t : t[i].request.cycle <= c}
  BY <1>1
<1> QED
  BY <1>2 DEF Count

-----------------------------------------------------------------------------
(* The samples of a log.                                                   *)

\* One more event is one more sample, or none.
LEMMA SamplesAppend ==
  ASSUME NEW l \in Seq(EventType), NEW e \in EventType
  PROVE  SamplesOf(Append(l, e)) =
           SamplesOf(l) \cup (IF e.phase = "status_sample" THEN {e} ELSE {})
<1> HIDE DEF EventType
<1>1. /\ Len(l) \in Nat /\ DOMAIN l = 1 .. Len(l) /\ DOMAIN Append(l, e) = 1 .. Len(l) + 1
      /\ Append(l, e)[Len(l) + 1] = e
      /\ \A i \in 1 .. Len(l) : Append(l, e)[i] = l[i]
  OBVIOUS
<1> DEFINE m == Append(l, e)
<1> HIDE DEF m
<1>2. ASSUME NEW x PROVE x \in SamplesOf(m) <=> \E i \in 1 .. Len(l) + 1 : m[i].phase = "status_sample" /\ x = m[i]
  BY <1>1 DEF SamplesOf, m
<1>3. ASSUME NEW x PROVE x \in SamplesOf(l) <=> \E i \in 1 .. Len(l) : l[i].phase = "status_sample" /\ x = l[i]
  BY <1>1 DEF SamplesOf
<1>4. ASSUME NEW x, x \in SamplesOf(l) PROVE x \in SamplesOf(m)
  <2>1. PICK i \in 1 .. Len(l) : l[i].phase = "status_sample" /\ x = l[i]
    BY <1>3, <1>4
  <2>2. i \in 1 .. Len(l) + 1 /\ m[i] = l[i]
    BY <1>1 DEF m
  <2> QED
    BY <1>2, <2>1, <2>2
<1>5. ASSUME NEW x, x \in SamplesOf(m), x \notin SamplesOf(l)
      PROVE  x = e /\ e.phase = "status_sample"
  <2>1. PICK i \in 1 .. Len(l) + 1 : m[i].phase = "status_sample" /\ x = m[i]
    BY <1>2, <1>5
  <2>2. i \notin 1 .. Len(l)
    BY <1>1, <1>3, <1>5, <2>1 DEF m
  <2>3. i = Len(l) + 1
    BY <1>1, <2>2
  <2> QED
    BY <1>1, <2>1, <2>3 DEF m
<1>6. e.phase = "status_sample" => e \in SamplesOf(m)
  <2>1. Len(l) + 1 \in 1 .. Len(l) + 1 /\ m[Len(l) + 1] = e
    BY <1>1 DEF m
  <2> QED
    BY <1>2, <2>1
<1>7. ASSUME NEW x PROVE x \in SamplesOf(m) <=> x \in SamplesOf(l) \cup (IF e.phase = "status_sample" THEN {e} ELSE {})
  BY <1>4, <1>5, <1>6
<1> QED
  BY <1>7 DEF m

\* An empty log has no samples.
LEMMA NoSamples == SamplesOf(<<>>) = {}
BY DEF SamplesOf

-----------------------------------------------------------------------------
(* What is kept while the monitor writes in its first reset epoch.         *)

Counters(p, l, first, now) ==
  /\ l \in Seq(EventType)
  /\ p.ok = TRUE /\ p.read = Len(l) /\ p.epoch = 1 /\ p.reset \in BOOLEAN
  /\ first \in Nat /\ now \in Nat /\ first <= now
  /\ p.last \in 0 .. now

\* Every cycle up to `upto` has been sampled.
Sampling(p, l, first, upto) ==
  /\ p.sampled = first .. upto
  /\ \A c : c \in p.sampled <=> \E x \in SamplesOf(l) : x.cycle = c

Released(p, first, now) ==
  /\ p.reset => p.releases = <<>> /\ p.pending = {} /\ p.txs = <<>>
  /\ ~p.reset => \E r \in first + 1 .. now : p.releases = <<r>>

Ordered(p, first, now) ==
  /\ p.txs \in Seq(Tx)
  /\ \A i \in DOMAIN p.txs : p.txs[i].request.req \in Requests
  /\ \A i \in DOMAIN p.txs : p.txs[i].request.cycle \in first + 1 .. now - 1
  /\ \A i, j \in DOMAIN p.txs :
       i < j => p.txs[i].request.cycle < p.txs[j].request.cycle

\* At most one request is open, and it came after every transaction.
OpenIsLast(p, first, now) ==
  /\ p.pending \in SUBSET EventType
  /\ \A q \in p.pending :
       /\ p.pending = {q} /\ q.cycle \in first + 1 .. now /\ q.epoch = 1
       /\ q.req \in Requests
       /\ \A i \in DOMAIN p.txs : p.txs[i].request.cycle < q.cycle

\* The parser p has read the events l, whose only reset began in cycle
\* `first`; the present cycle is `now`, and `upto` is the last one sampled.
Reads(p, l, first, now, upto) ==
  /\ Counters(p, l, first, now)
  /\ Sampling(p, l, first, upto)
  /\ Released(p, first, now)
  /\ Ordered(p, first, now)
  /\ OpenIsLast(p, first, now)

\* The parser knows what the monitor knows, k: the reset, the open request,
\* the next identifier and the stop.
Follows(p, k) ==
  /\ p.reset = k.reset /\ p.stop = k.stop /\ p.seen = 1 .. k.next - 1
  /\ k.next \in Nat \ {0} /\ k.stop \in Nat \cup {-1}
  /\ k.open.id = 0 => p.pending = {} /\ Len(p.txs) = k.next - 1
  /\ k.open.id # 0 =>
       /\ k.open.id = k.next - 1 /\ Len(p.txs) = k.next - 2
       /\ \E q \in p.pending : q.tid = k.open.id /\ q.req = k.open.req

\* The samples and the answers that the parser has read are those of a replay
\* of its transactions, and r is where the replay has come.
Replays(tr, p, l, r, now) ==
  /\ r = RegistersAt(tr, p, now)
  /\ \A x \in SamplesOf(l) : x.regs = RegistersAt(tr, p, x.cycle)
  /\ \A i \in DOMAIN p.txs :
       p.txs[i].response.rd = Answer(ReplayIn(tr, p.txs)[i - 1], p.txs[i].request.req)

-----------------------------------------------------------------------------
(* One event after the other.                                              *)

\* An admitted event leads the parser to After.
LEMMA Admitted ==
  ASSUME NEW l \in Seq(EventType), NEW e \in EventType,
         Reader!Parse(l).ok, Reader!Admits(Reader!Parse(l), e)
  PROVE  Reader!Parse(Append(l, e)) = Reader!After(Reader!Parse(l), e)
<1>1. Reader!Parse(Append(l, e)) = Reader!Step(Reader!Parse(l), e)
  BY ParseAppend
<1> QED
  BY <1>1 DEF Reader!Step

\* RegistersAt looks at the transactions and at the open request only.
LEMMA RegistersSame ==
  ASSUME NEW tr, NEW p, NEW pp, pp.txs = p.txs, pp.pending = p.pending
  PROVE  \A c : RegistersAt(tr, pp, c) = RegistersAt(tr, p, c)
BY DEF RegistersAt

\* Nothing happens after the present cycle.
LEMMA RegistersLater ==
  ASSUME NEW tr, NEW p, NEW l, NEW first, NEW now, NEW upto, Reads(p, l, first, now, upto),
         NEW c \in Nat, now <= c
  PROVE  RegistersAt(tr, p, c) = RegistersAt(tr, p, now)
<1>1. /\ p.txs \in Seq(Tx) /\ now \in Nat /\ first \in Nat
      /\ \A i \in DOMAIN p.txs : p.txs[i].request.cycle \in first + 1 .. now - 1
      /\ \A q \in p.pending : q.cycle \in first + 1 .. now
  BY DEF Reads, Counters, Ordered, OpenIsLast
<1>2. \A i \in DOMAIN p.txs : p.txs[i].request.cycle <= c /\ p.txs[i].request.cycle <= now
  BY <1>1
<1>3. \A q \in p.pending : q.cycle <= c /\ q.cycle <= now
  BY <1>1
<1>4. Count(p.txs, c) = Count(p.txs, now)
  BY <1>2 DEF Count
<1> QED
  BY <1>3, <1>4 DEF RegistersAt

\* With no open request, the replay has come to the end of the transactions.
LEMMA RegistersNow ==
  ASSUME NEW tr, NEW p, NEW l, NEW first, NEW now, NEW upto, Reads(p, l, first, now, upto)
  PROVE  /\ p.pending = {} => RegistersAt(tr, p, now) = ReplayIn(tr, p.txs)[Len(p.txs)]
         /\ \A q \in p.pending :
              RegistersAt(tr, p, now) = AfterAccess(tr, ReplayIn(tr, p.txs)[Len(p.txs)], q.req)
<1>1. /\ p.txs \in Seq(Tx) /\ now \in Nat /\ first \in Nat
      /\ \A i \in DOMAIN p.txs : p.txs[i].request.cycle \in first + 1 .. now - 1
      /\ \A q \in p.pending : q.cycle \in first + 1 .. now /\ p.pending = {q}
  BY DEF Reads, Counters, Ordered, OpenIsLast
<1>2. Len(p.txs) \in Nat /\ DOMAIN p.txs = 1 .. Len(p.txs) /\ Len(p.txs) \in 0 .. Len(p.txs)
  BY <1>1
<1>3. \A i \in 1 .. Len(p.txs) : p.txs[i].request.cycle <= now <=> i <= Len(p.txs)
  BY <1>1, <1>2
<1>4. Count(p.txs, now) = Len(p.txs)
  BY <1>1, <1>2, <1>3, CountPrefix
<1>5. ASSUME NEW q \in p.pending
      PROVE  q.cycle <= now /\ (CHOOSE x \in p.pending : TRUE) = q
  BY <1>1
<1> QED
  BY <1>4, <1>5 DEF RegistersAt

\* The same for a parser with nothing open.
LEMMA RegistersClosed ==
  ASSUME NEW tr, NEW p, NEW l, NEW first, NEW now, NEW upto, Reads(p, l, first, now, upto),
         p.pending = {}
  PROVE  RegistersAt(tr, p, now) = ReplayIn(tr, p.txs)[Len(p.txs)]
BY RegistersNow

\* The three together, when the monitor has written l and knows k.
Stage(tr, l, k, first, now, upto) ==
  /\ Reads(Reader!Parse(l), l, first, now, upto)
  /\ Follows(Reader!Parse(l), k)
  /\ Replays(tr, Reader!Parse(l), l, k.regs, now)

\* The bookkeeping of the parser, field by field.
Becomes(p, e, a) ==
         /\ a.ok = TRUE /\ a.read = p.read + 1 /\ a.last = e.cycle
         /\ e.phase # "reset_assert" => a.epoch = p.epoch
         /\ e.phase = "reset_assert" => a.epoch = p.epoch + 1
         /\ a.reset = (e.phase = "reset_assert" \/ (p.reset /\ e.phase # "reset_release"))
         /\ e.phase # "reset_release" => a.releases = p.releases
         /\ e.phase = "reset_release" => a.releases = Append(p.releases, e.cycle)
         /\ e.phase # "request" => a.seen = p.seen
         /\ e.phase = "request" => a.seen = p.seen \cup {e.tid} /\ a.pending = {e}
         /\ e.phase \notin {"request", "response"} => a.pending = p.pending
         /\ e.phase # "response" => a.txs = p.txs
         /\ e.phase = "response" =>
              /\ a.txs = Append(p.txs, [request |-> Reader!Answered(p, e), response |-> e])
              /\ a.pending = p.pending \ {Reader!Answered(p, e)}
         /\ e.phase # "status_sample" => a.sampled = p.sampled
         /\ e.phase = "status_sample" => a.sampled = p.sampled \cup {e.cycle}
         /\ e.phase # "software_stop" => a.stop = p.stop
         /\ e.phase = "software_stop" => a.stop = e.cycle

\* After has these fields.
LEMMA AfterFields ==
  ASSUME NEW p, NEW e
  PROVE  Becomes(p, e, Reader!After(p, e))
BY DEF Reader!After, Becomes

\* The clock advances: what was the present is the past.
LEMMA Advance ==
  ASSUME NEW tr, NEW l, NEW k, NEW first, NEW now, Stage(tr, l, k, first, now, now)
  PROVE  /\ Stage(tr, l, k, first, now + 1, now)
         /\ first < now + 1
<1> DEFINE p == Reader!Parse(l)
<1>1. Reads(p, l, first, now, now) /\ Follows(p, k) /\ Replays(tr, p, l, k.regs, now)
  BY DEF Stage
<1> HIDE DEF p
<1>2. Reads(p, l, first, now + 1, now) /\ first < now + 1
  <2>1. /\ first \in Nat /\ now \in Nat /\ first <= now
        /\ now + 1 \in Nat /\ first <= now + 1 /\ first < now + 1 /\ now + 1 - 1 = now
        /\ 0 .. now \subseteq 0 .. now + 1
        /\ first + 1 .. now \subseteq first + 1 .. now + 1
        /\ first + 1 .. now - 1 \subseteq first + 1 .. now
    BY <1>1 DEF Reads, Counters
  <2>2. Counters(p, l, first, now + 1)
    BY <1>1, <2>1 DEF Reads, Counters
  <2>3. Sampling(p, l, first, now)
    BY <1>1 DEF Reads
  <2>4. Released(p, first, now + 1)
    BY <1>1, <2>1 DEF Reads, Released
  <2>5. Ordered(p, first, now + 1)
    BY <1>1, <2>1 DEF Reads, Ordered
  <2>6. OpenIsLast(p, first, now + 1)
    BY <1>1, <2>1 DEF Reads, OpenIsLast
  <2> QED
    BY <2>1, <2>2, <2>3, <2>4, <2>5, <2>6 DEF Reads
<1>3. RegistersAt(tr, p, now + 1) = RegistersAt(tr, p, now)
  <2>1. now \in Nat
    BY <1>1 DEF Reads, Counters
  <2>2. now + 1 \in Nat /\ now <= now + 1
    BY <2>1
  <2> QED
    BY <1>1, <2>2, RegistersLater
<1>4. Replays(tr, p, l, k.regs, now + 1)
  BY <1>1, <1>3 DEF Replays
<1> QED
  BY <1>1, <1>2, <1>4 DEF Stage, p

\* The first event of all is the first reset.
LEMMA AssertEvent ==
  ASSUME NEW tr, NEW e \in EventType, NEW now \in Nat, NEW k,
         e.phase = "reset_assert", e.seq = 0, e.cycle = now, now <= MaxCycle,
         e.epoch = 1, e.rstn = FALSE,
         k.reset = TRUE, k.open.id = 0, k.next = 1, k.stop = -1, k.regs = ResetValues
  PROVE  Stage(tr, Append(<<>>, e), k, now, now, now - 1)
<1> DEFINE p == Reader!Start
           pp == Reader!Parse(Append(<<>>, e))
<1>1. Reader!Parse(<<>>) = p /\ <<>> \in Seq(EventType) /\ <<>> \in Seq(Tx) /\ Len(<<>>) = 0
  BY ParseEmpty
<1>2. /\ p.ok = TRUE /\ p.read = 0 /\ p.pending = {} /\ p.seen = {} /\ p.sampled = {}
      /\ p.epoch = 0 /\ p.reset = FALSE /\ p.last = 0 /\ p.stop = -1
      /\ p.releases = <<>> /\ p.txs = <<>>
  BY DEF Reader!Start
<1> HIDE DEF p
<1>3. MaxCycle \in Nat
  BY BoundsAssumption
<1>4. Reader!Admits(p, e)
  BY <1>2, <1>3 DEF Reader!Admits, Reader!InOrder, Reader!ResetAgrees
<1>5. pp = Reader!After(p, e)
  BY <1>1, <1>2, <1>4, Admitted
<1>6. /\ pp.ok = TRUE /\ pp.read = 1 /\ pp.pending = {} /\ pp.seen = {} /\ pp.sampled = {}
      /\ pp.epoch = 1 /\ pp.reset = TRUE /\ pp.last = now /\ pp.stop = -1
      /\ pp.releases = <<>> /\ pp.txs = <<>>
  <2>1. Becomes(p, e, pp)
    BY <1>5, AfterFields
  <2> HIDE DEF pp
  <2>2. pp.ok = TRUE /\ pp.last = now /\ pp.reset = TRUE
    BY <2>1 DEF Becomes
  <2>5. pp.read = 1 /\ pp.epoch = 1
    <3>1. pp.read = p.read + 1 /\ pp.epoch = p.epoch + 1
      BY <2>1 DEF Becomes
    <3> QED
      BY <1>2, <3>1
  <2>3. pp.pending = {} /\ pp.seen = {} /\ pp.sampled = {} /\ pp.stop = -1
    BY <1>2, <2>1 DEF Becomes
  <2>4. pp.releases = <<>> /\ pp.txs = <<>>
    BY <1>2, <2>1 DEF Becomes
  <2> QED
    BY <2>2, <2>3, <2>4, <2>5
<1> HIDE DEF pp
<1>7. /\ Append(<<>>, e) \in Seq(EventType) /\ Len(Append(<<>>, e)) = 1
      /\ SamplesOf(Append(<<>>, e)) = {}
  <2>1. Append(<<>>, e) \in Seq(EventType) /\ Len(Append(<<>>, e)) = 1
    BY <1>1
  <2>2. SamplesOf(Append(<<>>, e)) = SamplesOf(<<>>)
    BY <1>1, SamplesAppend
  <2> QED
    BY <2>1, <2>2, NoSamples
<1>8. Reads(pp, Append(<<>>, e), now, now, now - 1)
  <2>1. now .. now - 1 = {}
    OBVIOUS
  <2>2. \A c : ~ \E x \in SamplesOf(Append(<<>>, e)) : x.cycle = c
    BY <1>7
  <2>3. DOMAIN pp.txs = {}
    BY <1>6
  <2>4. Counters(pp, Append(<<>>, e), now, now)
    <3>1. now \in Nat /\ now <= now /\ now \in 0 .. now
      OBVIOUS
    <3> QED
      BY <1>6, <1>7, <3>1 DEF Counters
  <2>5. Sampling(pp, Append(<<>>, e), now, now - 1)
    BY <1>6, <2>1, <2>2 DEF Sampling
  <2>6. Released(pp, now, now)
    BY <1>6 DEF Released
  <2>7. Ordered(pp, now, now)
    BY <1>1, <1>6, <2>3 DEF Ordered
  <2>8. OpenIsLast(pp, now, now)
    BY <1>6 DEF OpenIsLast
  <2> QED
    BY <2>4, <2>5, <2>6, <2>7, <2>8 DEF Reads
<1>9. Follows(pp, k)
  <2>1. 1 .. k.next - 1 = {} /\ k.next - 1 = 0 /\ k.next \in Nat \ {0} /\ k.stop \in Nat \cup {-1}
    OBVIOUS
  <2>2. Len(pp.txs) = k.next - 1 /\ k.open.id = 0
    BY <1>1, <1>6, <2>1
  <2> QED
    BY <1>6, <2>1, <2>2 DEF Follows
<1>10. Replays(tr, pp, Append(<<>>, e), k.regs, now)
  <2>1. RegistersAt(tr, pp, now) = ReplayIn(tr, pp.txs)[Len(pp.txs)]
    BY <1>6, <1>8, RegistersClosed
  <2>2. ReplayIn(tr, <<>>)[0] = ResetValues
    BY <1>1, ReplayUnroll
  <2> QED
    BY <1>1, <1>6, <1>7, <2>1, <2>2 DEF Replays
<1> QED
  BY <1>8, <1>9, <1>10 DEF Stage, pp

\* Events that leave transactions and identifiers alone.
LEMMA QuietEvent ==
  ASSUME NEW tr, NEW l, NEW k, NEW kk, NEW first, NEW now, NEW upto, NEW e \in EventType,
         Stage(tr, l, k, first, now, now - 1),
         Reader!Admits(Reader!Parse(l), e), e.cycle = now,
         e.phase \in {"reset_release", "ram_write", "software_stop", "status_sample"},
         e.phase = "reset_release" => first < now,
         e.phase = "status_sample" => e.regs = k.regs,
         upto = IF e.phase = "status_sample" THEN now ELSE now - 1,
         kk.reset = (k.reset /\ e.phase # "reset_release"),
         kk.stop = IF e.phase = "software_stop" THEN now ELSE k.stop,
         kk.open = k.open, kk.next = k.next, kk.regs = k.regs
  PROVE  /\ Stage(tr, Append(l, e), kk, first, now, upto)
         /\ Reader!Parse(Append(l, e)).pending = Reader!Parse(l).pending
         /\ Reader!Parse(Append(l, e)).txs = Reader!Parse(l).txs
<1> DEFINE p == Reader!Parse(l)
           pp == Reader!Parse(Append(l, e))
<1>1. Reads(p, l, first, now, now - 1) /\ Follows(p, k) /\ Replays(tr, p, l, k.regs, now)
  BY DEF Stage
<1>2. p.ok /\ l \in Seq(EventType) /\ Len(l) \in Nat /\ now \in Nat /\ first \in Nat
  BY <1>1 DEF Reads, Counters
<1>3. Reader!Admits(p, e) /\ pp = Reader!After(p, e)
  BY <1>2, Admitted
<1> HIDE DEF p, pp
<1>12. Becomes(p, e, pp)
  BY <1>3, AfterFields
<1>4. /\ pp.ok = TRUE /\ pp.read = Len(l) + 1 /\ pp.last = now /\ pp.epoch = 1
      /\ pp.reset = (p.reset /\ e.phase # "reset_release")
      /\ pp.seen = p.seen /\ pp.pending = p.pending /\ pp.txs = p.txs
      /\ e.phase # "status_sample" => pp.sampled = p.sampled
      /\ e.phase = "status_sample" => pp.sampled = p.sampled \cup {now}
      /\ e.phase # "software_stop" => pp.stop = p.stop
      /\ e.phase = "software_stop" => pp.stop = now
  BY <1>1, <1>12 DEF Reads, Counters, Becomes
<1>5. /\ Append(l, e) \in Seq(EventType) /\ Len(Append(l, e)) = Len(l) + 1
      /\ SamplesOf(Append(l, e)) = SamplesOf(l) \cup (IF e.phase = "status_sample" THEN {e} ELSE {})
  BY <1>2, SamplesAppend
<1>6. /\ pp.reset => pp.releases = <<>>
      /\ ~pp.reset => \E x \in first + 1 .. now : pp.releases = <<x>>
  <2>1. CASE e.phase = "reset_release"
    <3>1. p.reset
      BY <2>1, <1>3 DEF Reader!Admits, Reader!ResetAgrees
    <3>2. pp.releases = Append(<<>>, now)
      <4>1. p.releases = <<>>
        BY <3>1, <1>1 DEF Reads, Released
      <4> QED
        BY <2>1, <4>1, <1>12 DEF Becomes
    <3>3. pp.releases = <<now>> /\ now \in first + 1 .. now
      BY <2>1, <3>2, <1>2
    <3> QED
      BY <2>1, <3>3, <1>4
  <2>2. CASE e.phase # "reset_release"
    <3>1. pp.releases = p.releases /\ pp.reset = p.reset
      BY <2>2, <1>1, <1>12, <1>4 DEF Becomes, Reads, Counters
    <3> QED
      BY <3>1, <1>1 DEF Reads, Released
  <2> QED
    BY <2>1, <2>2
<1>7. pp.sampled = first .. upto
  <2>1. p.sampled = first .. now - 1 /\ first <= now
    BY <1>1 DEF Reads, Sampling, Counters
  <2>2. (first .. now - 1) \cup {now} = first .. now
    BY <2>1, <1>2
  <2> QED
    BY <2>1, <2>2, <1>4
<1>8. \A c : c \in pp.sampled <=> \E x \in SamplesOf(Append(l, e)) : x.cycle = c
  <2>1. \A c : c \in p.sampled <=> \E x \in SamplesOf(l) : x.cycle = c
    BY <1>1 DEF Reads, Sampling
  <2>2. CASE e.phase # "status_sample"
    BY <2>1, <2>2, <1>4, <1>5
  <2>3. CASE e.phase = "status_sample"
    BY <2>1, <2>3, <1>4, <1>5
  <2> QED
    BY <2>2, <2>3
<1>9. Reads(pp, Append(l, e), first, now, upto)
  <2>1. Counters(pp, Append(l, e), first, now)
    BY <1>1, <1>2, <1>4, <1>5 DEF Reads, Counters
  <2>2. Sampling(pp, Append(l, e), first, upto)
    BY <1>7, <1>8 DEF Sampling
  <2>3. Released(pp, first, now)
    BY <1>1, <1>4, <1>6 DEF Reads, Counters, Released
  <2>4. Ordered(pp, first, now) /\ OpenIsLast(pp, first, now)
    BY <1>1, <1>4 DEF Reads, Ordered, OpenIsLast
  <2> QED
    BY <2>1, <2>2, <2>3, <2>4 DEF Reads
<1>10. Follows(pp, kk)
  <2>1. pp.reset = kk.reset /\ pp.stop = kk.stop
    BY <1>1, <1>4 DEF Follows
  <2> QED
    BY <1>1, <1>2, <1>4, <2>1 DEF Follows
<1>11. Replays(tr, pp, Append(l, e), kk.regs, now)
  <2>1. \A c : RegistersAt(tr, pp, c) = RegistersAt(tr, p, c)
    BY <1>4, RegistersSame
  <2>2. ASSUME NEW x \in SamplesOf(Append(l, e))
        PROVE  x.regs = RegistersAt(tr, pp, x.cycle)
    <3>1. CASE x \in SamplesOf(l)
      BY <3>1, <2>1, <1>1 DEF Replays
    <3>2. CASE x \notin SamplesOf(l)
      <4>1. x = e /\ e.phase = "status_sample"
        BY <3>2, <1>5
      <4> QED
        BY <4>1, <2>1, <1>1 DEF Replays
    <3> QED
      BY <3>1, <3>2
  <2> QED
    BY <2>1, <2>2, <1>1, <1>4 DEF Replays
<1>13. Stage(tr, Append(l, e), kk, first, now, upto)
  BY <1>9, <1>10, <1>11 DEF Stage, pp
<1> QED
  BY <1>4, <1>13 DEF p, pp

\* Out of reset, the reset level and the epoch of an event agree with the parser.
LEMMA OutOfReset ==
  ASSUME NEW p, NEW e, p.epoch = 1, p.reset = FALSE, e.epoch = 1, e.rstn = TRUE,
         e.phase # "reset_assert", e.phase # "reset_release"
  PROVE  Reader!ResetAgrees(p, e)
<1>1. p.epoch > 0 /\ e.epoch = p.epoch
  OBVIOUS
<1>2. (~p.reset) = TRUE
  OBVIOUS
<1>3. e.rstn = ~p.reset
  BY <1>2
<1> QED
  BY <1>1, <1>3 DEF Reader!ResetAgrees

\* The answer of the cycle after its request completes the transaction.
LEMMA ResponseEvent ==
  ASSUME NEW tr, NEW l, NEW k, NEW kk, NEW first, NEW now, NEW e \in EventType,
         Stage(tr, l, k, first, now, now - 1), first < now,
         now <= MaxCycle, k.reset = FALSE, k.open.id # 0,
         \A q \in Reader!Parse(l).pending : q.cycle = now - 1,
         e.phase = "response", e.seq = Len(l), e.cycle = now, e.epoch = 1, e.rstn = TRUE,
         e.tid = k.open.id, e.req = k.open.req, e.err = ~Legal(k.open.req),
         e.rd = Answer(ReplayIn(tr, Reader!Parse(l).txs)[Len(Reader!Parse(l).txs)], k.open.req),
         kk.reset = FALSE, kk.open.id = 0, kk.next = k.next, kk.stop = k.stop, kk.regs = k.regs
  PROVE  Stage(tr, Append(l, e), kk, first, now, now - 1)
<1> DEFINE p == Reader!Parse(l)
           pp == Reader!Parse(Append(l, e))
           t == p.txs
<1>1. Reads(p, l, first, now, now - 1) /\ Follows(p, k) /\ Replays(tr, p, l, k.regs, now)
  BY DEF Stage
<1>2. /\ p.ok /\ l \in Seq(EventType) /\ Len(l) \in Nat /\ now \in Nat /\ first \in Nat
      /\ p.read = Len(l) /\ p.epoch = 1 /\ p.reset = FALSE /\ p.last \in 0 .. now
      /\ MaxCycle \in Nat
  BY <1>1, BoundsAssumption DEF Reads, Counters, Follows
<1>3. PICK q \in p.pending : q.tid = k.open.id /\ q.req = k.open.req
  BY <1>1 DEF Follows
<1>4. /\ p.pending = {q} /\ q.cycle \in first + 1 .. now /\ q.epoch = 1 /\ q.req \in Requests
      /\ q \in EventType /\ \A i \in DOMAIN t : t[i].request.cycle < q.cycle
  BY <1>1, <1>3 DEF Reads, OpenIsLast
<1>5. q.cycle = now - 1 /\ now = q.cycle + 1
  BY <1>2, <1>3
<1>6. Reader!Answers(q, e)
  BY <1>3, <1>4, <1>5, SameRegisterFile DEF Reader!Answers
<1>7. Reader!Admits(p, e)
  <2> HIDE DEF p
  <2>1. Reader!InOrder(p, e)
    BY <1>2 DEF Reader!InOrder
  <2>2. Reader!ResetAgrees(p, e)
    BY <1>2, OutOfReset
  <2> QED
    BY <1>2, <1>3, <1>6, <2>1, <2>2 DEF Reader!Admits
<1>8. pp = Reader!After(p, e)
  BY <1>2, <1>7, Admitted
<1>9. Reader!Answered(p, e) = q
  BY <1>4, <1>6 DEF Reader!Answered
<1>10. Becomes(p, e, pp)
  BY <1>8, AfterFields
<1> DEFINE x == [request |-> q, response |-> e]
<1> HIDE DEF p, pp
<1>11. /\ pp.ok = TRUE /\ pp.read = Len(l) + 1 /\ pp.last = now /\ pp.epoch = 1
       /\ pp.reset = FALSE /\ pp.releases = p.releases /\ pp.seen = p.seen
       /\ pp.sampled = p.sampled /\ pp.stop = p.stop
  BY <1>2, <1>10 DEF Becomes
<1>12. pp.txs = Append(t, x) /\ pp.pending = {}
  <2>1. pp.txs = Append(t, x) /\ pp.pending = p.pending \ {q}
    BY <1>9, <1>10 DEF Becomes
  <2> QED
    BY <1>4, <2>1
<1>13. /\ x \in Tx /\ x.request = q /\ x.response = e /\ t \in Seq(Tx) /\ Len(t) \in Nat
  <2>1. x \in Tx
    BY <1>4 DEF Tx, Reader!Transaction, EventType
  <2> QED
    BY <1>1, <2>1 DEF Reads, Ordered
<1> HIDE DEF x
<1>14. /\ DOMAIN t = 1 .. Len(t) /\ DOMAIN pp.txs = 1 .. Len(t) + 1 /\ Len(pp.txs) = Len(t) + 1
       /\ pp.txs \in Seq(Tx) /\ pp.txs[Len(t) + 1] = x
       /\ \A i \in 1 .. Len(t) : pp.txs[i] = t[i]
  BY <1>12, <1>13
<1>15. /\ Append(l, e) \in Seq(EventType) /\ Len(Append(l, e)) = Len(l) + 1
       /\ SamplesOf(Append(l, e)) = SamplesOf(l)
  <2>1. SamplesOf(Append(l, e)) = SamplesOf(l) \cup (IF e.phase = "status_sample" THEN {e} ELSE {})
    BY <1>2, SamplesAppend
  <2>2. Append(l, e) \in Seq(EventType) /\ Len(Append(l, e)) = Len(l) + 1
    BY <1>2
  <2>3. e.phase # "status_sample"
    OBVIOUS
  <2> QED
    BY <2>1, <2>2, <2>3
<1> HIDE DEF t
<1>16. \A i \in 1 .. Len(t) : /\ t[i].request.cycle \in first + 1 .. now - 1
                              /\ t[i].request.cycle < q.cycle
                              /\ t[i].request.cycle \in Nat
  <2> TAKE i \in 1 .. Len(t)
  <2>1. t[i].request.cycle \in first + 1 .. now - 1
    BY <1>1, <1>14 DEF Reads, Ordered, t
  <2>2. t[i].request.cycle < q.cycle
    BY <1>4, <1>14 DEF t
  <2> QED
    BY <2>1, <2>2, <1>2
<1>17. Reads(pp, Append(l, e), first, now, now - 1)
  <2>1. Counters(pp, Append(l, e), first, now)
    <3>1. now \in 0 .. now /\ first <= now
      BY <1>2
    <3> QED
      BY <3>1, <1>2, <1>11, <1>15 DEF Counters
  <2>2. Sampling(pp, Append(l, e), first, now - 1)
    BY <1>1, <1>2, <1>11, <1>15 DEF Reads, Sampling
  <2>3. Released(pp, first, now)
    BY <1>1, <1>2, <1>11 DEF Reads, Released
  <2>4. Ordered(pp, first, now)
    <3>1. ASSUME NEW i \in 1 .. Len(t) + 1
          PROVE  pp.txs[i].request.cycle \in first + 1 .. now - 1
      <4>1. CASE i = Len(t) + 1
        <5>1. pp.txs[i].request.cycle = q.cycle
          BY <4>1, <1>13, <1>14
        <5> QED
          BY <5>1, <1>2, <1>4, <1>5
      <4>2. CASE i # Len(t) + 1
        <5>1. i \in 1 .. Len(t) /\ pp.txs[i] = t[i]
          BY <4>2, <1>13, <1>14
        <5> QED
          BY <5>1, <1>16
      <4> QED
        BY <4>1, <4>2
    <3>2. ASSUME NEW i \in 1 .. Len(t) + 1, NEW j \in 1 .. Len(t) + 1, i < j
          PROVE  pp.txs[i].request.cycle < pp.txs[j].request.cycle
      <4>1. i \in 1 .. Len(t)
        BY <3>2, <1>13
      <4>2. CASE j = Len(t) + 1
        BY <4>1, <4>2, <1>13, <1>14, <1>16
      <4>3. CASE j # Len(t) + 1
        <5>1. j \in 1 .. Len(t)
          BY <4>3, <1>13
        <5> QED
          BY <3>2, <4>1, <5>1, <1>1, <1>14 DEF Reads, Ordered, t
      <4> QED
        BY <4>2, <4>3
    <3>3. ASSUME NEW i \in 1 .. Len(t) + 1 PROVE pp.txs[i].request.req \in Requests
      <4>1. CASE i = Len(t) + 1
        BY <4>1, <1>4, <1>13, <1>14
      <4>2. CASE i # Len(t) + 1
        <5>1. i \in 1 .. Len(t) /\ pp.txs[i] = t[i]
          BY <4>2, <1>13, <1>14
        <5> QED
          BY <5>1, <1>1, <1>14 DEF Reads, Ordered, t
      <4> QED
        BY <4>1, <4>2
    <3> QED
      BY <1>14, <3>1, <3>2, <3>3 DEF Ordered
  <2>5. OpenIsLast(pp, first, now)
    BY <1>12 DEF OpenIsLast
  <2> QED
    BY <2>1, <2>2, <2>3, <2>4, <2>5 DEF Reads
<1>18. Follows(pp, kk)
  <2>1. Len(t) = k.next - 2 /\ k.next \in Nat \ {0}
    BY <1>1 DEF Follows, t
  <2>2. Len(pp.txs) = k.next - 1
    BY <2>1, <1>14
  <2> QED
    BY <1>1, <1>11, <1>12, <2>2 DEF Follows
<1>24. \A i \in 1 .. Len(pp.txs) : pp.txs[i].request.cycle \in first + 1 .. now - 1
  BY <1>14, <1>17 DEF Reads, Ordered
<1>19. /\ \A n \in 0 .. Len(t) : ReplayIn(tr, pp.txs)[n] = ReplayIn(tr, t)[n]
       /\ ReplayIn(tr, pp.txs)[Len(t) + 1] = AfterAccess(tr, ReplayIn(tr, t)[Len(t)], q.req)
  BY <1>12, <1>13, ReplayAppend
<1>20. k.regs = RegistersAt(tr, pp, now)
  <2>1. RegistersAt(tr, p, now) = AfterAccess(tr, ReplayIn(tr, t)[Len(t)], q.req)
    BY <1>1, <1>3, RegistersNow DEF t
  <2>2. RegistersAt(tr, pp, now) = ReplayIn(tr, pp.txs)[Len(pp.txs)]
    <3>1. Len(pp.txs) \in 0 .. Len(pp.txs)
      BY <1>13, <1>14
    <3>2. \A i \in 1 .. Len(pp.txs) : pp.txs[i].request.cycle <= now <=> i <= Len(pp.txs)
      BY <1>2, <1>14, <1>24
    <3>3. Count(pp.txs, now) = Len(pp.txs)
      BY <1>14, <3>1, <3>2, CountPrefix
    <3> QED
      BY <1>12, <3>3 DEF RegistersAt
  <2> QED
    BY <1>1, <1>14, <1>19, <2>1, <2>2 DEF Replays
<1>21. ASSUME NEW s \in SamplesOf(l)
       PROVE  s.regs = RegistersAt(tr, pp, s.cycle)
  <2>1. s.regs = RegistersAt(tr, p, s.cycle)
    BY <1>1 DEF Replays
  <2>2. s.cycle \in first .. now - 1
    <3>1. s.cycle \in p.sampled
      BY <1>1 DEF Reads, Sampling
    <3> QED
      BY <1>1, <3>1 DEF Reads, Sampling
  <2>3. CASE q.cycle <= s.cycle
    <3>1. s.cycle = now - 1
      <4>1. s.cycle \in Int /\ s.cycle <= now - 1 /\ now - 1 <= s.cycle
        BY <1>2, <1>5, <2>2, <2>3
      <4> QED
        BY <1>2, <4>1
    <3>2. RegistersAt(tr, p, s.cycle) = AfterAccess(tr, ReplayIn(tr, t)[Len(t)], q.req)
      <4>1. \E y \in p.pending : y.cycle <= s.cycle
        BY <1>3, <2>3
      <4>2. (CHOOSE y \in p.pending : TRUE) = q
        BY <1>4
      <4> QED
        BY <4>1, <4>2 DEF RegistersAt, t
    <3>3. \A i \in 1 .. Len(pp.txs) : pp.txs[i].request.cycle <= s.cycle <=> i <= Len(pp.txs)
      BY <1>2, <1>14, <1>24, <3>1
    <3>4. Count(pp.txs, s.cycle) = Len(pp.txs)
      <4>1. Len(pp.txs) \in 0 .. Len(pp.txs)
        BY <1>13, <1>14
      <4> QED
        BY <1>14, <3>3, <4>1, CountPrefix
    <3>5. RegistersAt(tr, pp, s.cycle) = ReplayIn(tr, pp.txs)[Len(pp.txs)]
      BY <1>12, <3>4 DEF RegistersAt
    <3> QED
      BY <1>14, <1>19, <2>1, <3>2, <3>5
  <2>4. CASE ~(q.cycle <= s.cycle)
    <3>1. RegistersAt(tr, p, s.cycle) = ReplayIn(tr, t)[Count(t, s.cycle)]
      <4>1. ~ \E y \in p.pending : y.cycle <= s.cycle
        BY <1>4, <2>4
      <4> QED
        BY <4>1 DEF RegistersAt, t
    <3>2. Count(pp.txs, s.cycle) = Count(t, s.cycle) /\ Count(t, s.cycle) \in 0 .. Len(t)
      BY <1>12, <1>13, <2>4, CountLater, CountBounds
    <3>3. RegistersAt(tr, pp, s.cycle) = ReplayIn(tr, pp.txs)[Count(t, s.cycle)]
      BY <1>12, <3>2 DEF RegistersAt
    <3> QED
      BY <1>19, <2>1, <3>1, <3>2, <3>3
  <2> QED
    BY <2>3, <2>4
<1>22. ASSUME NEW i \in 1 .. Len(t) + 1
       PROVE  pp.txs[i].response.rd = Answer(ReplayIn(tr, pp.txs)[i - 1], pp.txs[i].request.req)
  <2>1. CASE i = Len(t) + 1
    <3>1. i - 1 = Len(t) /\ Len(t) \in 0 .. Len(t) /\ pp.txs[i] = x
      BY <2>1, <1>13, <1>14
    <3>2. e.rd = Answer(ReplayIn(tr, t)[Len(t)], q.req)
      BY <1>3 DEF t, p
    <3> QED
      BY <3>1, <3>2, <1>13, <1>19
  <2>2. CASE i # Len(t) + 1
    <3>1. i \in 1 .. Len(t) /\ i - 1 \in 0 .. Len(t) /\ pp.txs[i] = t[i]
      BY <2>2, <1>13, <1>14
    <3>2. t[i].response.rd = Answer(ReplayIn(tr, t)[i - 1], t[i].request.req)
      BY <3>1, <1>1, <1>14 DEF Replays, t
    <3> QED
      BY <3>1, <3>2, <1>19
  <2> QED
    BY <2>1, <2>2
<1>23. Replays(tr, pp, Append(l, e), kk.regs, now)
  BY <1>14, <1>15, <1>20, <1>21, <1>22 DEF Replays
<1> QED
  BY <1>17, <1>18, <1>23 DEF Stage, pp

\* The log l has received the request e, which found the registers r.
Requested(tr, l, e, kk, first, now, r) ==
  /\ Stage(tr, Append(l, e), kk, first, now, now - 1)
  /\ Reader!Parse(Append(l, e)).pending = {e}
  /\ ReplayIn(tr, Reader!Parse(Append(l, e)).txs)[Len(Reader!Parse(Append(l, e)).txs)] = r

\* A request opens a transaction and is at once in the registers.
LEMMA RequestEvent ==
  ASSUME NEW tr, NEW l, NEW k, NEW kk, NEW first, NEW now, NEW e \in EventType,
         Stage(tr, l, k, first, now, now - 1), first < now,
         now <= MaxCycle, k.reset = FALSE, k.open.id = 0,
         e.phase = "request", e.seq = Len(l), e.cycle = now, e.epoch = 1, e.rstn = TRUE,
         e.tid = k.next, e.req \in Requests, e.req.addr \in Window,
         kk.reset = FALSE, kk.open.id = k.next, kk.open.req = e.req, kk.next = k.next + 1,
         kk.stop = k.stop, kk.regs = AfterAccess(tr, k.regs, e.req)
  PROVE  Requested(tr, l, e, kk, first, now, k.regs)
<1> DEFINE p == Reader!Parse(l)
           pp == Reader!Parse(Append(l, e))
           t == p.txs
<1>1. Reads(p, l, first, now, now - 1) /\ Follows(p, k) /\ Replays(tr, p, l, k.regs, now)
  BY DEF Stage
<1>2. /\ p.ok /\ l \in Seq(EventType) /\ Len(l) \in Nat /\ now \in Nat /\ first \in Nat
      /\ p.read = Len(l) /\ p.epoch = 1 /\ p.reset = FALSE /\ p.last \in 0 .. now
      /\ MaxCycle \in Nat /\ p.pending = {} /\ p.seen = 1 .. k.next - 1 /\ k.next \in Nat \ {0}
      /\ t \in Seq(Tx) /\ Len(t) \in Nat /\ Len(t) = k.next - 1
  BY <1>1, BoundsAssumption DEF Reads, Counters, Ordered, Follows
<1>3. Reader!Admits(p, e)
  <2> HIDE DEF p
  <2>1. Reader!InOrder(p, e)
    BY <1>2 DEF Reader!InOrder
  <2>2. Reader!ResetAgrees(p, e)
    BY <1>2, OutOfReset
  <2>3. Reader!RequestAdmitted(p, e)
    BY <1>2, SameRegisterFile, NoRequestAssumption DEF Reader!RequestAdmitted
  <2> QED
    BY <2>1, <2>2, <2>3 DEF Reader!Admits
<1>4. Becomes(p, e, pp)
  <2>1. pp = Reader!After(p, e)
    BY <1>2, <1>3, Admitted
  <2> QED
    BY <2>1, AfterFields
<1> HIDE DEF p, pp
<1>5. /\ pp.ok = TRUE /\ pp.read = Len(l) + 1 /\ pp.last = now /\ pp.epoch = 1
      /\ pp.reset = FALSE /\ pp.releases = p.releases /\ pp.seen = p.seen \cup {k.next}
      /\ pp.sampled = p.sampled /\ pp.stop = p.stop
  BY <1>2, <1>4 DEF Becomes
<1>6. pp.txs = t /\ pp.pending = {e}
  BY <1>4 DEF Becomes
<1>7. /\ Append(l, e) \in Seq(EventType) /\ Len(Append(l, e)) = Len(l) + 1
      /\ SamplesOf(Append(l, e)) = SamplesOf(l)
  <2>1. SamplesOf(Append(l, e)) = SamplesOf(l) \cup (IF e.phase = "status_sample" THEN {e} ELSE {})
    BY <1>2, SamplesAppend
  <2>2. Append(l, e) \in Seq(EventType) /\ Len(Append(l, e)) = Len(l) + 1
    BY <1>2
  <2>3. e.phase # "status_sample"
    OBVIOUS
  <2> QED
    BY <2>1, <2>2, <2>3
<1>8. Reads(pp, Append(l, e), first, now, now - 1)
  <2>1. Counters(pp, Append(l, e), first, now)
    <3>1. now \in 0 .. now /\ first <= now
      BY <1>2
    <3> QED
      BY <3>1, <1>2, <1>5, <1>7 DEF Counters
  <2>2. Sampling(pp, Append(l, e), first, now - 1)
    BY <1>1, <1>2, <1>5, <1>7 DEF Reads, Sampling
  <2>3. Released(pp, first, now)
    BY <1>1, <1>2, <1>5 DEF Reads, Released
  <2>4. Ordered(pp, first, now)
    BY <1>1, <1>6 DEF Reads, Ordered
  <2>5. OpenIsLast(pp, first, now)
    <3>1. \A i \in DOMAIN t : t[i].request.cycle \in first + 1 .. now - 1
      BY <1>1 DEF Reads, Ordered
    <3>2. \A i \in DOMAIN t : t[i].request.cycle < now
      BY <3>1, <1>2
    <3>3. now \in first + 1 .. now
      BY <1>2
    <3> QED
      BY <1>6, <3>2, <3>3 DEF OpenIsLast
  <2> QED
    BY <2>1, <2>2, <2>3, <2>4, <2>5 DEF Reads
<1>9. Follows(pp, kk)
  <2>1. /\ (1 .. k.next - 1) \cup {k.next} = 1 .. kk.next - 1
        /\ kk.next - 1 = k.next /\ kk.next - 2 = k.next - 1 /\ kk.next \in Nat \ {0}
        /\ kk.open.id # 0 /\ kk.open.id = kk.next - 1
    <3>1. k.next \in Nat \ {0} /\ kk.next = k.next + 1 /\ kk.open.id = k.next
      BY <1>2
    <3>2. kk.next - 1 = k.next /\ kk.next - 2 = k.next - 1 /\ kk.next \in Nat \ {0}
      BY <3>1
    <3>3. (1 .. k.next - 1) \cup {k.next} = 1 .. k.next
      BY <3>1
    <3> QED
      BY <3>1, <3>2, <3>3
  <2>2. p.stop = kk.stop /\ kk.stop \in Nat \cup {-1}
    BY <1>1 DEF Follows
  <2>3. \E q \in pp.pending : q.tid = kk.open.id /\ q.req = kk.open.req
    BY <1>6
  <2>4. pp.seen = 1 .. kk.next - 1 /\ Len(pp.txs) = kk.next - 2
    BY <1>2, <1>5, <1>6, <2>1
  <2> QED
    BY <1>5, <2>1, <2>2, <2>3, <2>4 DEF Follows
<1>10. k.regs = ReplayIn(tr, t)[Len(t)]
  BY <1>1, <1>2, RegistersClosed DEF Replays
<1>11. RegistersAt(tr, pp, now) = AfterAccess(tr, k.regs, e.req)
  <2>1. e \in pp.pending
    BY <1>6
  <2>2. RegistersAt(tr, pp, now) = AfterAccess(tr, ReplayIn(tr, pp.txs)[Len(pp.txs)], e.req)
    BY <1>8, <2>1, RegistersNow
  <2> QED
    BY <1>6, <1>10, <2>2
<1>12. ASSUME NEW s \in SamplesOf(l)
       PROVE  s.regs = RegistersAt(tr, pp, s.cycle)
  <2>1. s.regs = RegistersAt(tr, p, s.cycle)
    BY <1>1 DEF Replays
  <2>2. s.cycle \in first .. now - 1
    <3>1. s.cycle \in p.sampled
      BY <1>1 DEF Reads, Sampling
    <3> QED
      BY <1>1, <3>1 DEF Reads, Sampling
  <2>3. ~(now <= s.cycle)
    BY <1>2, <2>2
  <2>4. RegistersAt(tr, p, s.cycle) = ReplayIn(tr, t)[Count(t, s.cycle)]
    BY <1>2 DEF RegistersAt
  <2>5. RegistersAt(tr, pp, s.cycle) = ReplayIn(tr, t)[Count(t, s.cycle)]
    BY <1>6, <2>3 DEF RegistersAt
  <2> QED
    BY <2>1, <2>4, <2>5
<1>13. Replays(tr, pp, Append(l, e), kk.regs, now)
  BY <1>1, <1>6, <1>7, <1>11, <1>12 DEF Replays
<1>14. Stage(tr, Append(l, e), kk, first, now, now - 1)
  BY <1>8, <1>9, <1>13 DEF Stage, pp
<1> QED
  BY <1>6, <1>10, <1>14 DEF Requested, pp

\* What the later steps use of Stage.
LEMMA StageFacts ==
  ASSUME NEW tr, NEW l, NEW k, NEW first, NEW now, NEW upto, Stage(tr, l, k, first, now, upto)
  PROVE  /\ l \in Seq(EventType) /\ Len(l) \in Nat
         /\ Reader!Parse(l).ok /\ Reader!Parse(l).read = Len(l) /\ Reader!Parse(l).epoch = 1
         /\ Reader!Parse(l).reset = k.reset /\ k.reset \in BOOLEAN
         /\ Reader!Parse(l).last <= now /\ now \in Nat /\ first \in Nat
         /\ Reader!Parse(l).stop = k.stop
         /\ Reader!Parse(l).sampled = first .. upto
         /\ k.reset => Reader!Parse(l).pending = {} /\ k.open.id = 0
         /\ k.open.id = 0 => Reader!Parse(l).pending = {}
<1> DEFINE p == Reader!Parse(l)
<1>1. /\ Counters(p, l, first, now) /\ Sampling(p, l, first, upto) /\ Released(p, first, now)
      /\ Follows(p, k)
  BY DEF Stage, Reads
<1> HIDE DEF p
<1>2. /\ l \in Seq(EventType) /\ Len(l) \in Nat
      /\ p.ok /\ p.read = Len(l) /\ p.epoch = 1
      /\ p.reset = k.reset /\ k.reset \in BOOLEAN
      /\ p.last <= now /\ now \in Nat /\ first \in Nat
      /\ p.stop = k.stop
  BY <1>1 DEF Counters, Follows
<1>3. p.sampled = first .. upto
  BY <1>1 DEF Sampling
<1>4. (k.reset => k.open.id = 0) /\ (k.open.id = 0 => p.pending = {}) /\ (k.reset => p.pending = {})
  BY <1>1 DEF Follows, Released
<1> QED
  BY <1>2, <1>3, <1>4 DEF p

\* The event of the end of the reset.
LEMMA ReleaseLink ==
  ASSUME NEW tr, NEW l, NEW k, NEW kk, NEW first, NEW now, NEW e \in EventType,
         Stage(tr, l, k, first, now, now - 1), first < now, now <= MaxCycle,
         e.phase = "reset_release", e.cycle = now, e.epoch = 1, e.rstn = TRUE,
         k.reset, kk.reset = FALSE, kk.open = k.open, kk.next = k.next, kk.stop = k.stop,
         kk.regs = k.regs, e.seq = Len(l)
  PROVE  Stage(tr, Append(l, e), kk, first, now, now - 1)
<1> DEFINE p == Reader!Parse(l)
<1>1. /\ l \in Seq(EventType) /\ Len(l) \in Nat /\ p.read = Len(l) /\ p.epoch = 1
      /\ p.reset = k.reset /\ p.last <= now
  BY StageFacts
<1>2. Reader!Admits(p, e)
  <2> HIDE DEF p
  <2>1. Reader!InOrder(p, e)
    BY <1>1 DEF Reader!InOrder
  <2>2. Reader!ResetAgrees(p, e)
    BY <1>1 DEF Reader!ResetAgrees
  <2> QED
    BY <2>1, <2>2 DEF Reader!Admits
<1>3. kk.reset = (k.reset /\ e.phase # "reset_release")
  OBVIOUS
<1>4. kk.stop = IF e.phase = "software_stop" THEN now ELSE k.stop
  OBVIOUS
<1>5. /\ now - 1 = IF e.phase = "status_sample" THEN now ELSE now - 1
      /\ e.phase \in {"reset_release", "ram_write", "software_stop", "status_sample"}
      /\ e.phase = "status_sample" => e.regs = k.regs
  OBVIOUS
<1> QED
  BY <1>2, <1>3, <1>4, <1>5, QuietEvent

\* One more event that leaves the transactions and the open request alone.
Linked(tr, l, e, kk, first, now) ==
  /\ Stage(tr, Append(l, e), kk, first, now, now - 1)
  /\ Reader!Parse(Append(l, e)).pending = Reader!Parse(l).pending
  /\ Reader!Parse(Append(l, e)).txs = Reader!Parse(l).txs

\* The event of a result write.
LEMMA RamLink ==
  ASSUME NEW tr, NEW l, NEW k, NEW first, NEW now, NEW e \in EventType,
         Stage(tr, l, k, first, now, now - 1), now <= MaxCycle,
         e.phase = "ram_write", e.cycle = now, e.epoch = 1, e.rstn = TRUE,
         k.reset = FALSE, e.seq = Len(l)
  PROVE  Linked(tr, l, e, k, first, now)
<1> DEFINE p == Reader!Parse(l)
<1>1. /\ l \in Seq(EventType) /\ Len(l) \in Nat /\ p.read = Len(l) /\ p.epoch = 1
      /\ p.reset = FALSE /\ p.last <= now
  BY StageFacts
<1>2. Reader!Admits(p, e)
  <2> HIDE DEF p
  <2>1. Reader!InOrder(p, e)
    BY <1>1 DEF Reader!InOrder
  <2>2. Reader!ResetAgrees(p, e)
    BY <1>1, OutOfReset
  <2> QED
    BY <1>1, <2>1, <2>2 DEF Reader!Admits
<1>3. k.reset = (k.reset /\ e.phase # "reset_release")
  OBVIOUS
<1>4. /\ now - 1 = IF e.phase = "status_sample" THEN now ELSE now - 1
      /\ e.phase \in {"reset_release", "ram_write", "software_stop", "status_sample"}
      /\ e.phase = "status_sample" => e.regs = k.regs
      /\ e.phase = "reset_release" => first < now
      /\ k.stop = IF e.phase = "software_stop" THEN now ELSE k.stop
  OBVIOUS
<1> QED
  BY <1>2, <1>3, <1>4, QuietEvent DEF Linked

\* The event of the software stop.
LEMMA StopLink ==
  ASSUME NEW tr, NEW l, NEW k, NEW kk, NEW first, NEW now, NEW e \in EventType,
         Stage(tr, l, k, first, now, now - 1), now <= MaxCycle,
         e.phase = "software_stop", e.cycle = now, e.epoch = 1, e.rstn = TRUE,
         k.reset = FALSE, k.stop = -1, e.seq = Len(l),
         kk.reset = FALSE, kk.open = k.open, kk.next = k.next, kk.stop = now, kk.regs = k.regs
  PROVE  Linked(tr, l, e, kk, first, now)
<1> DEFINE p == Reader!Parse(l)
<1>1. /\ l \in Seq(EventType) /\ Len(l) \in Nat /\ p.read = Len(l) /\ p.epoch = 1
      /\ p.reset = FALSE /\ p.last <= now /\ p.stop = -1
  BY StageFacts
<1>2. Reader!Admits(p, e)
  <2> HIDE DEF p
  <2>1. Reader!InOrder(p, e)
    BY <1>1 DEF Reader!InOrder
  <2>2. Reader!ResetAgrees(p, e)
    BY <1>1, OutOfReset
  <2> QED
    BY <1>1, <2>1, <2>2 DEF Reader!Admits
<1>3. kk.reset = (k.reset /\ e.phase # "reset_release")
  OBVIOUS
<1>4. /\ now - 1 = IF e.phase = "status_sample" THEN now ELSE now - 1
      /\ e.phase \in {"reset_release", "ram_write", "software_stop", "status_sample"}
      /\ e.phase = "status_sample" => e.regs = k.regs
      /\ e.phase = "reset_release" => first < now
      /\ kk.stop = IF e.phase = "software_stop" THEN now ELSE k.stop
  OBVIOUS
<1> QED
  BY <1>2, <1>3, <1>4, QuietEvent DEF Linked

\* One more sample, of the present cycle.
Sampled(tr, l, e, k, first, now) ==
  /\ Stage(tr, Append(l, e), k, first, now, now)
  /\ Reader!Parse(Append(l, e)).pending = Reader!Parse(l).pending
  /\ Reader!Parse(Append(l, e)).txs = Reader!Parse(l).txs

\* The event of a sample.
LEMMA SampleLink ==
  ASSUME NEW tr, NEW l, NEW k, NEW first, NEW now, NEW e \in EventType,
         Stage(tr, l, k, first, now, now - 1), now <= MaxCycle,
         e.phase = "status_sample", e.cycle = now, e.epoch = 1, e.rstn = ~k.reset, e.tid = 0,
         e.regs = k.regs, k.reset => k.regs = ResetValues, e.seq = Len(l)
  PROVE  Sampled(tr, l, e, k, first, now)
<1> DEFINE p == Reader!Parse(l)
<1>1. /\ l \in Seq(EventType) /\ Len(l) \in Nat /\ p.read = Len(l) /\ p.epoch = 1
      /\ p.reset = k.reset /\ k.reset \in BOOLEAN /\ p.last <= now /\ now \in Nat /\ first \in Nat
      /\ p.sampled = first .. now - 1
  BY StageFacts
<1>2. Reader!Admits(p, e)
  <2> HIDE DEF p
  <2>1. Reader!InOrder(p, e)
    BY <1>1 DEF Reader!InOrder
  <2>2. Reader!ResetAgrees(p, e)
    <3>1. p.epoch > 0 /\ e.epoch = p.epoch /\ e.phase # "reset_assert" /\ e.phase # "reset_release"
      BY <1>1
    <3>2. e.rstn = ~p.reset
      BY <1>1
    <3> QED
      BY <3>1, <3>2 DEF Reader!ResetAgrees
  <2>3. Reader!SampleAdmitted(p, e)
    <3>1. now \notin first .. now - 1
      BY <1>1
    <3> QED
      BY <1>1, <3>1, SameRegisterFile DEF Reader!SampleAdmitted
  <2> QED
    BY <2>1, <2>2, <2>3 DEF Reader!Admits
<1>3. k.reset = (k.reset /\ e.phase # "reset_release")
  BY <1>1
<1>4. k.stop = IF e.phase = "software_stop" THEN now ELSE k.stop
  OBVIOUS
<1>5. /\ now = IF e.phase = "status_sample" THEN now ELSE now - 1
      /\ e.phase \in {"reset_release", "ram_write", "software_stop", "status_sample"}
      /\ e.phase = "status_sample" => e.regs = k.regs
      /\ e.phase = "reset_release" => first < now
  OBVIOUS
<1> QED
  BY <1>2, <1>3, <1>4, <1>5, QuietEvent DEF Sampled

-----------------------------------------------------------------------------
(* The inductive invariant.                                                *)

TypeOK ==
  /\ setup \in Setups /\ tree \in Trees /\ clk \in {"low", "high"} /\ rstn \in BOOLEAN
  /\ regs \in RegisterValues
  /\ resp \in [valid : BOOLEAN, err : BOOLEAN, rd : Data]
  /\ cycle \in 0 .. setup.cycles /\ epoch \in Nat /\ inReset \in BOOLEAN
  /\ nextId \in Nat \ {0} /\ stopCycle \in Nat \cup {-1}
  /\ pending \in [id : Nat, req : Requests \cup {NoRequest}]
  /\ log \in Seq(EventType)
  /\ power \in {"on", "finished", "killed"}

\* Before the first reset the monitor has done nothing.
BeforeReset ==
  epoch = 0 => /\ log = <<>> /\ pending = NothingPending /\ stopCycle = -1
               /\ ~inReset /\ nextId = 1

\* The levels of reset and of the response agree with the monitor's memory.
Levels ==
  epoch > 0 => /\ inReset = ~rstn
               /\ inReset => regs = ResetValues
               /\ resp.valid <=> pending.id # 0

\* With no request open, nothing is kept of the last one.
Idle == pending.id = 0 => pending = NothingPending

Numbered == \A i \in 1 .. Len(log) : log[i].seq = i - 1

Knows == [reset |-> inReset, open |-> pending, next |-> nextId, stop |-> stopCycle, regs |-> regs]

\* In its first reset epoch, the log parses.
LogParses ==
  epoch = 1 =>
    /\ \E first \in 0 .. cycle :
         Stage(tree, log, Knows, first, cycle, IF clk = "low" THEN cycle ELSE cycle - 1)
    /\ \A q \in Reader!Parse(log).pending : q.cycle = cycle
    /\ resp.valid =>
         /\ resp.rd = Answer(ReplayIn(tree, Reader!Parse(log).txs)[Len(Reader!Parse(log).txs)],
                             pending.req)
         /\ resp.err = ~Legal(pending.req)

\* The file is the log with the footer, or has no footer; the stored one may
\* be damaged.
Files ==
  /\ power = "on" => stored = NotStored
  /\ power = "finished" => file = [events |-> log, footer |-> Footer]
  /\ power = "killed" => file = [events |-> file.events, footer |-> NoFooter]
  /\ stored # NotStored =>
       /\ stored.footer = file.footer
       /\ stored.events = file.events \/ stored.events \in Damaged(file.events)

IInv ==
  /\ TypeOK
  /\ BeforeReset
  /\ Levels
  /\ Idle
  /\ Numbered
  /\ LogParses
  /\ Files

-----------------------------------------------------------------------------
\* It holds at power-on.
LEMMA InitIInv == SystemInit => IInv
<1> SUFFICES ASSUME SystemInit PROVE IInv
  OBVIOUS
<1>1. /\ setup \in Setups /\ tree \in Trees /\ clk = "low" /\ rstn = TRUE /\ regs \in PowerOn
      /\ resp = [valid |-> FALSE, err |-> FALSE, rd |-> 0]
      /\ cycle = 0 /\ epoch = 0 /\ inReset = FALSE /\ nextId = 1
      /\ pending = NothingPending /\ stopCycle = -1 /\ log = <<>> /\ power = "on"
      /\ stored = NotStored
  BY DEF SystemInit, Init
<1>2. setup.cycles \in Nat
  BY <1>1, SetupsAssumption, BoundsAssumption
<1>3. resp \in [valid : BOOLEAN, err : BOOLEAN, rd : Data]
  BY <1>1, DataAssumption
<1>4. pending \in [id : Nat, req : Requests \cup {NoRequest}]
  BY <1>1 DEF NothingPending
<1>5. regs \in RegisterValues
  BY <1>1, PowerOnAssumption
<1>6. log \in Seq(EventType) /\ Len(log) = 0
  BY <1>1
<1>7. TypeOK
  <2>1. cycle \in 0 .. setup.cycles
    BY <1>1, <1>2
  <2>3. epoch \in Nat /\ nextId \in Nat \ {0} /\ stopCycle \in Nat \cup {-1}
    BY <1>1
  <2>4. inReset \in BOOLEAN
    BY <1>1
  <2>2. clk \in {"low", "high"} /\ rstn \in BOOLEAN /\ power \in {"on", "finished", "killed"}
    BY <1>1
  <2> QED
    BY <1>1, <1>3, <1>4, <1>5, <1>6, <2>1, <2>2, <2>3, <2>4 DEF TypeOK
<1>8. BeforeReset /\ Levels /\ Idle /\ Numbered /\ LogParses /\ Files
  BY <1>1, <1>6 DEF BeforeReset, Levels, Idle, Numbered, LogParses, Files
<1> QED
  BY <1>7, <1>8 DEF IInv

\* A batch keeps the log numbered.
LEMMA BatchNumbered ==
  ASSUME TypeOK, Numbered, NEW b \in Seq(EventType)
  PROVE  /\ Numbering(log, b) \in Seq(EventType)
         /\ \A i \in 1 .. Len(Numbering(log, b)) : Numbering(log, b)[i].seq = i - 1
<1> DEFINE n == Numbering(log, b)
<1>1. /\ log \in Seq(EventType) /\ Len(log) \in Nat /\ Len(b) \in Nat
      /\ \A i \in 1 .. Len(b) : b[i] \in EventType
  <2> HIDE DEF EventType
  <2> QED
    BY DEF TypeOK
<1>2. /\ n \in Seq(EventType) /\ Len(n) = Len(log) + Len(b)
      /\ \A i \in 1 .. Len(log) : n[i] = log[i]
      /\ \A i \in 1 .. Len(b) : n[Len(log) + i] = [b[i] EXCEPT !.seq = Len(log) + i - 1]
  BY <1>1, NumberingTyped
<1> HIDE DEF n
<1>3. ASSUME NEW i \in 1 .. Len(n) PROVE n[i].seq = i - 1
  <2>1. CASE i <= Len(log)
    BY <2>1, <1>1, <1>2 DEF Numbered
  <2>2. CASE ~(i <= Len(log))
    <3> DEFINE j == i - Len(log)
    <3>1. j \in 1 .. Len(b) /\ i = Len(log) + j /\ Len(log) + j - 1 = i - 1 /\ i - 1 \in Nat
      BY <2>2, <1>1, <1>2
    <3> HIDE DEF j
    <3>2. n[i] = [b[j] EXCEPT !.seq = i - 1]
      <4>1. n[Len(log) + j] = [b[j] EXCEPT !.seq = Len(log) + j - 1]
        BY <3>1, <1>2
      <4> QED
        BY <3>1, <4>1
    <3> QED
      BY <3>1, <3>2, <1>1, Placed
  <2> QED
    BY <2>1, <2>2
<1> QED
  BY <1>2, <1>3 DEF n

\* No run is longer than MaxCycle.
LEMMA CyclesBounded == TypeOK => setup.cycles \in Nat /\ setup.cycles <= MaxCycle /\ MaxCycle \in Nat
<1> SUFFICES ASSUME TypeOK PROVE setup.cycles \in Nat /\ setup.cycles <= MaxCycle /\ MaxCycle \in Nat
  OBVIOUS
<1>1. setup.cycles \in 0 .. MaxCycle /\ MaxCycle \in Nat
  BY SetupsAssumption, BoundsAssumption DEF TypeOK
<1> QED
  BY <1>1

\* The register file after an edge.
LEMMA EdgeTyped ==
  ASSUME TypeOK, NEW r \in BOOLEAN, NEW q \in setup.accesses \cup {NoRequest},
         RegistersAtEdge(r, q)
  PROVE  /\ regs' \in RegisterValues
         /\ resp' \in [valid : BOOLEAN, err : BOOLEAN, rd : Data]
         /\ q # NoRequest => q \in Requests /\ q.addr \in Window
         /\ ~r => regs' = ResetValues /\ resp'.valid = FALSE
         /\ r /\ q = NoRequest => regs' = regs /\ resp'.valid = FALSE
         /\ r /\ q # NoRequest => /\ regs' = AfterAccess(tree, regs, q)
                                  /\ resp'.valid = TRUE /\ resp'.err = ~Legal(q)
                                  /\ resp'.rd = Answer(regs, q)
<1>1. q # NoRequest => q \in Requests /\ q.addr \in Window
  BY SetupsAssumption DEF TypeOK
<1>2. regs \in RegisterValues /\ 0 \in Data
  BY DataAssumption DEF TypeOK
<1>3. Legal(q) \in BOOLEAN
  BY DEF Legal
<1>4. CASE ~r
  <2>1. regs' = ResetValues /\ resp' = [valid |-> FALSE, err |-> FALSE, rd |-> 0]
    BY <1>4 DEF RegistersAtEdge
  <2>2. resp' \in [valid : BOOLEAN, err : BOOLEAN, rd : Data] /\ resp'.valid = FALSE
    BY <1>2, <2>1
  <2> QED
    BY <1>1, <1>4, <2>1, <2>2, ResetTyped
<1>5. CASE r /\ q = NoRequest
  <2>1. regs' = regs /\ resp' = [valid |-> FALSE, err |-> FALSE, rd |-> 0]
    BY <1>5 DEF RegistersAtEdge
  <2>2. resp' \in [valid : BOOLEAN, err : BOOLEAN, rd : Data] /\ resp'.valid = FALSE
    BY <1>2, <2>1
  <2> QED
    BY <1>2, <1>5, <2>1, <2>2
<1>6. CASE r /\ q # NoRequest
  <2>1. AfterAccess(tree, regs, q) \in RegisterValues /\ Answer(regs, q) \in Data
    BY <1>1, <1>2, <1>6, RegistersTyped
  <2>2. /\ regs' = AfterAccess(tree, regs, q)
        /\ resp' = [valid |-> TRUE, err |-> ~Legal(q), rd |-> Answer(regs, q)]
    BY <1>6 DEF RegistersAtEdge
  <2>3. (~Legal(q)) \in BOOLEAN
    BY <1>3
  <2> DEFINE lg == ~Legal(q)
             an == Answer(regs, q)
  <2>4. lg \in BOOLEAN /\ an \in Data /\ resp' = [valid |-> TRUE, err |-> lg, rd |-> an]
    BY <2>1, <2>2, <2>3
  <2> HIDE DEF lg, an
  <2>5. resp' \in [valid : BOOLEAN, err : BOOLEAN, rd : Data]
    BY <2>4
  <2>6. resp'.valid = TRUE /\ resp'.err = lg /\ resp'.rd = an
    BY <2>4
  <2> QED
    BY <1>1, <1>6, <2>1, <2>2, <2>5, <2>6 DEF lg, an
<1> QED
  BY <1>4, <1>5, <1>6

\* An edge with reset asserted.
LEMMA ResetEdge ==
  ASSUME IInv, NEW q \in setup.accesses \cup {NoRequest}, NEW ram, NEW stop,
         Posedge(FALSE, q, ram, stop), UNCHANGED stored
  PROVE  IInv'
<1>1. TypeOK /\ BeforeReset /\ Levels /\ Numbered /\ LogParses /\ Files
  BY DEF IInv
<1>2. /\ power = "on" /\ clk = "low" /\ cycle < setup.cycles
      /\ clk' = "high" /\ rstn' = FALSE /\ cycle' = cycle + 1
      /\ RegistersAtEdge(FALSE, q) /\ MonitorReset
      /\ setup' = setup /\ tree' = tree /\ power' = power /\ file' = file
  BY DEF Posedge
<1>3. regs' = ResetValues /\ resp'.valid = FALSE
      /\ regs' \in RegisterValues /\ resp' \in [valid : BOOLEAN, err : BOOLEAN, rd : Data]
  BY <1>1, <1>2, EdgeTyped
<1>4. /\ epoch' = IF inReset THEN epoch ELSE epoch + 1
      /\ log' = Numbering(log, When(~inReset, Mark("reset_assert", epoch + 1, FALSE)))
      /\ inReset' = TRUE /\ pending' = NothingPending /\ nextId' = nextId /\ stopCycle' = stopCycle
  BY <1>2 DEF MonitorReset, Record, Numbering
<1>5. /\ cycle \in Nat /\ cycle + 1 \in Nat /\ cycle + 1 <= MaxCycle /\ epoch \in Nat
      /\ cycle + 1 \in 0 .. setup.cycles
      /\ inReset \in BOOLEAN /\ log \in Seq(EventType) /\ Len(log) \in Nat
  <2>1. cycle \in 0 .. setup.cycles /\ setup.cycles \in Nat /\ setup.cycles <= MaxCycle /\ MaxCycle \in Nat
    BY <1>1, CyclesBounded DEF TypeOK
  <2>2. cycle \in Nat /\ cycle + 1 \in Nat /\ cycle + 1 <= MaxCycle /\ cycle + 1 \in 0 .. setup.cycles
    BY <1>2, <2>1
  <2>3. epoch \in Nat /\ inReset \in BOOLEAN /\ log \in Seq(EventType)
    BY <1>1 DEF TypeOK
  <2> QED
    BY <2>2, <2>3
<1> DEFINE e == Mark("reset_assert", epoch + 1, FALSE)
           f == [e EXCEPT !.seq = Len(log)]
<1>6. /\ e \in EventType /\ e.phase = "reset_assert" /\ e.epoch = epoch + 1 /\ e.rstn = FALSE
      /\ e.cycle = cycle + 1
  <2>1. epoch + 1 \in Nat /\ 0 \in Nat /\ 0 \in Data /\ regs \in RegisterValues
        /\ cycle + (IF clk = "low" THEN 1 ELSE 0) \in Nat
    BY <1>1, <1>5, DataAssumption DEF TypeOK
  <2>2. e \in EventType
    BY <2>1, SameRegisterFile DEF Mark, Event, EventType, Reader!EventType, Reader!Phases
  <2>3. e.phase = "reset_assert" /\ e.epoch = epoch + 1 /\ e.rstn = FALSE
        /\ e.cycle = cycle + (IF clk = "low" THEN 1 ELSE 0)
    BY DEF Mark, Event
  <2> HIDE DEF e
  <2> QED
    BY <1>2, <2>2, <2>3
<1> HIDE DEF e
<1>7. /\ f \in EventType /\ f.phase = "reset_assert" /\ f.epoch = epoch + 1 /\ f.rstn = FALSE
      /\ f.cycle = cycle + 1 /\ f.seq = Len(log)
  BY <1>5, <1>6, Placed
<1> HIDE DEF f
<1>8. /\ When(~inReset, e) \in Seq(EventType)
      /\ log' = IF ~inReset THEN Append(log, f) ELSE log
  <2>1. (~inReset) \in BOOLEAN
    OBVIOUS
  <2> QED
    BY <1>4, <1>5, <1>6, <2>1, NumberingWhen DEF e, f
<1>9. log' \in Seq(EventType) /\ Numbered'
  <2> DEFINE b == When(~inReset, e)
  <2>1. b \in Seq(EventType) /\ log' = Numbering(log, b)
    BY <1>4, <1>8 DEF e
  <2> HIDE DEF b
  <2>2. /\ Numbering(log, b) \in Seq(EventType)
        /\ \A i \in 1 .. Len(Numbering(log, b)) : Numbering(log, b)[i].seq = i - 1
    BY <1>1, <2>1, BatchNumbered
  <2> QED
    BY <2>1, <2>2 DEF Numbered
<1>10. TypeOK'
  <2>1. pending' \in [id : Nat, req : Requests \cup {NoRequest}]
    BY <1>4 DEF NothingPending
  <2>2. epoch' \in Nat
    BY <1>4, <1>5
  <2>3. inReset' \in BOOLEAN /\ rstn' \in BOOLEAN
    BY <1>2, <1>4
  <2>4. clk' \in {"low", "high"} /\ cycle' \in 0 .. setup'.cycles
    BY <1>2, <1>5
  <2>5. setup' \in Setups /\ tree' \in Trees /\ nextId' \in Nat \ {0}
        /\ stopCycle' \in Nat \cup {-1} /\ power' \in {"on", "finished", "killed"}
    BY <1>1, <1>2, <1>4 DEF TypeOK
  <2> QED
    BY <1>3, <1>9, <2>1, <2>2, <2>3, <2>4, <2>5 DEF TypeOK
<1>11. epoch' > 0
  <2>1. inReset => epoch # 0
    BY <1>1 DEF BeforeReset
  <2> QED
    BY <1>4, <1>5, <2>1
<1>12. BeforeReset' /\ Levels'
  <2>1. BeforeReset'
    BY <1>5, <1>11 DEF BeforeReset
  <2>2. inReset' = TRUE /\ rstn' = FALSE /\ regs' = ResetValues
        /\ resp'.valid = FALSE /\ pending'.id = 0
    BY <1>2, <1>3, <1>4 DEF NothingPending
  <2>3. Levels'
    BY <2>2 DEF Levels
  <2> QED
    BY <2>1, <2>3
<1>13. LogParses'
  <2> SUFFICES ASSUME epoch' = 1
      PROVE  /\ \E first \in 0 .. cycle' : Stage(tree', log', Knows', first, cycle', cycle' - 1)
             /\ \A q_1 \in Reader!Parse(log').pending : q_1.cycle = cycle'
    BY <1>2, <1>3 DEF LogParses
  <2>a. PICK kk : kk = Knows'
    OBVIOUS
  <2>0. kk.reset = TRUE /\ kk.open.id = 0 /\ kk.next = nextId /\ kk.stop = stopCycle
        /\ kk.regs = ResetValues
    BY <1>3, <1>4, <2>a DEF Knows, NothingPending
  <2>1. CASE ~inReset
    <3>1. epoch = 0
      BY <2>1, <1>4, <1>5
    <3>2. log = <<>> /\ stopCycle = -1 /\ nextId = 1 /\ Len(log) = 0
      BY <3>1, <1>1 DEF BeforeReset
    <3>3. log' = Append(<<>>, f)
      BY <2>1, <3>2, <1>8
    <3>4. f.seq = 0 /\ f.epoch = 1
      BY <3>1, <3>2, <1>7
    <3>5. PICK now : now = cycle + 1
      OBVIOUS
    <3>6. now \in Nat /\ now <= MaxCycle /\ f.cycle = now /\ cycle' = now /\ tree' = tree
      BY <1>2, <1>5, <1>7, <3>5
    <3>7. kk.next = 1 /\ kk.stop = -1
      BY <2>0, <3>2
    <3>8. Stage(tree, Append(<<>>, f), kk, now, now, now - 1)
      BY <1>7, <2>0, <3>4, <3>6, <3>7, AssertEvent
    <3>9. Reader!Parse(Append(<<>>, f)).pending = {}
      BY <2>0, <3>8, StageFacts
    <3>10. now \in 0 .. now
      BY <3>6
    <3> QED
      BY <2>a, <3>3, <3>6, <3>8, <3>9, <3>10
  <2>2. CASE inReset
    <3>1. epoch = 1 /\ log' = log
      BY <2>2, <1>4, <1>8
    <3>2. PICK first \in 0 .. cycle : Stage(tree, log, Knows, first, cycle, cycle)
      BY <3>1, <1>1, <1>2 DEF LogParses
    <3>3. Stage(tree, log, Knows, first, cycle + 1, cycle)
      BY <3>2, Advance
    <3>4. Knows.reset = TRUE /\ Knows.open = pending /\ Knows.next = nextId /\ Knows.stop = stopCycle
          /\ Knows.regs = regs
      BY <2>2, <1>5 DEF Knows
    <3>5. regs = ResetValues
      BY <2>2, <3>1, <1>1 DEF Levels
    <3>6. Reader!Parse(log).pending = {} /\ pending.id = 0
      BY <3>3, <3>4, StageFacts
    <3>7. Stage(tree, log, kk, first, cycle + 1, cycle)
      BY <2>0, <3>3, <3>4, <3>5, <3>6 DEF Stage, Follows
    <3>8. first \in 0 .. cycle' /\ cycle' = cycle + 1 /\ tree' = tree /\ cycle' - 1 = cycle
      BY <1>2, <1>5
    <3>9. Stage(tree', log', Knows', first, cycle', cycle' - 1)
      BY <2>a, <3>1, <3>7, <3>8
    <3> QED
      BY <3>1, <3>6, <3>8, <3>9
  <2> QED
    BY <2>1, <2>2
<1>14. Files'
  BY <1>1, <1>2 DEF Files
<1>15. Idle'
  BY <1>4 DEF Idle, NothingPending
<1> QED
  BY <1>9, <1>10, <1>12, <1>13, <1>14, <1>15 DEF IInv

-----------------------------------------------------------------------------
(* The edge out of reset: up to five events, one after the other.          *)

At(e, n) == [e EXCEPT !.seq = n]

ReleaseMark == Mark("reset_release", epoch, TRUE)
ResponseMade == Event("response", pending.id, pending.req, resp.rd, resp.err, epoch, TRUE)
RequestMade(q) ==
  Event("request", IF q = NoRequest THEN 0 ELSE nextId, q, 0, FALSE, epoch, TRUE)
RamMark  == Mark("ram_write", epoch, TRUE)
StopMark == Mark("software_stop", epoch, TRUE)

\* What the events of an edge have in common.
OfEdge(e, ph) == e \in EventType /\ e.phase = ph /\ e.epoch = epoch /\ e.rstn = TRUE /\ e.cycle = cycle + 1

\* The five events an edge may make.
LEMMA EdgeEvents ==
  ASSUME TypeOK, clk = "low", NEW q \in Requests \cup {NoRequest}
  PROVE  /\ OfEdge(ReleaseMark, "reset_release")
         /\ OfEdge(ResponseMade, "response")
         /\ ResponseMade.tid = pending.id /\ ResponseMade.req = pending.req
         /\ ResponseMade.rd = resp.rd /\ ResponseMade.err = resp.err
         /\ OfEdge(RequestMade(q), "request")
         /\ RequestMade(q).req = q
         /\ q # NoRequest => RequestMade(q).tid = nextId
         /\ OfEdge(RamMark, "ram_write")
         /\ OfEdge(StopMark, "software_stop")
<1>1. /\ epoch \in Nat /\ 0 \in Nat /\ 0 \in Data /\ regs \in RegisterValues /\ nextId \in Nat
      /\ NoRequest \in Requests \cup {NoRequest} /\ TRUE \in BOOLEAN /\ FALSE \in BOOLEAN
  BY DataAssumption DEF TypeOK
<1>2. /\ pending.id \in Nat /\ pending.req \in Requests \cup {NoRequest}
      /\ resp.rd \in Data /\ resp.err \in BOOLEAN
  BY DEF TypeOK
<1>3. cycle \in Nat
  BY DEF TypeOK
<1>4. (cycle + (IF clk = "low" THEN 1 ELSE 0)) \in Nat /\ cycle + (IF clk = "low" THEN 1 ELSE 0) = cycle + 1
  BY <1>3
<1>5. OfEdge(ReleaseMark, "reset_release")
  <2>1. ReleaseMark \in EventType
    BY <1>1, <1>4, SameRegisterFile DEF ReleaseMark, Mark, Event, EventType, Reader!EventType, Reader!Phases
  <2> QED
    BY <1>4, <2>1 DEF OfEdge, ReleaseMark, Mark, Event
<1>6. OfEdge(RamMark, "ram_write")
  <2>1. RamMark \in EventType
    BY <1>1, <1>4, SameRegisterFile DEF RamMark, Mark, Event, EventType, Reader!EventType, Reader!Phases
  <2> QED
    BY <1>4, <2>1 DEF OfEdge, RamMark, Mark, Event
<1>7. OfEdge(StopMark, "software_stop")
  <2>1. StopMark \in EventType
    BY <1>1, <1>4, SameRegisterFile DEF StopMark, Mark, Event, EventType, Reader!EventType, Reader!Phases
  <2> QED
    BY <1>4, <2>1 DEF OfEdge, StopMark, Mark, Event
<1>8. OfEdge(ResponseMade, "response")
  <2>1. ResponseMade \in EventType
    BY <1>1, <1>2, <1>4, SameRegisterFile DEF ResponseMade, Event, EventType, Reader!EventType, Reader!Phases
  <2> QED
    BY <1>4, <2>1 DEF OfEdge, ResponseMade, Event
<1>9. /\ ResponseMade.tid = pending.id /\ ResponseMade.req = pending.req
      /\ ResponseMade.rd = resp.rd /\ ResponseMade.err = resp.err
  BY DEF ResponseMade, Event
<1>10. OfEdge(RequestMade(q), "request")
  <2>1. (IF q = NoRequest THEN 0 ELSE nextId) \in Nat
    BY <1>1
  <2>2. RequestMade(q) \in EventType
    BY <1>1, <1>4, <2>1, SameRegisterFile DEF RequestMade, Event, EventType, Reader!EventType, Reader!Phases
  <2> QED
    BY <1>4, <2>2 DEF OfEdge, RequestMade, Event
<1>11. RequestMade(q).req = q /\ (q # NoRequest => RequestMade(q).tid = nextId)
  BY DEF RequestMade, Event
<1> QED
  BY <1>5, <1>6, <1>7, <1>8, <1>9, <1>10, <1>11

\* The log after each of the five.
Log1            == IF inReset THEN Append(log, At(ReleaseMark, Len(log))) ELSE log
Log2            == IF resp.valid THEN Append(Log1, At(ResponseMade, Len(Log1))) ELSE Log1
Log3(q)         == IF q # NoRequest THEN Append(Log2, At(RequestMade(q), Len(Log2))) ELSE Log2
Log4(q, ram)    == IF ram THEN Append(Log3(q), At(RamMark, Len(Log3(q)))) ELSE Log3(q)
Log5(q, ram, x) == IF x THEN Append(Log4(q, ram), At(StopMark, Len(Log4(q, ram)))) ELSE Log4(q, ram)

\* A batch in five parts.
LEMMA NumberingFive ==
  ASSUME NEW l \in Seq(EventType), NEW a \in Seq(EventType), NEW b \in Seq(EventType),
         NEW c \in Seq(EventType), NEW d \in Seq(EventType), NEW e \in Seq(EventType)
  PROVE  /\ a \o b \o c \o d \o e \in Seq(EventType)
         /\ Numbering(l, a \o b \o c \o d \o e) =
              Numbering(Numbering(Numbering(Numbering(Numbering(l, a), b), c), d), e)
<1> HIDE DEF EventType
<1> DEFINE ab == a \o b
           abc == ab \o c
           abcd == abc \o d
           abcde == abcd \o e
<1>1. ab \in Seq(EventType) /\ Numbering(l, ab) = Numbering(Numbering(l, a), b)
  BY NumberingConcat
<1> HIDE DEF ab
<1>2. abc \in Seq(EventType) /\ Numbering(l, abc) = Numbering(Numbering(l, ab), c)
  BY <1>1, NumberingConcat
<1> HIDE DEF abc
<1>3. abcd \in Seq(EventType) /\ Numbering(l, abcd) = Numbering(Numbering(l, abc), d)
  BY <1>2, NumberingConcat
<1> HIDE DEF abcd
<1>4. abcde \in Seq(EventType) /\ Numbering(l, abcde) = Numbering(Numbering(l, abcd), e)
  BY <1>3, NumberingConcat
<1> HIDE DEF abcde
<1>5. abcde = a \o b \o c \o d \o e
  BY DEF abcde, abcd, abc, ab
<1>6. Numbering(l, abcde) = Numbering(Numbering(Numbering(Numbering(Numbering(l, a), b), c), d), e)
  BY <1>1, <1>2, <1>3, <1>4
<1> QED
  BY <1>4, <1>5, <1>6

\* The monitor appends them one after the other.
LEMMA FiveEvents ==
  ASSUME TypeOK, clk = "low", NEW q \in Requests \cup {NoRequest}, NEW ram \in BOOLEAN,
         NEW stop \in BOOLEAN, MonitorEdge(q, ram, stop)
  PROVE  LET x == stop /\ stopCycle < 0 IN
         /\ log' = Log5(q, ram, x)
         /\ \E b \in Seq(EventType) : log' = Numbering(log, b)
<1> DEFINE x == stop /\ stopCycle < 0
           a == When(inReset, ReleaseMark)
           b == When(resp.valid, ResponseMade)
           c == When(q # NoRequest, RequestMade(q))
           d == When(ram, RamMark)
           e == When(x, StopMark)
<1>1. log' = Numbering(log, a \o b \o c \o d \o e)
  BY DEF MonitorEdge, Record, Numbering, ReleaseMark, ResponseMade, RequestMade, RamMark, StopMark
<1>2. /\ ReleaseMark \in EventType /\ ResponseMade \in EventType /\ RequestMade(q) \in EventType
      /\ RamMark \in EventType /\ StopMark \in EventType
  BY EdgeEvents DEF OfEdge
<1>3. /\ log \in Seq(EventType) /\ inReset \in BOOLEAN /\ resp.valid \in BOOLEAN
      /\ (q # NoRequest) \in BOOLEAN /\ x \in BOOLEAN
  <2> HIDE DEF EventType
  <2> QED
    BY DEF TypeOK
<1> HIDE DEF x
<1>4. a \in Seq(EventType) /\ Numbering(log, a) = Log1
  BY <1>2, <1>3, NumberingWhen DEF Log1, At
<1>5. Log1 \in Seq(EventType)
  BY <1>3, <1>4, NumberingTyped
<1>6. b \in Seq(EventType) /\ Numbering(Log1, b) = Log2
  BY <1>2, <1>3, <1>5, NumberingWhen DEF Log2, At
<1>7. Log2 \in Seq(EventType)
  BY <1>5, <1>6, NumberingTyped
<1>8. c \in Seq(EventType) /\ Numbering(Log2, c) = Log3(q)
  BY <1>2, <1>3, <1>7, NumberingWhen DEF Log3, At
<1>9. Log3(q) \in Seq(EventType)
  BY <1>7, <1>8, NumberingTyped
<1>10. d \in Seq(EventType) /\ Numbering(Log3(q), d) = Log4(q, ram)
  BY <1>2, <1>3, <1>9, NumberingWhen DEF Log4, At
<1>11. Log4(q, ram) \in Seq(EventType)
  BY <1>9, <1>10, NumberingTyped
<1>12. e \in Seq(EventType) /\ Numbering(Log4(q, ram), e) = Log5(q, ram, x)
  BY <1>2, <1>3, <1>11, NumberingWhen DEF Log5, At
<1> HIDE DEF a, b, c, d, e
<1>13. /\ a \o b \o c \o d \o e \in Seq(EventType)
       /\ Numbering(log, a \o b \o c \o d \o e) =
            Numbering(Numbering(Numbering(Numbering(Numbering(log, a), b), c), d), e)
  BY <1>3, <1>4, <1>6, <1>8, <1>10, <1>12, NumberingFive
<1>14. log' = Log5(q, ram, x)
  BY <1>1, <1>4, <1>6, <1>8, <1>10, <1>12, <1>13
<1>15. \E bb \in Seq(EventType) : log' = Numbering(log, bb)
  BY <1>1, <1>13
<1> QED
  BY <1>14, <1>15 DEF x

\* Stage looks at the fields of what is known only.
LEMMA StageSame ==
  ASSUME NEW tr, NEW l, NEW k, NEW kk, NEW first, NEW now, NEW upto,
         Stage(tr, l, k, first, now, upto),
         kk.reset = k.reset, kk.open = k.open, kk.next = k.next, kk.stop = k.stop, kk.regs = k.regs
  PROVE  Stage(tr, l, kk, first, now, upto)
BY DEF Stage, Follows

\* An event at its place keeps its fields.
LEMMA AtFields ==
  ASSUME NEW e, NEW ph, NEW n \in Nat, OfEdge(e, ph)
  PROVE  /\ OfEdge(At(e, n), ph) /\ At(e, n).seq = n
         /\ At(e, n).tid = e.tid /\ At(e, n).req = e.req /\ At(e, n).rd = e.rd
         /\ At(e, n).err = e.err
BY Placed DEF At, OfEdge

\* Once the pending response, if any, has been recorded, nothing is open.
LEMMA ToResponse ==
  ASSUME IInv, clk = "low", epoch = 1, cycle + 1 <= MaxCycle,
         NEW now, now = cycle + 1, NEW k2,
         k2.reset = FALSE, k2.open.id = 0, k2.next = nextId, k2.stop = stopCycle, k2.regs = regs
  PROVE  \E first \in 0 .. cycle : first < now /\ Stage(tree, Log2, k2, first, now, now - 1)
<1>1. TypeOK /\ Levels /\ LogParses
  BY DEF IInv
<1>2. cycle \in Nat /\ now \in Nat /\ now - 1 = cycle
  BY <1>1 DEF TypeOK
<1>3. PICK first \in 0 .. cycle : Stage(tree, log, Knows, first, cycle, cycle)
  BY <1>1 DEF LogParses
<1>4. Stage(tree, log, Knows, first, now, now - 1) /\ first < now
  <2>1. Stage(tree, log, Knows, first, cycle + 1, cycle) /\ first < cycle + 1
    BY <1>3, Advance
  <2> QED
    BY <1>2, <2>1
<1>5. /\ Knows.reset = inReset /\ Knows.open = pending /\ Knows.next = nextId
      /\ Knows.stop = stopCycle /\ Knows.regs = regs
  BY DEF Knows
<1>6. PICK k1 : k1 = [reset |-> FALSE, open |-> pending, next |-> nextId, stop |-> stopCycle, regs |-> regs]
  OBVIOUS
<1>7. k1.reset = FALSE /\ k1.open = pending /\ k1.next = nextId /\ k1.stop = stopCycle /\ k1.regs = regs
  BY <1>6
<1>8. OfEdge(ReleaseMark, "reset_release") /\ OfEdge(ResponseMade, "response")
      /\ ResponseMade.tid = pending.id /\ ResponseMade.req = pending.req
      /\ ResponseMade.rd = resp.rd /\ ResponseMade.err = resp.err
  BY <1>1, EdgeEvents
<1>9. Len(log) \in Nat
  BY <1>4, StageFacts
<1>10. inReset => pending.id = 0
  BY <1>4, <1>5, StageFacts
<1>11. resp.valid <=> pending.id # 0
  BY <1>1 DEF Levels
<1>12. Stage(tree, Log1, k1, first, now, now - 1)
  <2>1. CASE inReset
    <3> DEFINE f == At(ReleaseMark, Len(log))
    <3>1. /\ f \in EventType /\ f.phase = "reset_release" /\ f.cycle = now /\ f.epoch = 1
          /\ f.rstn = TRUE /\ f.seq = Len(log)
      <4>1. OfEdge(f, "reset_release") /\ f.seq = Len(log)
        BY <1>8, <1>9, AtFields
      <4> HIDE DEF f
      <4> QED
        BY <4>1 DEF OfEdge
    <3> HIDE DEF f
    <3>2. Stage(tree, Append(log, f), k1, first, now, now - 1)
      BY <1>4, <1>5, <1>7, <2>1, <3>1, ReleaseLink
    <3> QED
      BY <2>1, <3>2 DEF Log1, f
  <2>2. CASE ~inReset
    <3>1. Knows.reset = FALSE
      BY <1>1, <1>5, <2>2 DEF TypeOK
    <3>2. Stage(tree, log, k1, first, now, now - 1)
      BY <1>4, <1>5, <1>7, <3>1, StageSame
    <3> QED
      BY <2>2, <3>2 DEF Log1
  <2> QED
    BY <2>1, <2>2
<1>13. Stage(tree, Log2, k2, first, now, now - 1)
  <2>1. CASE resp.valid
    <3>1. pending.id # 0 /\ Log1 = log
      BY <1>10, <1>11, <2>1 DEF Log1
    <3>2. /\ resp.rd = Answer(ReplayIn(tree, Reader!Parse(log).txs)[Len(Reader!Parse(log).txs)], pending.req)
          /\ resp.err = ~Legal(pending.req)
          /\ \A y \in Reader!Parse(log).pending : y.cycle = now - 1
      BY <1>1, <1>2, <2>1 DEF LogParses
    <3> DEFINE f == At(ResponseMade, Len(log))
    <3>3. /\ f \in EventType /\ f.phase = "response" /\ f.cycle = now /\ f.epoch = 1
          /\ f.rstn = TRUE /\ f.seq = Len(log)
      <4>1. OfEdge(f, "response") /\ f.seq = Len(log)
        BY <1>8, <1>9, AtFields
      <4> HIDE DEF f
      <4> QED
        BY <4>1 DEF OfEdge
    <3>4. f.tid = k1.open.id /\ f.req = k1.open.req /\ f.rd = resp.rd /\ f.err = resp.err
      BY <1>7, <1>8, <1>9, AtFields
    <3> HIDE DEF f
    <3>5. f.err = ~Legal(k1.open.req)
      BY <1>7, <3>2, <3>4
    <3>6. f.rd = Answer(ReplayIn(tree, Reader!Parse(log).txs)[Len(Reader!Parse(log).txs)], k1.open.req)
      BY <1>7, <3>2, <3>4
    <3>7. Stage(tree, log, k1, first, now, now - 1)
      BY <1>12, <3>1
    <3>8. Stage(tree, Append(log, f), k2, first, now, now - 1)
      BY <1>4, <1>7, <3>1, <3>2, <3>3, <3>4, <3>5, <3>6, <3>7, ResponseEvent
    <3> QED
      BY <2>1, <3>1, <3>8 DEF Log2, f
  <2>2. CASE ~resp.valid
    <3>1. Log2 = Log1
      BY <2>2 DEF Log2
    <3>2. k1.open.id = 0
      BY <1>7, <1>11, <2>2
    <3>3. Stage(tree, Log1, k2, first, now, now - 1)
      BY <1>7, <1>12, <3>2 DEF Stage, Follows
    <3> QED
      BY <3>1, <3>3
  <2> QED
    BY <2>1, <2>2
<1> QED
  BY <1>4, <1>13

\* After the request of the edge, if any, it is the open one.
LEMMA ToRequest ==
  ASSUME IInv, clk = "low", epoch = 1, cycle + 1 <= MaxCycle,
         NEW now, now = cycle + 1, NEW k3,
         NEW q \in Requests \cup {NoRequest}, q # NoRequest => q \in Requests /\ q.addr \in Window,
         k3.reset = FALSE, q = NoRequest => k3.open.id = 0,
         q # NoRequest => k3.open.id = nextId /\ k3.open.req = q,
         k3.next = (IF q = NoRequest THEN nextId ELSE nextId + 1), k3.stop = stopCycle,
         k3.regs = (IF q = NoRequest THEN regs ELSE AfterAccess(tree, regs, q))
  PROVE  /\ \E first \in 0 .. cycle : Stage(tree, Log3(q), k3, first, now, now - 1)
         /\ \A y \in Reader!Parse(Log3(q)).pending : y.cycle = now
         /\ q # NoRequest =>
              ReplayIn(tree, Reader!Parse(Log3(q)).txs)[Len(Reader!Parse(Log3(q)).txs)] = regs
<1>1. PICK k2 : k2 = [reset |-> FALSE, open |-> NothingPending, next |-> nextId, stop |-> stopCycle, regs |-> regs]
  OBVIOUS
<1>2. k2.reset = FALSE /\ k2.open.id = 0 /\ k2.next = nextId /\ k2.stop = stopCycle /\ k2.regs = regs
  BY <1>1 DEF NothingPending
<1>3. PICK first \in 0 .. cycle : first < now /\ Stage(tree, Log2, k2, first, now, now - 1)
  BY <1>2, ToResponse
<1>4. Len(Log2) \in Nat /\ Reader!Parse(Log2).pending = {}
  BY <1>2, <1>3, StageFacts
<1>5. TypeOK
  BY DEF IInv
<1>6. OfEdge(RequestMade(q), "request") /\ RequestMade(q).req = q
      /\ (q # NoRequest => RequestMade(q).tid = nextId)
  BY <1>5, EdgeEvents
<1>7. CASE q = NoRequest
  <2>1. Log3(q) = Log2
    BY <1>7 DEF Log3
  <2>2. Stage(tree, Log2, k3, first, now, now - 1)
    BY <1>2, <1>3, <1>7 DEF Stage, Follows
  <2> QED
    BY <1>3, <1>4, <1>7, <2>1, <2>2
<1>8. CASE q # NoRequest
  <2> DEFINE made == RequestMade(q)
             f == At(made, Len(Log2))
  <2> HIDE DEF made
  <2>1. /\ f \in EventType /\ f.phase = "request" /\ f.cycle = now /\ f.epoch = 1
        /\ f.rstn = TRUE /\ f.seq = Len(Log2)
    <3>2. OfEdge(made, "request")
      BY <1>6 DEF made
    <3>1. OfEdge(f, "request") /\ f.seq = Len(Log2)
      BY <1>4, <3>2, AtFields
    <3> HIDE DEF f
    <3> QED
      BY <3>1 DEF OfEdge
  <2>2. f.req = q /\ f.tid = nextId
    <3>1. OfEdge(made, "request") /\ made.req = q /\ made.tid = nextId
      BY <1>6, <1>8 DEF made
    <3> QED
      BY <1>4, <3>1, AtFields
  <2> HIDE DEF f
  <2>3. /\ f.tid = k2.next /\ f.req \in Requests /\ f.req.addr \in Window
        /\ k3.open.id = k2.next /\ k3.open.req = f.req /\ k3.next = k2.next + 1 /\ k3.stop = k2.stop
        /\ k3.regs = AfterAccess(tree, k2.regs, f.req)
    BY <1>2, <1>8, <2>2
  <2>4. now \in Nat /\ now <= MaxCycle
    BY <1>5 DEF TypeOK
  <2> DEFINE pp == Reader!Parse(Append(Log2, f))
  <2>5. /\ Stage(tree, Append(Log2, f), k3, first, now, now - 1)
        /\ Reader!Parse(Append(Log2, f)).pending = {f}
        /\ ReplayIn(tree, Reader!Parse(Append(Log2, f)).txs)[Len(Reader!Parse(Append(Log2, f)).txs)] = k2.regs
    <3>1. Requested(tree, Log2, f, k3, first, now, k2.regs)
      BY <1>2, <1>3, <2>1, <2>3, <2>4, RequestEvent
    <3> QED
      BY <3>1 DEF Requested
  <2>6. Log3(q) = Append(Log2, f)
    BY <1>8 DEF Log3, f, made
  <2>7. /\ Stage(tree, Log3(q), k3, first, now, now - 1)
        /\ Reader!Parse(Log3(q)).pending = {f}
        /\ ReplayIn(tree, Reader!Parse(Log3(q)).txs)[Len(Reader!Parse(Log3(q)).txs)] = regs
    BY <1>2, <2>5, <2>6
  <2> QED
    BY <1>3, <2>1, <2>7
<1> QED
  BY <1>7, <1>8

\* What the monitor knows after an edge with the request q and, if x, the stop.
KnowsAfter(k, q, x) ==
  /\ k.reset = FALSE
  /\ q = NoRequest => k.open.id = 0
  /\ q # NoRequest => k.open.id = nextId /\ k.open.req = q
  /\ k.next = (IF q = NoRequest THEN nextId ELSE nextId + 1)
  /\ k.stop = (IF x THEN cycle + 1 ELSE stopCycle)
  /\ k.regs = (IF q = NoRequest THEN regs ELSE AfterAccess(tree, regs, q))

\* What the reader makes of the log l of that edge.
ReadAfter(l, k, q, now) ==
  /\ \E first \in 0 .. cycle : Stage(tree, l, k, first, now, now - 1)
  /\ \A y \in Reader!Parse(l).pending : y.cycle = now
  /\ q # NoRequest => ReplayIn(tree, Reader!Parse(l).txs)[Len(Reader!Parse(l).txs)] = regs

\* The result write and the stop change nothing of this.
LEMMA ToNotes ==
  ASSUME IInv, clk = "low", epoch = 1, cycle + 1 <= MaxCycle,
         NEW now, now = cycle + 1, NEW k5,
         NEW q \in Requests \cup {NoRequest}, q # NoRequest => q \in Requests /\ q.addr \in Window,
         NEW ram \in BOOLEAN, NEW x \in BOOLEAN, x => stopCycle = -1,
         KnowsAfter(k5, q, x)
  PROVE  ReadAfter(Log5(q, ram, x), k5, q, now)
<1>0. /\ k5.reset = FALSE
      /\ q = NoRequest => k5.open.id = 0
      /\ q # NoRequest => k5.open.id = nextId /\ k5.open.req = q
      /\ k5.next = (IF q = NoRequest THEN nextId ELSE nextId + 1)
      /\ k5.stop = (IF x THEN cycle + 1 ELSE stopCycle)
      /\ k5.regs = (IF q = NoRequest THEN regs ELSE AfterAccess(tree, regs, q))
  BY DEF KnowsAfter
<1>1. PICK k3 : k3 = [reset |-> FALSE, open |-> k5.open, next |-> k5.next, stop |-> stopCycle, regs |-> k5.regs]
  OBVIOUS
<1>2. k3.reset = FALSE /\ k3.open = k5.open /\ k3.next = k5.next /\ k3.stop = stopCycle /\ k3.regs = k5.regs
  BY <1>1
<1>3. /\ \E first \in 0 .. cycle : Stage(tree, Log3(q), k3, first, now, now - 1)
      /\ \A y \in Reader!Parse(Log3(q)).pending : y.cycle = now
      /\ q # NoRequest =>
           ReplayIn(tree, Reader!Parse(Log3(q)).txs)[Len(Reader!Parse(Log3(q)).txs)] = regs
  <2>1. /\ q = NoRequest => k3.open.id = 0
        /\ q # NoRequest => k3.open.id = nextId /\ k3.open.req = q
        /\ k3.next = (IF q = NoRequest THEN nextId ELSE nextId + 1)
        /\ k3.regs = (IF q = NoRequest THEN regs ELSE AfterAccess(tree, regs, q))
    BY <1>0, <1>2
  <2> QED
    BY <1>2, <2>1, ToRequest
<1>4. PICK first \in 0 .. cycle : Stage(tree, Log3(q), k3, first, now, now - 1)
  BY <1>3
<1>5. TypeOK
  BY DEF IInv
<1>6. OfEdge(RamMark, "ram_write") /\ OfEdge(StopMark, "software_stop")
  BY <1>5, EdgeEvents
<1>7. now <= MaxCycle
  OBVIOUS
<1> DEFINE l3 == Log3(q)
           l4 == Log4(q, ram)
           l5 == Log5(q, ram, x)
<1>8. /\ Stage(tree, l4, k3, first, now, now - 1)
      /\ Reader!Parse(l4).pending = Reader!Parse(l3).pending
      /\ Reader!Parse(l4).txs = Reader!Parse(l3).txs
  <2>1. CASE ram
    <3> DEFINE f == At(RamMark, Len(l3))
    <3>1. Len(l3) \in Nat
      BY <1>4, StageFacts
    <3>2. /\ f \in EventType /\ f.phase = "ram_write" /\ f.cycle = now /\ f.epoch = 1
          /\ f.rstn = TRUE /\ f.seq = Len(l3)
      <4>1. OfEdge(f, "ram_write") /\ f.seq = Len(l3)
        BY <1>6, <3>1, AtFields
      <4> HIDE DEF f
      <4> QED
        BY <4>1 DEF OfEdge
    <3>3. l4 = Append(l3, f)
      BY <2>1 DEF Log4
    <3> HIDE DEF f, l3, l4, l5
    <3>4. Stage(tree, l3, k3, first, now, now - 1)
      BY <1>4 DEF l3
    <3>6. /\ Stage(tree, Append(l3, f), k3, first, now, now - 1)
          /\ Reader!Parse(Append(l3, f)).pending = Reader!Parse(l3).pending
          /\ Reader!Parse(Append(l3, f)).txs = Reader!Parse(l3).txs
      <4>1. Linked(tree, l3, f, k3, first, now)
        BY <1>2, <1>7, <3>2, <3>4, RamLink
      <4> QED
        BY <4>1 DEF Linked
    <3> QED
      BY <3>3, <3>6
  <2>2. CASE ~ram
    BY <1>4, <2>2 DEF Log4
  <2> QED
    BY <2>1, <2>2
<1>9. /\ Stage(tree, l5, k5, first, now, now - 1)
      /\ Reader!Parse(l5).pending = Reader!Parse(l3).pending
      /\ Reader!Parse(l5).txs = Reader!Parse(l3).txs
  <2>1. CASE x
    <3> DEFINE f == At(StopMark, Len(l4))
    <3>1. Len(l4) \in Nat
      BY <1>8, StageFacts
    <3>2. /\ f \in EventType /\ f.phase = "software_stop" /\ f.cycle = now /\ f.epoch = 1
          /\ f.rstn = TRUE /\ f.seq = Len(l4)
      <4>1. OfEdge(f, "software_stop") /\ f.seq = Len(l4)
        BY <1>6, <3>1, AtFields
      <4> HIDE DEF f
      <4> QED
        BY <4>1 DEF OfEdge
    <3>3. l5 = Append(l4, f)
      BY <2>1 DEF Log5
    <3> HIDE DEF f, l3, l4, l5
    <3>4. Stage(tree, l4, k3, first, now, now - 1)
      BY <1>8
    <3>5. /\ k3.stop = -1 /\ k5.stop = now /\ k5.open = k3.open /\ k5.next = k3.next
          /\ k5.regs = k3.regs
      BY <1>0, <1>2, <2>1
    <3>6. /\ Stage(tree, Append(l4, f), k5, first, now, now - 1)
          /\ Reader!Parse(Append(l4, f)).pending = Reader!Parse(l4).pending
          /\ Reader!Parse(Append(l4, f)).txs = Reader!Parse(l4).txs
      <4>1. Linked(tree, l4, f, k5, first, now)
        BY <1>0, <1>2, <1>7, <3>2, <3>4, <3>5, StopLink
      <4> QED
        BY <4>1 DEF Linked
    <3> QED
      BY <1>8, <3>3, <3>6
  <2>2. CASE ~x
    <3>1. l5 = l4
      BY <2>2 DEF Log5
    <3>2. k5.stop = k3.stop /\ k5.reset = k3.reset
      BY <1>0, <1>2, <2>2
    <3> HIDE DEF l3, l4, l5
    <3>3. Stage(tree, l4, k5, first, now, now - 1)
      BY <1>2, <1>8, <3>2, StageSame
    <3> QED
      BY <1>8, <3>1, <3>3
  <2> QED
    BY <2>1, <2>2
<1> HIDE DEF l3, l4, l5
<1>10. /\ \A y \in Reader!Parse(l3).pending : y.cycle = now
       /\ q # NoRequest => ReplayIn(tree, Reader!Parse(l3).txs)[Len(Reader!Parse(l3).txs)] = regs
  BY <1>3 DEF l3
<1>11. /\ \E fi \in 0 .. cycle : Stage(tree, l5, k5, fi, now, now - 1)
       /\ \A y \in Reader!Parse(l5).pending : y.cycle = now
       /\ q # NoRequest => ReplayIn(tree, Reader!Parse(l5).txs)[Len(Reader!Parse(l5).txs)] = regs
  BY <1>9, <1>10
<1> QED
  BY <1>11 DEF ReadAfter, l5

\* The clock and the bounds at a rising edge.
LEMMA EdgeBounds ==
  ASSUME TypeOK, cycle < setup.cycles
  PROVE  /\ cycle \in Nat /\ cycle + 1 \in Nat /\ cycle + 1 <= MaxCycle
         /\ cycle + 1 \in 0 .. setup.cycles
<1>1. cycle \in 0 .. setup.cycles /\ setup.cycles \in Nat /\ setup.cycles <= MaxCycle /\ MaxCycle \in Nat
  BY CyclesBounded DEF TypeOK
<1> QED
  BY <1>1

\* An edge out of reset before the first reset: nothing is recorded.
LEMMA IdleEdge ==
  ASSUME IInv, epoch = 0, NEW q \in setup.accesses \cup {NoRequest}, NEW ram, NEW stop,
         Posedge(TRUE, q, ram, stop), UNCHANGED stored
  PROVE  IInv'
<1>1. TypeOK /\ BeforeReset /\ Levels /\ Numbered /\ LogParses /\ Files
  BY DEF IInv
<1>2. /\ power = "on" /\ clk = "low" /\ cycle < setup.cycles
      /\ clk' = "high" /\ rstn' = TRUE /\ cycle' = cycle + 1
      /\ RegistersAtEdge(TRUE, q)
      /\ setup' = setup /\ tree' = tree /\ power' = power /\ file' = file
      /\ epoch' = epoch /\ inReset' = inReset /\ nextId' = nextId /\ pending' = pending
      /\ stopCycle' = stopCycle /\ log' = log
  <2>1. (epoch > 0) = FALSE
    OBVIOUS
  <2>2. /\ power = "on" /\ clk = "low" /\ cycle < setup.cycles
        /\ clk' = "high" /\ rstn' = TRUE /\ cycle' = cycle + 1
        /\ RegistersAtEdge(TRUE, q)
        /\ setup' = setup /\ tree' = tree /\ power' = power /\ file' = file
    BY DEF Posedge
  <2>3. UNCHANGED <<epoch, inReset, nextId, pending, stopCycle, log>>
    BY <2>1 DEF Posedge
  <2> QED
    BY <2>2, <2>3
<1>3. regs' \in RegisterValues /\ resp' \in [valid : BOOLEAN, err : BOOLEAN, rd : Data]
  BY <1>1, <1>2, EdgeTyped
<1>4. cycle' \in 0 .. setup'.cycles
  BY <1>1, <1>2, EdgeBounds
<1>5. TypeOK'
  <2>1. rstn' \in BOOLEAN /\ clk' \in {"low", "high"}
    BY <1>2
  <2> QED
    BY <1>1, <1>2, <1>3, <1>4, <2>1 DEF TypeOK
<1>6. BeforeReset'
  BY <1>1, <1>2 DEF BeforeReset, NothingPending
<1>7. ~(epoch' > 0) /\ epoch' # 1
  BY <1>2
<1>8. Levels' /\ LogParses'
  BY <1>7 DEF Levels, LogParses
<1>9. Numbered'
  BY <1>1, <1>2 DEF Numbered
<1>10. Files'
  BY <1>1, <1>2 DEF Files
<1>11. Idle'
  BY <1>2 DEF IInv, Idle, NothingPending
<1> QED
  BY <1>5, <1>6, <1>8, <1>9, <1>10, <1>11 DEF IInv

\* An edge out of reset after the first reset: up to five events.
LEMMA RecordingEdge ==
  ASSUME IInv, epoch > 0, NEW q \in setup.accesses \cup {NoRequest}, NEW ram \in BOOLEAN,
         NEW stop \in BOOLEAN, Posedge(TRUE, q, ram, stop), UNCHANGED stored
  PROVE  IInv'
<1>1. TypeOK /\ BeforeReset /\ Levels /\ Numbered /\ LogParses /\ Files
  BY DEF IInv
<1>2. /\ power = "on" /\ clk = "low" /\ cycle < setup.cycles
      /\ clk' = "high" /\ rstn' = TRUE /\ cycle' = cycle + 1
      /\ RegistersAtEdge(TRUE, q) /\ MonitorEdge(q, ram, stop)
      /\ setup' = setup /\ tree' = tree /\ power' = power /\ file' = file
  BY DEF Posedge
<1>3. /\ regs' \in RegisterValues /\ resp' \in [valid : BOOLEAN, err : BOOLEAN, rd : Data]
      /\ q # NoRequest => q \in Requests /\ q.addr \in Window
      /\ q = NoRequest => regs' = regs /\ resp'.valid = FALSE
      /\ q # NoRequest => /\ regs' = AfterAccess(tree, regs, q)
                          /\ resp'.valid = TRUE /\ resp'.err = ~Legal(q)
                          /\ resp'.rd = Answer(regs, q)
  BY <1>1, <1>2, EdgeTyped
<1>4. q \in Requests \cup {NoRequest}
  BY <1>3
<1>5. cycle \in Nat /\ cycle + 1 \in Nat /\ cycle + 1 <= MaxCycle /\ cycle' \in 0 .. setup'.cycles
  BY <1>1, <1>2, EdgeBounds
<1> DEFINE x == stop /\ stopCycle < 0
<1>6. /\ inReset' = FALSE /\ epoch' = epoch
      /\ pending' = IF q # NoRequest THEN [id |-> nextId, req |-> q]
                    ELSE IF resp.valid THEN NothingPending ELSE pending
      /\ nextId' = (IF q = NoRequest THEN nextId ELSE nextId + 1)
      /\ stopCycle' = (IF x THEN cycle + 1 ELSE stopCycle)
  BY <1>2 DEF MonitorEdge
<1>7. log' = Log5(q, ram, x) /\ \E b \in Seq(EventType) : log' = Numbering(log, b)
  BY <1>1, <1>2, <1>4, FiveEvents
<1>8. nextId \in Nat /\ nextId # 0 /\ stopCycle \in Nat \cup {-1} /\ epoch \in Nat /\ x \in BOOLEAN
  BY <1>1 DEF TypeOK
<1>9. x => stopCycle = -1
  BY <1>8
<1> HIDE DEF x
<1>10. resp.valid <=> pending.id # 0
  BY <1>1 DEF Levels
<1>11. /\ q = NoRequest => pending'.id = 0
       /\ q # NoRequest => pending'.id = nextId /\ pending'.req = q
  <2>1. CASE q # NoRequest
    BY <1>6, <2>1
  <2>2. CASE q = NoRequest /\ resp.valid
    BY <1>6, <2>2 DEF NothingPending
  <2>3. CASE q = NoRequest /\ ~resp.valid
    BY <1>6, <1>10, <2>3
  <2> QED
    BY <2>1, <2>2, <2>3
<1>12. log' \in Seq(EventType) /\ Numbered'
  <2>1. PICK b \in Seq(EventType) : log' = Numbering(log, b)
    BY <1>7
  <2>2. /\ Numbering(log, b) \in Seq(EventType)
        /\ \A i \in 1 .. Len(Numbering(log, b)) : Numbering(log, b)[i].seq = i - 1
    BY <1>1, <2>1, BatchNumbered
  <2> QED
    BY <2>1, <2>2 DEF Numbered
<1>13. TypeOK'
  <2>1. pending' \in [id : Nat, req : Requests \cup {NoRequest}]
    <3>1. pending \in [id : Nat, req : Requests \cup {NoRequest}]
      BY <1>1 DEF TypeOK
    <3>2. NothingPending \in [id : Nat, req : Requests \cup {NoRequest}]
      BY DEF NothingPending
    <3>3. [id |-> nextId, req |-> q] \in [id : Nat, req : Requests \cup {NoRequest}]
      BY <1>4, <1>8
    <3> QED
      BY <1>6, <3>1, <3>2, <3>3
  <2>2. epoch' \in Nat
    BY <1>6, <1>8
  <2>3. inReset' \in BOOLEAN /\ rstn' \in BOOLEAN
    BY <1>2, <1>6
  <2>4. clk' \in {"low", "high"}
    BY <1>2
  <2>5. nextId' \in Nat \ {0}
    BY <1>6, <1>8
  <2>6. stopCycle' \in Nat \cup {-1}
    BY <1>5, <1>6, <1>8
  <2>7. setup' \in Setups /\ tree' \in Trees /\ power' \in {"on", "finished", "killed"}
    BY <1>1, <1>2 DEF TypeOK
  <2> QED
    BY <1>3, <1>5, <1>12, <2>1, <2>2, <2>3, <2>4, <2>5, <2>6, <2>7 DEF TypeOK
<1>14. BeforeReset'
  BY <1>6, <1>8 DEF BeforeReset
<1>15. Levels'
  <2>1. inReset' = FALSE /\ rstn' = TRUE
    BY <1>2, <1>6
  <2>2. resp'.valid <=> pending'.id # 0
    BY <1>3, <1>8, <1>11
  <2> QED
    BY <2>1, <2>2 DEF Levels
<1>16. LogParses'
  <2> SUFFICES ASSUME epoch = 1
      PROVE  /\ \E first \in 0 .. cycle' : Stage(tree', log', Knows', first, cycle', cycle' - 1)
             /\ \A y \in Reader!Parse(log').pending : y.cycle = cycle'
             /\ resp'.valid =>
                  /\ resp'.rd = Answer(ReplayIn(tree', Reader!Parse(log').txs)[Len(Reader!Parse(log').txs)],
                                       pending'.req)
                  /\ resp'.err = ~Legal(pending'.req)
    BY <1>2, <1>6 DEF LogParses
  <2>1. PICK kk : kk = Knows'
    OBVIOUS
  <2>2. PICK now : now = cycle + 1
    OBVIOUS
  <2>3. /\ kk.reset = FALSE /\ kk.open = pending' /\ kk.next = nextId' /\ kk.stop = stopCycle'
        /\ kk.regs = regs'
    BY <1>6, <2>1 DEF Knows
  <2>4. KnowsAfter(kk, q, x)
    BY <1>3, <1>6, <1>11, <2>3 DEF KnowsAfter
  <2>5. PICK l : l = log'
    OBVIOUS
  <2>6. /\ \E first \in 0 .. cycle : Stage(tree, l, kk, first, now, now - 1)
        /\ \A y \in Reader!Parse(l).pending : y.cycle = now
        /\ q # NoRequest => ReplayIn(tree, Reader!Parse(l).txs)[Len(Reader!Parse(l).txs)] = regs
    <3>1. ReadAfter(Log5(q, ram, x), kk, q, now)
      BY <1>2, <1>3, <1>4, <1>5, <1>8, <1>9, <2>2, <2>4, ToNotes
    <3>2. ReadAfter(l, kk, q, now)
      BY <1>7, <2>5, <3>1
    <3> QED
      BY <3>2 DEF ReadAfter
  <2>7. PICK first \in 0 .. cycle : Stage(tree, l, kk, first, now, now - 1)
    BY <2>6
  <2>8. cycle' = now /\ tree' = tree /\ first \in 0 .. now
    BY <1>2, <1>5, <2>2
  <2>9. resp'.valid =>
          /\ resp'.rd = Answer(ReplayIn(tree, Reader!Parse(l).txs)[Len(Reader!Parse(l).txs)], pending'.req)
          /\ resp'.err = ~Legal(pending'.req)
    BY <1>3, <1>11, <2>6
  <2> QED
    BY <2>1, <2>5, <2>6, <2>7, <2>8, <2>9
<1>17. Files'
  BY <1>1, <1>2 DEF Files
<1>18. Idle'
  <2>1. Idle
    BY DEF IInv
  <2> QED
    BY <1>6, <1>8, <2>1 DEF Idle, NothingPending
<1> QED
  BY <1>12, <1>13, <1>14, <1>15, <1>16, <1>17, <1>18 DEF IInv

\* The sample at the falling edge.
LEMMA NegedgeStep ==
  ASSUME IInv, Negedge, UNCHANGED stored
  PROVE  IInv'
<1>1. TypeOK /\ BeforeReset /\ Levels /\ Numbered /\ LogParses /\ Files
  BY DEF IInv
<1>2. /\ power = "on" /\ clk = "high" /\ clk' = "low"
      /\ setup' = setup /\ tree' = tree /\ rstn' = rstn /\ regs' = regs /\ resp' = resp
      /\ cycle' = cycle /\ epoch' = epoch /\ inReset' = inReset /\ nextId' = nextId
      /\ pending' = pending /\ stopCycle' = stopCycle /\ power' = power /\ file' = file
      /\ log' = Numbering(log, When(epoch > 0, Mark("status_sample", epoch, rstn)))
  BY DEF Negedge, Record, Numbering, dut
<1>3. /\ cycle \in Nat /\ cycle <= MaxCycle /\ epoch \in Nat /\ rstn \in BOOLEAN /\ inReset \in BOOLEAN
      /\ regs \in RegisterValues /\ log \in Seq(EventType) /\ Len(log) \in Nat
  <2>1. cycle \in 0 .. setup.cycles /\ setup.cycles \in Nat /\ setup.cycles <= MaxCycle /\ MaxCycle \in Nat
    BY <1>1, CyclesBounded DEF TypeOK
  <2>2. cycle \in Nat /\ cycle <= MaxCycle
    BY <2>1
  <2>3. epoch \in Nat /\ rstn \in BOOLEAN /\ inReset \in BOOLEAN /\ regs \in RegisterValues
    BY <1>1 DEF TypeOK
  <2>4. log \in Seq(EventType)
    BY <1>1 DEF TypeOK
  <2>5. Len(log) \in Nat
    BY <2>4
  <2> QED
    BY <2>2, <2>3, <2>4, <2>5
<1> DEFINE e == Mark("status_sample", epoch, rstn)
           f == [e EXCEPT !.seq = Len(log)]
<1>4. /\ e \in EventType /\ e.phase = "status_sample" /\ e.epoch = epoch /\ e.rstn = rstn
      /\ e.cycle = cycle /\ e.tid = 0 /\ e.regs = regs
  <2>1. 0 \in Nat /\ 0 \in Data /\ cycle + (IF clk = "low" THEN 1 ELSE 0) \in Nat
    BY <1>2, <1>3, DataAssumption
  <2>2. e \in EventType
    BY <1>3, <2>1, SameRegisterFile DEF Mark, Event, EventType, Reader!EventType, Reader!Phases
  <2>3. e.phase = "status_sample" /\ e.epoch = epoch /\ e.rstn = rstn /\ e.tid = 0 /\ e.regs = regs
        /\ e.cycle = cycle + (IF clk = "low" THEN 1 ELSE 0)
    BY DEF Mark, Event
  <2> HIDE DEF e
  <2> QED
    BY <1>2, <1>3, <2>2, <2>3
<1> HIDE DEF e
<1>5. /\ f \in EventType /\ f.phase = "status_sample" /\ f.epoch = epoch /\ f.rstn = rstn
      /\ f.cycle = cycle /\ f.tid = 0 /\ f.regs = regs /\ f.seq = Len(log)
  BY <1>3, <1>4, Placed
<1> HIDE DEF f
<1>6. /\ When(epoch > 0, e) \in Seq(EventType)
      /\ log' = IF epoch > 0 THEN Append(log, f) ELSE log
  <2>1. (epoch > 0) \in BOOLEAN
    BY <1>3
  <2> QED
    BY <1>2, <1>3, <1>4, <2>1, NumberingWhen DEF e, f
<1>7. log' \in Seq(EventType) /\ Numbered'
  <2> DEFINE b == When(epoch > 0, e)
  <2>1. b \in Seq(EventType) /\ log' = Numbering(log, b)
    BY <1>2, <1>6 DEF e
  <2> HIDE DEF b
  <2>2. /\ Numbering(log, b) \in Seq(EventType)
        /\ \A i \in 1 .. Len(Numbering(log, b)) : Numbering(log, b)[i].seq = i - 1
    BY <1>1, <2>1, BatchNumbered
  <2> QED
    BY <2>1, <2>2 DEF Numbered
<1>8. TypeOK'
  BY <1>1, <1>2, <1>7 DEF TypeOK
<1>9. BeforeReset'
  <2>1. epoch = 0 => log' = log
    BY <1>6
  <2> QED
    BY <1>1, <1>2, <2>1 DEF BeforeReset, NothingPending
<1>10. Levels'
  BY <1>1, <1>2 DEF Levels
<1>11. LogParses'
  <2> SUFFICES ASSUME epoch = 1
      PROVE  /\ \E first \in 0 .. cycle' : Stage(tree', log', Knows', first, cycle', cycle')
             /\ \A y \in Reader!Parse(log').pending : y.cycle = cycle'
             /\ resp'.valid =>
                  /\ resp'.rd = Answer(ReplayIn(tree', Reader!Parse(log').txs)[Len(Reader!Parse(log').txs)],
                                       pending'.req)
                  /\ resp'.err = ~Legal(pending'.req)
    BY <1>2 DEF LogParses
  <2>1. log' = Append(log, f)
    BY <1>6
  <2>2. PICK k : k = Knows
    OBVIOUS
  <2>3. k = Knows' /\ k.reset = inReset /\ k.regs = regs
    BY <1>2, <2>2 DEF Knows
  <2>4. PICK first \in 0 .. cycle : Stage(tree, log, k, first, cycle, cycle - 1)
    BY <1>1, <1>2, <2>2 DEF LogParses
  <2>5. inReset = ~rstn /\ (inReset => regs = ResetValues)
    BY <1>1 DEF Levels
  <2>6. /\ f.epoch = 1 /\ f.rstn = ~k.reset /\ f.regs = k.regs
        /\ k.reset => k.regs = ResetValues
    <3>1. rstn = ~inReset
      BY <1>3, <2>5
    <3> QED
      BY <1>5, <2>3, <2>5, <3>1
  <2>7. Sampled(tree, log, f, k, first, cycle)
    BY <1>3, <1>5, <2>4, <2>6, SampleLink
  <2>8. /\ Stage(tree, Append(log, f), k, first, cycle, cycle)
        /\ Reader!Parse(Append(log, f)).pending = Reader!Parse(log).pending
        /\ Reader!Parse(Append(log, f)).txs = Reader!Parse(log).txs
    BY <2>7 DEF Sampled
  <2>9. /\ \A q \in Reader!Parse(log).pending : q.cycle = cycle
        /\ resp.valid =>
             /\ resp.rd = Answer(ReplayIn(tree, Reader!Parse(log).txs)[Len(Reader!Parse(log).txs)],
                                 pending.req)
             /\ resp.err = ~Legal(pending.req)
    BY <1>1 DEF LogParses
  <2> QED
    BY <1>2, <2>1, <2>3, <2>8, <2>9
<1>12. Files'
  BY <1>1, <1>2 DEF Files
<1>13. Idle'
  BY <1>2 DEF IInv, Idle, NothingPending
<1> QED
  BY <1>7, <1>8, <1>9, <1>10, <1>11, <1>12, <1>13 DEF IInv

\* The end of the simulation, the storing and a stutter touch only the files.
LEMMA OtherSteps ==
  ASSUME IInv,
         setup' = setup, tree' = tree, clk' = clk, rstn' = rstn, regs' = regs, resp' = resp,
         cycle' = cycle, epoch' = epoch, inReset' = inReset, nextId' = nextId,
         pending' = pending, stopCycle' = stopCycle, log' = log,
         power' \in {"on", "finished", "killed"}, Files'
  PROVE  IInv'
<1>1. TypeOK /\ BeforeReset /\ Levels /\ Numbered /\ LogParses
  BY DEF IInv
<1>2. TypeOK'
  BY <1>1 DEF TypeOK
<1>3. BeforeReset'
  BY <1>1 DEF BeforeReset, NothingPending
<1>4. Levels' /\ Numbered'
  BY <1>1 DEF Levels, Numbered
<1>5. LogParses'
  <2>1. Knows' = Knows
    BY DEF Knows
  <2> QED
    BY <1>1, <2>1 DEF LogParses
<1>6. Idle'
  BY DEF IInv, Idle, NothingPending
<1> QED
  BY <1>2, <1>3, <1>4, <1>5, <1>6 DEF IInv

\* The footer depends on the monitor only.
LEMMA FooterSame ==
  ASSUME cycle' = cycle, epoch' = epoch, inReset' = inReset, pending' = pending,
         stopCycle' = stopCycle, log' = log
  PROVE  Footer' = Footer
BY DEF Footer

\* Every step keeps it.
LEMMA IInvNext == IInv /\ [SystemNext]_allVars => IInv'
<1> SUFFICES ASSUME IInv, [SystemNext]_allVars PROVE IInv'
  OBVIOUS
<1>1. TypeOK /\ Files
  BY DEF IInv
<1>2. CASE Edge /\ UNCHANGED stored
  <2>1. PICK r \in BOOLEAN, stop \in BOOLEAN, ram \in setup.resultWrites,
             q \in setup.accesses \cup {NoRequest} : Posedge(r, q, ram, stop)
    BY <1>2 DEF Edge
  <2>2. ram \in BOOLEAN
    BY <1>1, SetupsAssumption DEF TypeOK
  <2>3. CASE r = FALSE
    <3>1. Posedge(FALSE, q, ram, stop)
      BY <2>1, <2>3
    <3> QED
      BY <1>2, <3>1, ResetEdge
  <2>4. CASE r = TRUE
    <3>1. Posedge(TRUE, q, ram, stop)
      BY <2>1, <2>4
    <3>2. epoch = 0 \/ epoch > 0
      BY <1>1 DEF TypeOK
    <3>3. CASE epoch = 0
      BY <1>2, <3>1, <3>3, IdleEdge
    <3>4. CASE epoch > 0
      BY <1>2, <2>2, <3>1, <3>4, RecordingEdge
    <3> QED
      BY <3>2, <3>3, <3>4
  <2> QED
    BY <2>1, <2>3, <2>4
<1>3. CASE Negedge /\ UNCHANGED stored
  BY <1>3, NegedgeStep
<1>4. CASE Finish /\ UNCHANGED stored
  <2>1. /\ power = "on" /\ power' = "finished" /\ file' = [events |-> log, footer |-> Footer]
        /\ setup' = setup /\ tree' = tree /\ clk' = clk /\ rstn' = rstn /\ regs' = regs
        /\ resp' = resp /\ cycle' = cycle /\ epoch' = epoch /\ inReset' = inReset
        /\ nextId' = nextId /\ pending' = pending /\ stopCycle' = stopCycle /\ log' = log
        /\ stored' = stored
    BY <1>4 DEF Finish, dut, monitor
  <2>2. stored = NotStored /\ Footer' = Footer
    BY <1>1, <2>1, FooterSame DEF Files
  <2>3. Files'
    BY <2>1, <2>2 DEF Files, NotStored
  <2> QED
    BY <2>1, <2>3, OtherSteps
<1>5. CASE Kill /\ UNCHANGED stored
  <2>1. /\ power = "on" /\ power' = "killed"
        /\ \E n \in 0 .. Len(log) : file' = [events |-> SubSeq(log, 1, n), footer |-> NoFooter]
        /\ setup' = setup /\ tree' = tree /\ clk' = clk /\ rstn' = rstn /\ regs' = regs
        /\ resp' = resp /\ cycle' = cycle /\ epoch' = epoch /\ inReset' = inReset
        /\ nextId' = nextId /\ pending' = pending /\ stopCycle' = stopCycle /\ log' = log
        /\ stored' = stored
    BY <1>5 DEF Kill, dut, monitor
  <2>2. stored = NotStored
    BY <1>1, <2>1 DEF Files
  <2>3. Files'
    BY <2>1, <2>2 DEF Files, NotStored
  <2> QED
    BY <2>1, <2>3, OtherSteps
<1>6. CASE Store
  <2>1. /\ power # "on" /\ power' = power /\ file' = file
        /\ setup' = setup /\ tree' = tree /\ clk' = clk /\ rstn' = rstn /\ regs' = regs
        /\ resp' = resp /\ cycle' = cycle /\ epoch' = epoch /\ inReset' = inReset
        /\ nextId' = nextId /\ pending' = pending /\ stopCycle' = stopCycle /\ log' = log
    BY <1>6 DEF Store, vars, dut, monitor
  <2>2. /\ power = "finished" => file = [events |-> log, footer |-> Footer]
        /\ power = "killed" => file = [events |-> file.events, footer |-> NoFooter]
        /\ power \in {"on", "finished", "killed"}
    BY <1>1 DEF Files, TypeOK
  <2>3. stored' = file \/ \E es \in Damaged(file.events) : stored' = [file EXCEPT !.events = es]
    BY <1>6 DEF Store
  <2>4. \E ev, fo : file = [events |-> ev, footer |-> fo]
    BY <2>1, <2>2
  <2>5. stored'.footer = file.footer /\ (stored'.events = file.events \/ stored'.events \in Damaged(file.events))
    BY <2>3, <2>4
  <2>6. Footer' = Footer
    BY <2>1, FooterSame
  <2>7. Damaged(file.events)' = Damaged(file.events)
    BY <2>1 DEF Damaged, Lost, Repeated, Exchanged
  <2>8. Files'
    BY <2>1, <2>2, <2>5, <2>6, <2>7 DEF Files
  <2> QED
    BY <2>1, <2>2, <2>8, OtherSteps
<1>7. CASE UNCHANGED allVars
  <2>1. /\ power' = power /\ file' = file /\ stored' = stored
        /\ setup' = setup /\ tree' = tree /\ clk' = clk /\ rstn' = rstn /\ regs' = regs
        /\ resp' = resp /\ cycle' = cycle /\ epoch' = epoch /\ inReset' = inReset
        /\ nextId' = nextId /\ pending' = pending /\ stopCycle' = stopCycle /\ log' = log
    BY <1>7 DEF allVars, vars, dut, monitor
  <2>2. Footer' = Footer
    BY <2>1, FooterSame
  <2>3. Files'
    BY <1>1, <2>1, <2>2 DEF Files, NotStored, Damaged, Lost, Repeated, Exchanged
  <2>4. power' \in {"on", "finished", "killed"}
    BY <1>1, <2>1 DEF TypeOK
  <2> QED
    BY <2>1, <2>3, <2>4, OtherSteps
<1> QED
  BY <1>2, <1>3, <1>4, <1>5, <1>6, <1>7 DEF SystemNext, Next

\* The invariant.
THEOREM ApparatusInvariant == SystemSpec => []IInv
<1> QED
  BY InitIInv, IInvNext, PTL DEF SystemSpec

-----------------------------------------------------------------------------
(* What a parsed file is.                                                  *)

\* The length of a part of a sequence, also of an empty one.
LEMMA Cut ==
  ASSUME NEW T, NEW s \in Seq(T), NEW m \in 1 .. Len(s) + 1, NEW n \in 0 .. Len(s), m <= n + 1
  PROVE  SubSeq(s, m, n) \in Seq(T) /\ Len(SubSeq(s, m, n)) = n - m + 1
<1>1. Len(s) \in Nat
  OBVIOUS
<1>2. CASE m <= n
  BY <1>1, <1>2
<1>3. CASE m = n + 1
  <2>1. SubSeq(s, m, n) = <<>>
    BY <1>1, <1>3
  <2> QED
    BY <1>1, <1>3, <2>1
<1> QED
  BY <1>1, <1>2, <1>3

\* The length of two sequences joined.
LEMMA Joined ==
  ASSUME NEW T, NEW x \in Seq(T), NEW y \in Seq(T)
  PROVE  x \o y \in Seq(T) /\ Len(x \o y) = Len(x) + Len(y)
OBVIOUS

\* Damage changes the number of records or their numbering.
LEMMA DamageShows ==
  ASSUME NEW l \in Seq(EventType), \A i \in 1 .. Len(l) : l[i].seq = i - 1,
         NEW es \in Damaged(l)
  PROVE  /\ es \in Seq(EventType)
         /\ Len(es) # Len(l) \/ \E i \in DOMAIN es : es[i].seq # i - 1
<1> HIDE DEF EventType
<1>1. Len(l) \in Nat /\ DOMAIN l = 1 .. Len(l) /\ \A i \in 1 .. Len(l) : l[i] \in EventType
  OBVIOUS
<1>2. CASE \E i \in DOMAIN l : es = Lost(l, i)
  <2>1. PICK i \in 1 .. Len(l) : es = SubSeq(l, 1, i - 1) \o SubSeq(l, i + 1, Len(l))
    BY <1>1, <1>2 DEF Lost, RemoveAt
  <2> DEFINE x == SubSeq(l, 1, i - 1)
             y == SubSeq(l, i + 1, Len(l))
  <2>2. x \in Seq(EventType) /\ Len(x) = i - 1
    <3>1. 1 \in 1 .. Len(l) + 1 /\ i - 1 \in 0 .. Len(l) /\ 1 <= i - 1 + 1 /\ i - 1 - 1 + 1 = i - 1
      BY <1>1
    <3> QED
      BY <3>1, Cut
  <2>3. y \in Seq(EventType) /\ Len(y) = Len(l) - i
    <3>1. /\ i + 1 \in 1 .. Len(l) + 1 /\ Len(l) \in 0 .. Len(l) /\ i + 1 <= Len(l) + 1
          /\ Len(l) - (i + 1) + 1 = Len(l) - i
      BY <1>1
    <3> QED
      BY <3>1, Cut
  <2>4. es = x \o y
    BY <2>1
  <2> HIDE DEF x, y
  <2>5. es \in Seq(EventType) /\ Len(es) = Len(x) + Len(y)
    BY <2>2, <2>3, <2>4, Joined
  <2>6. Len(es) # Len(l)
    BY <1>1, <2>2, <2>3, <2>5
  <2> QED
    BY <2>5, <2>6
<1>3. CASE \E i \in DOMAIN l : es = Repeated(l, i)
  <2>1. PICK i \in 1 .. Len(l) : es = SubSeq(l, 1, i) \o SubSeq(l, i, Len(l))
    BY <1>1, <1>3 DEF Repeated
  <2> DEFINE x == SubSeq(l, 1, i)
             y == SubSeq(l, i, Len(l))
  <2>2. x \in Seq(EventType) /\ Len(x) = i
    BY <1>1
  <2>3. y \in Seq(EventType) /\ Len(y) = Len(l) - i + 1
    BY <1>1
  <2>4. es = x \o y
    BY <2>1
  <2> HIDE DEF x, y
  <2>5. es \in Seq(EventType) /\ Len(es) = Len(x) + Len(y)
    BY <2>2, <2>3, <2>4, Joined
  <2>6. Len(es) # Len(l)
    <3>1. Len(es) = i + (Len(l) - i + 1)
      BY <2>2, <2>3, <2>5
    <3>2. i + (Len(l) - i + 1) = Len(l) + 1
      BY <1>1
    <3>3. Len(es) = Len(l) + 1
      BY <3>1, <3>2, Zenon
    <3>4. \A n \in Nat : n + 1 # n
      OBVIOUS
    <3> QED
      BY <1>1, <3>3, <3>4
  <2> QED
    BY <2>5, <2>6
<1>4. CASE \E i \in 1 .. Len(l) - 1 : es = Exchanged(l, i)
  <2>1. PICK i \in 1 .. Len(l) - 1 : es = [l EXCEPT ![i] = l[i + 1], ![i + 1] = l[i]]
    BY <1>4 DEF Exchanged
  <2>2. i \in 1 .. Len(l) /\ i + 1 \in 1 .. Len(l) /\ i + 1 # i /\ i + 1 - 1 # i - 1
    BY <1>1, <2>1
  <2>3. es \in Seq(EventType) /\ DOMAIN es = 1 .. Len(l)
    BY <1>1, <2>1, <2>2
  <2>4. es[i] = l[i + 1]
    BY <1>1, <2>1, <2>2
  <2>5. es[i].seq # i - 1
    BY <2>2, <2>4
  <2> QED
    BY <2>2, <2>3, <2>5
<1> QED
  BY <1>2, <1>3, <1>4 DEF Damaged

\* The fields of the footer; it is never the absent one.
LEMMA FooterTyped ==
  ASSUME TypeOK
  PROVE  /\ Footer.complete \in BOOLEAN /\ Footer.exited \in BOOLEAN
         /\ Footer.count = Len(log) /\ Footer.last = cycle /\ Footer.epochs = epoch
         /\ Footer.exited = (stopCycle >= 0 /\ cycle >= stopCycle + 2)
         /\ Footer.complete = (Footer.exited /\ pending.id = 0 /\ ~inReset)
         /\ Footer # NoFooter
<1>1. log \in Seq(EventType)
  BY DEF TypeOK
<1>2. Len(log) \in Nat /\ cycle \in Nat /\ epoch \in Nat
  <2>1. Len(log) \in Nat
    BY <1>1
  <2> QED
    BY <2>1 DEF TypeOK
<1> DEFINE x == stopCycle >= 0 /\ cycle >= stopCycle + 2
           y == x /\ pending.id = 0 /\ ~inReset
<1>3. x \in BOOLEAN /\ y \in BOOLEAN
  OBVIOUS
<1>4. Footer = [complete |-> y, count |-> Len(log), last |-> cycle, epochs |-> epoch, exited |-> x]
  BY DEF Footer
<1>5. Footer.exited = x /\ Footer.complete = y
  BY <1>4
<1>6. Footer.complete = (Footer.exited /\ pending.id = 0 /\ ~inReset)
  BY <1>5
<1> HIDE DEF x, y
<1>7. Footer \in [complete : BOOLEAN, count : Nat, last : Nat, epochs : Nat, exited : BOOLEAN]
  BY <1>2, <1>3, <1>4
<1>8. Footer # NoFooter
  BY <1>7, FooterAssumption
<1>9. Footer.count = Len(log) /\ Footer.last = cycle /\ Footer.epochs = epoch
  BY <1>4
<1> QED
  BY <1>3, <1>5, <1>6, <1>8, <1>9 DEF x

\* A file that parses holds the log and the footer of a finished run.
LEMMA ParsedIsWhole ==
  ASSUME IInv, Parsed
  PROVE  /\ power = "finished" /\ stored.events = log /\ stored.footer = Footer
         /\ file.events = log /\ Reader!Parse(log).ok /\ Reader!Closes(Reader!Parse(log), Footer)
<1>1. TypeOK /\ Files /\ Numbered
  BY DEF IInv
<1>2. /\ stored.footer # NoFooter /\ Reader!Parse(stored.events).ok
      /\ Reader!Closes(Reader!Parse(stored.events), stored.footer)
  BY DEF Parsed, Reader!ParsesFile
<1>3. stored # NotStored
  BY <1>2 DEF NotStored
<1>4. power # "on" /\ stored.footer = file.footer
      /\ (stored.events = file.events \/ stored.events \in Damaged(file.events))
  BY <1>1, <1>3 DEF Files
<1>5. power # "killed"
  <2> SUFFICES ASSUME power = "killed" PROVE FALSE
    OBVIOUS
  <2>1. PICK ev : file = [events |-> ev, footer |-> NoFooter]
    BY <1>1 DEF Files
  <2> QED
    BY <1>2, <1>4, <2>1
<1>6. power = "finished"
  BY <1>1, <1>4, <1>5 DEF TypeOK
<1>7. file.events = log /\ file.footer = Footer
  <2>1. file = [events |-> log, footer |-> Footer]
    BY <1>1, <1>6 DEF Files
  <2> QED
    BY <2>1
<1>8. log \in Seq(EventType) /\ \A i \in 1 .. Len(log) : log[i].seq = i - 1
  BY <1>1 DEF TypeOK, Numbered
<1>9. stored.events = log
  <2> SUFFICES ASSUME stored.events \in Damaged(log) PROVE FALSE
    BY <1>4, <1>7
  <2> PICK es : es = stored.events
    OBVIOUS
  <2>1. /\ es \in Seq(EventType)
        /\ Len(es) # Len(log) \/ \E i \in DOMAIN es : es[i].seq # i - 1
    BY <1>8, DamageShows
  <2>2. Reader!Parse(es).read = Len(es) /\ \A i \in DOMAIN es : es[i].seq = i - 1
    BY <1>2, <2>1, ParseReads
  <2>3. Footer.count = Reader!Parse(es).read
    BY <1>2, <1>4, <1>7 DEF Reader!Closes
  <2>4. Footer.count = Len(log)
    BY <1>1, FooterTyped
  <2> QED
    BY <2>1, <2>2, <2>3, <2>4
<1> QED
  BY <1>2, <1>4, <1>6, <1>7, <1>9

\* What the reader has then, and that the invariant speaks of it.
LEMMA ParsedFacts ==
  ASSUME IInv, Parsed
  PROVE  /\ epoch = 1 /\ pending.id = 0 /\ ~inReset /\ stopCycle >= 0
         /\ Reader!Parse(log).pending = {} /\ Len(Reader!Parse(log).txs) = nextId - 1
         /\ \E first \in 0 .. cycle, upto \in {cycle - 1, cycle} :
              Stage(tree, log, Knows, first, cycle, upto)
<1>1. TypeOK /\ LogParses
  BY DEF IInv
<1>2. Reader!Parse(log).ok /\ Reader!Closes(Reader!Parse(log), Footer)
  BY ParsedIsWhole
<1>3. Footer.complete /\ Footer.exited /\ Footer.epochs = 1
  BY <1>2 DEF Reader!Closes
<1>4. epoch = 1 /\ pending.id = 0 /\ ~inReset /\ stopCycle >= 0
  BY <1>1, <1>3, FooterTyped
<1>5. PICK first \in 0 .. cycle : Stage(tree, log, Knows, first, cycle, IF clk = "low" THEN cycle ELSE cycle - 1)
  BY <1>1, <1>4 DEF LogParses
<1>6. PICK upto \in {cycle - 1, cycle} : Stage(tree, log, Knows, first, cycle, upto)
  BY <1>5
<1>7. Follows(Reader!Parse(log), Knows) /\ Knows.open = pending /\ Knows.next = nextId
  BY <1>6 DEF Stage, Knows
<1>8. Reader!Parse(log).pending = {} /\ Len(Reader!Parse(log).txs) = nextId - 1
  BY <1>4, <1>7 DEF Follows
<1> QED
  BY <1>4, <1>6, <1>8

\* The invariant implies ParsedTraceIsWholeRun.
LEMMA ParsedTraceIsWholeRunHolds == IInv => ParsedTraceIsWholeRun
<1> SUFFICES ASSUME IInv, Parsed
    PROVE /\ power = "finished" /\ stopCycle >= 0 /\ epoch = 1 /\ ~inReset
          /\ Len(Txs) = nextId - 1 /\ pending = NothingPending
  BY DEF ParsedTraceIsWholeRun
<1>1. power = "finished" /\ stored.events = log
  BY ParsedIsWhole
<1>2. Txs = Reader!Parse(log).txs
  BY <1>1 DEF Txs
<1>3. /\ epoch = 1 /\ pending.id = 0 /\ ~inReset /\ stopCycle >= 0
      /\ Len(Reader!Parse(log).txs) = nextId - 1
  BY ParsedFacts
<1>4. pending = NothingPending
  BY <1>3 DEF IInv, Idle
<1> QED
  BY <1>1, <1>2, <1>3, <1>4

\* The invariant implies DamageDetected.
LEMMA DamageDetectedHolds == IInv => DamageDetected
<1> SUFFICES ASSUME IInv, Parsed, stored.events # file.events PROVE FALSE
  BY DEF DamageDetected
<1> QED
  BY ParsedIsWhole

\* With nothing open, the registers at a cycle are those after the
\* transactions up to it.
LEMMA ReplayRead ==
  ASSUME IInv, Parsed
  PROVE  /\ \A i \in DOMAIN Txs : Txs[i].response.rd = Answer(ReplayIn(tree, Txs)[i - 1], Txs[i].request.req)
         /\ \A x \in Samples : x.regs = ReplayIn(tree, Txs)[Count(Txs, x.cycle)]
<1>1. stored.events = log
  BY ParsedIsWhole
<1> DEFINE p == Reader!Parse(log)
<1>2. Txs = p.txs /\ Samples = SamplesOf(log)
  BY <1>1 DEF Txs, Samples, SamplesOf
<1>3. PICK first, upto : Stage(tree, log, Knows, first, cycle, upto)
  BY ParsedFacts
<1>4. p.pending = {}
  BY ParsedFacts
<1>5. Replays(tree, p, log, Knows.regs, cycle)
  BY <1>3 DEF Stage
<1> HIDE DEF p
<1>6. ASSUME NEW x \in Samples PROVE x.regs = ReplayIn(tree, Txs)[Count(Txs, x.cycle)]
  <2>1. x.regs = RegistersAt(tree, p, x.cycle)
    BY <1>2, <1>5 DEF Replays
  <2>2. RegistersAt(tree, p, x.cycle) = ReplayIn(tree, p.txs)[Count(p.txs, x.cycle)]
    BY <1>4 DEF RegistersAt
  <2> QED
    BY <1>2, <2>1, <2>2
<1>7. \A i \in DOMAIN Txs : Txs[i].response.rd = Answer(ReplayIn(tree, Txs)[i - 1], Txs[i].request.req)
  BY <1>2, <1>5 DEF Replays
<1> QED
  BY <1>6, <1>7

\* The invariant implies ParsedTraceReplays.
LEMMA ParsedTraceReplaysHolds == IInv => ParsedTraceReplays
<1> SUFFICES ASSUME IInv, Parsed
    PROVE /\ \A i \in DOMAIN Txs :
               Txs[i].response.rd = Answer(Replay(Txs)[i - 1], Txs[i].request.req)
          /\ \A x \in Samples :
               x.regs = Replay(Txs)[Cardinality({i \in DOMAIN Txs : Txs[i].request.cycle <= x.cycle})]
  BY DEF ParsedTraceReplays
<1>1. Replay(Txs) = ReplayIn(tree, Txs)
  BY ReplayIsReplayIn
<1>2. \A x : Count(Txs, x.cycle) = Cardinality({i \in DOMAIN Txs : Txs[i].request.cycle <= x.cycle})
  BY DEF Count
<1> QED
  BY <1>1, <1>2, ReplayRead

\* A run with one reset that ends by itself, after its stop, parses.
LEMMA CompleteRunParsesHolds == IInv => CompleteRunParses
<1> SUFFICES ASSUME IInv, power = "finished", stored = file, epoch = 1, Footer.complete
    PROVE  Parsed
  BY DEF CompleteRunParses
<1>1. TypeOK /\ Files /\ LogParses
  BY DEF IInv
<1>2. stored.events = log /\ stored.footer = Footer
  <2>1. file = [events |-> log, footer |-> Footer]
    BY <1>1 DEF Files
  <2> QED
    BY <2>1
<1>3. /\ Footer.exited /\ Footer.count = Len(log) /\ Footer.last = cycle /\ Footer.epochs = epoch
      /\ stopCycle >= 0 /\ cycle >= stopCycle + 2 /\ pending.id = 0 /\ ~inReset /\ Footer # NoFooter
  BY <1>1, FooterTyped
<1> DEFINE p == Reader!Parse(log)
<1>4. PICK first \in 0 .. cycle, upto \in {cycle - 1, cycle} : Stage(tree, log, Knows, first, cycle, upto)
  BY <1>1 DEF LogParses
<1>5. /\ Reads(p, log, first, cycle, upto) /\ Follows(p, Knows)
      /\ Knows.open = pending /\ Knows.stop = stopCycle /\ Knows.reset = inReset
  BY <1>4 DEF Stage, Knows
<1> HIDE DEF p
<1>6. /\ p.ok /\ p.read = Len(log) /\ p.epoch = 1 /\ p.last \in 0 .. cycle /\ first \in Nat
      /\ p.sampled = first .. upto /\ p.txs \in Seq(Tx)
      /\ \A i \in DOMAIN p.txs : p.txs[i].request.cycle \in first + 1 .. cycle - 1
  BY <1>5 DEF Reads, Counters, Sampling, Ordered
<1>7. p.pending = {} /\ p.reset = inReset /\ p.stop = stopCycle
  BY <1>3, <1>5 DEF Follows
<1>8. PICK r \in first + 1 .. cycle : p.releases = <<r>>
  BY <1>3, <1>5, <1>7 DEF Reads, Released
<1>9. Len(p.releases) = 1 /\ p.releases[1] = r
  BY <1>8
<1>10. cycle \in Nat /\ cycle <= MaxCycle /\ stopCycle \in Nat
  <2>1. cycle \in 0 .. setup.cycles /\ setup.cycles \in Nat /\ setup.cycles <= MaxCycle /\ MaxCycle \in Nat
    BY <1>1, CyclesBounded DEF TypeOK
  <2>2. stopCycle \in Nat
    BY <1>1, <1>3 DEF TypeOK
  <2> QED
    BY <2>1, <2>2
<1>11. p.releases[1] .. (Footer.last - 1) \subseteq p.sampled
  <2>1. r .. cycle - 1 \subseteq first .. upto
    BY <1>6, <1>10
  <2> QED
    BY <1>3, <1>6, <1>9, <2>1
<1>12. \A i \in DOMAIN p.txs : p.txs[i].request.cycle \in p.sampled
  <2>1. first + 1 .. cycle - 1 \subseteq first .. upto
    BY <1>6, <1>10
  <2> QED
    BY <1>6, <2>1
<1>13. /\ Footer.last <= MaxCycle /\ Footer.last >= p.last /\ p.stop # -1 /\ Footer.last >= p.stop + 2
  <2>1. p.last <= cycle
    BY <1>6, <1>10
  <2>2. cycle >= p.last
    BY <1>6, <1>10, <2>1
  <2> QED
    BY <1>3, <1>7, <1>10, <2>2
<1>14. Reader!Closes(p, Footer)
  BY <1>3, <1>6, <1>7, <1>9, <1>11, <1>12, <1>13 DEF Reader!Closes
<1> QED
  BY <1>2, <1>3, <1>6, <1>14 DEF Parsed, Reader!ParsesFile, p

-----------------------------------------------------------------------------
(* The samples around a request.                                           *)

\* STATUS is anomalous after an access exactly if it was before, or if the access is
\* the trigger.
LEMMA OnlyTrigger ==
  ASSUME NEW r \in RegisterValues, NEW q \in Requests
  PROVE  AfterAccess(tree, r, q)["STATUS"] = DEAD <=> r["STATUS"] = DEAD \/ Triggers(r, q)
<1>1. CASE ~(Legal(q) /\ q.we)
  BY <1>1 DEF AfterAccess, Triggers, Legal, Registers
<1>2. CASE Legal(q) /\ q.we
  <2>1. q.addr # "STATUS" /\ q.full
    BY <1>2 DEF Legal
  <2> DEFINE w == [r EXCEPT ![q.addr] = q.wd]
             fires == tree = "variant" /\ q.addr = "COMMAND" /\ r["ENABLE"] = 1 /\ q.wd = A5
  <2>2. w["STATUS"] = r["STATUS"] /\ "STATUS" \in DOMAIN w
    BY <2>1 DEF RegisterValues, Registers
  <2>3. AfterAccess(tree, r, q) = IF fires THEN [w EXCEPT !["STATUS"] = DEAD] ELSE w
    BY <1>2 DEF AfterAccess
  <2>4. fires <=> Triggers(r, q)
    BY <1>2, <2>1 DEF Triggers
  <2> HIDE DEF w, fires
  <2>5. CASE fires
    BY <2>2, <2>3, <2>4, <2>5
  <2>6. CASE ~fires
    BY <2>2, <2>3, <2>4, <2>6
  <2> QED
    BY <2>5, <2>6
<1> QED
  BY <1>1, <1>2

ReplaySteps(tr, t) ==
  /\ \A n \in 0 .. Len(t) : ReplayIn(tr, t)[n] \in RegisterValues
  /\ \A n \in 1 .. Len(t) :
       ReplayIn(tr, t)[n] = AfterAccess(tr, ReplayIn(tr, t)[n - 1], t[n].request.req)

\* They are values, and each comes from the one before by an access.
LEMMA ReplayTyped ==
  ASSUME NEW tr, NEW t \in Seq(Tx), \A i \in 1 .. Len(t) : t[i].request.req \in Requests
  PROVE  ReplaySteps(tr, t)
<1>1. Len(t) \in Nat
  OBVIOUS
<1>2. \A n \in 0 .. Len(t) : ReplayIn(tr, t)[n] =
        IF n = 0 THEN ResetValues ELSE AfterAccess(tr, ReplayIn(tr, t)[n - 1], t[n].request.req)
  BY <1>1, ReplayUnroll
<1> DEFINE R(n) == ReplayIn(tr, t)[n]
           S == {n \in Nat : n \in 0 .. Len(t) => R(n) \in RegisterValues}
<1> HIDE DEF R
<1>3. 0 \in S
  <2>1. R(0) = ResetValues
    BY <1>1, <1>2 DEF R
  <2> QED
    BY <2>1, ResetTyped
<1>4. ASSUME NEW n \in Nat, n \in S PROVE n + 1 \in S
  <2> SUFFICES ASSUME n + 1 \in 0 .. Len(t) PROVE R(n + 1) \in RegisterValues
    OBVIOUS
  <2>1. n \in 0 .. Len(t) /\ n + 1 \in 1 .. Len(t) /\ n + 1 # 0 /\ n + 1 - 1 = n
    BY <1>1
  <2>2. R(n) \in RegisterValues /\ t[n + 1].request.req \in Requests
    BY <1>4, <2>1
  <2>3. R(n + 1) = AfterAccess(tr, R(n), t[n + 1].request.req)
    BY <1>2, <2>1 DEF R
  <2> QED
    BY <2>2, <2>3, RegistersTyped
<1>5. Nat \subseteq S
  BY <1>3, <1>4, NatSet
<1>6. \A n \in 0 .. Len(t) : R(n) \in RegisterValues
  BY <1>1, <1>5
<1>7. \A n \in 1 .. Len(t) : R(n) = AfterAccess(tr, R(n - 1), t[n].request.req)
  BY <1>1, <1>2 DEF R
<1> QED
  BY <1>6, <1>7 DEF ReplaySteps, R

\* The requests of the transactions are those that were on the bus.
LEMMA AnomalyLocatedHolds == IInv => AnomalyLocated
<1> SUFFICES ASSUME IInv, Parsed PROVE AnomalyLocated
  BY DEF AnomalyLocated
<1>1. stored.events = log
  BY ParsedIsWhole
<1> DEFINE p == Reader!Parse(log)
           t == p.txs
<1>2. Txs = t /\ Samples = SamplesOf(log)
  BY <1>1 DEF Txs, Samples, SamplesOf
<1>3. PICK first \in 0 .. cycle, upto \in {cycle - 1, cycle} : Stage(tree, log, Knows, first, cycle, upto)
  BY ParsedFacts
<1>4. cycle \in Nat
  BY DEF IInv, TypeOK
<1>5. /\ t \in Seq(Tx) /\ Len(t) \in Nat /\ DOMAIN t = 1 .. Len(t)
      /\ \A j \in 1 .. Len(t) : t[j].request.cycle \in first + 1 .. cycle - 1
      /\ \A j, k \in 1 .. Len(t) : j < k => t[j].request.cycle < t[k].request.cycle
      /\ \A j \in 1 .. Len(t) : t[j].request.req \in Requests
      /\ p.sampled = first .. upto
      /\ \A d : d \in p.sampled <=> \E x \in SamplesOf(log) : x.cycle = d
  <2>1. Reads(p, log, first, cycle, upto)
    BY <1>3 DEF Stage
  <2>2. t \in Seq(Tx)
    BY <2>1 DEF Reads, Ordered
  <2>3. Len(t) \in Nat /\ DOMAIN t = 1 .. Len(t)
    BY <2>2
  <2>5. \A j \in 1 .. Len(t) : t[j].request.req \in Requests
    BY <2>1, <2>3 DEF Reads, Ordered
  <2> QED
    BY <2>1, <2>2, <2>3, <2>5 DEF Reads, Ordered, Sampling
<1> HIDE DEF p, t
<1>6. ASSUME NEW i \in DOMAIN t, NEW c \in {t[i].request.cycle - 1, t[i].request.cycle}
      PROVE  \E x \in Samples : x.cycle = c
  <2>1. c \in first .. upto
    BY <1>4, <1>5
  <2> QED
    BY <1>2, <1>5, <2>1
<1>7. ASSUME NEW before \in Samples, NEW after \in Samples, after.cycle = before.cycle + 1
      PROVE  after.regs["STATUS"] = DEAD
               <=> \/ before.regs["STATUS"] = DEAD
                   \/ \E i \in DOMAIN t : /\ t[i].request.cycle = after.cycle
                                          /\ Triggers(before.regs, t[i].request.req)
  <2>1. PICK c \in Nat : c = after.cycle /\ c - 1 = before.cycle
    <3>1. after.cycle \in first .. upto /\ before.cycle \in first .. upto
      BY <1>2, <1>5
    <3> QED
      BY <1>4, <1>7, <3>1
  <2>2. /\ after.regs = ReplayIn(tree, t)[Count(t, c)]
        /\ before.regs = ReplayIn(tree, t)[Count(t, c - 1)]
    BY <1>2, <2>1, ReplayRead
  <2>3. CASE ~\E i \in 1 .. Len(t) : t[i].request.cycle = c
    <3>1. \A i \in DOMAIN t : t[i].request.cycle <= c <=> t[i].request.cycle <= c - 1
      <4> TAKE i \in DOMAIN t
      <4>1. t[i].request.cycle \in Nat /\ t[i].request.cycle # c
        BY <1>4, <1>5, <2>3
      <4> QED
        BY <2>1, <4>1
    <3>2. {i \in DOMAIN t : t[i].request.cycle <= c} = {i \in DOMAIN t : t[i].request.cycle <= c - 1}
      BY <3>1
    <3>3. Count(t, c) = Count(t, c - 1)
      BY <3>2 DEF Count
    <3> QED
      BY <1>5, <2>1, <2>2, <2>3, <3>3
  <2>4. ASSUME NEW i \in 1 .. Len(t), t[i].request.cycle = c
        PROVE  after.regs["STATUS"] = DEAD
                 <=> before.regs["STATUS"] = DEAD \/ Triggers(before.regs, t[i].request.req)
    <3>1. \A j \in 1 .. Len(t) :
             /\ t[j].request.cycle <= c <=> j <= i
             /\ t[j].request.cycle <= c - 1 <=> j <= i - 1
      <4> TAKE j \in 1 .. Len(t)
      <4>1. t[j].request.cycle \in Nat /\ c \in Nat /\ i \in Nat /\ j \in Nat
        BY <1>4, <1>5, <2>1
      <4>2. CASE j < i
        <5>1. t[j].request.cycle < c
          BY <1>5, <2>4, <4>2
        <5> QED
          BY <4>1, <4>2, <5>1
      <4>3. CASE j = i
        BY <2>4, <4>1, <4>3
      <4>4. CASE i < j
        <5>1. c < t[j].request.cycle
          BY <1>5, <2>4, <4>4
        <5> QED
          BY <4>1, <4>4, <5>1
      <4> QED
        BY <4>1, <4>2, <4>3, <4>4
    <3>2. Count(t, c) = i
      <4>1. t \in Seq(Tx) /\ i \in 0 .. Len(t)
        BY <1>5
      <4>2. \A j \in 1 .. Len(t) : t[j].request.cycle <= c <=> j <= i
        BY <3>1
      <4> QED
        BY <4>1, <4>2, CountPrefix
    <3>3. Count(t, c - 1) = i - 1
      <4>1. t \in Seq(Tx) /\ i - 1 \in 0 .. Len(t)
        BY <1>5
      <4>2. \A j \in 1 .. Len(t) : t[j].request.cycle <= c - 1 <=> j <= i - 1
        BY <3>1
      <4> QED
        BY <4>1, <4>2, CountPrefix
    <3>4. /\ ReplayIn(tree, t)[i - 1] \in RegisterValues
          /\ ReplayIn(tree, t)[i] = AfterAccess(tree, ReplayIn(tree, t)[i - 1], t[i].request.req)
          /\ t[i].request.req \in Requests
      <4>1. ReplaySteps(tree, t)
        BY <1>5, ReplayTyped
      <4>2. i - 1 \in 0 .. Len(t)
        BY <1>5
      <4> QED
        BY <1>5, <4>1, <4>2 DEF ReplaySteps
    <3> QED
      BY <2>2, <3>2, <3>3, <3>4, OnlyTrigger
  <2>5. ASSUME NEW i \in 1 .. Len(t), NEW j \in 1 .. Len(t),
               t[i].request.cycle = c, t[j].request.cycle = c
        PROVE  i = j
    <3>1. t[i].request.cycle \in Nat
      BY <2>1, <2>5
    <3>2. ~(i < j) /\ ~(j < i)
      <4>1. i < j => t[i].request.cycle < t[j].request.cycle
        BY <1>5
      <4>2. j < i => t[j].request.cycle < t[i].request.cycle
        BY <1>5
      <4> QED
        BY <2>5, <3>1, <4>1, <4>2
    <3> QED
      BY <1>5, <3>2
  <2>6. CASE \E i \in 1 .. Len(t) : t[i].request.cycle = c
    <3>1. PICK i \in 1 .. Len(t) : t[i].request.cycle = c
      BY <2>6
    <3> QED
      BY <1>5, <2>1, <2>4, <2>5, <3>1
  <2> QED
    BY <2>3, <2>6
<1> QED
  BY <1>2, <1>6, <1>7 DEF AnomalyLocated

-----------------------------------------------------------------------------
\* A trace that parses describes one execution of the register file: every
\* answer and every sample is that of a replay of its requests, in order and
\* from reset (synthetic_mmio.sv and parse_apparatus_trace together).
THEOREM ParsedReplays == SystemSpec => []ParsedTraceReplays
BY ApparatusInvariant, ParsedTraceReplaysHolds, PTL

\* A trace that parses comes from a run that ended by itself, after its stop,
\* in its only reset epoch and with nothing in flight, and lists every access.
THEOREM ParsedIsWholeRun == SystemSpec => []ParsedTraceIsWholeRun
BY ApparatusInvariant, ParsedTraceIsWholeRunHolds, PTL

\* Conversely, the monitor and the reader agree on what a complete run is.
THEOREM CompleteParses == SystemSpec => []CompleteRunParses
BY ApparatusInvariant, CompleteRunParsesHolds, PTL

\* The samples before and at a request that parses exist, and from one sample to the
\* next STATUS becomes anomalous exactly for a trigger that the Variant accepts while
\* it is enabled.
THEOREM AnomalyIsLocated == SystemSpec => []AnomalyLocated
BY ApparatusInvariant, AnomalyLocatedHolds, PTL

\* A record lost, repeated or exchanged never goes unnoticed.
THEOREM DamageIsDetected == SystemSpec => []DamageDetected
BY ApparatusInvariant, DamageDetectedHolds, PTL
=============================================================================
