------------------------- MODULE TraceReaderProofs -------------------------
(***************************************************************************)
(* What the reader of the apparatus trace guarantees for every file: for   *)
(* every set of event records, every footer and every bound on cycles.     *)
(***************************************************************************)
EXTENDS TraceReader, TLAPS

StateType ==
  [ok : {TRUE}, read : Nat, pending : SUBSET EventType,
   seen : SUBSET Nat, sampled : SUBSET Nat, epoch : Nat,
   reset : BOOLEAN, last : Nat, stop : Nat \cup {-1},
   releases : Seq(Nat), txs : Seq(Transaction)]

LEMMA StartTyped == Init => ReaderInv
BY DEF Init, Start, ReaderInv, TypeOK, TransactionsSound, TransactionsOrdered,
       PendingSound, Transaction

\* A response is paired with a request that is open.
LEMMA AnsweredIsOpen ==
  ASSUME NEW p \in StateType, NEW e \in EventType, Admits(p, e),
         e.phase = "response"
  PROVE  /\ Answered(p, e) \in p.pending
         /\ Answered(p, e) \in EventType
         /\ Answers(Answered(p, e), e)
<1>1. PICK x \in p.pending : Answers(x, e)
  BY DEF Admits
<1>2. Answered(p, e) \in p.pending /\ Answers(Answered(p, e), e)
  BY <1>1 DEF Answered
<1> QED
  BY <1>2 DEF StateType

\* An admitted event keeps the parser's variables typed.
LEMMA AfterTyped ==
  ASSUME NEW p \in StateType, NEW e \in EventType, Admits(p, e)
  PROVE  After(p, e) \in StateType
<1>1. e.tid \in Nat /\ e.cycle \in Nat
  BY DEF EventType
<1>2. p.txs \in Seq(Transaction) /\ p.pending \in SUBSET EventType
  BY DEF StateType
<1>3. /\ After(p, e).txs \in Seq(Transaction)
      /\ After(p, e).pending \in SUBSET EventType
  <2>1. CASE e.phase = "response"
    <3>1. [request |-> Answered(p, e), response |-> e] \in Transaction
      BY <2>1, AnsweredIsOpen DEF Transaction
    <3> QED
      BY <2>1, <3>1, <1>2 DEF After
  <2>2. CASE e.phase # "response"
    BY <2>2, <1>2 DEF After
  <2> QED
    BY <2>1, <2>2
<1>4. /\ After(p, e).epoch \in Nat /\ After(p, e).read \in Nat
      /\ After(p, e).last \in Nat /\ After(p, e).stop \in Nat \cup {-1}
      /\ After(p, e).reset \in BOOLEAN
  BY <1>1 DEF After, StateType
<1>5. /\ After(p, e).seen \in SUBSET Nat /\ After(p, e).sampled \in SUBSET Nat
      /\ After(p, e).releases \in Seq(Nat)
  BY <1>1 DEF After, StateType
<1> QED
  BY <1>3, <1>4, <1>5 DEF After, StateType

\* Identifiers are never forgotten and the last cycle never goes back, so what
\* was sound of a request or a transaction stays sound.
LEMMA ReadMonotone ==
  ASSUME ReaderInv, NEW e \in Events, Read(e)
  PROVE  /\ s \in StateType /\ s' \in StateType /\ e \in EventType
         /\ s.seen \subseteq s'.seen /\ s.last <= s'.last /\ s'.last = e.cycle
         /\ TypeOK'
<1>1. s \in StateType /\ e \in EventType
  BY ReaderAssumption DEF ReaderInv, TypeOK, StateType
<1>2. s' = After(s, e) /\ Admits(s, e) /\ outcome' = outcome
  BY DEF Read
<1>3. s' \in StateType
  BY <1>1, <1>2, AfterTyped
<1>4. s.seen \subseteq s'.seen /\ s.last <= s'.last /\ s'.last = e.cycle
  BY <1>2 DEF After, Admits, InOrder
<1>5. TypeOK'
  BY <1>2, <1>3 DEF TypeOK, StateType, ReaderInv
<1> QED
  BY <1>1, <1>3, <1>4, <1>5

LEMMA TransactionFields ==
  ASSUME NEW t \in Seq(Transaction), NEW i \in DOMAIN t
  PROVE  /\ t[i].request.cycle \in Nat /\ t[i].response.cycle \in Nat
         /\ t[i].request.tid \in Nat
  <1>1. t[i] \in Transaction
    OBVIOUS
  <1>2. t[i].request \in EventType /\ t[i].response \in EventType
    BY <1>1 DEF Transaction
  <1> QED
    BY <1>2 DEF EventType

LEMMA SoundStaysSound ==
  ASSUME ReaderInv, NEW e \in Events, Read(e), NEW i \in DOMAIN s.txs
  PROVE  TransactionSound(s', s.txs[i])
<1>1. /\ s \in StateType /\ s' \in StateType
      /\ s.seen \subseteq s'.seen /\ s.last <= s'.last
  BY ReadMonotone
<1>2. s.last \in Nat /\ s'.last \in Nat /\ s.txs \in Seq(Transaction)
  BY <1>1 DEF StateType
<1>3. s.txs[i].response.cycle \in Nat
  BY <1>2, TransactionFields
<1>4. TransactionSound(s, s.txs[i])
  BY DEF ReaderInv, TransactionsSound
<1> QED
  BY <1>1, <1>2, <1>3, <1>4 DEF TransactionSound, RequestSound

\* A new request opens after every transaction has completed.
LEMMA RequestStep ==
  ASSUME ReaderInv, NEW e \in Events, Read(e), e.phase = "request"
  PROVE  TransactionsSound' /\ TransactionsOrdered' /\ PendingSound'
<1>1. /\ s \in StateType /\ s' \in StateType /\ e \in EventType
      /\ s.seen \subseteq s'.seen /\ s.last <= s'.last /\ s'.last = e.cycle
  BY ReadMonotone
<1>2. s' = After(s, e) /\ Admits(s, e)
  BY DEF Read
<1>3. /\ s'.txs = s.txs /\ s'.pending = {e} /\ s'.seen = s.seen \cup {e.tid}
  BY <1>2 DEF After
<1>4. /\ e.tid > 0 /\ e.tid \notin s.seen /\ e.req # NoRequest
      /\ e.req.addr \in Window /\ e.epoch = s.epoch /\ s.epoch > 0 /\ s.last <= e.cycle
  BY <1>2 DEF Admits, RequestAdmitted, ResetAgrees, InOrder
<1>5. e.req \in Requests
  BY <1>1, <1>4 DEF EventType
<1>6. s.txs \in Seq(Transaction) /\ s.last \in Nat /\ e.cycle \in Nat
  BY <1>1 DEF StateType, EventType
<1>7. TransactionsSound'
  BY <1>3, SoundStaysSound DEF TransactionsSound
<1>8. TransactionsOrdered'
  BY <1>3 DEF ReaderInv, TransactionsOrdered
<1>9. ASSUME NEW i \in DOMAIN s.txs
      PROVE  s.txs[i].request.cycle < e.cycle /\ s.txs[i].request.tid # e.tid
  <2>1. TransactionSound(s, s.txs[i])
    BY DEF ReaderInv, TransactionsSound
  <2>2. s.txs[i].request.cycle \in Nat /\ s.txs[i].response.cycle \in Nat
    BY <1>6, TransactionFields
  <2> QED
    BY <2>1, <2>2, <1>4, <1>6 DEF TransactionSound, RequestSound
<1>10. PendingSound'
  BY <1>1, <1>3, <1>4, <1>5, <1>9 DEF PendingSound, RequestSound, EventType
<1> QED
  BY <1>7, <1>8, <1>10

\* A response closes the only open request, which then is the latest of the
\* transactions.
LEMMA ResponseStep ==
  ASSUME ReaderInv, NEW e \in Events, Read(e), e.phase = "response"
  PROVE  TransactionsSound' /\ TransactionsOrdered' /\ PendingSound'
<1>1. /\ s \in StateType /\ s' \in StateType /\ e \in EventType
      /\ s.seen \subseteq s'.seen /\ s.last <= s'.last /\ s'.last = e.cycle
  BY ReadMonotone
<1>2. s' = After(s, e) /\ Admits(s, e)
  BY DEF Read
<1> DEFINE q == Answered(s, e)
           tx == [request |-> q, response |-> e]
<1>3. q \in s.pending /\ q \in EventType /\ Answers(q, e)
  BY <1>1, <1>2, AnsweredIsOpen
<1>4. /\ s'.txs = Append(s.txs, tx) /\ s'.pending = s.pending \ {q} /\ s'.seen = s.seen
  BY <1>2 DEF After
<1> HIDE DEF q
<1>5. /\ RequestSound(s, q) /\ s.pending = {q}
      /\ \A i \in DOMAIN s.txs : /\ s.txs[i].request.cycle < q.cycle
                                 /\ s.txs[i].request.tid # q.tid
  BY <1>3 DEF ReaderInv, PendingSound
<1>6. s.txs \in Seq(Transaction)
  BY <1>1 DEF StateType
<1>7. \A i \in DOMAIN s'.txs :
        \/ (i \in DOMAIN s.txs /\ s'.txs[i] = s.txs[i])
        \/ (i = Len(s.txs) + 1 /\ s'.txs[i] = tx)
  BY <1>4, <1>6
<1>8. TransactionSound(s', tx)
  <2>1. tx.request = q /\ tx.response = e
    OBVIOUS
  <2>2. e.cycle \in Nat /\ q.cycle \in Nat
    BY <1>1, <1>3 DEF EventType
  <2> QED
    BY <1>1, <1>3, <1>4, <1>5, <2>1, <2>2 DEF TransactionSound, RequestSound, Answers
<1>9. ASSUME NEW i \in DOMAIN s.txs
      PROVE  TransactionSound(s', s.txs[i])
  BY SoundStaysSound
<1>10. TransactionsSound'
  BY <1>7, <1>8, <1>9 DEF TransactionsSound
<1>11. TransactionsOrdered'
  <2> SUFFICES ASSUME NEW i \in DOMAIN s'.txs, NEW j \in DOMAIN s'.txs, i < j
               PROVE  /\ s'.txs[i].request.cycle < s'.txs[j].request.cycle
                      /\ s'.txs[i].request.tid # s'.txs[j].request.tid
    BY DEF TransactionsOrdered
  <2>1. i \in DOMAIN s.txs /\ s'.txs[i] = s.txs[i]
    BY <1>4, <1>6, <1>7
  <2>2. CASE j \in DOMAIN s.txs /\ s'.txs[j] = s.txs[j]
    BY <2>1, <2>2 DEF ReaderInv, TransactionsOrdered
  <2>3. CASE s'.txs[j] = tx
    BY <2>1, <2>3, <1>5
  <2> QED
    BY <2>2, <2>3, <1>7
<1>12. PendingSound'
  BY <1>4, <1>5 DEF PendingSound
<1> QED
  BY <1>10, <1>11, <1>12

\* Every other event leaves transactions and the open request alone.
LEMMA OtherStep ==
  ASSUME ReaderInv, NEW e \in Events, Read(e),
         e.phase \notin {"request", "response"}
  PROVE  TransactionsSound' /\ TransactionsOrdered' /\ PendingSound'
<1>1. /\ s \in StateType /\ s' \in StateType
      /\ s.seen \subseteq s'.seen /\ s.last <= s'.last
  BY ReadMonotone
<1>2. s'.txs = s.txs /\ s'.pending = s.pending /\ s'.seen = s.seen
  BY DEF Read, After
<1>4. TransactionsSound'
  BY <1>2, SoundStaysSound DEF TransactionsSound
<1>5. TransactionsOrdered'
  BY <1>2 DEF ReaderInv, TransactionsOrdered
<1>6. \A q \in s.pending : q \in EventType
  BY <1>1 DEF StateType
<1>7. PendingSound'
  BY <1>1, <1>2, <1>6 DEF ReaderInv, PendingSound, RequestSound, StateType, EventType
<1> QED
  BY <1>4, <1>5, <1>7

\* The transactions that the reader has paired are sound and in strict order
\* whatever records it is given (parse_apparatus_trace).
THEOREM ReaderInvariant == Spec => []ReaderInv
<1>1. ReaderInv /\ [Next]_vars => ReaderInv'
  <2> SUFFICES ASSUME ReaderInv, [Next]_vars
               PROVE  ReaderInv'
    OBVIOUS
  <2>1. ASSUME NEW e \in Events, Read(e)
        PROVE  ReaderInv'
    <3>1. TypeOK'
      BY <2>1, ReadMonotone
    <3>2. CASE e.phase = "request"
      BY <2>1, <3>1, <3>2, RequestStep DEF ReaderInv
    <3>3. CASE e.phase = "response"
      BY <2>1, <3>1, <3>3, ResponseStep DEF ReaderInv
    <3>4. CASE e.phase \notin {"request", "response"}
      BY <2>1, <3>1, <3>4, OtherStep DEF ReaderInv
    <3> QED
      BY <3>2, <3>3, <3>4
  <2>2. ASSUME s' = s, outcome' \in {"reading", "parsed", "rejected"}
        PROVE  ReaderInv'
    BY <2>2 DEF ReaderInv, TypeOK, TransactionsSound, TransactionSound,
       TransactionsOrdered, PendingSound, RequestSound
  <2>3. ASSUME NEW e \in Events, Reject(e)
        PROVE  ReaderInv'
    BY <2>2, <2>3 DEF Reject
  <2>4. ASSUME NEW f \in Footers, End(f)
        PROVE  ReaderInv'
    BY <2>2, <2>4 DEF End
  <2>5. CASE UNCHANGED vars
    BY <2>2, <2>5 DEF vars, ReaderInv, TypeOK
  <2> QED
    BY <2>1, <2>3, <2>4, <2>5 DEF Next
<1> QED
  BY StartTyped, <1>1, PTL DEF Spec

\* The validators of RuntimeMmioObservation and of the observation set accept
\* everything that the parser does, error transactions aside.
THEOREM ObservationsAdmitted == Spec => []ParsedObservationsAdmitted
<1>1. ReaderInv => ParsedObservationsAdmitted
  <2> SUFFICES ASSUME ReaderInv
               PROVE  ObservationSetAdmitted(Observations(s.txs))
    BY DEF ParsedObservationsAdmitted
  <2>1. s.txs \in Seq(Transaction)
    BY DEF ReaderInv, TypeOK
  <2>2. DOMAIN Observations(s.txs) = DOMAIN s.txs
    BY DEF Observations
  <2>3. ASSUME NEW i \in DOMAIN s.txs
        PROVE  ObservationAdmitted(Observations(s.txs)[i])
    <3>1. TransactionSound(s, s.txs[i])
      BY <2>3 DEF ReaderInv, TransactionsSound
    <3> QED
      BY <3>1, <2>3 DEF TransactionSound, RequestSound, ObservationAdmitted,
         Observations, Observation
  <2>4. ASSUME NEW i \in DOMAIN s.txs, NEW j \in DOMAIN s.txs, i < j
        PROVE  /\ Observations(s.txs)[i].requestCycle < Observations(s.txs)[j].requestCycle
               /\ Observations(s.txs)[i].tid # Observations(s.txs)[j].tid
    BY <2>4 DEF ReaderInv, TransactionsOrdered, Observations, Observation
  <2> QED
    BY <2>2, <2>3, <2>4 DEF ObservationSetAdmitted
<1> QED
  BY <1>1, ReaderInvariant, PTL
=============================================================================
