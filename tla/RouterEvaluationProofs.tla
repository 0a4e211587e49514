----------------------- MODULE RouterEvaluationProofs -----------------------
(***************************************************************************)
(* The safety properties of RouterEvaluation for any number of rows, lost  *)
(* connections, ends of the Node and changes of the facts, and for any     *)
(* budget, reservation and number of retries.                              *)
(*                                                                         *)
(* The inductive invariant says what the two sides may know of each other: *)
(* a row that any frame or the journal names has its reservation (Known);  *)
(* what the Node holds of an attempt fits what its journal says (Node);    *)
(* an answer said to come from before the model was asked is of a process  *)
(* that is gone for good (Never); and a completed answer on its way has    *)
(* the heartbeat with its start before it (Frames).                        *)
(***************************************************************************)
EXTENDS RouterEvaluation, FiniteSetTheorems, TLAPS

\* The attempt is over and did not reach the model.
Never(e) ==
    /\ calls[e] = 0 /\ broker[e] \in {"none", "gone"} /\ memory[e] \in {"none", "finishing"}
    /\ journal[e].state \in {"result", "acked"}

Dispatched == {e \in Evaluation : settled[e] # "none"}
Decided    == {e \in Evaluation : settled[e] \in {"zero", "charged"}}
Silent     == {e \in Evaluation : Never(e)}
Told       == {e \in Evaluation : row[e].started \/ e \in refused}

\* A reservation is made with the dispatch and settled after the end.
Reserved ==
    \A e \in Evaluation :
        /\ row[e].status \in {"unused", "queued"} => settled[e] = "none" /\ ~row[e].pre /\ ~row[e].started
        /\ row[e].status \in Active => settled[e] = "reserved"
        /\ e \in owed => row[e].status \in Terminal /\ settled[e] # "none"

\* What names an attempt comes after its dispatch, what acknowledges its result
\* after its settlement.
Known ==
    /\ \A e \in Evaluation : journal[e].state # "none" => e \in Dispatched
    /\ \A e \in Evaluation : journal[e].state = "acked" => e \in Decided
    /\ \A i \in DOMAIN down : down[i].eval \in Dispatched
    /\ \A i \in DOMAIN down : down[i].kind = "ack" => down[i].eval \in Decided

\* One attempt on the Node: what is in memory, the process and its journal entry.
Node(e) ==
    /\ journal[e].state = "none" => memory[e] = "none" /\ broker[e] = "none"
    /\ memory[e] \in {"preparing", "aborted", "spawned", "running", "waitsAck"} => journal[e].state = "active"
    /\ memory[e] = "finishing" => journal[e].state \in {"result", "acked"}
    /\ memory[e] \in {"preparing", "aborted"} => broker[e] = "none"
    /\ memory[e] = "spawned" => broker[e] = "fresh" /\ home[e]
    /\ broker[e] \in {"none", "fresh", "init", "read", "asked"} => calls[e] = 0
    /\ calls[e] <= 1
    /\ broker[e] \in {"asked", "calling"} => journal[e].started
    /\ broker[e] \in Alive \ {"fresh"} => journal[e].pid /\ home[e]
    /\ journal[e].result # "none" => journal[e].state = "result"
    /\ journal[e].result = "completed" => journal[e].started

NodeInv == \A e \in Evaluation : Node(e)

\* Where the answer "before the model was asked" is found, it is true.
PreTrue ==
    \A e \in Evaluation : journal[e].result = "pre" \/ row[e].pre \/ settled[e] = "zero" => e \in Silent

\* Frames on the way to the Hub: of attempts that were dispatched, "pre" only of
\* silent ones, and a completed answer has its start on record, turned down or
\* before it on the way.
Start(f, e) == f.kind = "heartbeat" /\ f.eval = e /\ f.started
Sound(s, dispatched, silent, told) ==
    \A i \in DOMAIN s :
        /\ s[i].eval \in dispatched
        /\ s[i].kind = "result" /\ s[i].result = "pre" => s[i].eval \in silent
        /\ s[i].kind = "result" /\ s[i].result = "completed" =>
              s[i].eval \in told \/ \E k \in 1..(i - 1) : Start(s[k], s[i].eval)

Frames == Sound(up, Dispatched, Silent, Told)

IInv ==
    /\ TypeOK /\ Reserved /\ Known /\ NodeInv /\ PreTrue /\ Frames
    /\ StartIsKnown /\ BudgetHolds

-----------------------------------------------------------------------------
(* Sequences of frames *)

\* The elements of a sequence over a set are in it, and so are those of its tail.
LEMMA Elements ==
    ASSUME NEW S, NEW s \in Seq(S)
    PROVE  /\ Len(s) \in Nat /\ DOMAIN s = 1..Len(s)
           /\ \A i \in DOMAIN s : s[i] \in S
OBVIOUS

\* A sequence without its head.
LEMMA Tailed ==
    ASSUME NEW S, NEW s \in Seq(S), s # <<>>
    PROVE  /\ Head(s) = s[1] /\ Head(s) \in S /\ 1 \in DOMAIN s
           /\ Tail(s) \in Seq(S) /\ Len(Tail(s)) = Len(s) - 1
           /\ \A i \in DOMAIN Tail(s) : i + 1 \in DOMAIN s /\ Tail(s)[i] = s[i + 1]
OBVIOUS

\* A sequence after another.
LEMMA Joined ==
    ASSUME NEW S, NEW s \in Seq(S), NEW t \in Seq(S)
    PROVE  /\ s \o t \in Seq(S) /\ Len(s \o t) = Len(s) + Len(t)
           /\ \A i \in DOMAIN s : (s \o t)[i] = s[i]
           /\ \A i \in DOMAIN t : (s \o t)[Len(s) + i] = t[i]
           /\ \A i \in DOMAIN (s \o t) : i \in DOMAIN s \/ (i - Len(s)) \in DOMAIN t
OBVIOUS

\* An element more.
LEMMA Extended ==
    ASSUME NEW S, NEW s \in Seq(S), NEW x \in S
    PROVE  /\ Append(s, x) \in Seq(S) /\ Len(Append(s, x)) = Len(s) + 1
           /\ \A i \in DOMAIN Append(s, x) : i \in DOMAIN s \/ i = Len(s) + 1
           /\ \A i \in DOMAIN s : Append(s, x)[i] = s[i]
           /\ Append(s, x)[Len(s) + 1] = x
OBVIOUS

\* Frames stay sound while more is known.
LEMMA SoundMore ==
    ASSUME NEW s, NEW d1, NEW n1, NEW t1, NEW d2, NEW n2, NEW t2,
           Sound(s, d1, n1, t1), d1 \subseteq d2, n1 \subseteq n2, t1 \subseteq t2
    PROVE  Sound(s, d2, n2, t2)
BY DEF Sound

\* Sound frames after sound frames are sound.
LEMMA SoundJoined ==
    ASSUME NEW s \in Seq(Upstream), NEW f \in Seq(Upstream), NEW d, NEW n, NEW t,
           Sound(s, d, n, t), Sound(f, d, n, t)
    PROVE  Sound(s \o f, d, n, t)
<1> DEFINE r == s \o f
<1>1. /\ r \in Seq(Upstream) /\ Len(r) = Len(s) + Len(f)
      /\ \A i \in DOMAIN s : r[i] = s[i]
      /\ \A i \in DOMAIN f : r[Len(s) + i] = f[i]
      /\ \A i \in DOMAIN r : i \in DOMAIN s \/ (i - Len(s)) \in DOMAIN f
  BY Joined
<1>2. Len(s) \in Nat /\ DOMAIN s = 1..Len(s) /\ Len(f) \in Nat /\ DOMAIN f = 1..Len(f)
  BY Elements
<1> HIDE DEF r
<1> SUFFICES ASSUME NEW i \in DOMAIN r
             PROVE  /\ r[i].eval \in d
                    /\ r[i].kind = "result" /\ r[i].result = "pre" => r[i].eval \in n
                    /\ r[i].kind = "result" /\ r[i].result = "completed" =>
                          r[i].eval \in t \/ \E k \in 1..(i - 1) : Start(r[k], r[i].eval)
  BY DEF Sound, r
<1>3. CASE i \in DOMAIN s
  <2>1. r[i] = s[i] /\ \A k \in 1..(i - 1) : r[k] = s[k]
    BY <1>1, <1>2, <1>3
  <2> QED
    BY <1>3, <2>1 DEF Sound
<1>4. CASE (i - Len(s)) \in DOMAIN f
  <2> DEFINE j == i - Len(s)
  <2>a. i \in Int /\ j \in 1..Len(f) /\ i = Len(s) + j
    BY <1>1, <1>2, <1>4, Elements
  <2>b. r[i] = f[j] /\ j \in DOMAIN f
    BY <1>1, <1>2, <2>a
  <2>c. ASSUME NEW k \in 1..(j - 1) PROVE r[Len(s) + k] = f[k] /\ (Len(s) + k) \in 1..(i - 1)
    <3>1. k \in DOMAIN f /\ k >= 1 /\ k <= j - 1
      BY <1>2, <2>a
    <3> QED
      BY <1>1, <1>2, <2>a, <3>1
  <2>1. r[i] = f[j] /\ j \in DOMAIN f /\ \A k \in 1..(j - 1) : r[Len(s) + k] = f[k] /\ (Len(s) + k) \in 1..(i - 1)
    BY <2>b, <2>c
  <2> HIDE DEF j
  <2> QED
    BY <2>1 DEF Sound
<1> QED
  BY <1>1, <1>3, <1>4

\* What is left after the head is sound, if the head is a start that got known
\* or no start at all.
LEMMA SoundTail ==
    ASSUME NEW s \in Seq(Upstream), s # <<>>, NEW d, NEW n, NEW t, Sound(s, d, n, t),
           \A e \in Evaluation : Start(Head(s), e) => e \in t
    PROVE  Sound(Tail(s), d, n, t)
<1> DEFINE r == Tail(s)
<1>1. Len(r) = Len(s) - 1 /\ r \in Seq(Upstream) /\ \A i \in DOMAIN r : i + 1 \in DOMAIN s /\ r[i] = s[i + 1]
  BY Tailed
<1>2. Head(s) = s[1] /\ Len(s) \in Nat /\ DOMAIN s = 1..Len(s) /\ DOMAIN r = 1..Len(r) /\ Len(r) \in Nat
  BY Tailed, Elements, <1>1
<1> HIDE DEF r
<1> SUFFICES ASSUME NEW i \in DOMAIN r
             PROVE  /\ r[i].eval \in d
                    /\ r[i].kind = "result" /\ r[i].result = "pre" => r[i].eval \in n
                    /\ r[i].kind = "result" /\ r[i].result = "completed" =>
                          r[i].eval \in t \/ \E k \in 1..(i - 1) : Start(r[k], r[i].eval)
  BY DEF Sound, r
<1>3. r[i] = s[i + 1] /\ i + 1 \in DOMAIN s /\ r[i] \in Upstream
  BY <1>1, Elements
<1>4. ASSUME r[i].kind = "result", r[i].result = "completed", r[i].eval \notin t
      PROVE  \E k \in 1..(i - 1) : Start(r[k], r[i].eval)
  <2>1. PICK k \in 1..((i + 1) - 1) : Start(s[k], r[i].eval)
    BY <1>3, <1>4 DEF Sound
  <2>2. r[i].eval \in Evaluation
    BY <1>3 DEF Upstream
  <2>3. k # 1
    BY <1>2, <1>4, <2>1, <2>2
  <2>a. i \in 1..Len(r) /\ k - 1 \in 1..(i - 1)
    BY <1>2, <2>3
  <2>b. k - 1 \in DOMAIN r /\ (k - 1) + 1 = k
    BY <1>2, <2>a
  <2>4. k - 1 \in 1..(i - 1) /\ r[k - 1] = s[k]
    BY <1>1, <2>a, <2>b
  <2> QED
    BY <2>1, <2>4
<1> QED
  BY <1>3, <1>4 DEF Sound

\* The rows of a state, in some order.
LEMMA InSomeOrder ==
    ASSUME NEW S, IsFiniteSet(S)
    PROVE  SetToSeq(S) \in Seq(S)
<1>1. \E f \in [1..Cardinality(S) -> S] : IsInjective(f)
  <2>1. PICK f : f \in Bijection(1..Cardinality(S), S)
    BY FS_CardinalityType DEF ExistsBijection
  <2> QED
    BY <2>1 DEF Bijection, Injection, IsInjective
<1>2. SetToSeq(S) \in [1..Cardinality(S) -> S]
  BY <1>1 DEF SetToSeq
<1>3. Cardinality(S) \in Nat
  BY FS_CardinalityType
<1> QED
  BY <1>2, <1>3

\* What is flushed of one entry is sound if the entry is.
LEMMA FlushSound ==
    ASSUME NEW e \in Evaluation, NEW j \in [Evaluation -> Entry], NEW d, NEW n, NEW t,
           e \in d, j[e].result = "pre" => e \in n, j[e].result = "completed" => j[e].started
    PROVE  Flush(e, j) \in Seq(Upstream) /\ Sound(Flush(e, j), d, n, t)
<1> DEFINE h == Heartbeat(e, j)
           r == Result(e, j)
<1>1. h \in Upstream /\ r \in Upstream
  BY DEF Heartbeat, Result, Upstream, Entry
<1>2. /\ h.kind = "heartbeat" /\ h.eval = e /\ h.started = j[e].started
      /\ r.kind = "result" /\ r.eval = e /\ r.result = j[e].result
  BY DEF Heartbeat, Result
<1>3. Flush(e, j) = <<h>> \/ Flush(e, j) = <<h, r>>
  BY DEF Flush
<1> HIDE DEF h, r
<1>4. <<h>> \in Seq(Upstream) /\ <<h, r>> \in Seq(Upstream)
  BY <1>1
<1>5. Sound(<<h>>, d, n, t)
  BY <1>2 DEF Sound
<1>6. Sound(<<h, r>>, d, n, t)
  <2> DEFINE s == <<h, r>>
  <2>1. DOMAIN s = 1..2 /\ s[1] = h /\ s[2] = r
    OBVIOUS
  <2>2. j[e].started => Start(s[1], e)
    BY <1>2, <2>1 DEF Start
  <2>3. 1 \in 1..(2 - 1)
    OBVIOUS
  <2> HIDE DEF s
  <2>4. \A i \in DOMAIN s : i = 1 \/ i = 2
    BY <2>1
  <2>5. Sound(s, d, n, t)
    BY <1>2, <2>1, <2>2, <2>3, <2>4 DEF Sound
  <2> QED
    BY <2>5 DEF s
<1> QED
  BY <1>3, <1>4, <1>5, <1>6

EntriesSound(d, n) ==
    \A e \in Evaluation : /\ journal[e].state # "none" => e \in d
                          /\ journal[e].result = "pre" => e \in n
                          /\ journal[e].result = "completed" => journal[e].started

\* What a reconnection flushes is sound if every entry is.
LEMMA FlushAllSound ==
    ASSUME TypeOK, NEW d, NEW n, NEW t
    PROVE  /\ FlushAll \in Seq(Upstream)
           /\ EntriesSound(d, n) => Sound(FlushAll, d, n, t)
<1> DEFINE S(x) == {e \in Evaluation : journal[e].state = x}
           a == Unacked("active")
           r == Unacked("result")
           f == [i \in 1..Len(a) |-> Heartbeat(a[i], journal)]
           g == [i \in 1..(2 * Len(r)) |-> IF i % 2 = 1 THEN Heartbeat(r[(i + 1) \div 2], journal)
                                           ELSE Result(r[i \div 2], journal)]
<1>0. journal \in [Evaluation -> Entry]
  BY DEF TypeOK
<1>1. a \in Seq(S("active")) /\ r \in Seq(S("result"))
  <2>1. IsFiniteSet(S("active")) /\ IsFiniteSet(S("result"))
    BY RouterAssumption, FS_Subset
  <2> QED
    BY <2>1, InSomeOrder DEF Unacked
<1>2. /\ Len(a) \in Nat /\ \A i \in 1..Len(a) : a[i] \in Evaluation /\ journal[a[i]].state # "none"
      /\ Len(r) \in Nat /\ \A i \in 1..Len(r) : r[i] \in Evaluation /\ journal[r[i]].state # "none"
  BY <1>1, Elements
<1>3. FlushAll = f \o g
  BY DEF FlushAll
<1> HIDE DEF a, r, S
<1>4. \A e \in Evaluation :
         /\ Heartbeat(e, journal) \in Upstream /\ Result(e, journal) \in Upstream
         /\ Heartbeat(e, journal).kind = "heartbeat" /\ Heartbeat(e, journal).eval = e
         /\ Heartbeat(e, journal).started = journal[e].started
         /\ Result(e, journal).kind = "result" /\ Result(e, journal).eval = e
         /\ Result(e, journal).result = journal[e].result
  BY <1>0 DEF Heartbeat, Result, Upstream, Entry
<1>5. f \in Seq(Upstream) /\ (EntriesSound(d, n) => Sound(f, d, n, t))
  <2>1. f \in [1..Len(a) -> Upstream] /\ \A i \in 1..Len(a) : f[i].kind = "heartbeat" /\ (EntriesSound(d, n) => f[i].eval \in d)
    BY <1>2, <1>4 DEF EntriesSound
  <2>2. f \in Seq(Upstream) /\ DOMAIN f = 1..Len(a)
    BY <1>2, <2>1
  <2> HIDE DEF f
  <2> QED
    BY <2>1, <2>2 DEF Sound
<1>6. g \in Seq(Upstream) /\ (EntriesSound(d, n) => Sound(g, d, n, t))
  <2>1. ASSUME NEW i \in 1..(2 * Len(r))
        PROVE  \/ /\ i % 2 = 1 /\ (i + 1) \div 2 \in 1..Len(r)
                  /\ g[i] = Heartbeat(r[(i + 1) \div 2], journal)
               \/ /\ i \div 2 \in 1..Len(r) /\ g[i] = Result(r[i \div 2], journal)
                  /\ i - 1 \in 1..(2 * Len(r)) /\ g[i - 1] = Heartbeat(r[i \div 2], journal)
    <3>1. CASE i % 2 = 1
      <4>1. (i + 1) \div 2 \in 1..Len(r)
        BY <1>2, <3>1, Z3
      <4> QED
        BY <3>1, <4>1
    <3>2. CASE i % 2 # 1
      <4>a. i \div 2 \in 1..Len(r) /\ i - 1 \in 1..(2 * Len(r))
        BY <1>2, <3>2, Z3
      <4>b. (i - 1) % 2 = 1 /\ (i - 1) + 1 = i
        BY <1>2, <3>2, Z3
      <4>1. /\ i \div 2 \in 1..Len(r) /\ i - 1 \in 1..(2 * Len(r))
            /\ (i - 1) % 2 = 1 /\ ((i - 1) + 1) \div 2 = i \div 2
        BY <4>a, <4>b
      <4> QED
        BY <3>2, <4>1
    <3> QED
      BY <3>1, <3>2
  <2>2. DOMAIN g = 1..(2 * Len(r))
    OBVIOUS
  <2> HIDE DEF g
  <2>3. ASSUME NEW i \in DOMAIN g
        PROVE  /\ g[i] \in Upstream
               /\ EntriesSound(d, n) =>
                     /\ g[i].eval \in d
                     /\ g[i].kind = "result" /\ g[i].result = "pre" => g[i].eval \in n
                     /\ g[i].kind = "result" /\ g[i].result = "completed" =>
                           \E k \in 1..(i - 1) : Start(g[k], g[i].eval)
    <3>1. CASE /\ i % 2 = 1 /\ (i + 1) \div 2 \in 1..Len(r)
               /\ g[i] = Heartbeat(r[(i + 1) \div 2], journal)
      BY <1>2, <1>4, <3>1 DEF EntriesSound
    <3>2. CASE /\ i \div 2 \in 1..Len(r) /\ g[i] = Result(r[i \div 2], journal)
               /\ i - 1 \in 1..(2 * Len(r)) /\ g[i - 1] = Heartbeat(r[i \div 2], journal)
      <4>1. i - 1 \in 1..(i - 1)
        BY <1>2, <3>2, <2>2
      <4>2. PICK e \in Evaluation : e = r[i \div 2] /\ journal[e].state # "none"
        BY <1>2, <3>2
      <4>3. g[i] = Result(e, journal) /\ g[i - 1] = Heartbeat(e, journal)
        BY <3>2, <4>2
      <4>4. EntriesSound(d, n) /\ g[i].result = "completed" => Start(g[i - 1], g[i].eval)
        BY <1>4, <4>3 DEF Start, EntriesSound
      <4> QED
        BY <1>4, <4>1, <4>2, <4>3, <4>4 DEF EntriesSound
    <3> QED
      BY <2>1, <2>2, <3>1, <3>2
  <2>4. g \in Seq(Upstream)
    <3>1. 2 * Len(r) \in Nat
      BY <1>2
    <3>2. g \in [1..(2 * Len(r)) -> Upstream]
      BY <2>2, <2>3 DEF g
    <3> QED
      BY <3>1, <3>2
  <2> QED
    BY <2>3, <2>4 DEF Sound
<1> HIDE DEF f, g
<1> QED
  BY <1>3, <1>5, <1>6, SoundJoined, Joined

-----------------------------------------------------------------------------
(* The initial state and the types *)

RowTypes  == /\ facts \in Facts \union {NoFacts} /\ row \in [Evaluation -> Row]
             /\ settled \in [Evaluation -> {"none", "reserved", "zero", "charged"}]
             /\ applied \in [Evaluation -> {"none", "applied", "stale"}]
             /\ owed \subseteq Evaluation /\ refused \subseteq Evaluation
CountTypes == spent \in Nat /\ held \in Nat
NodeTypes == /\ journal \in [Evaluation -> Entry]
             /\ memory \in [Evaluation -> {"none", "preparing", "aborted", "spawned", "waitsAck", "running", "finishing"}]
             /\ home \in [Evaluation -> BOOLEAN]
             /\ broker \in [Evaluation -> {"none", "gone"} \union Alive]
             /\ calls \in [Evaluation -> Nat]
WireTypes == up \in Seq(Upstream) /\ down \in Seq(Downstream) /\ Len(down) <= MaxDown
RestTypes == online \in BOOLEAN /\ {drops, crashes, changes} \subseteq Nat

\* The type invariant in parts.
LEMMA TypeParts == TypeOK <=> RowTypes /\ CountTypes /\ NodeTypes /\ WireTypes /\ RestTypes
BY DEF TypeOK, RowTypes, CountTypes, NodeTypes, WireTypes, RestTypes

\* The constants that are numbers.
LEMMA Numbers ==
    /\ Reserve \in Nat /\ Actual \in Nat /\ Over \in Nat /\ Limit \in Nat /\ MaxRetries \in Nat /\ MaxDown \in Nat
    /\ 0 < Reserve /\ Actual <= Reserve /\ Reserve < Over
BY RouterAssumption

\* The initial state satisfies the invariant.
LEMMA InitSound == Init => IInv
<1> SUFFICES ASSUME Init PROVE IInv
  OBVIOUS
<1> USE RouterAssumption DEF Init
<1>1. RowTypes
  BY DEF RowTypes, Row, Unused
<1>2. CountTypes /\ RestTypes
  BY DEF CountTypes, RestTypes
<1>3. NodeTypes
  BY DEF NodeTypes, Entry, NoEntry, Outcome
<1>4. WireTypes
  BY DEF WireTypes
<1>5. \A e \in Evaluation : /\ row[e] = Unused /\ settled[e] = "none" /\ journal[e] = NoEntry
                            /\ memory[e] = "none" /\ broker[e] = "none" /\ calls[e] = 0 /\ ~home[e]
  OBVIOUS
<1>6. Reserved /\ StartIsKnown /\ PreTrue
  BY <1>5 DEF Reserved, StartIsKnown, PreTrue, Unused, NoEntry, Active
<1>7. Known /\ NodeInv
  BY <1>5 DEF Known, NodeInv, Node, NoEntry, Alive
<1>8. Frames
  BY DEF Frames, Sound
<1>9. BudgetHolds
  <2>1. {e \in Evaluation : settled[e] = "reserved"} = {} /\ {e \in Evaluation : settled[e] = "charged" /\ row[e].usage = Over} = {}
    BY <1>5
  <2>2. Overspent = 0 /\ Cardinality({e \in Evaluation : settled[e] = "reserved"}) = 0
    BY <2>1, FS_EmptySet DEF Overspent
  <2> HIDE DEF Init
  <2>3. spent = 0 /\ held = 0
    BY DEF Init
  <2> QED
    BY <2>2, <2>3 DEF BudgetHolds
<1> QED
  BY <1>1, <1>2, <1>3, <1>4, <1>6, <1>7, <1>8, <1>9, TypeParts DEF IInv

\* What finish and flushOne send, they send after what is on the way.
LEMMA SendsTyped ==
    ASSUME WireTypes, NEW f \in Seq(Upstream), Sends(f), UNCHANGED down \/ (down # <<>> /\ down' = Tail(down))
    PROVE  WireTypes'
<1>1. down' \in Seq(Downstream) /\ Len(down') <= MaxDown
  <2>1. Len(down) \in Nat /\ MaxDown \in Nat
    BY RouterAssumption DEF WireTypes
  <2>2. CASE down # <<>> /\ down' = Tail(down)
    BY <2>1, <2>2, Tailed DEF WireTypes
  <2> QED
    BY <2>2 DEF WireTypes
<1>2. up' \in Seq(Upstream)
  BY Joined DEF Sends, WireTypes
<1> QED
  BY <1>1, <1>2 DEF WireTypes

\* A row that only changes its status and reason keeps its type.
LEMMA EndTyped ==
    ASSUME RowTypes, NEW e \in Evaluation,
           NEW status \in Terminal, NEW reason \in {"none", "input", "queue", "lease"}, End(e, status, reason)
    PROVE  row' \in [Evaluation -> Row]
<1> DEFINE r == [row[e] EXCEPT !.status = status, !.reason = reason]
<1>1. row[e] \in Row /\ row \in [Evaluation -> Row]
  BY DEF RowTypes
<1>2. r \in Row
  BY <1>1 DEF Row
<1>3. row' = [row EXCEPT ![e] = r]
  BY <1>1 DEF End
<1> HIDE DEF r
<1> QED
  BY <1>1, <1>2, <1>3

\* A change of the entry of one attempt.
LEMMA EntryTyped ==
    ASSUME NEW j \in [Evaluation -> Entry], NEW e \in Evaluation, NEW x \in Entry
    PROVE  [j EXCEPT ![e] = x] \in [Evaluation -> Entry]
OBVIOUS

\* What a Node sends of its journal is typed.
LEMMA FlushTyped ==
    ASSUME NEW e \in Evaluation, NEW j \in [Evaluation -> Entry]
    PROVE  Flush(e, j) \in Seq(Upstream)
<1>1. Heartbeat(e, j) \in Upstream /\ Result(e, j) \in Upstream
  BY DEF Heartbeat, Result, Upstream, Entry
<1> QED
  BY <1>1 DEF Flush

\* finish saves and sends what its types allow.
LEMMA FinishTyped ==
    ASSUME NodeTypes, NEW e \in Evaluation, NEW result \in Outcome, NEW usage \in {0, Actual, Over},
           Finish(e, result, usage)
    PROVE  /\ journal' \in [Evaluation -> Entry]
           /\ memory' = [memory EXCEPT ![e] = "finishing"]
           /\ \E f \in Seq(Upstream) : Sends(f)
<1> DEFINE x == [journal[e] EXCEPT !.state = "result", !.result = result, !.usage = usage]
           j == IF journal[e].state = "active"
                THEN [journal EXCEPT ![e].state = "result", ![e].result = result, ![e].usage = usage]
                ELSE journal
<1>1. journal[e] \in Entry /\ journal \in [Evaluation -> Entry]
  BY DEF NodeTypes
<1>2. x \in Entry
  BY <1>1 DEF Entry
<1>3. j = IF journal[e].state = "active" THEN [journal EXCEPT ![e] = x] ELSE journal
  BY <1>1
<1>4. j \in [Evaluation -> Entry]
  <2> HIDE DEF x, j
  <2> QED
    BY <1>1, <1>2, <1>3
<1>5. journal' = j /\ Sends(Flush(e, j)) /\ memory' = [memory EXCEPT ![e] = "finishing"]
  BY DEF Finish
<1> HIDE DEF j
<1> QED
  BY <1>4, <1>5, FlushTyped

\* So is what it answers to a start.
LEMMA AckStartTyped ==
    ASSUME NodeTypes, NEW e \in Evaluation, AckStart(e) \/ UNCHANGED <<broker, calls>>
    PROVE  broker' \in [Evaluation -> {"none", "gone"} \union Alive] /\ calls' \in [Evaluation -> Nat]
BY DEF NodeTypes, AckStart, Alive

\* Every step keeps every variable but the two counts of tokens in its type.
LEMMA TypeStep ==
    ASSUME TypeOK, [Next]_vars
    PROVE  RowTypes' /\ NodeTypes' /\ WireTypes' /\ RestTypes'
<1> DEFINE Goal == RowTypes' /\ NodeTypes' /\ WireTypes' /\ RestTypes'
           SameRows == UNCHANGED <<facts, row, settled, applied, owed, refused>>
           SameNode == UNCHANGED <<journal, memory, home, broker, calls>>
           SameWire == UNCHANGED <<up, down>>
           SameRest == UNCHANGED <<online, drops, crashes, changes>>
<1> USE RouterAssumption
<1>0. RowTypes /\ CountTypes /\ NodeTypes /\ WireTypes /\ RestTypes
  BY TypeParts
<1>1. /\ SameRows => RowTypes'
      /\ SameNode => NodeTypes'
      /\ SameWire => WireTypes'
      /\ SameRest => RestTypes'
  BY <1>0 DEF RowTypes, NodeTypes, WireTypes, RestTypes
<1>2. \A d \in Downstream : Len(down) < MaxDown /\ UNCHANGED up /\ down' \in {down, Append(down, d)} => WireTypes'
  <2> SUFFICES ASSUME NEW d \in Downstream, Len(down) < MaxDown, UNCHANGED up, down' \in {down, Append(down, d)}
               PROVE  WireTypes'
    OBVIOUS
  <2>1. Len(down) \in Nat /\ MaxDown \in Nat /\ down \in Seq(Downstream) /\ Len(down) <= MaxDown
    BY <1>0, Numbers DEF WireTypes
  <2>2. Append(down, d) \in Seq(Downstream) /\ Len(Append(down, d)) = Len(down) + 1
    BY <2>1, Extended
  <2>3. ASSUME NEW s \in Seq(Downstream), Len(s) <= MaxDown, down' = s PROVE WireTypes'
    BY <1>0, <2>3 DEF WireTypes
  <2>4. Len(Append(down, d)) <= MaxDown
    BY <2>1, <2>2
  <2> QED
    BY <2>1, <2>2, <2>3, <2>4
<1>3. /\ up # <<>> /\ up' = Tail(up) /\ UNCHANGED down => WireTypes'
      /\ down # <<>> /\ down' = Tail(down) /\ UNCHANGED up => WireTypes'
  <2>1. /\ Len(down) \in Nat /\ MaxDown \in Nat /\ down \in Seq(Downstream) /\ Len(down) <= MaxDown
        /\ up \in Seq(Upstream)
    BY <1>0, Numbers DEF WireTypes
  <2>2. up # <<>> => Tail(up) \in Seq(Upstream)
    BY <2>1, Tailed
  <2>3. down # <<>> => Tail(down) \in Seq(Downstream) /\ Len(Tail(down)) = Len(down) - 1
    BY <2>1, Tailed
  <2>4. ASSUME NEW s \in Seq(Downstream), Len(s) <= MaxDown, down' = s, UNCHANGED up PROVE WireTypes'
    BY <2>1, <2>4 DEF WireTypes
  <2>5. Len(down) - 1 <= MaxDown
    BY <2>1
  <2>6. ASSUME NEW s \in Seq(Upstream), up' = s, UNCHANGED down PROVE WireTypes'
    BY <2>1, <2>6 DEF WireTypes
  <2> QED
    BY <2>2, <2>3, <2>4, <2>5, <2>6
<1>4. CASE UNCHANGED vars
  BY <1>1, <1>4 DEF vars, hub, node, bounds
<1>4a. up' \in {<<>>, up} /\ down' = <<>> => WireTypes'
  <2>1. /\ <<>> \in Seq(Upstream) /\ <<>> \in Seq(Downstream) /\ Len(<<>>) = 0
        /\ up \in Seq(Upstream) /\ MaxDown \in Nat
    BY <1>0, Numbers DEF WireTypes
  <2>2. ASSUME NEW s \in Seq(Upstream), NEW t \in Seq(Downstream), up' = s, down' = t, Len(t) <= MaxDown
        PROVE  WireTypes'
    BY <2>2 DEF WireTypes
  <2>3. 0 <= MaxDown
    BY <2>1
  <2> QED
    BY <2>1, <2>2, <2>3
<1>4b. ASSUME online' = FALSE, drops' \in {drops, drops + 1}, crashes' \in {crashes, crashes + 1}, UNCHANGED changes
       PROVE  RestTypes'
  <2>1. {drops', crashes', changes'} \subseteq Nat
    BY <1>0, <1>4b DEF RestTypes
  <2>2. online' \in BOOLEAN
    BY <1>4b, Zenon
  <2> QED
    BY <2>1, <2>2 DEF RestTypes
<1>5. CASE ChangeFacts
  <2>1. RowTypes' /\ RestTypes'
    BY <1>0, <1>5 DEF ChangeFacts, RowTypes, RestTypes
  <2> QED
    BY <1>1, <1>5, <2>1 DEF ChangeFacts, node
<1>6. CASE TakeHeartbeat
  <2>1. Head(up) \in Upstream /\ Head(up).eval \in Evaluation /\ Head(up).started \in BOOLEAN
    BY <1>0, <1>6, Tailed DEF TakeHeartbeat, WireTypes, Upstream
  <2> DEFINE e == Head(up).eval
             r == [row[e] EXCEPT !.status = "running", !.started = @ \/ Head(up).started]
  <2>2. row[e] \in Row
    BY <1>0, <2>1 DEF RowTypes
  <2>3. r \in Row
    <3>1. (row[e].started \/ Head(up).started) \in BOOLEAN
      OBVIOUS
    <3> QED
      BY <2>2, <3>1 DEF Row, Active
  <2>4. row' = row \/ row' = [row EXCEPT ![e] = r]
    BY <1>0, <1>6, <2>1 DEF TakeHeartbeat, RowTypes
  <2>5. refused' \subseteq Evaluation
    BY <1>0, <1>6, <2>1 DEF TakeHeartbeat, RowTypes
  <2>6. row' \in [Evaluation -> Row]
    <3> HIDE DEF r, e
    <3>1. e \in Evaluation
      BY <2>1 DEF e
    <3> QED
      BY <1>0, <2>3, <2>4, <3>1 DEF RowTypes
  <2>7. RowTypes'
    BY <1>0, <1>6, <2>5, <2>6 DEF TakeHeartbeat, RowTypes
  <2> QED
    BY <1>1, <1>3, <1>6, <2>7 DEF TakeHeartbeat, node, bounds
<1>7. CASE TakeResult
  <2>1. Head(up) \in Upstream /\ Head(up).eval \in Evaluation /\ Head(up).usage \in {0, Actual, Over}
    BY <1>0, <1>7, Tailed DEF TakeResult, WireTypes, Upstream
  <2> DEFINE e == Head(up).eval
  <2>2. row[e] \in Row
    BY <1>0, <2>1 DEF RowTypes
  <2>3. Judge(e, Head(up)) \in Row
    <3> DEFINE rejection == CASE Head(up).result = "completed" /\ ~row[e].started -> "model_start_missing"
                              [] Head(up).usage = Over -> "over_budget"
                              [] ~row[e].lease  -> "lease"
                              [] ~Rebuilt(e)    -> "input"
                              [] OTHER          -> "none"
               st == IF rejection # "none" THEN "stale"
                     ELSE IF Head(up).result = "completed" THEN "completed" ELSE "failed"
               pr == rejection = "none" /\ Head(up).result = "pre" /\ ~row[e].started
    <3>1. rejection \in {"none", "input", "lease", "model_start_missing", "over_budget"}
      OBVIOUS
    <3>2. st \in Terminal /\ pr \in BOOLEAN
      BY DEF Terminal
    <3>3. Judge(e, Head(up)) = [row[e] EXCEPT !.status = st, !.reason = rejection, !.usage = Head(up).usage, !.pre = pr]
      BY DEF Judge
    <3> HIDE DEF rejection, st, pr
    <3> QED
      BY <2>1, <2>2, <3>1, <3>2, <3>3 DEF Row
  <2>4. row' \in [Evaluation -> Row] /\ owed' \subseteq Evaluation
    BY <1>0, <1>7, <2>1, <2>3 DEF TakeResult, RowTypes
  <2>5. RowTypes'
    BY <1>0, <1>7, <2>4 DEF TakeResult, RowTypes
  <2> QED
    BY <1>1, <1>3, <1>7, <2>5 DEF TakeResult, node, bounds
<1>8. CASE TakeRequest
  <2> DEFINE e == Head(down).eval
  <2>0. down \in Seq(Downstream) /\ down # <<>>
    BY <1>0, <1>8 DEF TakeRequest, WireTypes
  <2>1. e \in Evaluation
    <3>1. Head(down) \in Downstream
      BY <2>0, Tailed
    <3> QED
      BY <3>1 DEF Downstream
  <2>2. journal[e] \in Entry /\ journal \in [Evaluation -> Entry]
    BY <1>0, <2>1 DEF NodeTypes
  <2>3. journal' = journal \/ journal' = [journal EXCEPT ![e] = [journal[e] EXCEPT !.state = "active"]]
    BY <1>8, <2>2 DEF TakeRequest
  <2>4. [journal[e] EXCEPT !.state = "active"] \in Entry
    BY <2>2 DEF Entry
  <2>5. journal' \in [Evaluation -> Entry]
    BY <2>1, <2>2, <2>3, <2>4, EntryTyped
  <2>6. broker' \in [Evaluation -> {"none", "gone"} \union Alive] /\ calls' \in [Evaluation -> Nat]
    BY <1>0, <1>8, <2>1, AckStartTyped DEF TakeRequest
  <2>7. NodeTypes'
    BY <1>0, <1>8, <2>1, <2>5, <2>6 DEF TakeRequest, NodeTypes
  <2>8. WireTypes'
    BY <1>0, <1>3, <1>8, <2>1, <2>2, FlushTyped, SendsTyped DEF TakeRequest
  <2> QED
    BY <1>1, <1>8, <2>7, <2>8 DEF TakeRequest, hub, bounds
<1>9. CASE TakeCancel
  <2> DEFINE e == Head(down).eval
  <2>0. down \in Seq(Downstream) /\ down # <<>>
    BY <1>0, <1>9 DEF TakeCancel, WireTypes
  <2>1. e \in Evaluation
    <3>1. Head(down) \in Downstream
      BY <2>0, Tailed
    <3> QED
      BY <3>1 DEF Downstream
  <2>2. CASE Finish(e, "other", 0)
    <3>1. /\ journal' \in [Evaluation -> Entry] /\ memory' = [memory EXCEPT ![e] = "finishing"]
          /\ \E f \in Seq(Upstream) : Sends(f)
      BY <1>0, <2>1, <2>2, FinishTyped DEF Outcome
    <3>2. NodeTypes'
      BY <1>0, <1>9, <2>1, <3>1 DEF TakeCancel, NodeTypes
    <3>3. WireTypes'
      BY <1>0, <1>9, <3>1, SendsTyped DEF TakeCancel
    <3> QED
      BY <1>1, <1>9, <3>2, <3>3 DEF TakeCancel, hub, bounds
  <2>3. CASE UNCHANGED <<journal, up>> /\ memory' \in {memory, [memory EXCEPT ![e] = "aborted"]}
    <3>1. NodeTypes'
      BY <1>0, <1>9, <2>1, <2>3 DEF TakeCancel, NodeTypes
    <3> QED
      BY <1>1, <1>3, <1>9, <2>3, <3>1 DEF TakeCancel, hub, bounds
  <2>4. \/ Finish(e, "other", 0)
        \/ UNCHANGED <<journal, up>> /\ memory' \in {memory, [memory EXCEPT ![e] = "aborted"]}
    BY <1>9 DEF TakeCancel
  <2> QED
    BY <2>2, <2>3, <2>4
<1>10. CASE TakeAck
  <2> DEFINE e == Head(down).eval
             x == [journal[e] EXCEPT !.state = "acked", !.result = "none", !.usage = 0]
  <2>0. down \in Seq(Downstream) /\ down # <<>>
    BY <1>0, <1>10 DEF TakeAck, WireTypes
  <2>1. e \in Evaluation
    <3>1. Head(down) \in Downstream
      BY <2>0, Tailed
    <3> QED
      BY <3>1 DEF Downstream
  <2>2. journal[e] \in Entry /\ journal \in [Evaluation -> Entry]
    BY <1>0, <2>1 DEF NodeTypes
  <2>3. x \in Entry
    BY <2>2 DEF Entry, Outcome
  <2>4. journal' = journal \/ journal' = [journal EXCEPT ![e] = x]
    BY <1>10, <2>2 DEF TakeAck
  <2>5. NodeTypes'
    <3> HIDE DEF x
    <3> QED
      BY <1>0, <1>10, <2>1, <2>3, <2>4 DEF TakeAck, NodeTypes
  <2> QED
    BY <1>1, <1>3, <1>10, <2>5 DEF TakeAck, hub, bounds
<1>11. CASE Drop
  <2>1. WireTypes'
    BY <1>4a, <1>11 DEF Drop
  <2>2. RestTypes'
    BY <1>4b, <1>11 DEF Drop
  <2> QED
    BY <1>1, <1>11, <2>1, <2>2 DEF Drop, hub, node
<1>12. CASE Reconnect
  <2>1. NodeTypes'
    BY <1>0, <1>12 DEF Reconnect, NodeTypes, Alive
  <2>2. FlushAll \in Seq(Upstream)
    BY FlushAllSound
  <2>3. WireTypes'
    BY <1>0, <1>12, <2>2 DEF Reconnect, WireTypes
  <2>4. RestTypes'
    BY <1>0, <1>12 DEF Reconnect, RestTypes, bounds
  <2> QED
    BY <1>1, <1>12, <2>1, <2>3, <2>4 DEF Reconnect, hub
<1>13. CASE NodeRestarts
  <2>1. \A e \in Evaluation : [journal[e] EXCEPT !.state = "result", !.result = "other"] \in Entry /\ journal[e] \in Entry
    BY <1>0 DEF NodeTypes, Entry, Outcome
  <2>2. journal' \in [Evaluation -> Entry]
    BY <1>13, <2>1 DEF NodeRestarts
  <2>3. NodeTypes'
    BY <1>0, <1>13, <2>2 DEF NodeRestarts, NodeTypes
  <2>4. WireTypes' /\ RestTypes'
    BY <1>4a, <1>4b, <1>13 DEF NodeRestarts
  <2> QED
    BY <1>1, <1>13, <2>3, <2>4 DEF NodeRestarts, hub
<1> SUFFICES ASSUME NEW e \in Evaluation,
                    \/ \E t \in Trigger : Enqueue(e, t)
                    \/ LeaseEnds(e) \/ SendAck(e) \/ HubTick(e) \/ NodeStep(e) \/ BrokerStep(e)
             PROVE  Goal
  BY <1>4, <1>5, <1>6, <1>7, <1>8, <1>9, <1>10, <1>11, <1>12, <1>13 DEF Next, HubFrames, NodeFrames
<1>14. CASE \E t \in Trigger : Enqueue(e, t)
  <2>1. PICK t \in Trigger, n \in 0..MaxRetries :
           /\ facts \in Facts
           /\ row' = [p \in Evaluation |->
                IF p = e THEN [Unused EXCEPT !.status = "queued", !.facts = facts, !.trigger = t, !.attempt = n + 1]
                ELSE IF row[p].status = "queued" THEN [row[p] EXCEPT !.status = "cancelled"]
                ELSE row[p]]
    BY <1>14 DEF Enqueue
  <2>2. [Unused EXCEPT !.status = "queued", !.facts = facts, !.trigger = t, !.attempt = n + 1] \in Row
    <3>1. n + 1 \in 0..(MaxRetries + 1)
      BY Numbers
    <3>2. Unused \in Row
      BY Numbers DEF Unused, Row
    <3> QED
      BY <2>1, <3>1, <3>2 DEF Row
  <2>3. \A p \in Evaluation : row[p] \in Row /\ [row[p] EXCEPT !.status = "cancelled"] \in Row
    BY <1>0 DEF RowTypes, Row, Terminal
  <2>4. row' \in [Evaluation -> Row]
    BY <2>1, <2>2, <2>3
  <2>5. RowTypes'
    BY <1>0, <1>14, <2>4 DEF Enqueue, RowTypes
  <2> QED
    BY <1>1, <1>14, <2>5 DEF Enqueue, node, bounds
<1>15. CASE LeaseEnds(e)
  <2>1. row[e] \in Row /\ row' = [row EXCEPT ![e] = [row[e] EXCEPT !.lease = FALSE]]
    BY <1>0, <1>15 DEF RowTypes, LeaseEnds
  <2>2. [row[e] EXCEPT !.lease = FALSE] \in Row
    BY <2>1 DEF Row
  <2>3. RowTypes'
    BY <1>0, <1>15, <2>1, <2>2 DEF LeaseEnds, RowTypes
  <2> QED
    BY <1>1, <1>15, <2>3 DEF LeaseEnds, node, bounds
<1>16. CASE SendAck(e)
  <2>1. RowTypes'
    BY <1>0, <1>16 DEF SendAck, RowTypes
  <2>2. WireTypes'
    BY <1>2, <1>16 DEF SendAck, Downstream
  <2> QED
    BY <1>1, <1>16, <2>1, <2>2 DEF SendAck, node, bounds
<1>17. CASE EndQueued(e) \/ EndActive(e)
  <2>1. row' \in [Evaluation -> Row]
    <3>1. \E status \in Terminal, reason \in {"none", "input", "queue", "lease"} : End(e, status, reason)
      BY <1>17 DEF EndQueued, EndActive, Terminal
    <3> QED
      BY <1>0, <3>1, EndTyped
  <2>2. RowTypes'
    BY <1>0, <1>17, <2>1 DEF EndQueued, EndActive, RowTypes
  <2>3. WireTypes'
    BY <1>1, <1>2, <1>17 DEF EndQueued, EndActive, Downstream
  <2> QED
    BY <1>1, <1>17, <2>2, <2>3 DEF EndQueued, EndActive, node, bounds
<1>18. CASE Dispatch(e)
  <2>1. row[e] \in Row /\ row' = [row EXCEPT ![e] = [row[e] EXCEPT !.status = "dispatched", !.lease = TRUE]]
    BY <1>0, <1>18 DEF RowTypes, Dispatch
  <2>2. [row[e] EXCEPT !.status = "dispatched", !.lease = TRUE] \in Row
    BY <2>1 DEF Row, Active
  <2>3. RowTypes'
    BY <1>0, <1>18, <2>1, <2>2 DEF Dispatch, RowTypes
  <2> QED
    BY <1>1, <1>18, <2>3 DEF Dispatch, node, bounds
<1>19. CASE Resend(e)
  <2>1. WireTypes'
    BY <1>2, <1>19 DEF Resend, Downstream
  <2> QED
    BY <1>1, <1>19, <2>1 DEF Resend, hub, node, bounds
<1>20. CASE Settle(e) \/ Apply(e)
  <2>1. RowTypes'
    BY <1>0, <1>20 DEF Settle, Apply, RowTypes
  <2> QED
    BY <1>1, <1>20, <2>1 DEF Settle, Apply, node, bounds
<1>21. ASSUME NEW result \in Outcome, NEW usage \in {0, Actual, Over}, Finish(e, result, usage),
              UNCHANGED down, UNCHANGED hub, UNCHANGED <<online, bounds, refused>>,
              home' \in {home, [home EXCEPT ![e] = TRUE]},
              AckStart(e) \/ UNCHANGED <<broker, calls>> \/ (broker' = [broker EXCEPT ![e] = "gone"] /\ UNCHANGED calls)
       PROVE  Goal
  <2>1. /\ journal' \in [Evaluation -> Entry] /\ memory' = [memory EXCEPT ![e] = "finishing"]
        /\ \E f \in Seq(Upstream) : Sends(f)
    BY <1>0, <1>21, FinishTyped
  <2>2. broker' \in [Evaluation -> {"none", "gone"} \union Alive] /\ calls' \in [Evaluation -> Nat]
    BY <1>0, <1>21, AckStartTyped DEF NodeTypes
  <2>3. NodeTypes'
    BY <1>0, <1>21, <2>1, <2>2 DEF NodeTypes
  <2>4. WireTypes'
    BY <1>0, <1>21, <2>1, SendsTyped
  <2> QED
    BY <1>1, <1>21, <2>3, <2>4 DEF hub, bounds
<1>22. CASE PrepareFails(e) \/ BrokerReports(e) \/ BrokerDies(e) \/ TimerFires(e)
  <2>1. \E result \in Outcome, usage \in {0, Actual, Over} : Finish(e, result, usage)
    BY <1>22 DEF PrepareFails, BrokerReports, BrokerDies, TimerFires, Outcome
  <2> QED
    BY <1>21, <1>22, <2>1 DEF PrepareFails, BrokerReports, BrokerDies, TimerFires
<1>23. CASE Spawn(e)
  <2>1. NodeTypes'
    BY <1>0, <1>23 DEF Spawn, NodeTypes, Alive
  <2> QED
    BY <1>1, <1>23, <2>1 DEF Spawn, hub, bounds
<1>24. ASSUME NEW x \in Entry, journal' = [journal EXCEPT ![e] = x] PROVE journal' \in [Evaluation -> Entry]
  BY <1>0, <1>24 DEF NodeTypes
<1>25. CASE Initialize(e)
  <2>1. [journal[e] EXCEPT !.pid = TRUE] \in Entry /\ journal' = [journal EXCEPT ![e] = [journal[e] EXCEPT !.pid = TRUE]]
    BY <1>0, <1>25 DEF Initialize, NodeTypes, Entry
  <2>2. NodeTypes'
    BY <1>0, <1>24, <1>25, <2>1 DEF Initialize, NodeTypes, Alive
  <2> QED
    BY <1>1, <1>25, <2>2 DEF Initialize, hub, bounds
<1>26. CASE InputsRead(e)
  <2>1. NodeTypes'
    BY <1>0, <1>26 DEF InputsRead, NodeTypes, Alive
  <2>2. WireTypes'
    BY <1>0, <1>26, FlushTyped, SendsTyped DEF InputsRead, NodeTypes
  <2> QED
    BY <1>1, <1>26, <2>1, <2>2 DEF InputsRead, hub, bounds
<1>27. CASE AskModel(e)
  <2> DEFINE j == [journal EXCEPT ![e].started = TRUE]
  <2>1. [journal[e] EXCEPT !.started = TRUE] \in Entry /\ j = [journal EXCEPT ![e] = [journal[e] EXCEPT !.started = TRUE]]
    BY <1>0 DEF NodeTypes, Entry
  <2>2. j \in [Evaluation -> Entry] /\ journal' = j /\ Sends(Flush(e, j))
    BY <1>0, <1>27, <2>1 DEF AskModel, NodeTypes
  <2>3. NodeTypes'
    <3>1. broker' \in [Evaluation -> {"none", "gone"} \union Alive] /\ calls' \in [Evaluation -> Nat]
      BY <1>0, <1>27 DEF AskModel, NodeTypes, Alive
    <3>2. memory' \in [Evaluation -> {"none", "preparing", "aborted", "spawned", "waitsAck", "running", "finishing"}]
      BY <1>0, <1>27 DEF AskModel, NodeTypes
    <3> QED
      BY <1>0, <1>27, <2>2, <3>1, <3>2 DEF AskModel, NodeTypes
  <2>4. WireTypes'
    BY <1>0, <1>27, <2>2, FlushTyped, SendsTyped DEF AskModel
  <2> QED
    BY <1>1, <1>27, <2>3, <2>4 DEF AskModel, hub, bounds
<1>28. CASE Release(e)
  <2>1. [journal[e] EXCEPT !.pid = FALSE] \in Entry /\ journal' = [journal EXCEPT ![e] = [journal[e] EXCEPT !.pid = FALSE]]
    BY <1>0, <1>28 DEF Release, NodeTypes, Entry
  <2>2. NodeTypes'
    BY <1>0, <1>24, <1>28, <2>1 DEF Release, NodeTypes
  <2> QED
    BY <1>1, <1>28, <2>2 DEF Release, hub, bounds
<1>29. CASE Cleanup(e)
  <2> DEFINE x == [journal[e] EXCEPT !.cleaned = TRUE, !.pid = FALSE]
  <2>a. journal[e] \in Entry /\ journal \in [Evaluation -> Entry]
    BY <1>0 DEF NodeTypes
  <2>b. x \in Entry
    BY <2>a DEF Entry
  <2>c. journal' = journal \/ journal' = [journal EXCEPT ![e] = x]
    BY <1>29, <2>a DEF Cleanup
  <2>1. x \in Entry /\ (journal' = journal \/ journal' = [journal EXCEPT ![e] = x])
    BY <2>b, <2>c
  <2>2. home' \in [Evaluation -> BOOLEAN] /\ broker' \in [Evaluation -> {"none", "gone"} \union Alive]
    BY <1>0, <1>29 DEF Cleanup, NodeTypes
  <2>3. journal' \in [Evaluation -> Entry]
    <3> HIDE DEF x
    <3> QED
      BY <1>0, <1>24, <2>1 DEF NodeTypes
  <2>4. NodeTypes'
    BY <1>0, <1>29, <2>2, <2>3 DEF Cleanup, NodeTypes
  <2> QED
    BY <1>1, <1>29, <2>4 DEF Cleanup, hub, bounds
<1>30. CASE OrphanEnds(e)
  <2>1. NodeTypes'
    BY <1>0, <1>30 DEF OrphanEnds, NodeTypes
  <2> QED
    BY <1>1, <1>30, <2>1 DEF OrphanEnds, hub, bounds
<1> QED
  BY <1>14, <1>15, <1>16, <1>17, <1>18, <1>19, <1>20, <1>22, <1>23, <1>25, <1>26, <1>27, <1>28, <1>29, <1>30
     DEF HubTick, NodeStep, BrokerStep

-----------------------------------------------------------------------------
(* What the Hub does to its rows *)

HubStep ==
    \/ ChangeFacts \/ HubFrames
    \/ \E e \in Evaluation : \/ \E t \in Trigger : Enqueue(e, t)
                             \/ LeaseEnds(e) \/ SendAck(e) \/ HubTick(e)
NodeSide ==
    \/ NodeFrames \/ Drop \/ Reconnect \/ NodeRestarts
    \/ \E e \in Evaluation : NodeStep(e) \/ BrokerStep(e)

\* The two sides change nothing of each other.
LEMMA Sides ==
    ASSUME [Next]_vars
    PROVE  \/ UNCHANGED vars
           \/ HubStep /\ UNCHANGED node
           \/ NodeSide /\ UNCHANGED hub /\ UNCHANGED refused
<1>1. HubStep \/ NodeSide \/ UNCHANGED vars
  BY DEF Next, HubStep, NodeSide
<1>2. ASSUME HubStep PROVE UNCHANGED node
  BY <1>2 DEF HubStep, ChangeFacts, HubFrames, TakeHeartbeat, TakeResult, Enqueue, LeaseEnds, SendAck, HubTick,
              EndQueued, Dispatch, Resend, EndActive, Settle, Apply
<1>3. ASSUME NodeSide PROVE UNCHANGED hub /\ UNCHANGED refused
  <2>1. CASE NodeFrames \/ Drop \/ Reconnect \/ NodeRestarts
    BY <2>1 DEF NodeFrames, TakeRequest, TakeCancel, TakeAck, Drop, Reconnect, NodeRestarts
  <2>2. ASSUME NEW e \in Evaluation, NodeStep(e) PROVE UNCHANGED hub /\ UNCHANGED refused
    BY <2>2 DEF NodeStep, PrepareFails, Spawn, Initialize, Release, Cleanup, OrphanEnds
  <2>3. ASSUME NEW e \in Evaluation, BrokerStep(e) PROVE UNCHANGED hub /\ UNCHANGED refused
    BY <2>3 DEF BrokerStep, InputsRead, AskModel, BrokerReports, BrokerDies, TimerFires
  <2> QED
    BY <1>3, <2>1, <2>2, <2>3 DEF NodeSide
<1> QED
  BY <1>1, <1>2, <1>3

Same(x) == row'[x].started = row[x].started /\ row'[x].pre = row[x].pre /\ row'[x].usage = row[x].usage

\* How one row may change.
RowMove(x) ==
    \/ row'[x] = row[x]
    \/ /\ row[x].status = "unused" /\ row'[x].status = "queued"
       /\ ~row'[x].started /\ ~row'[x].pre /\ row'[x].reason = "none"
    \/ /\ row[x].status = "queued" /\ row'[x].status \in Terminal
       /\ Same(x) /\ row'[x].reason \in {row[x].reason, "input", "queue"}
    \/ /\ row[x].status = "queued" /\ row'[x].status = "dispatched"
       /\ Same(x) /\ row'[x].reason = row[x].reason /\ settled'[x] = "reserved"
    \/ /\ row[x].status \in Active /\ row'[x].status \in Active
       /\ row'[x].pre = row[x].pre /\ row'[x].usage = row[x].usage /\ row'[x].reason = row[x].reason
       /\ row[x].started => row'[x].started
    \/ /\ row[x].status \in Active /\ row'[x].status \in Terminal
       /\ Same(x) /\ row'[x].reason \in {"input", "lease"}
    \/ /\ row[x].status \notin Terminal /\ TakeResult /\ x = Head(up).eval
       /\ row'[x] = Judge(x, Head(up))

\* How the reservation of one row may change.
SettledMove(x) ==
    \/ settled'[x] = settled[x]
    \/ row[x].status = "queued" /\ row'[x].status = "dispatched" /\ settled'[x] = "reserved"
    \/ Settle(x)

\* Every step changes rows and reservations in one of these ways.
LEMMA Moves ==
    ASSUME TypeOK, [Next]_vars, NEW x \in Evaluation
    PROVE  /\ RowMove(x) /\ SettledMove(x) /\ refused \subseteq refused'
           /\ x \in owed' => x \in owed \/ (TakeResult /\ x = Head(up).eval)
<1> USE DEF Same
<1> DEFINE Goal == /\ RowMove(x) /\ SettledMove(x) /\ refused \subseteq refused'
                   /\ x \in owed' => x \in owed \/ (TakeResult /\ x = Head(up).eval)
<1>0. /\ row \in [Evaluation -> Row] /\ settled \in [Evaluation -> {"none", "reserved", "zero", "charged"}]
      /\ owed \subseteq Evaluation /\ refused \subseteq Evaluation /\ up \in Seq(Upstream)
  BY DEF TypeOK
<1>1. ASSUME UNCHANGED <<row, settled, refused>>, owed' \subseteq owed PROVE Goal
  BY <1>1 DEF RowMove, SettledMove
<1>2. CASE UNCHANGED vars \/ (NodeSide /\ UNCHANGED hub /\ UNCHANGED refused)
  BY <1>1, <1>2 DEF vars, hub
<1>3. CASE ChangeFacts
  BY <1>1, <1>3 DEF ChangeFacts
<1>4. CASE TakeHeartbeat
  <2> DEFINE e == Head(up).eval
  <2>1. e \in Evaluation /\ Head(up).started \in BOOLEAN
    <3>1. Head(up) \in Upstream /\ Head(up).kind = "heartbeat"
      BY <1>0, <1>4, Tailed DEF TakeHeartbeat
    <3> QED
      BY <3>1 DEF Upstream
  <2>2. row'[x] = row[x] \/ /\ x = e /\ row[x].status \in Active /\ row'[x].status = "running"
                            /\ row'[x].pre = row[x].pre /\ row'[x].usage = row[x].usage
                            /\ row'[x].reason = row[x].reason
                            /\ row'[x].started = (row[x].started \/ Head(up).started)
    BY <1>0, <1>4, <2>1 DEF TakeHeartbeat, Live, Row
  <2>3. RowMove(x)
    BY <2>2 DEF RowMove, Active
  <2> QED
    BY <1>4, <2>3 DEF TakeHeartbeat, SettledMove
<1>5. CASE TakeResult
  <2> DEFINE e == Head(up).eval
  <2>1. e \in Evaluation
    <3>1. Head(up) \in Upstream
      BY <1>0, <1>5, Tailed DEF TakeResult
    <3> QED
      BY <3>1 DEF Upstream
  <2>2. row'[x] = row[x] \/ (x = e /\ row[x].status \notin Terminal /\ row'[x] = Judge(x, Head(up)))
    BY <1>0, <1>5, <2>1 DEF TakeResult
  <2>3. RowMove(x)
    BY <1>5, <2>2 DEF RowMove
  <2> QED
    BY <1>5, <2>3 DEF TakeResult, SettledMove
<1> SUFFICES ASSUME NEW e \in Evaluation,
                    (\E t \in Trigger : Enqueue(e, t)) \/ LeaseEnds(e) \/ SendAck(e) \/ HubTick(e)
             PROVE  Goal
  BY <1>2, <1>3, <1>4, <1>5, Sides DEF HubStep, HubFrames
<1>6. CASE \E t \in Trigger : Enqueue(e, t)
  <2>1. PICK t \in Trigger, n \in 0..MaxRetries :
           row' = [p \in Evaluation |->
                IF p = e THEN [Unused EXCEPT !.status = "queued", !.facts = facts, !.trigger = t, !.attempt = n + 1]
                ELSE IF row[p].status = "queued" THEN [row[p] EXCEPT !.status = "cancelled"]
                ELSE row[p]]
    BY <1>6 DEF Enqueue
  <2>2. row[e].status = "unused" /\ UNCHANGED <<settled, owed, refused>>
    BY <1>6 DEF Enqueue
  <2>3. CASE x = e
    <3>1. row'[x].status = "queued" /\ ~row'[x].started /\ ~row'[x].pre /\ row'[x].reason = "none"
      BY <2>1, <2>3 DEF Unused
    <3> QED
      BY <2>2, <2>3, <3>1 DEF RowMove, SettledMove
  <2>4. CASE x # e
    <3>1. row'[x] = row[x] \/ (row[x].status = "queued" /\ row'[x] = [row[x] EXCEPT !.status = "cancelled"])
      BY <2>1, <2>4
    <3>2. row[x] \in Row
      BY <1>0
    <3>3. RowMove(x)
      BY <3>1, <3>2 DEF RowMove, Row, Terminal
    <3> QED
      BY <2>2, <3>3 DEF SettledMove
  <2> QED
    BY <2>3, <2>4
<1>7. ASSUME NEW s, NEW r, End(e, s, r)
      PROVE  /\ x # e => row'[x] = row[x]
             /\ x = e => row'[x].status = s /\ row'[x].reason = r /\ Same(x)
  BY <1>0, <1>7 DEF End, Row
<1>8. CASE LeaseEnds(e)
  <2>1. row'[x] = row[x] \/ (x = e /\ row[x].status \in Active /\ row'[x] = [row[x] EXCEPT !.lease = FALSE])
    BY <1>0, <1>8 DEF LeaseEnds, Live
  <2>2. row[x] \in Row
    BY <1>0
  <2>3. RowMove(x)
    BY <2>1, <2>2 DEF RowMove, Row
  <2> QED
    BY <1>8, <2>3 DEF LeaseEnds, SettledMove
<1>9. CASE SendAck(e) \/ Resend(e) \/ Apply(e)
  BY <1>1, <1>9 DEF SendAck, Resend, Apply, hub
<1>10. CASE EndQueued(e)
  <2>1. RowMove(x)
    BY <1>7, <1>10 DEF EndQueued, RowMove, Terminal
  <2> QED
    BY <1>10, <2>1 DEF EndQueued, SettledMove
<1>11. CASE EndActive(e)
  <2>1. RowMove(x)
    BY <1>7, <1>11 DEF EndActive, RowMove, Terminal
  <2> QED
    BY <1>11, <2>1 DEF EndActive, SettledMove
<1>12. CASE Dispatch(e)
  <2>1. \/ row'[x] = row[x] /\ settled'[x] = settled[x]
        \/ /\ x = e /\ row[x].status = "queued" /\ settled'[x] = "reserved"
           /\ row'[x] = [row[x] EXCEPT !.status = "dispatched", !.lease = TRUE]
    BY <1>0, <1>12 DEF Dispatch
  <2>2. row[x] \in Row
    BY <1>0
  <2>3. RowMove(x) /\ SettledMove(x)
    BY <2>1, <2>2 DEF RowMove, SettledMove, Row
  <2> QED
    BY <1>12, <2>3 DEF Dispatch
<1>13. CASE Settle(e)
  <2>1. settled'[x] = settled[x] \/ x = e
    BY <1>0, <1>13 DEF Settle
  <2> QED
    BY <1>13, <2>1 DEF Settle, RowMove, SettledMove
<1> QED
  BY <1>6, <1>8, <1>9, <1>10, <1>11, <1>12, <1>13 DEF HubTick

-----------------------------------------------------------------------------
(* What the Node does to one attempt *)

SameAttempt(x) ==
    /\ journal'[x] = journal[x] /\ memory'[x] = memory[x] /\ home'[x] = home[x]
    /\ broker'[x] = broker[x] /\ calls'[x] = calls[x]

\* What every step keeps of one attempt, and what brings an entry, an answer
\* from before the start, or an acknowledgement into the journal.
Local(x) ==
    /\ Node(x)'
    /\ Never(x) => Never(x)'
    /\ journal'[x].result = "pre" => journal[x].result = "pre" \/ Never(x)'
    /\ journal'[x].state # "none" => journal[x].state # "none" \/ (TakeRequest /\ x = Head(down).eval)
    /\ journal'[x].state = "acked" => journal[x].state = "acked" \/ (TakeAck /\ x = Head(down).eval)

\* What is true of an evaluation at the Node depends on its attempt alone.
LEMMA SameLocal ==
    ASSUME NEW x, Node(x), SameAttempt(x)
    PROVE  Local(x)
BY DEF Local, SameAttempt, Node, Never

\* The first terminal outcome of an attempt: its memory was busy, so its entry
\* was active.
LEMMA FinishLocal ==
    ASSUME NodeTypes, NEW e \in Evaluation, Node(e), NEW result \in Outcome \ {"none"}, NEW usage \in {0, Actual, Over},
           Finish(e, result, usage),
           home'[e] = home[e] \/ (home'[e] /\ memory[e] \in {"preparing", "aborted"}),
           \/ broker'[e] = broker[e] /\ calls'[e] = calls[e] /\ broker[e] = "none" /\ memory[e] \in {"preparing", "aborted"}
           \/ broker'[e] = "gone" /\ calls'[e] = calls[e]
           \/ broker'[e] = broker[e] /\ calls'[e] = calls[e] /\ result = "other"
           \/ broker[e] = "asked" /\ broker'[e] = "calling" /\ calls'[e] = calls[e] + 1 /\ result = "other",
           result = "pre" => broker[e] \in {"none", "fresh", "init", "read"} /\ (broker'[e] = "none" \/ broker'[e] = "gone"),
           result = "completed" => broker[e] = "calling"
    PROVE  Local(e)
<1> DEFINE r == [journal[e] EXCEPT !.state = "result", !.result = result, !.usage = usage]
<1>1. journal[e] \in Entry /\ journal \in [Evaluation -> Entry] /\ memory[e] \notin {"none", "finishing"}
      /\ memory[e] \in {"none", "preparing", "aborted", "spawned", "waitsAck", "running", "finishing"}
      /\ calls[e] \in Nat
  BY DEF NodeTypes, Finish
<1>2. journal[e].state = "active"
  BY <1>1 DEF Node
<1>3. journal' = [journal EXCEPT ![e] = r] /\ memory' = [memory EXCEPT ![e] = "finishing"]
  BY <1>1, <1>2 DEF Finish
<1>4. /\ journal'[e].state = "result" /\ journal'[e].result = result
      /\ journal'[e].started = journal[e].started /\ journal'[e].pid = journal[e].pid
      /\ memory'[e] = "finishing"
  <2>1. r.state = "result" /\ r.result = result /\ r.started = journal[e].started /\ r.pid = journal[e].pid
    BY <1>1 DEF Entry
  <2> HIDE DEF r
  <2> QED
    BY <1>1, <1>3, <2>1 DEF NodeTypes
<1>5. Node(e)'
  BY <1>1, <1>2, <1>4 DEF Node, Alive, Outcome
<1> QED
  BY <1>1, <1>2, <1>4, <1>5 DEF Local, Node, Never

\* Every step keeps what is known of one attempt.
LEMMA AttemptStep ==
    ASSUME TypeOK, NodeInv, [Next]_vars, NEW x \in Evaluation
    PROVE  Local(x)
<1>0. NodeTypes /\ WireTypes /\ Node(x)
  BY TypeParts DEF NodeInv
<1>1. ASSUME SameAttempt(x) PROVE Local(x)
  BY <1>0, <1>1, SameLocal
<1>t. /\ journal \in [Evaluation -> Entry] /\ journal[x] \in Entry
      /\ memory \in [Evaluation -> {"none", "preparing", "aborted", "spawned", "waitsAck", "running", "finishing"}]
      /\ home \in [Evaluation -> BOOLEAN] /\ broker \in [Evaluation -> {"none", "gone"} \union Alive]
      /\ calls \in [Evaluation -> Nat] /\ calls[x] \in Nat
  BY <1>0 DEF NodeTypes
<1>2. ASSUME UNCHANGED node PROVE Local(x)
  BY <1>1, <1>2 DEF node, SameAttempt
<1>3. ASSUME NEW e \in Evaluation, AckStart(e) \/ UNCHANGED <<broker, calls>>
      PROVE  /\ x # e => broker'[x] = broker[x] /\ calls'[x] = calls[x]
             /\ \/ broker'[x] = broker[x] /\ calls'[x] = calls[x]
                \/ online /\ memory[x] = "waitsAck" /\ broker[x] = "asked" /\ broker'[x] = "calling" /\ calls'[x] = calls[x] + 1
  BY <1>3, <1>t DEF AckStart
<1>4. ASSUME NEW e \in Evaluation, e # x, NEW result, NEW usage, Finish(e, result, usage)
      PROVE  journal'[x] = journal[x] /\ memory'[x] = memory[x]
  BY <1>4, <1>t DEF Finish
<1>h. ASSUME down # <<>> PROVE Head(down) \in Downstream /\ Head(down).eval \in Evaluation
  <2>1. down \in Seq(Downstream)
    BY <1>0 DEF WireTypes
  <2>2. Head(down) \in Downstream
    BY <1>h, <2>1, Tailed
  <2> QED
    BY <2>2 DEF Downstream
<1>5. CASE TakeRequest
  <2> DEFINE e == Head(down).eval
  <2>1. e \in Evaluation
    BY <1>5, <1>h DEF TakeRequest
  <2>2. CASE journal[e].state = "none"
    <3>1. /\ journal' = [journal EXCEPT ![e].state = "active"] /\ memory' = [memory EXCEPT ![e] = "preparing"]
          /\ UNCHANGED <<broker, calls, home>>
      BY <1>5, <2>2 DEF TakeRequest
    <3>2. CASE x # e
      BY <1>1, <1>t, <2>1, <3>1, <3>2 DEF SameAttempt
    <3>3. CASE x = e
      <4>1. journal'[x] = [journal[x] EXCEPT !.state = "active"] /\ memory'[x] = "preparing"
        BY <1>t, <3>1, <3>3
      <4> QED
        BY <1>0, <1>t, <1>5, <2>2, <3>1, <3>3, <4>1 DEF Local, Node, Never, Entry, Alive
    <3> QED
      BY <3>2, <3>3
  <2>3. CASE journal[e].state # "none"
    <3>1. /\ AckStart(e) /\ UNCHANGED <<journal, home>>
          /\ memory' = IF online /\ memory[e] = "waitsAck" THEN [memory EXCEPT ![e] = "running"] ELSE memory
      BY <1>5, <2>3 DEF TakeRequest
    <3>2. /\ x # e => broker'[x] = broker[x] /\ calls'[x] = calls[x]
          /\ \/ broker'[x] = broker[x] /\ calls'[x] = calls[x]
             \/ online /\ memory[x] = "waitsAck" /\ broker[x] = "asked" /\ broker'[x] = "calling" /\ calls'[x] = calls[x] + 1
      BY <1>3, <2>1, <3>1
    <3>3. memory'[x] = memory[x] \/ (memory[x] = "waitsAck" /\ memory'[x] = "running")
      BY <1>t, <3>1, <2>1
    <3> QED
      BY <1>0, <1>t, <3>1, <3>2, <3>3 DEF Local, Node, Never, Alive
  <2> QED
    BY <2>2, <2>3
<1>6. CASE TakeCancel
  <2> DEFINE e == Head(down).eval
  <2>1. e \in Evaluation
    BY <1>6, <1>h DEF TakeCancel
  <2>2. CASE memory[e] \in {"none", "finishing", "aborted"}
    BY <1>1, <1>6, <2>2 DEF TakeCancel, SameAttempt
  <2>3. CASE memory[e] = "preparing"
    <3>1. memory' = [memory EXCEPT ![e] = "aborted"] /\ UNCHANGED <<journal, home, broker, calls>>
      BY <1>6, <2>3 DEF TakeCancel
    <3>2. memory'[x] = memory[x] \/ (memory[x] = "preparing" /\ memory'[x] = "aborted")
      BY <1>t, <2>3, <3>1
    <3> QED
      BY <1>0, <3>1, <3>2 DEF Local, Node, Never
  <2>4. CASE memory[e] \notin {"none", "finishing", "aborted", "preparing"}
    <3>1. Finish(e, "other", 0) /\ UNCHANGED <<home, broker, calls>>
      BY <1>6, <2>4 DEF TakeCancel
    <3>2. CASE x # e
      BY <1>1, <1>4, <2>1, <3>1, <3>2 DEF SameAttempt
    <3>3. CASE x = e
      <4> HIDE DEF e
      <4>1. "other" \in Outcome \ {"none"} /\ 0 \in {0, Actual, Over}
        BY DEF Outcome
      <4> QED
        BY <1>0, <2>1, <3>1, <3>3, <4>1, FinishLocal
    <3> QED
      BY <3>2, <3>3
  <2> QED
    BY <2>2, <2>3, <2>4
<1>7. CASE TakeAck
  <2> DEFINE e == Head(down).eval
  <2>1. e \in Evaluation /\ UNCHANGED <<memory, home, broker, calls>>
    BY <1>7, <1>h DEF TakeAck
  <2>2. journal'[x] = journal[x] \/ (x = e /\ journal[x].state = "result"
                                     /\ journal'[x] = [journal[x] EXCEPT !.state = "acked", !.result = "none", !.usage = 0])
    BY <1>t, <1>7, <2>1 DEF TakeAck
  <2>3. CASE journal'[x] = journal[x]
    BY <1>1, <2>1, <2>3 DEF SameAttempt
  <2>4. CASE x = e /\ journal[x].state = "result" /\ journal'[x] = [journal[x] EXCEPT !.state = "acked", !.result = "none", !.usage = 0]
    <3>1. /\ journal'[x].state = "acked" /\ journal'[x].result = "none"
          /\ journal'[x].started = journal[x].started /\ journal'[x].pid = journal[x].pid
      BY <1>t, <2>4 DEF Entry
    <3> QED
      BY <1>0, <1>t, <1>7, <2>1, <2>4, <3>1 DEF Local, Node, Never
  <2> QED
    BY <2>2, <2>3, <2>4
<1>8. CASE Drop
  BY <1>2, <1>8 DEF Drop
<1>9. CASE Reconnect
  <2>1. /\ UNCHANGED <<journal, home>>
        /\ memory'[x] = IF memory[x] = "waitsAck" THEN "running" ELSE memory[x]
        /\ IF memory[x] = "waitsAck" /\ broker[x] = "asked"
           THEN broker'[x] = "calling" /\ calls'[x] = calls[x] + 1
           ELSE broker'[x] = broker[x] /\ calls'[x] = calls[x]
    BY <1>9 DEF Reconnect
  <2> QED
    BY <1>0, <1>t, <2>1 DEF Local, Node, Never, Alive
<1>10. CASE NodeRestarts
  <2>1. /\ UNCHANGED <<home, broker, calls>> /\ memory'[x] = "none"
        /\ journal'[x] = IF journal[x].state = "active" THEN [journal[x] EXCEPT !.state = "result", !.result = "other"]
                         ELSE journal[x]
    BY <1>10 DEF NodeRestarts
  <2>2. /\ journal'[x].state = IF journal[x].state = "active" THEN "result" ELSE journal[x].state
        /\ journal'[x].result = IF journal[x].state = "active" THEN "other" ELSE journal[x].result
        /\ journal'[x].started = journal[x].started /\ journal'[x].pid = journal[x].pid
    BY <1>t, <2>1 DEF Entry
  <2> QED
    BY <1>0, <1>t, <2>1, <2>2 DEF Local, Node, Never, Entry
<1> SUFFICES ASSUME NEW e \in Evaluation, NodeStep(e) \/ BrokerStep(e)
             PROVE  Local(x)
  <2>1. UNCHANGED vars => UNCHANGED node
    BY DEF vars
  <2> QED
    BY <1>2, <1>5, <1>6, <1>7, <1>8, <1>9, <1>10, <2>1, Sides DEF NodeSide, NodeFrames
<1>11. ASSUME NEW result \in Outcome \ {"none"}, NEW usage \in {0, Actual, Over}, Finish(e, result, usage),
              home'[e] = home[e] \/ (home'[e] /\ memory[e] \in {"preparing", "aborted"}),
              x # e => home'[x] = home[x] /\ broker'[x] = broker[x] /\ calls'[x] = calls[x],
              \/ broker'[e] = broker[e] /\ calls'[e] = calls[e] /\ broker[e] = "none" /\ memory[e] \in {"preparing", "aborted"}
              \/ broker'[e] = "gone" /\ calls'[e] = calls[e]
              \/ broker'[e] = broker[e] /\ calls'[e] = calls[e] /\ result = "other"
              \/ broker[e] = "asked" /\ broker'[e] = "calling" /\ calls'[e] = calls[e] + 1 /\ result = "other",
              result = "pre" => broker[e] \in {"none", "fresh", "init", "read"} /\ (broker'[e] = "none" \/ broker'[e] = "gone"),
              result = "completed" => broker[e] = "calling"
       PROVE  Local(x)
  <2>1. CASE x = e
    BY <1>0, <1>11, <2>1, FinishLocal
  <2>2. CASE x # e
    BY <1>1, <1>4, <1>11, <2>2 DEF SameAttempt
  <2> QED
    BY <2>1, <2>2
<1>12. CASE PrepareFails(e)
  <2>1. /\ memory[e] \in {"preparing", "aborted"} /\ home' \in {home, [home EXCEPT ![e] = TRUE]} /\ UNCHANGED <<broker, calls>>
        /\ \E code \in {"pre", "other"} : Finish(e, code, 0)
    BY <1>12 DEF PrepareFails
  <2>2. broker[e] = "none"
    BY <2>1 DEF NodeInv, Node
  <2>3. (home'[e] = home[e] \/ home'[e]) /\ (x # e => home'[x] = home[x])
    BY <1>t, <2>1
  <2>4. {"pre", "other"} \subseteq Outcome \ {"none"} /\ 0 \in {0, Actual, Over}
    BY DEF Outcome
  <2> QED
    BY <1>11, <2>1, <2>2, <2>3, <2>4
<1>13. CASE BrokerReports(e)
  <2>1. PICK result \in {"completed", "other", "pre"}, usage \in {0, Actual, Over} :
           /\ Finish(e, result, usage)
           /\ result = "pre" => broker[e] \in {"init", "read"}
           /\ result = "completed" => broker[e] = "calling"
    <3>1. PICK report \in IF broker[e] = "calling"
                          THEN {<<"completed", Actual>>, <<"other", Actual>>, <<"other", Over>>, <<"other", 0>>}
                          ELSE {<<"other", 0>>} \union (IF broker[e] = "asked" THEN {} ELSE {<<"pre", 0>>}) :
                    Finish(e, report[1], report[2])
      BY <1>13 DEF BrokerReports
    <3>2. /\ report[1] \in {"completed", "other", "pre"} /\ report[2] \in {0, Actual, Over}
          /\ report[1] = "pre" => broker[e] # "calling" /\ broker[e] # "asked"
          /\ report[1] = "completed" => broker[e] = "calling"
      BY <3>1
    <3>3. broker[e] \in {"init", "read", "asked", "calling"}
      BY <1>13 DEF BrokerReports
    <3> QED
      BY <3>1, <3>2, <3>3
  <2>2. broker' = [broker EXCEPT ![e] = "gone"] /\ UNCHANGED <<home, calls>>
    BY <1>13 DEF BrokerReports
  <2>3. broker'[e] = "gone" /\ (x # e => broker'[x] = broker[x])
    BY <1>t, <2>2
  <2>4. result \in Outcome \ {"none"}
    BY DEF Outcome
  <2> QED
    BY <1>11, <2>1, <2>2, <2>3, <2>4
<1>14. CASE BrokerDies(e)
  <2>1. Finish(e, "other", 0) /\ broker' = [broker EXCEPT ![e] = "gone"] /\ UNCHANGED <<home, calls>>
    BY <1>14 DEF BrokerDies
  <2>2. broker'[e] = "gone" /\ (x # e => broker'[x] = broker[x])
    BY <1>t, <2>1
  <2>3. "other" \in Outcome \ {"none"} /\ 0 \in {0, Actual, Over}
    BY DEF Outcome
  <2> QED
    BY <1>11, <2>1, <2>2, <2>3
<1>15. CASE TimerFires(e)
  <2>1. Finish(e, "other", 0) /\ AckStart(e) /\ UNCHANGED home
    BY <1>15 DEF TimerFires
  <2>2. /\ x # e => broker'[x] = broker[x] /\ calls'[x] = calls[x]
        /\ \/ broker'[e] = broker[e] /\ calls'[e] = calls[e]
           \/ broker[e] = "asked" /\ broker'[e] = "calling" /\ calls'[e] = calls[e] + 1
    BY <1>t, <2>1 DEF AckStart
  <2>3. "other" \in Outcome \ {"none"} /\ 0 \in {0, Actual, Over}
    BY DEF Outcome
  <2> QED
    BY <1>11, <2>1, <2>2, <2>3
<1>16. CASE Spawn(e)
  <2>1. /\ memory[e] = "preparing" /\ UNCHANGED <<journal, calls>>
        /\ x = e => memory'[x] = "spawned" /\ home'[x] /\ broker'[x] = "fresh"
        /\ x # e => memory'[x] = memory[x] /\ home'[x] = home[x] /\ broker'[x] = broker[x]
    BY <1>t, <1>16 DEF Spawn
  <2> QED
    BY <1>0, <1>1, <1>t, <2>1 DEF SameAttempt, Local, Node, Never, Alive
<1>17. CASE Initialize(e)
  <2>1. /\ memory[e] = "spawned" /\ broker[e] = "fresh" /\ UNCHANGED <<calls, home>>
        /\ x = e => /\ memory'[x] = "running" /\ broker'[x] = "init" /\ journal'[x] = [journal[x] EXCEPT !.pid = TRUE]
        /\ x # e => memory'[x] = memory[x] /\ journal'[x] = journal[x] /\ broker'[x] = broker[x]
    BY <1>t, <1>17 DEF Initialize
  <2>2. CASE x = e
    <3>1. /\ journal'[x].state = journal[x].state /\ journal'[x].result = journal[x].result
          /\ journal'[x].started = journal[x].started /\ journal'[x].pid
      BY <1>t, <2>1, <2>2 DEF Entry
    <3> QED
      BY <1>0, <1>t, <2>1, <2>2, <3>1 DEF Local, Node, Never, Alive
  <2> QED
    BY <1>1, <2>1, <2>2 DEF SameAttempt
<1>18. CASE InputsRead(e)
  <2>1. /\ memory[e] = "running" /\ broker[e] = "init" /\ UNCHANGED <<journal, memory, calls, home>>
        /\ x = e => broker'[x] = "read"
        /\ x # e => broker'[x] = broker[x]
    BY <1>t, <1>18 DEF InputsRead
  <2> QED
    BY <1>0, <1>1, <1>t, <2>1 DEF SameAttempt, Local, Node, Never, Alive
<1>19. CASE AskModel(e)
  <2>1. /\ memory[e] = "running" /\ broker[e] = "read" /\ UNCHANGED home
        /\ journal' = [journal EXCEPT ![e].started = TRUE]
        /\ \/ /\ broker' = [broker EXCEPT ![e] = "calling"] /\ calls' = [calls EXCEPT ![e] = @ + 1] /\ UNCHANGED memory
           \/ /\ broker' = [broker EXCEPT ![e] = "asked"] /\ memory' = [memory EXCEPT ![e] = "waitsAck"] /\ UNCHANGED calls
    BY <1>19 DEF AskModel
  <2>2. CASE x = e
    <3>1. /\ journal'[x] = [journal[x] EXCEPT !.started = TRUE]
          /\ \/ broker'[x] = "calling" /\ calls'[x] = calls[x] + 1 /\ memory'[x] = "running"
             \/ broker'[x] = "asked" /\ calls'[x] = calls[x] /\ memory'[x] = "waitsAck"
      BY <1>t, <2>1, <2>2
    <3>2. /\ journal'[x].state = journal[x].state /\ journal'[x].result = journal[x].result
          /\ journal'[x].started /\ journal'[x].pid = journal[x].pid
      BY <1>t, <3>1 DEF Entry
    <3> QED
      BY <1>0, <1>t, <2>1, <2>2, <3>1, <3>2 DEF Local, Node, Never, Alive
  <2>3. CASE x # e
    BY <1>1, <1>t, <2>1, <2>3 DEF SameAttempt
  <2> QED
    BY <2>2, <2>3
<1>20. CASE Release(e)
  <2>1. /\ memory[e] = "finishing" /\ UNCHANGED <<calls, home>>
        /\ x = e => /\ memory'[x] = "none" /\ journal'[x] = [journal[x] EXCEPT !.pid = FALSE]
                    /\ broker'[x] = IF broker[x] \in Alive THEN "gone" ELSE broker[x]
        /\ x # e => memory'[x] = memory[x] /\ journal'[x] = journal[x] /\ broker'[x] = broker[x]
    BY <1>t, <1>20 DEF Release
  <2>2. CASE x = e
    <3>1. /\ journal'[x].state = journal[x].state /\ journal'[x].result = journal[x].result
          /\ journal'[x].started = journal[x].started
      BY <1>t, <2>1, <2>2 DEF Entry
    <3>2. broker'[x] \notin Alive
      BY <2>1, <2>2 DEF Alive
    <3>3. broker'[x] \in {"none", "gone"} /\ (broker[x] \in {"none", "gone"} => broker'[x] = broker[x])
      BY <1>t, <2>1, <2>2 DEF Alive
    <3> QED
      BY <1>0, <1>t, <2>1, <2>2, <3>1, <3>2, <3>3 DEF Local, Node, Never
  <2> QED
    BY <1>1, <2>1, <2>2 DEF SameAttempt
<1>21. CASE Cleanup(e)
  <2>1. /\ journal[e].state \in {"result", "acked"} /\ memory[e] = "none" /\ UNCHANGED <<memory, calls>>
        /\ \/ Stopped(e) /\ home' = [home EXCEPT ![e] = FALSE] /\ UNCHANGED broker
              /\ journal' = [journal EXCEPT ![e].cleaned = TRUE, ![e].pid = FALSE]
           \/ broker' = [broker EXCEPT ![e] = "gone"] /\ UNCHANGED <<home, journal>>
    BY <1>21 DEF Cleanup
  <2>2. CASE x # e
    BY <1>1, <1>t, <2>1, <2>2 DEF SameAttempt
  <2>3. CASE x = e /\ Stopped(e) /\ home' = [home EXCEPT ![e] = FALSE] /\ UNCHANGED broker
                   /\ journal' = [journal EXCEPT ![e].cleaned = TRUE, ![e].pid = FALSE]
    <3>1. journal'[x] = [journal[x] EXCEPT !.cleaned = TRUE, !.pid = FALSE]
      BY <1>t, <2>3
    <3>2. /\ journal'[x].state = journal[x].state /\ journal'[x].result = journal[x].result
          /\ journal'[x].started = journal[x].started
      BY <1>t, <3>1 DEF Entry
    <3>3. broker[x] \notin Alive \ {"fresh"}
      BY <1>0, <2>3 DEF Node, Stopped
    <3> QED
      BY <1>0, <1>t, <2>1, <2>3, <3>2, <3>3 DEF Local, Node, Never
  <2>4. CASE x = e /\ broker' = [broker EXCEPT ![e] = "gone"] /\ UNCHANGED <<home, journal>>
    <3>1. broker'[x] = "gone"
      BY <1>t, <2>4
    <3> QED
      BY <1>0, <1>t, <2>1, <2>4, <3>1 DEF Local, Node, Never, Alive
  <2> QED
    BY <2>1, <2>2, <2>3, <2>4
<1>22. CASE OrphanEnds(e)
  <2>1. /\ memory[e] = "none" /\ broker[e] \in Alive /\ UNCHANGED <<journal, memory, calls, home>>
        /\ x = e => broker'[x] = "gone"
        /\ x # e => broker'[x] = broker[x]
    BY <1>t, <1>22 DEF OrphanEnds
  <2> QED
    BY <1>0, <1>1, <1>t, <2>1 DEF SameAttempt, Local, Node, Never, Alive
<1> QED
  BY <1>12, <1>13, <1>14, <1>15, <1>16, <1>17, <1>18, <1>19, <1>20, <1>21, <1>22 DEF NodeStep, BrokerStep

-----------------------------------------------------------------------------
(* What is known only grows *)

\* acceptRouterResult ends the row and keeps what it knew of the start.
LEMMA Judged ==
    ASSUME NEW e, row[e] \in Row, NEW f
    PROVE  /\ Judge(e, f).status \in {"stale", "completed", "failed"}
           /\ Judge(e, f).started = row[e].started /\ Judge(e, f).usage = f.usage
           /\ Judge(e, f).pre => f.result = "pre" /\ ~row[e].started
           /\ Judge(e, f).reason = "model_start_missing" => f.result = "completed" /\ ~row[e].started
BY DEF Judge, Row

\* The frame a handler of the Hub takes is of a dispatched row.
LEMMA HeadKnown ==
    ASSUME TypeOK, Frames, up # <<>>
    PROVE  /\ Head(up) \in Upstream /\ Head(up).eval \in Dispatched /\ Head(up).eval \in Evaluation
           /\ Head(up).kind = "result" /\ Head(up).result = "pre" => Head(up).eval \in Silent
           /\ Head(up).kind = "result" /\ Head(up).result = "completed" => Head(up).eval \in Told
<1>1. up \in Seq(Upstream)
  BY DEF TypeOK
<1>2. Head(up) = up[1] /\ Head(up) \in Upstream /\ 1 \in DOMAIN up
  BY <1>1, Tailed
<1>3. \A k \in 1..(1 - 1) : FALSE
  OBVIOUS
<1> QED
  BY <1>2, <1>3 DEF Frames, Sound, Dispatched

\* Every step keeps the reservations of the Hub.
LEMMA ReservedStep ==
    ASSUME TypeOK, Reserved, Frames, [Next]_vars
    PROVE  Reserved'
<1> SUFFICES ASSUME NEW x \in Evaluation
             PROVE  /\ row'[x].status \in {"unused", "queued"} => settled'[x] = "none" /\ ~row'[x].pre /\ ~row'[x].started
                    /\ row'[x].status \in Active => settled'[x] = "reserved"
                    /\ x \in owed' => row'[x].status \in Terminal /\ settled'[x] # "none"
  BY DEF Reserved
<1>0. row \in [Evaluation -> Row] /\ row[x] \in Row /\ settled \in [Evaluation -> {"none", "reserved", "zero", "charged"}]
  BY DEF TypeOK
<1>1. RowMove(x) /\ SettledMove(x) /\ (x \in owed' => x \in owed \/ (TakeResult /\ x = Head(up).eval))
  BY Moves
<1>2. /\ row[x].status \in {"unused", "queued"} => settled[x] = "none" /\ ~row[x].pre /\ ~row[x].started
      /\ row[x].status \in Active => settled[x] = "reserved"
      /\ x \in owed => row[x].status \in Terminal /\ settled[x] # "none"
  BY DEF Reserved
<1>3. Settle(x) => row[x].status \in Terminal /\ settled[x] = "reserved" /\ settled'[x] \in {"zero", "charged"} /\ row' = row
  BY <1>0 DEF Settle
<1>4. row'[x] = Judge(x, Head(up)) => row'[x].status \in Terminal
  BY <1>0, Judged DEF Terminal
<1>5. TakeResult /\ x = Head(up).eval => row'[x].status \in Terminal /\ settled'[x] = settled[x] /\ settled[x] # "none"
  <2> SUFFICES ASSUME TakeResult, x = Head(up).eval
               PROVE  row'[x].status \in Terminal /\ settled'[x] = settled[x] /\ settled[x] # "none"
    OBVIOUS
  <2>1. row'[x] = IF row[x].status \in Terminal THEN row[x] ELSE Judge(x, Head(up))
    BY <1>0 DEF TakeResult
  <2> QED
    BY <1>4, <2>1, HeadKnown DEF TakeResult, Dispatched
<1>6. row[x].status \in {"unused", "queued"} \union Active \union Terminal
  BY <1>0 DEF Row
<1> QED
  BY <1>1, <1>2, <1>3, <1>4, <1>5, <1>6 DEF RowMove, SettledMove, Same, Active, Terminal

\* A row that was dispatched, decided, told of or silent stays so.
LEMMA Grows ==
    ASSUME TypeOK, Reserved, NodeInv, Frames, [Next]_vars
    PROVE  Dispatched \subseteq Dispatched' /\ Decided \subseteq Decided' /\ Silent \subseteq Silent' /\ Told \subseteq Told'
<1>1. ASSUME NEW x \in Evaluation
      PROVE  /\ settled[x] # "none" => settled'[x] # "none"
             /\ settled[x] \in {"zero", "charged"} => settled'[x] \in {"zero", "charged"}
             /\ row[x].started \/ x \in refused => row'[x].started \/ x \in refused'
             /\ Never(x) => Never(x)'
  <2>0. row \in [Evaluation -> Row] /\ row[x] \in Row /\ settled \in [Evaluation -> {"none", "reserved", "zero", "charged"}]
    BY DEF TypeOK
  <2>1. RowMove(x) /\ SettledMove(x) /\ refused \subseteq refused' /\ Local(x)
    BY Moves, AttemptStep
  <2>2. row[x].status \in {"unused", "queued"} => settled[x] = "none" /\ ~row[x].started
    BY DEF Reserved
  <2>3. Settle(x) => settled[x] = "reserved" /\ settled'[x] \in {"zero", "charged"}
    BY <2>0 DEF Settle
  <2>4. row'[x] = Judge(x, Head(up)) => row'[x].started = row[x].started
    BY <2>0, Judged
  <2>5. row[x].started => row'[x].started
    BY <2>1, <2>2, <2>4 DEF RowMove, Same
  <2> QED
    BY <2>1, <2>2, <2>3, <2>5 DEF SettledMove, Local
<1>2. Dispatched \subseteq Dispatched' /\ Decided \subseteq Decided'
  BY <1>1 DEF Dispatched, Decided
<1>3. Told \subseteq Told'
  BY <1>1 DEF Told
<1>4. Silent \subseteq Silent'
  BY <1>1 DEF Silent
<1> QED
  BY <1>2, <1>3, <1>4

\* What names an attempt or acknowledges its result does so rightly after a step.
LEMMA KnownStep ==
    ASSUME TypeOK, Reserved, Known, NodeInv, Frames, [Next]_vars
    PROVE  Known'
<1>0. /\ down \in Seq(Downstream) /\ Dispatched \subseteq Dispatched' /\ Decided \subseteq Decided'
      /\ settled \in [Evaluation -> {"none", "reserved", "zero", "charged"}]
  BY Grows DEF TypeOK
<1>h. ASSUME down # <<>>
      PROVE  Head(down).eval \in Dispatched /\ (Head(down).kind = "ack" => Head(down).eval \in Decided)
  <2>1. Head(down) = down[1] /\ 1 \in DOMAIN down
    BY <1>h, <1>0, Tailed
  <2> QED
    BY <2>1 DEF Known
<1>1. ASSUME NEW x \in Evaluation
      PROVE  /\ journal'[x].state # "none" => x \in Dispatched'
             /\ journal'[x].state = "acked" => x \in Decided'
  <2>1. Local(x)
    BY AttemptStep
  <2>2. TakeRequest => down # <<>>
    BY DEF TakeRequest
  <2>3. TakeAck => down # <<>> /\ Head(down).kind = "ack"
    BY DEF TakeAck
  <2> QED
    BY <1>0, <1>h, <2>1, <2>2, <2>3 DEF Local, Known
<1> DEFINE D == /\ \A i \in DOMAIN down' : down'[i].eval \in Dispatched'
                /\ \A i \in DOMAIN down' : down'[i].kind = "ack" => down'[i].eval \in Decided'
<1>2. ASSUME down' = down PROVE D
  BY <1>0, <1>2 DEF Known
<1>3. ASSUME down # <<>>, down' = Tail(down) PROVE D
  <2>1. \A i \in DOMAIN Tail(down) : i + 1 \in DOMAIN down /\ Tail(down)[i] = down[i + 1]
    BY <1>0, <1>3, Tailed
  <2> QED
    BY <1>0, <1>3, <2>1 DEF Known
<1>4. ASSUME NEW m \in Downstream, down' = Append(down, m),
             m.eval \in Dispatched, m.kind = "ack" => m.eval \in Decided
      PROVE  D
  <2> DEFINE r == Append(down, m)
  <2>1. /\ \A i \in DOMAIN r : i \in DOMAIN down \/ i = Len(down) + 1
        /\ \A i \in DOMAIN down : r[i] = down[i]
        /\ r[Len(down) + 1] = m
    BY <1>0, Extended
  <2> HIDE DEF r
  <2>2. \A i \in DOMAIN r : r[i].eval \in Dispatched /\ (r[i].kind = "ack" => r[i].eval \in Decided)
    BY <1>4, <2>1 DEF Known
  <2>3. down' = r
    BY <1>4 DEF r
  <2> QED
    BY <1>0, <2>2, <2>3
<1>5. ASSUME down' = <<>> PROVE D
  BY <1>5
<1>6. D
  <2>1. CASE UNCHANGED vars
    BY <1>2, <2>1 DEF vars
  <2>2. CASE HubFrames \/ ChangeFacts \/ Reconnect
    BY <1>2, <2>2 DEF HubFrames, TakeHeartbeat, TakeResult, ChangeFacts, Reconnect
  <2>3. CASE NodeFrames
    BY <1>3, <2>3 DEF NodeFrames, TakeRequest, TakeCancel, TakeAck
  <2>4. CASE Drop \/ NodeRestarts
    BY <1>5, <2>4 DEF Drop, NodeRestarts
  <2>5. ASSUME NEW e \in Evaluation, SendAck(e) \/ Resend(e) \/ EndActive(e) PROVE D
    <3>1. CASE SendAck(e)
      <4>1. e \in Dispatched /\ e \in Decided
        BY <1>0, <3>1 DEF SendAck, Reserved, Dispatched, Decided
      <4>2. [kind |-> "ack", eval |-> e] \in Downstream
        BY DEF Downstream
      <4> QED
        BY <1>2, <1>4, <3>1, <4>1, <4>2 DEF SendAck
    <3>2. CASE Resend(e)
      <4>1. e \in Dispatched
        BY <3>2 DEF Resend, Reserved, Dispatched, Active
      <4>2. [kind |-> "request", eval |-> e] \in Downstream
        BY DEF Downstream
      <4> QED
        BY <1>4, <3>2, <4>1, <4>2 DEF Resend
    <3>3. CASE EndActive(e)
      <4>1. e \in Dispatched
        BY <3>3 DEF EndActive, Reserved, Dispatched
      <4>2. [kind |-> "cancel", eval |-> e] \in Downstream
        BY DEF Downstream
      <4> QED
        BY <1>2, <1>4, <3>3, <4>1, <4>2 DEF EndActive
    <3> QED
      BY <2>5, <3>1, <3>2, <3>3
  <2>6. ASSUME NEW e \in Evaluation,
               \/ (\E t \in Trigger : Enqueue(e, t)) \/ LeaseEnds(e)
               \/ EndQueued(e) \/ Dispatch(e) \/ Settle(e) \/ Apply(e)
               \/ NodeStep(e) \/ BrokerStep(e)
        PROVE  D
    <3>1. CASE NodeStep(e)
      BY <1>2, <3>1 DEF NodeStep, PrepareFails, Spawn, Initialize, Release, Cleanup, OrphanEnds
    <3>2. CASE BrokerStep(e)
      BY <1>2, <3>2 DEF BrokerStep, InputsRead, AskModel, BrokerReports, BrokerDies, TimerFires
    <3> QED
      BY <1>2, <2>6, <3>1, <3>2 DEF Enqueue, LeaseEnds, EndQueued, Dispatch, Settle, Apply
  <2> QED
    BY <2>1, <2>2, <2>3, <2>4, <2>5, <2>6 DEF Next, HubTick
<1> QED
  BY <1>1, <1>6 DEF Known

-----------------------------------------------------------------------------
(* Answers from before the model was asked, and starts *)

\* What is said to come from before the model was asked comes from an attempt
\* that is over and never reached it; a settlement without a charge too.
LEMMA PreTrueStep ==
    ASSUME TypeOK, Reserved, NodeInv, Frames, PreTrue, [Next]_vars
    PROVE  PreTrue'
<1> SUFFICES ASSUME NEW x \in Evaluation,
                    journal'[x].result = "pre" \/ row'[x].pre \/ settled'[x] = "zero"
             PROVE  x \in Silent'
  BY DEF PreTrue
<1>0. /\ row \in [Evaluation -> Row] /\ row[x] \in Row /\ settled \in [Evaluation -> {"none", "reserved", "zero", "charged"}]
      /\ Silent \subseteq Silent'
  BY Grows DEF TypeOK
<1>1. Local(x) /\ RowMove(x) /\ SettledMove(x)
  BY Moves, AttemptStep
<1>2. CASE journal'[x].result = "pre"
  BY <1>0, <1>1, <1>2 DEF Local, PreTrue, Silent
<1>3. CASE row'[x].pre
  <2>1. row'[x] = Judge(x, Head(up)) => (row'[x].pre => Head(up).result = "pre")
    BY <1>0, Judged
  <2>2. TakeResult /\ x = Head(up).eval /\ Head(up).result = "pre" => x \in Silent
    BY HeadKnown DEF TakeResult
  <2> QED
    BY <1>0, <1>1, <1>3, <2>1, <2>2 DEF RowMove, Same, PreTrue
<1>4. CASE settled'[x] = "zero"
  <2>1. Settle(x) => Charge(x) = 0
    BY <1>0, <1>4 DEF Settle
  <2>2. Charge(x) = 0 => row[x].pre
    BY Numbers DEF Charge
  <2> QED
    BY <1>0, <1>1, <1>4, <2>1, <2>2 DEF SettledMove, PreTrue
<1> QED
  BY <1>2, <1>3, <1>4

\* Only a refused heartbeat lets the Hub miss a start.
LEMMA StartStep ==
    ASSUME TypeOK, Reserved, NodeInv, Frames, StartIsKnown, [Next]_vars
    PROVE  StartIsKnown'
<1> SUFFICES ASSUME NEW x \in Evaluation, row'[x].reason = "model_start_missing"
             PROVE  x \in refused'
  BY DEF StartIsKnown
<1>0. row \in [Evaluation -> Row] /\ row[x] \in Row
  BY DEF TypeOK
<1>1. RowMove(x) /\ refused \subseteq refused'
  BY Moves
<1>2. row'[x] = Judge(x, Head(up)) => Head(up).result = "completed" /\ ~row[x].started
  BY <1>0, Judged
<1>3. TakeResult /\ x = Head(up).eval /\ Head(up).result = "completed" => row[x].started \/ x \in refused
  BY HeadKnown DEF TakeResult, Told
<1> QED
  BY <1>0, <1>1, <1>2, <1>3 DEF RowMove, StartIsKnown

\* What is flushed of one attempt after a step fits what is then known.
LEMMA SendsSound ==
    ASSUME TypeOK, NodeTypes', Known', NodeInv', PreTrue', Sound(up, Dispatched', Silent', Told'),
           NEW e \in Evaluation, journal'[e].state # "none", Sends(Flush(e, journal'))
    PROVE  Frames'
<1>1. journal' \in [Evaluation -> Entry]
  BY DEF NodeTypes
<1>2. e \in Dispatched' /\ (journal'[e].result = "pre" => e \in Silent') /\ (journal'[e].result = "completed" => journal'[e].started)
  BY DEF Known, PreTrue, NodeInv, Node
<1>3. Flush(e, journal') \in Seq(Upstream) /\ Sound(Flush(e, journal'), Dispatched', Silent', Told')
  BY <1>1, <1>2, FlushSound
<1>4. up \in Seq(Upstream)
  BY DEF TypeOK
<1>5. up' = up \/ up' = up \o Flush(e, journal')
  BY DEF Sends
<1> QED
  BY <1>3, <1>4, <1>5, SoundJoined DEF Frames

\* Every step keeps what the frames on their way say.
LEMMA FramesStep ==
    ASSUME TypeOK, Reserved, Known, NodeInv, PreTrue, Frames, NodeTypes', Known', NodeInv', PreTrue', [Next]_vars
    PROVE  Frames'
<1>0. /\ up \in Seq(Upstream) /\ row \in [Evaluation -> Row] /\ journal \in [Evaluation -> Entry]
  BY DEF TypeOK
<1>1. Sound(up, Dispatched', Silent', Told') /\ Told \subseteq Told' /\ Dispatched \subseteq Dispatched' /\ Silent \subseteq Silent'
  BY Grows, SoundMore DEF Frames
<1>2. ASSUME up' = up PROVE Frames'
  BY <1>1, <1>2 DEF Frames
<1>3. ASSUME up' = <<>> PROVE Frames'
  BY <1>3 DEF Frames, Sound
<1>4. ASSUME NEW e \in Evaluation, journal'[e].state # "none", Sends(Flush(e, journal')) PROVE Frames'
  BY <1>1, <1>4, SendsSound
<1>5. ASSUME up # <<>>, up' = Tail(up), \A e \in Evaluation : Start(Head(up), e) => e \in Told' PROVE Frames'
  BY <1>0, <1>1, <1>5, SoundTail DEF Frames
<1>6. CASE TakeHeartbeat
  <2>2. ASSUME NEW e \in Evaluation, Start(Head(up), e) PROVE e \in Told'
    <3>1. e = Head(up).eval /\ Head(up).started
      BY <2>2 DEF Start
    <3>2. CASE Live(e) /\ Rebuilt(e)
      <4>1. row' = [row EXCEPT ![e].status = "running", ![e].started = @ \/ Head(up).started]
        BY <1>6, <3>1, <3>2 DEF TakeHeartbeat
      <4>2. row[e] \in Row
        BY <1>0
      <4>3. row'[e].started = (row[e].started \/ Head(up).started)
        BY <1>0, <4>1, <4>2 DEF Row
      <4> QED
        BY <3>1, <4>3 DEF Told
    <3>3. CASE ~(Live(e) /\ Rebuilt(e))
      BY <1>6, <3>1, <3>3 DEF TakeHeartbeat, Told
    <3> QED
      BY <3>2, <3>3
  <2> QED
    BY <1>5, <1>6, <2>2 DEF TakeHeartbeat
<1>7. CASE TakeResult
  BY <1>5, <1>7 DEF TakeResult, Start
<1>8. CASE Drop \/ NodeRestarts
  BY <1>2, <1>3, <1>8 DEF Drop, NodeRestarts
<1>9. CASE Reconnect
  <2>1. EntriesSound(Dispatched, Silent)
    BY DEF EntriesSound, Known, PreTrue, NodeInv, Node
  <2>2. Sound(FlushAll, Dispatched, Silent, Told)
    BY <2>1, FlushAllSound
  <2> QED
    BY <1>1, <1>9, <2>2, SoundMore DEF Reconnect, Frames
<1>10. ASSUME NEW e \in Evaluation, NEW result, NEW usage, Finish(e, result, usage) PROVE Frames'
  <2>1. memory[e] \notin {"none", "finishing"} /\ memory[e] \in {"none", "preparing", "aborted", "spawned", "waitsAck", "running", "finishing"}
    BY <1>10 DEF Finish, TypeOK
  <2>2. journal[e].state = "active" /\ journal[e] \in Entry
    BY <1>0, <2>1 DEF NodeInv, Node
  <2> DEFINE r == [journal[e] EXCEPT !.state = "result", !.result = result, !.usage = usage]
  <2>3. journal' = [journal EXCEPT ![e] = r] /\ Sends(Flush(e, journal'))
    BY <1>10, <1>0, <2>2 DEF Finish
  <2>4. r.state = "result"
    BY <2>2 DEF Entry
  <2> HIDE DEF r
  <2>5. journal'[e].state = "result"
    BY <1>0, <2>3, <2>4
  <2> QED
    BY <1>4, <2>3, <2>5
<1>h. ASSUME down # <<>> PROVE Head(down).eval \in Evaluation
  <2>1. down \in Seq(Downstream)
    BY DEF TypeOK
  <2>2. Head(down) \in Downstream
    BY <1>h, <2>1, Tailed
  <2> QED
    BY <2>2 DEF Downstream
<1>11. CASE TakeRequest
  <2> DEFINE e == Head(down).eval
  <2>1. e \in Evaluation
    BY <1>11, <1>h DEF TakeRequest
  <2>2. \/ up' = up
        \/ journal' = journal /\ journal[e].state # "none" /\ Sends(Flush(e, journal))
    BY <1>11 DEF TakeRequest
  <2> QED
    BY <1>2, <1>4, <2>1, <2>2
<1>12. CASE TakeCancel
  <2>1. up' = up \/ Finish(Head(down).eval, "other", 0)
    BY <1>12 DEF TakeCancel
  <2> QED
    BY <1>2, <1>10, <1>12, <1>h, <2>1 DEF TakeCancel
<1>13. CASE TakeAck \/ ChangeFacts
  BY <1>2, <1>13 DEF TakeAck, ChangeFacts
<1>14. ASSUME NEW e \in Evaluation, InputsRead(e) \/ AskModel(e) PROVE Frames'
  <2>1. memory[e] = "running" /\ Sends(Flush(e, journal')) /\ (journal' = journal \/ journal' = [journal EXCEPT ![e].started = TRUE])
    BY <1>14 DEF InputsRead, AskModel
  <2>2. journal[e].state = "active" /\ journal[e] \in Entry
    BY <1>0, <2>1 DEF NodeInv, Node
  <2>3. journal'[e].state = "active"
    BY <1>0, <2>1, <2>2 DEF Entry
  <2> QED
    BY <1>4, <2>1, <2>3
<1>15. ASSUME NEW e \in Evaluation, PrepareFails(e) \/ BrokerReports(e) \/ BrokerDies(e) \/ TimerFires(e) PROVE Frames'
  BY <1>10, <1>15 DEF PrepareFails, BrokerReports, BrokerDies, TimerFires
<1>16. ASSUME NEW e \in Evaluation, NodeStep(e) \/ BrokerStep(e) PROVE Frames'
  BY <1>2, <1>14, <1>15, <1>16 DEF NodeStep, BrokerStep, Spawn, Initialize, Release, Cleanup, OrphanEnds
<1>17. ASSUME NEW e \in Evaluation, (\E t \in Trigger : Enqueue(e, t)) \/ LeaseEnds(e) \/ SendAck(e) \/ HubTick(e) PROVE Frames'
  BY <1>2, <1>17 DEF Enqueue, LeaseEnds, SendAck, HubTick, EndQueued, Dispatch, Resend, EndActive, Settle, Apply
<1>18. CASE UNCHANGED vars
  BY <1>2, <1>18 DEF vars
<1> QED
  BY <1>6, <1>7, <1>8, <1>9, <1>11, <1>12, <1>13, <1>16, <1>17, <1>18 DEF Next, HubFrames, NodeFrames

-----------------------------------------------------------------------------
(* The budget *)

\* The budget of one more evaluation.
LEMMA OneMore ==
    ASSUME NEW r \in Nat, NEW n \in Nat
    PROVE  r * (n + 1) = r * n + r /\ r * n \in Nat
OBVIOUS

Open == {e \in Evaluation : settled[e] = "reserved"}
Dear == {e \in Evaluation : settled[e] = "charged" /\ row[e].usage = Over}

\* The budget over its two sets of rows.
LEMMA BudgetSets ==
    BudgetHolds <=> /\ held = Reserve * Cardinality(Open)
                    /\ spent + held <= Limit + (Over - Reserve) * Cardinality(Dear)
BY DEF BudgetHolds, Overspent, Open, Dear

\* What one settlement costs.
LEMMA Charged ==
    ASSUME NEW e, row[e] \in Row
    PROVE  /\ Charge(e) \in Nat
           /\ Charge(e) <= Reserve \/ (Charge(e) = Over /\ row[e].usage = Over)
           /\ row[e].usage = Over => Charge(e) \in {0, Over}
BY Numbers DEF Charge, Row

\* Every step keeps the budget.
LEMMA BudgetStep ==
    ASSUME TypeOK, Reserved, BudgetHolds, [Next]_vars
    PROVE  BudgetHolds' /\ CountTypes'
<1> DEFINE n == Cardinality(Open)
           m == Cardinality(Dear)
<1>0. /\ row \in [Evaluation -> Row] /\ settled \in [Evaluation -> {"none", "reserved", "zero", "charged"}]
      /\ spent \in Nat /\ held \in Nat
  BY DEF TypeOK
<1>1. /\ IsFiniteSet(Open) /\ IsFiniteSet(Dear) /\ n \in Nat /\ m \in Nat
      /\ held = Reserve * n /\ spent + held <= Limit + (Over - Reserve) * m
  <2>1. IsFiniteSet(Open) /\ IsFiniteSet(Dear)
    BY RouterAssumption, FS_Subset DEF Open, Dear
  <2> QED
    BY <2>1, FS_CardinalityType, BudgetSets
<1>2. Over - Reserve \in Nat /\ Limit \in Nat /\ Reserve \in Nat /\ Over \in Nat /\ 0 < Reserve
  BY Numbers
<1>3. (Over - Reserve) * m \in Nat
  BY <1>1, <1>2, OneMore
<1>b. /\ held' = Reserve * Cardinality(Open)'
      /\ spent' + held' <= Limit + (Over - Reserve) * Cardinality(Dear)'
      => BudgetHolds'
  BY DEF BudgetHolds, Overspent, Open, Dear
<1>4. \A x \in Evaluation : settled[x] = "charged" => row'[x] = row[x]
  <2> SUFFICES ASSUME NEW x \in Evaluation, settled[x] = "charged" PROVE row'[x] = row[x]
    OBVIOUS
  <2>1. RowMove(x) /\ row[x] \in Row
    BY <1>0, Moves
  <2>2. row[x].status \in Terminal
    BY <2>1 DEF Reserved, Row
  <2> QED
    BY <2>1, <2>2 DEF RowMove, Active, Terminal
<1>5. CASE UNCHANGED <<settled, spent, held>>
  <2>1. Open' = Open
    BY <1>5 DEF Open
  <2>2. Dear' = Dear
    BY <1>4, <1>5 DEF Dear
  <2>3. BudgetHolds'
    BY <1>1, <1>5, <1>b, <2>1, <2>2
  <2> QED
    BY <1>0, <1>5, <2>3 DEF CountTypes
<1>6. ASSUME NEW e \in Evaluation, Dispatch(e) PROVE BudgetHolds' /\ CountTypes'
  <2>1. /\ settled[e] = "none" /\ settled' = [settled EXCEPT ![e] = "reserved"]
        /\ held' = held + Reserve /\ spent' = spent /\ spent + held + Reserve <= Limit
    BY <1>6 DEF Dispatch, Affordable, Reserved
  <2>2. Open' = Open \union {e} /\ e \notin Open
    BY <1>0, <2>1 DEF Open
  <2>3. Cardinality(Open)' = n + 1
    <3>1. Cardinality(Open \union {e}) = n + 1
      BY <1>1, <2>2, FS_AddElement
    <3> QED
      BY <2>2, <3>1
  <2>4. Dear' = Dear
    BY <1>0, <1>4, <2>1 DEF Dear
  <2>5. held' = Reserve * Cardinality(Open)'
    BY <1>1, <1>2, <2>1, <2>3, OneMore
  <2>6. spent' + held' <= Limit + (Over - Reserve) * Cardinality(Dear)'
    <3>1. spent' + held' <= Limit
      BY <1>0, <1>2, <2>1
    <3>2. (Over - Reserve) * Cardinality(Dear)' \in Nat
      BY <1>3, <2>4
    <3>3. spent' + held' \in Nat
      BY <1>0, <1>2, <2>1
    <3> QED
      BY <1>2, <3>1, <3>2, <3>3
  <2>7. CountTypes'
    BY <1>0, <1>2, <2>1 DEF CountTypes
  <2>8. BudgetHolds'
    BY <1>b, <2>5, <2>6
  <2> QED
    BY <2>7, <2>8
<1>7. ASSUME NEW e \in Evaluation, Settle(e) PROVE BudgetHolds' /\ CountTypes'
  <2>1. /\ settled[e] = "reserved" /\ settled' = [settled EXCEPT ![e] = IF Charge(e) = 0 THEN "zero" ELSE "charged"]
        /\ held' = held - Reserve /\ spent' = spent + Charge(e) /\ row' = row
    BY <1>7 DEF Settle
  <2>2. Open' = Open \ {e} /\ e \in Open
    BY <1>0, <2>1 DEF Open
  <2>3. Cardinality(Open)' = n - 1 /\ n - 1 \in Nat
    <3>1. Cardinality(Open \ {e}) = n - 1 /\ IsFiniteSet(Open \ {e})
      BY <1>1, <2>2, FS_RemoveElement
    <3>2. Cardinality(Open \ {e}) \in Nat
      BY <3>1, FS_CardinalityType
    <3> QED
      BY <2>2, <3>1, <3>2
  <2>4. held = Reserve * (n - 1) + Reserve /\ Reserve * (n - 1) \in Nat
    <3>1. Reserve * ((n - 1) + 1) = Reserve * (n - 1) + Reserve /\ Reserve * (n - 1) \in Nat
      BY <1>2, <2>3, OneMore
    <3> QED
      BY <1>1, <3>1
  <2>5. held' = Reserve * Cardinality(Open)' /\ held' \in Nat
    BY <1>2, <2>1, <2>3, <2>4
  <2>6. /\ Charge(e) \in Nat
        /\ Charge(e) <= Reserve \/ (Charge(e) = Over /\ row[e].usage = Over)
        /\ row[e].usage = Over => Charge(e) \in {0, Over}
    BY <1>0, Charged
  <2>7. CountTypes'
    BY <1>0, <2>1, <2>5, <2>6 DEF CountTypes
  <2>8. spent' + held' <= Limit + (Over - Reserve) * Cardinality(Dear)'
    <3>1. CASE Charge(e) = Over /\ row[e].usage = Over
      <4>1. Charge(e) # 0
        BY <1>2, <3>1, Numbers
      <4>2. Dear' = Dear \union {e} /\ e \notin Dear
        BY <1>0, <2>1, <3>1, <4>1 DEF Dear
      <4>3. Cardinality(Dear)' = m + 1
        <5>1. Cardinality(Dear \union {e}) = m + 1
          BY <1>1, <4>2, FS_AddElement
        <5> QED
          BY <4>2, <5>1
      <4>4. (Over - Reserve) * (m + 1) = (Over - Reserve) * m + (Over - Reserve)
        BY <1>1, <1>2, OneMore
      <4>5. spent' + held' = spent + held + (Over - Reserve)
        BY <1>0, <1>2, <2>1, <3>1
      <4> HIDE DEF m
      <4> QED
        BY <1>0, <1>1, <1>2, <1>3, <4>3, <4>4, <4>5
    <3>2. CASE Charge(e) <= Reserve
      <4>1. row[e].usage = Over => Charge(e) = 0
        BY <1>2, <2>6, <3>2, Numbers
      <4>2. Dear' = Dear
        BY <1>0, <2>1, <4>1 DEF Dear
      <4>3. spent' + held' <= spent + held
        BY <1>0, <1>2, <2>1, <2>6, <3>2
      <4>4. spent' + held' \in Nat /\ spent + held \in Nat
        BY <1>0, <2>1, <2>5, <2>6
      <4> HIDE DEF m
      <4>5. spent' + held' <= Limit + (Over - Reserve) * m
        BY <1>1, <1>2, <1>3, <4>3, <4>4
      <4> QED
        BY <4>2, <4>5 DEF m
    <3> QED
      BY <2>6, <3>1, <3>2
  <2>9. BudgetHolds'
    BY <1>b, <2>5, <2>8
  <2> QED
    BY <2>7, <2>9
<1>8. UNCHANGED <<settled, spent, held>> \/ \E e \in Evaluation : Dispatch(e) \/ Settle(e)
  <2>1. CASE UNCHANGED vars \/ UNCHANGED hub
    BY <2>1 DEF vars, hub
  <2>2. CASE HubStep
    BY <2>2 DEF HubStep, ChangeFacts, HubFrames, TakeHeartbeat, TakeResult, Enqueue, LeaseEnds, SendAck, HubTick,
                EndQueued, Resend, EndActive, Apply, hub
  <2> QED
    BY <2>1, <2>2, Sides
<1> QED
  BY <1>5, <1>6, <1>7, <1>8

-----------------------------------------------------------------------------
(* The theorems *)

\* Every step keeps the inductive invariant.
LEMMA NextSound ==
    ASSUME IInv, [Next]_vars
    PROVE  IInv'
<1>0. TypeOK /\ Reserved /\ Known /\ NodeInv /\ PreTrue /\ Frames /\ StartIsKnown /\ BudgetHolds
  BY DEF IInv
<1>1. BudgetHolds' /\ CountTypes'
  BY <1>0, BudgetStep
<1>2. TypeOK' /\ NodeTypes'
  <2>1. RowTypes' /\ NodeTypes' /\ WireTypes' /\ RestTypes'
    BY <1>0, TypeStep
  <2> QED
    BY <1>1, <2>1 DEF TypeOK, RowTypes, CountTypes, NodeTypes, WireTypes, RestTypes
<1>3. Reserved' /\ Known' /\ PreTrue' /\ StartIsKnown'
  BY <1>0, ReservedStep, KnownStep, PreTrueStep, StartStep
<1>4. NodeInv'
  <2>1. \A x \in Evaluation : Node(x)'
    BY <1>0, AttemptStep DEF Local
  <2> QED
    BY <2>1 DEF NodeInv
<1>5. Frames'
  BY <1>0, <1>2, <1>3, <1>4, FramesStep
<1> QED
  BY <1>1, <1>2, <1>3, <1>4, <1>5 DEF IInv

\* The invariant holds in every reachable state.
THEOREM Invariance == Spec => []IInv
BY InitSound, NextSound, PTL DEF Spec

\* Every variable keeps its type; spent and held never become negative.
THEOREM TypeCorrect == Spec => []TypeOK
<1>1. IInv => TypeOK
  BY DEF IInv
<1> QED
  BY <1>1, Invariance, PTL

\* An attempt asks the model at most once, however often its request is sent and
\* wherever the Node ends: the journal entry is written before the spawn.
THEOREM ModelOnceTheorem == Spec => []ModelOnce
<1>1. IInv => ModelOnce
  BY DEF IInv, NodeInv, Node, ModelOnce
<1> QED
  BY <1>1, Invariance, PTL

\* What settleCoordinationUsage settles without a charge never reached the model.
THEOREM FreeTheorem == Spec => []FreeMeansUncalled
<1>1. IInv => FreeMeansUncalled
  BY DEF IInv, PreTrue, Silent, Never, FreeMeansUncalled
<1> QED
  BY <1>1, Invariance, PTL

\* The budget of the Work: what is held is what is reserved, and only what
\* answers report beyond their reservation can exceed the limit.
THEOREM BudgetTheorem == Spec => []BudgetHolds
<1>1. IInv => BudgetHolds
  BY DEF IInv
<1> QED
  BY <1>1, Invariance, PTL

\* The private home outlives the process that was given its inputs.
THEOREM HomeTheorem == Spec => []HomeOutlivesBroker
<1>1. IInv => HomeOutlivesBroker
  BY DEF IInv, NodeInv, Node, HomeOutlivesBroker
<1> QED
  BY <1>1, Invariance, PTL

\* The Node forgets a result only after the Hub has ended and settled the row.
THEOREM AckedTheorem == Spec => []AckedIsSettled
<1>1. IInv => AckedIsSettled
  <2> SUFFICES ASSUME IInv, NEW e \in Evaluation, journal[e].state = "acked"
               PROVE  row[e].status \in Terminal /\ settled[e] \in {"zero", "charged"}
    BY DEF AckedIsSettled
  <2>1. settled[e] \in {"zero", "charged"}
    BY DEF IInv, Known, Decided
  <2>2. row[e] \in Row
    BY DEF IInv, TypeOK
  <2> QED
    BY <2>1, <2>2 DEF IInv, Reserved, Row
<1> QED
  BY <1>1, Invariance, PTL

\* A completed answer is turned down for a missing start only when the Hub
\* itself refused the heartbeat with that start.
THEOREM StartTheorem == Spec => []StartIsKnown
<1>1. IInv => StartIsKnown
  BY DEF IInv
<1> QED
  BY <1>1, Invariance, PTL
=============================================================================
