--------------------------- MODULE WorkInboxProofs ---------------------------
(***************************************************************************)
(* The safety properties of WorkInbox for any number of versions of the    *)
(* source, of Runs, and of receipts of what they read.                     *)
(*                                                                         *)
(* The records of the Hub agree among themselves: an item is with the Run  *)
(* that was created with it (Places), while its window is open nothing was *)
(* decided of the delivery (Undecided), and an item consumed is one that   *)
(* its Run took (Agreed).  The receipts of the Node meet them only when    *)
(* one arrives, so that the invariant has a part for each side.            *)
(***************************************************************************)
EXTENDS WorkInbox, FiniteSetTheorems, TLAPS

Items == [status : {"none", "pending", "aside", "superseded", "retracted",
                    "delivered", "unconfirmed", "consumed"}, run : 0..MaxRun]
InboxTypes ==
    /\ version \in Version /\ item \in [Version -> Items]
    /\ lapsed \subseteq Version /\ listed \subseteq Version \X Run
RunTypes ==
    /\ state \in [Run -> {"none", "queued", "started", "ended"}]
    /\ holds \in [Run -> 0..MaxVersion]
    /\ delivery \in [Run -> {"none", "sent", "unconfirmed", "consumed", "late", "overtaken",
                             "returned", "withdrawn"}]
    /\ consumption \in [Run -> {"none", "consumed", "duplicate", "duplicate_consumption"}]
    /\ known \subseteq Receipts
NodeTypes ==
    /\ outbox \subseteq Receipts /\ lost \subseteq Receipts
    /\ wire \in Seq(Receipts) /\ conn \in {"up", "open", "down"}
    /\ node \in [Run -> {"none", "ordered", "coming", "ready", "gone"}] /\ seq \in [Run -> 0..MaxRead]

\* What there is of a Run before it is created.
Begun ==
    \A r \in Run :
        /\ state[r] = "none" => delivery[r] = "none" /\ consumption[r] = "none" /\ node[r] = "none"
        /\ state[r] = "none" <=> holds[r] = 0

\* Only a Run that was created reads.
Readers == \A x \in outbox \union Range(wire) \union known : state[x.run] # "none"

At == {"delivered", "unconfirmed", "consumed"}

\* An item is with a Run that was created with it, or with none.
Places ==
    \A v \in Version : IF With(v, At) THEN item[v].run \in Run /\ holds[item[v].run] = v
                                      ELSE item[v].run = 0

\* Only an item that was not confirmed has a window.
Windows == \A v \in lapsed : With(v, {"unconfirmed"})

\* While its window is open, nothing was decided of a delivery.
Undecided ==
    \A v \in Version :
        With(v, {"delivered", "unconfirmed"}) /\ v \notin lapsed =>
            /\ consumption[item[v].run] = "none"
            /\ delivery[item[v].run] = IF With(v, {"delivered"}) THEN "sent" ELSE "unconfirmed"

\* The Run took the item.
Took(r) == With(holds[r], {"consumed"}) /\ item[holds[r]].run = r

\* ConsumedOnce, seen from the Runs.
Agreed ==
    \A r \in Run : holds[r] # 0 =>
        /\ consumption[r] = "consumed" <=> Took(r)
        /\ delivery[r] = "consumed" <=> Took(r)

\* No version is in the inbox before the source has it.
InTime == \A v \in Version : With(v, {"none"}) \/ v <= version

\* Nothing of a source that was withdrawn is open.
Withdrawn == Tombstone => \A v \in Version : ~With(v, Open)

\* What the Hub records agrees with itself; what the Node keeps is of Runs that exist.
HubPart == /\ InboxTypes /\ RunTypes /\ Begun /\ Places /\ Windows /\ Undecided /\ Agreed
           /\ InTime /\ OnlyNewestPending /\ Withdrawn /\ OvertakenNotDelivered
NodePart == NodeTypes /\ Begun /\ Readers /\ ReadKept
Inv == HubPart /\ NodePart

-----------------------------------------------------------------------------
(* Frames *)

\* A sequence extended by one element.
LEMMA AppendRange ==
    ASSUME NEW S, NEW s \in Seq(S), NEW e \in S
    PROVE  Append(s, e) \in Seq(S) /\ Range(Append(s, e)) = Range(s) \union {e}
<1>1. /\ Append(s, e) \in Seq(S) /\ DOMAIN s = 1..Len(s) /\ Len(s) \in Nat
      /\ DOMAIN Append(s, e) = 1..(Len(s) + 1)
      /\ \A i \in 1..Len(s) : Append(s, e)[i] = s[i]
      /\ Append(s, e)[Len(s) + 1] = e
  OBVIOUS
<1>2. 1..(Len(s) + 1) = 1..Len(s) \union {Len(s) + 1}
  BY <1>1
<1> QED
  BY <1>1, <1>2 DEF Range

\* Two sequences, one after the other.
LEMMA ConcatRange ==
    ASSUME NEW S, NEW s \in Seq(S), NEW t \in Seq(S)
    PROVE  s \o t \in Seq(S) /\ Range(s \o t) = Range(s) \union Range(t)
<1> DEFINE n == Len(s)
           k == Len(t)
<1>1. /\ s \o t \in Seq(S) /\ n \in Nat /\ k \in Nat /\ DOMAIN s = 1..n /\ DOMAIN t = 1..k
      /\ DOMAIN (s \o t) = 1..(n + k)
  OBVIOUS
<1>2. \A i \in 1..n : (s \o t)[i] = s[i] /\ i \in 1..(n + k)
  OBVIOUS
<1>3. \A i \in 1..k : (s \o t)[n + i] = t[i] /\ n + i \in 1..(n + k)
  OBVIOUS
<1>4. \A i \in 1..(n + k) : i \in 1..n \/ (i - n \in 1..k /\ n + (i - n) = i)
  BY <1>1
<1>5. \A i \in 1..(n + k) : (s \o t)[i] \in Range(s) \union Range(t)
  <2> TAKE i \in 1..(n + k)
  <2>1. CASE i \in 1..n
    BY <1>1, <1>2, <2>1 DEF Range
  <2>2. CASE i - n \in 1..k /\ n + (i - n) = i
    <3> DEFINE j == i - n
    <3>1. j \in 1..k /\ (s \o t)[n + j] = t[j]
      BY <1>3, <2>2
    <3>2. (s \o t)[i] = t[j]
      BY <2>2, <3>1
    <3> QED
      BY <1>1, <3>1, <3>2 DEF Range
  <2> QED
    BY <1>4, <2>1, <2>2
<1>6. Range(s \o t) \subseteq Range(s) \union Range(t)
  BY <1>1, <1>5 DEF Range
<1>7. Range(s) \subseteq Range(s \o t)
  BY <1>1, <1>2 DEF Range
<1>8. Range(t) \subseteq Range(s \o t)
  BY <1>1, <1>3 DEF Range
<1> QED
  BY <1>1, <1>6, <1>7, <1>8

\* The first element of a sequence and the rest.
LEMMA TailRange ==
    ASSUME NEW S, NEW s \in Seq(S), s # <<>>
    PROVE  Head(s) \in S /\ Tail(s) \in Seq(S) /\ Range(s) = {Head(s)} \union Range(Tail(s))
<1>1. /\ Head(s) \in S /\ Tail(s) \in Seq(S) /\ Len(s) \in Nat \ {0} /\ DOMAIN s = 1..Len(s)
      /\ DOMAIN Tail(s) = 1..(Len(s) - 1) /\ Head(s) = s[1]
      /\ \A i \in 1..(Len(s) - 1) : Tail(s)[i] = s[i + 1]
  OBVIOUS
<1>2. \A i \in 1..Len(s) : i = 1 \/ (i - 1 \in 1..(Len(s) - 1) /\ (i - 1) + 1 = i)
  BY <1>1
<1>3. \A i \in 1..Len(s) : s[i] \in {Head(s)} \union Range(Tail(s))
  <2> TAKE i \in 1..Len(s)
  <2>1. CASE i = 1
    BY <1>1, <2>1
  <2>2. CASE i - 1 \in 1..(Len(s) - 1) /\ (i - 1) + 1 = i
    BY <1>1, <2>2 DEF Range
  <2> QED
    BY <1>2, <2>1, <2>2
<1>4. \A i \in 1..(Len(s) - 1) : i + 1 \in 1..Len(s)
  BY <1>1
<1>5. Range(Tail(s)) \subseteq Range(s)
  BY <1>1, <1>4 DEF Range
<1>6. Head(s) \in Range(s)
  BY <1>1 DEF Range
<1> QED
  BY <1>1, <1>3, <1>5, <1>6 DEF Range

\* A broken connection delivers the first frames and loses the others.
LEMMA BrokenFacts ==
    ASSUME NodeTypes, NEW frames \in Seq(Receipts), Broken(frames)
    PROVE  /\ wire' \in Seq(Receipts) /\ lost' \subseteq Receipts /\ conn' = "down"
           /\ Range(wire') \subseteq Range(frames) /\ lost \subseteq lost'
           /\ Range(frames) \subseteq Range(wire') \union lost'
<1>1. PICK n \in 0..Len(frames) :
         /\ wire' = SubSeq(frames, 1, n)
         /\ lost' = lost \union Range(SubSeq(frames, n + 1, Len(frames)))
  BY DEF Broken
<1> DEFINE s == SubSeq(frames, 1, n)
           t == SubSeq(frames, n + 1, Len(frames))
           m == Len(frames)
<1>2. m \in Nat /\ n \in Nat /\ n <= m /\ DOMAIN frames = 1..m
  OBVIOUS
<1>3. s \in Seq(Receipts) /\ DOMAIN s = 1..n /\ \A i \in 1..n : s[i] = frames[i]
  BY <1>2
<1>4. t \in Seq(Receipts) /\ DOMAIN t = 1..(m - n) /\ \A i \in 1..(m - n) : t[i] = frames[n + i]
  BY <1>2
<1> HIDE DEF s, t
<1>5. Range(s) \subseteq Range(frames)
  BY <1>2, <1>3 DEF Range
<1>6. Range(t) \subseteq Receipts
  BY <1>4 DEF Range
<1>7. \A i \in 1..m : i \in 1..n \/ (i - n \in 1..(m - n) /\ n + (i - n) = i)
  BY <1>2
<1>8. \A i \in 1..m : frames[i] \in Range(s) \union Range(t)
  <2> TAKE i \in 1..m
  <2>1. CASE i \in 1..n
    BY <1>3, <2>1 DEF Range
  <2>2. CASE i - n \in 1..(m - n) /\ n + (i - n) = i
    <3>1. t[i - n] = frames[i]
      BY <1>4, <2>2
    <3> QED
      BY <1>4, <2>2, <3>1 DEF Range
  <2> QED
    BY <1>7, <2>1, <2>2
<1>9. Range(frames) \subseteq Range(s) \union Range(t)
  BY <1>2, <1>8 DEF Range
<1> QED
  BY <1>1, <1>3, <1>5, <1>6, <1>9 DEF Broken, NodeTypes, s, t

\* There are finitely many receipts: MayRead counts some of them.
LEMMA ReceiptsFinite == IsFiniteSet(Receipts)
<1>1. IsFiniteSet(Run) /\ IsFiniteSet(1..MaxRead)
  BY WorkInboxAssumption, FS_Interval DEF Run
<1> DEFINE P == Run \X (1..MaxRead)
           g == [p \in P |-> [run |-> p[1], seq |-> p[2]]]
<1>2. IsFiniteSet(P)
  BY <1>1, FS_Product
<1>3. g \in [P -> Receipts]
  BY DEF Receipts
<1>4. ASSUME NEW x \in Receipts PROVE \E p \in P : g[p] = x
  <2>1. x = [run |-> x.run, seq |-> x.seq] /\ x.run \in Run /\ x.seq \in 1..MaxRead
    BY DEF Receipts
  <2>2. <<x.run, x.seq>> \in P /\ g[<<x.run, x.seq>>] = x
    BY <2>1
  <2> QED
    BY <2>2
<1>5. g \in Surjection(P, Receipts)
  BY <1>3, <1>4 DEF Surjection
<1> QED
  BY <1>2, <1>5, FS_Surjection

\* What a Run that may read writes next is a receipt that there was not.
LEMMA MayReadFacts ==
    ASSUME NodeTypes, NEW r \in Run, MayRead(r)
    PROVE  /\ node[r] = "ready" /\ seq[r] < MaxRead /\ Receipt(r) \in Receipts /\ Receipt(r).run = r
           /\ [seq EXCEPT ![r] = @ + 1] \in [Run -> 0..MaxRead]
           /\ \A x \in Receipts : x.seq <= [seq EXCEPT ![r] = @ + 1][x.run] =>
                                     x \in Written \/ x = Receipt(r)
<1>1. node[r] = "ready" /\ Cardinality(Written) < MaxRead
  BY DEF MayRead
<1>2. seq[r] \in 0..MaxRead /\ MaxRead \in Nat \ {0} /\ MaxRun \in Nat
  BY WorkInboxAssumption DEF NodeTypes
<1>3. seq[r] # MaxRead
  <2>1. SUFFICES ASSUME seq[r] = MaxRead PROVE FALSE
    OBVIOUS
  <2> DEFINE f == [n \in 1..MaxRead |-> [run |-> r, seq |-> n]]
             S == {f[n] : n \in 1..MaxRead}
  <2>2. IsFiniteSet(1..MaxRead) /\ Cardinality(1..MaxRead) = MaxRead
    BY <1>2, FS_Interval
  <2>3. f \in Bijection(1..MaxRead, S)
    BY DEF Bijection, Injection, Surjection, IsInjective
  <2>4. ExistsBijection(1..MaxRead, S)
    BY <2>3 DEF ExistsBijection
  <2>5. IsFiniteSet(S) /\ Cardinality(S) = MaxRead
    BY <2>2, <2>4, FS_Bijection
  <2>6. S \subseteq Written
    BY <1>2, <2>1 DEF Written, Receipts
  <2>7. IsFiniteSet(Written)
    BY ReceiptsFinite, FS_Subset DEF Written
  <2>8. Cardinality(S) <= Cardinality(Written)
    BY <2>6, <2>7, FS_Subset
  <2>9. Cardinality(Written) \in Nat
    BY <2>7, FS_CardinalityType
  <2> QED
    BY <1>1, <1>2, <2>5, <2>8, <2>9
<1>4. seq[r] < MaxRead /\ seq[r] + 1 \in 1..MaxRead
  BY <1>2, <1>3
<1>5. Receipt(r) \in Receipts /\ Receipt(r).run = r
  BY <1>4 DEF Receipt, Receipts
<1>6. [seq EXCEPT ![r] = @ + 1] \in [Run -> 0..MaxRead]
  BY <1>2, <1>4 DEF NodeTypes
<1>7. ASSUME NEW x \in Receipts, x.seq <= [seq EXCEPT ![r] = @ + 1][x.run]
      PROVE  x \in Written \/ x = Receipt(r)
  <2>1. x.run \in Run /\ x.seq \in 1..MaxRead /\ x = [run |-> x.run, seq |-> x.seq]
    BY DEF Receipts
  <2>2. CASE x.run = r
    BY <1>2, <1>7, <2>1, <2>2 DEF Written, Receipt, NodeTypes
  <2>3. CASE x.run # r
    BY <1>7, <2>1, <2>3 DEF Written, NodeTypes
  <2> QED
    BY <2>2, <2>3
<1> QED
  BY <1>1, <1>4, <1>5, <1>6, <1>7

\* onReconnect sends every receipt of the outbox.
LEMMA InOrderFacts ==
    ASSUME NodeTypes, NEW s \in InOrder(outbox)
    PROVE  s \in Seq(Receipts) /\ Range(s) = outbox
<1>1. s \in [1..Cardinality(outbox) -> outbox] /\ Range(s) = outbox
  BY DEF InOrder
<1>3. Cardinality(outbox) \in Nat
  BY ReceiptsFinite, FS_Subset, FS_CardinalityType DEF NodeTypes
<1>4. s \in [1..Cardinality(outbox) -> Receipts]
  BY <1>1 DEF NodeTypes
<1>5. s \in Seq(Receipts)
  BY <1>3, <1>4
<1> QED
  BY <1>1, <1>5

-----------------------------------------------------------------------------
(* The Node *)

\* The steps that the Hub has no part in.
NodeStep ==
    \/ \E r \in Run : Answer(r) \/ Prepare(r) \/ Read(r) \/ Cleanup(r)
    \/ Break \/ Crash \/ Connect \/ Drain


\* What the Node and the connection do concerns nothing the Hub records.
LEMMA NodeKept ==
    ASSUME NodePart, RunTypes, NodeStep
    PROVE  NodePart' /\ UNCHANGED <<hubVars, runVars>>
<1> USE DEF hubVars, runVars, nodeVars
<1>i. NodeTypes /\ Begun /\ Readers /\ ReadKept
  BY DEF NodePart
<1>b. ASSUME UNCHANGED <<hubVars, runVars>>, NodeTypes', \A r \in Run : node'[r] # "none" => node[r] # "none",
             \A x \in outbox' \union Range(wire') :
                 state[x.run] # "none",
             Written' \subseteq outbox' \union Range(wire') \union known \union lost'
      PROVE  NodePart' /\ UNCHANGED <<hubVars, runVars>>
  BY <1>i, <1>b DEF NodePart, Begun, Readers, ReadKept
<1>w. UNCHANGED seq => Written' = Written
  BY DEF Written, Receipts
<1>n. \A r \in Run : node[r] = "ready" => state[r] # "none"
  BY <1>i DEF Begun
<1>1. ASSUME NEW r \in Run, Answer(r) \/ Prepare(r) \/ Cleanup(r) PROVE NodePart' /\ UNCHANGED <<hubVars, runVars>>
  <2>1. /\ UNCHANGED <<hubVars, runVars, seq, outbox, wire, conn, lost>> /\ node[r] # "none"
        /\ \E s \in {"gone", "coming", "ready"} : node' = [node EXCEPT ![r] = s]
    BY <1>1 DEF Answer, Prepare, Cleanup
  <2>2. NodeTypes' /\ \A q \in Run : node'[q] # "none" => node[q] # "none"
    BY <1>i, <2>1 DEF NodeTypes
  <2> QED
    BY <1>i, <1>b, <1>w, <2>1, <2>2 DEF Readers, ReadKept
<1>2. ASSUME NEW r \in Run, Read(r) PROVE NodePart' /\ UNCHANGED <<hubVars, runVars>>
  <2>1. /\ MayRead(r) /\ seq' = [seq EXCEPT ![r] = @ + 1]
        /\ UNCHANGED <<hubVars, runVars, node, conn, lost>>
        /\ \/ outbox' = outbox \union {Receipt(r)} /\ UNCHANGED wire
           \/ wire' = Append(wire, Receipt(r)) /\ UNCHANGED outbox
    BY <1>2 DEF Read
  <2>2. /\ node[r] = "ready" /\ Receipt(r) \in Receipts /\ Receipt(r).run = r
        /\ seq' \in [Run -> 0..MaxRead]
        /\ \A x \in Receipts : x.seq <= seq'[x.run] => x \in Written \/ x = Receipt(r)
    BY <1>i, <2>1, MayReadFacts
  <2>3. Written' \subseteq Written \union {Receipt(r)}
    BY <2>2 DEF Written, Receipts
  <2>4. CASE outbox' = outbox \union {Receipt(r)} /\ UNCHANGED wire
    <3>1. NodeTypes'
      BY <1>i, <2>1, <2>2, <2>4 DEF NodeTypes
    <3> QED
      BY <1>i, <1>b, <1>n, <2>1, <2>2, <2>3, <2>4, <3>1 DEF Readers, ReadKept
  <2>5. CASE wire' = Append(wire, Receipt(r)) /\ UNCHANGED outbox
    <3>1. wire' \in Seq(Receipts) /\ Range(wire') = Range(wire) \union {Receipt(r)}
      BY <1>i, <2>2, <2>5, AppendRange DEF NodeTypes
    <3>2. NodeTypes'
      BY <1>i, <2>1, <2>2, <2>5, <3>1 DEF NodeTypes
    <3> QED
      BY <1>i, <1>b, <1>n, <2>1, <2>2, <2>3, <2>5, <3>1, <3>2 DEF Readers, ReadKept
  <2> QED
    BY <2>1, <2>4, <2>5
<1>3. CASE Break
  <2>1. UNCHANGED <<hubVars, runVars, node, seq, outbox>> /\ Broken(wire)
    BY <1>3 DEF Break
  <2>2. /\ wire' \in Seq(Receipts) /\ lost' \subseteq Receipts /\ conn' = "down"
        /\ Range(wire') \subseteq Range(wire) /\ lost \subseteq lost'
        /\ Range(wire) \subseteq Range(wire') \union lost'
    BY <1>i, <2>1, BrokenFacts DEF NodeTypes
  <2>3. NodeTypes'
    BY <1>i, <2>1, <2>2 DEF NodeTypes
  <2> QED
    BY <1>i, <1>b, <1>w, <2>1, <2>2, <2>3 DEF Readers, ReadKept
<1>4. CASE Crash
  <2>n. /\ node' = [r \in Run |-> CASE node[r] = "ready"  -> "gone"
                                     [] node[r] = "coming" -> "ordered"
                                     [] OTHER              -> node[r]]
        /\ UNCHANGED <<hubVars, runVars>>
    BY <1>4 DEF Crash
  <2>m. node' \in [Run -> {"none", "ordered", "coming", "ready", "gone"}]
        /\ \A r \in Run : node'[r] # "none" => node[r] # "none"
    BY <1>i, <2>n DEF NodeTypes
  <2>1. CASE Broken(wire) /\ outbox' = outbox /\ UNCHANGED seq
    <3>1. /\ wire' \in Seq(Receipts) /\ lost' \subseteq Receipts /\ conn' = "down"
          /\ Range(wire') \subseteq Range(wire) /\ lost \subseteq lost'
          /\ Range(wire) \subseteq Range(wire') \union lost'
      BY <1>i, <2>1, BrokenFacts DEF NodeTypes
    <3>2. NodeTypes'
      BY <1>i, <2>1, <2>m, <3>1 DEF NodeTypes
    <3> QED
      BY <1>i, <1>b, <1>w, <2>1, <2>n, <2>m, <3>1, <3>2 DEF Readers, ReadKept
  <2>2. ASSUME NEW r \in Run, MayRead(r), seq' = [seq EXCEPT ![r] = @ + 1],
               outbox' = outbox \union {Receipt(r)},
               Broken(wire) \/ Broken(Append(wire, Receipt(r)))
        PROVE  NodePart' /\ UNCHANGED <<hubVars, runVars>>
    <3>1. /\ node[r] = "ready" /\ Receipt(r) \in Receipts /\ Receipt(r).run = r
          /\ seq' \in [Run -> 0..MaxRead]
          /\ \A x \in Receipts : x.seq <= seq'[x.run] => x \in Written \/ x = Receipt(r)
      BY <1>i, <2>2, MayReadFacts
    <3>2. Written' \subseteq Written \union {Receipt(r)}
      BY <3>1 DEF Written, Receipts
    <3>3. /\ Append(wire, Receipt(r)) \in Seq(Receipts)
          /\ Range(Append(wire, Receipt(r))) = Range(wire) \union {Receipt(r)}
      BY <1>i, <3>1, AppendRange DEF NodeTypes
    <3>4. /\ wire' \in Seq(Receipts) /\ lost' \subseteq Receipts /\ conn' = "down"
          /\ Range(wire') \subseteq Range(wire) \union {Receipt(r)} /\ lost \subseteq lost'
          /\ Range(wire) \subseteq Range(wire') \union lost'
      <4>1. CASE Broken(wire)
        BY <1>i, <4>1, BrokenFacts DEF NodeTypes
      <4>2. CASE Broken(Append(wire, Receipt(r)))
        BY <1>i, <3>3, <4>2, BrokenFacts
      <4> QED
        BY <2>2, <4>1, <4>2
    <3>5. NodeTypes'
      BY <1>i, <2>2, <2>m, <3>1, <3>4 DEF NodeTypes
    <3> QED
      BY <1>i, <1>b, <1>n, <2>2, <2>n, <2>m, <3>1, <3>2, <3>4, <3>5 DEF Readers, ReadKept
  <2> QED
    BY <1>4, <2>1, <2>2 DEF Crash, Persisted
<1>5. CASE Connect
  <2>1. UNCHANGED <<hubVars, runVars, node, seq, outbox, wire, lost>> /\ conn' = "open"
    BY <1>5 DEF Connect
  <2>2. NodeTypes'
    BY <1>i, <2>1 DEF NodeTypes
  <2> QED
    BY <1>i, <1>b, <1>w, <2>1, <2>2 DEF Readers, ReadKept
<1>6. CASE Drain
  <2>1. PICK s \in InOrder(outbox) : wire' = wire \o s
    BY <1>6 DEF Drain
  <2>2. UNCHANGED <<hubVars, runVars, node, seq, lost>> /\ conn' = "up" /\ outbox' = {}
    BY <1>6 DEF Drain
  <2>3. s \in Seq(Receipts) /\ Range(s) = outbox
    BY <1>i, InOrderFacts
  <2>4. wire' \in Seq(Receipts) /\ Range(wire') = Range(wire) \union outbox
    BY <1>i, <2>1, <2>3, ConcatRange DEF NodeTypes
  <2>5. NodeTypes'
    BY <1>i, <2>2, <2>4 DEF NodeTypes
  <2> QED
    BY <1>i, <1>b, <1>w, <2>2, <2>4, <2>5 DEF Readers, ReadKept
<1> QED
  BY <1>1, <1>2, <1>3, <1>4, <1>5, <1>6 DEF NodeStep

-----------------------------------------------------------------------------
(* The Hub *)


\* A version that becomes the pending one supersedes the one that was.
LEMMA AssociateKept ==
    ASSUME HubPart, Associate
    PROVE  HubPart'
<1> USE DEF HubPart, With
<1>1. /\ UNCHANGED <<version, lapsed, listed, runVars, nodeVars>>
      /\ item[version].status = "none" /\ ~Tombstone
      /\ item' = [v \in Version |->
                    IF v = version THEN [status |-> "pending", run |-> 0]
                    ELSE IF With(v, {"pending"}) THEN [item[v] EXCEPT !.status = "superseded"]
                    ELSE item[v]]
  BY DEF Associate
<1>u. UNCHANGED <<state, holds, delivery, consumption, known, node>>
  BY <1>1 DEF runVars, nodeVars
<1>t. version \in Version /\ item \in [Version -> Items]
  BY DEF InboxTypes
<1>2. \A v \in Version :
         /\ v = version => item'[v] = [status |-> "pending", run |-> 0]
         /\ v # version /\ item[v].status = "pending" => item'[v].status = "superseded" /\ item'[v].run = item[v].run
         /\ v # version /\ item[v].status # "pending" => item'[v] = item[v]
  BY <1>1, <1>t DEF Items
<1>3. item' \in [Version -> Items]
  BY <1>1, <1>t, WorkInboxAssumption DEF Items
<1>4. InboxTypes' /\ RunTypes'
  BY <1>1, <1>u, <1>3 DEF InboxTypes, RunTypes
<1>5. Begun'
  BY <1>u DEF Begun
<1>6. \A v \in Version : item'[v].status \in At => item'[v] = item[v]
  BY <1>2 DEF At
<1>7. Places'
  BY <1>t, <1>u, <1>2, <1>6 DEF Places, At
<1>8. Windows'
  BY <1>1, <1>t, <1>2 DEF Windows, InboxTypes
<1>9. Undecided'
  BY <1>1, <1>u, <1>6 DEF Undecided, At
<1>10. \A r \in Run : holds[r] # 0 => holds[r] \in Version
  BY WorkInboxAssumption DEF RunTypes, Version
<1>11. \A r \in Run : holds[r] # 0 => (Took(r)' <=> Took(r))
  <2> SUFFICES ASSUME NEW r \in Run, holds[r] # 0 PROVE Took(r)' <=> Took(r)
    OBVIOUS
  <2>1. holds[r] \in Version /\ holds'[r] = holds[r]
    BY <1>u, <1>10
  <2> QED
    BY <1>1, <1>2, <2>1 DEF Took
<1>12. Agreed'
  BY <1>u, <1>11 DEF Agreed
<1>13. InTime'
  BY <1>1, <1>2, <1>t, WorkInboxAssumption DEF InTime, Version
<1>14. OnlyNewestPending'
  BY <1>1, <1>2, <1>t, WorkInboxAssumption DEF OnlyNewestPending, Newer, InTime, Version
<1>15. Withdrawn'
  BY <1>1, <1>2 DEF Withdrawn, Tombstone
<1>16. OvertakenNotDelivered'
  <2> SUFFICES ASSUME NEW r \in Run, delivery[r] = "overtaken"
               PROVE  item'[holds[r]].status \in {"superseded", "retracted"}
    BY <1>u DEF OvertakenNotDelivered
  <2>1. holds[r] \in Version
    BY <1>10 DEF Begun
  <2>2. item[holds[r]].status \in {"superseded", "retracted"}
    BY DEF OvertakenNotDelivered
  <2> QED
    BY <1>1, <1>2, <2>1, <2>2
<1> QED
  BY <1>4, <1>5, <1>7, <1>8, <1>9, <1>12, <1>13, <1>14, <1>15, <1>16

\* An edit and a look for lapsed windows change no item.
LEMMA QuietKept ==
    ASSUME HubPart, Edit \/ ListDue
    PROVE  HubPart'
<1> USE DEF HubPart, With
<1>1. /\ UNCHANGED <<item, lapsed, state, holds, delivery, consumption, known, node>>
      /\ version' \in {version, version + 1} /\ version' \in Version
      /\ listed' \subseteq Version \X Run
  <2>1. CASE Edit
    BY <2>1, WorkInboxAssumption DEF Edit, runVars, nodeVars, InboxTypes, Version
  <2>2. CASE ListDue
    <3>1. listed' = listed \union {<<v, item[v].run>> : v \in lapsed}
          /\ UNCHANGED <<version, item, lapsed, state, holds, delivery, consumption, known, node>>
      BY <2>2 DEF ListDue, Due, runVars, nodeVars
    <3>2. \A v \in lapsed : v \in Version /\ item[v].run \in Run
      BY DEF Windows, Places, InboxTypes, At
    <3> QED
      BY <3>1, <3>2 DEF InboxTypes
  <2> QED
    BY <2>1, <2>2
<1>2. InboxTypes' /\ RunTypes' /\ Begun'
  BY <1>1 DEF InboxTypes, RunTypes, Begun
<1>3. Places' /\ Windows' /\ Undecided'
  BY <1>1 DEF Places, Windows, Undecided
<1>4. Agreed'
  BY <1>1 DEF Agreed, Took
<1>5. InTime'
  BY <1>1 DEF InTime, InboxTypes, Version
<1>6. OnlyNewestPending' /\ Withdrawn' /\ OvertakenNotDelivered'
  BY <1>1 DEF OnlyNewestPending, Newer, Withdrawn, Tombstone, OvertakenNotDelivered
<1> QED
  BY <1>2, <1>3, <1>4, <1>5, <1>6

\* The window of an unconfirmed item lapses.
LEMMA LapseKept ==
    ASSUME HubPart, NEW v \in Version, Lapse(v)
    PROVE  HubPart'
<1> USE DEF HubPart, With
<1>1. /\ UNCHANGED <<version, item, listed, state, holds, delivery, consumption, known, node>>
      /\ item[v].status = "unconfirmed" /\ lapsed' = lapsed \union {v}
  BY DEF Lapse, runVars, nodeVars
<1>2. InboxTypes' /\ RunTypes' /\ Begun'
  BY <1>1 DEF InboxTypes, RunTypes, Begun
<1>3. Places' /\ Windows' /\ Undecided'
  BY <1>1 DEF Places, Windows, Undecided
<1>4. Agreed'
  BY <1>1 DEF Agreed, Took
<1>5. InTime' /\ OnlyNewestPending' /\ Withdrawn' /\ OvertakenNotDelivered'
  BY <1>1 DEF InTime, OnlyNewestPending, Newer, Withdrawn, Tombstone, OvertakenNotDelivered
<1> QED
  BY <1>2, <1>3, <1>4, <1>5

\* A Run created with an item holds a version of the source.
LEMMA HoldsVersion ==
    ASSUME HubPart
    PROVE  /\ \A r \in Run : holds[r] # 0 => holds[r] \in Version
           /\ \A r \in Run : delivery[r] # "none" => holds[r] \in Version
BY WorkInboxAssumption DEF HubPart, RunTypes, Version, Begun

\* An item put aside was with no Run.
LEMMA PutAsideKept ==
    ASSUME HubPart, NEW v \in Version, PutAside(v)
    PROVE  HubPart'
<1> USE DEF HubPart, With
<1>1. /\ UNCHANGED <<version, lapsed, listed, state, holds, delivery, consumption, known, node>>
      /\ item[v].status = "pending" /\ item' = [item EXCEPT ![v].status = "aside"]
  BY DEF PutAside, runVars, nodeVars
<1>2. /\ item' \in [Version -> Items] /\ item'[v].status = "aside" /\ item'[v].run = item[v].run
      /\ \A w \in Version : w # v => item'[w] = item[w]
  BY <1>1 DEF InboxTypes, Items
<1>3. InboxTypes' /\ RunTypes' /\ Begun'
  BY <1>1, <1>2 DEF InboxTypes, RunTypes, Begun
<1>4. Places' /\ Windows' /\ Undecided'
  BY <1>1, <1>2 DEF Places, Windows, Undecided, InboxTypes, At
<1>5. Agreed'
  <2> SUFFICES ASSUME NEW r \in Run, holds[r] # 0 PROVE Took(r)' <=> Took(r)
    BY <1>1 DEF Agreed
  <2>1. holds[r] \in Version /\ holds'[r] = holds[r]
    BY <1>1, HoldsVersion
  <2> QED
    BY <1>1, <1>2, <2>1 DEF Took
<1>6. InTime' /\ OnlyNewestPending'
  BY <1>1, <1>2 DEF InTime, OnlyNewestPending, Newer
<1>7. Withdrawn'
  BY <1>1, <1>2 DEF Withdrawn, Tombstone, Open
<1>8. OvertakenNotDelivered'
  <2> SUFFICES ASSUME NEW r \in Run, delivery[r] = "overtaken"
               PROVE  item'[holds[r]].status \in {"superseded", "retracted"}
    BY <1>1 DEF OvertakenNotDelivered
  <2>1. holds[r] \in Version /\ item[holds[r]].status \in {"superseded", "retracted"}
    BY HoldsVersion DEF OvertakenNotDelivered
  <2> QED
    BY <1>1, <1>2, <2>1
<1> QED
  BY <1>3, <1>4, <1>5, <1>6, <1>7, <1>8

\* A source withdrawn takes its open items along.
LEMMA RetractKept ==
    ASSUME HubPart, NEW v \in Version, Retract(v)
    PROVE  HubPart'
<1> USE DEF HubPart, With
<1>1. /\ UNCHANGED <<version, listed, state, holds, consumption, known, node>>
      /\ item[v].status \notin {"none", "consumed"} /\ StillLapsed
      /\ item' = [w \in Version |->
                    IF w \in Retracted(v) THEN [status |-> "retracted", run |-> 0] ELSE item[w]]
      /\ delivery' = [r \in Run |->
                        IF holds[r] \in Retracted(v) /\ delivery[r] \in Unsettled
                        THEN "withdrawn" ELSE delivery[r]]
  BY DEF Retract, nodeVars
<1>2. \A w \in Version : /\ w \in Retracted(v) <=> w = v \/ item[w].status \in Open
                         /\ item[w].status = "consumed" => w \notin Retracted(v)
                         /\ item[w].status = "none" => w \notin Retracted(v)
  BY <1>1 DEF Retracted, Open
<1>3. item' \in [Version -> Items]
  BY <1>1, WorkInboxAssumption DEF InboxTypes, Items
<1>4. \A w \in Version : /\ w \in Retracted(v) => item'[w].status = "retracted" /\ item'[w].run = 0
                         /\ w \notin Retracted(v) => item'[w] = item[w]
  BY <1>1
<1>5. lapsed' = {w \in lapsed : item'[w].status = "unconfirmed"}
  BY <1>1 DEF StillLapsed
<1>6. delivery' \in [Run -> {"none", "sent", "unconfirmed", "consumed", "late", "overtaken",
                             "returned", "withdrawn"}]
      /\ \A r \in Run : /\ delivery[r] \notin Unsettled => delivery'[r] = delivery[r]
                        /\ holds[r] \notin Retracted(v) => delivery'[r] = delivery[r]
                        /\ delivery[r] \in Unsettled => delivery'[r] \in {delivery[r], "withdrawn"}
  BY <1>1 DEF RunTypes, Unsettled
<1>7. InboxTypes'
  BY <1>1, <1>3, <1>5 DEF InboxTypes
<1>8. RunTypes'
  BY <1>1, <1>6 DEF RunTypes
<1>9. Begun'
  BY <1>1, <1>6 DEF Begun, Unsettled
<1>10. Places'
  BY <1>1, <1>4 DEF Places, At
<1>11. Windows'
  BY <1>5 DEF Windows
<1>12. Undecided'
  <2> SUFFICES ASSUME NEW w \in Version, item'[w].status \in {"delivered", "unconfirmed"}, w \notin lapsed'
               PROVE  /\ consumption[item'[w].run] = "none"
                      /\ delivery'[item'[w].run] = IF item'[w].status \in {"delivered"} THEN "sent" ELSE "unconfirmed"
    BY <1>1 DEF Undecided
  <2>1. w \notin Retracted(v) /\ item'[w] = item[w]
    BY <1>4
  <2> QED
    BY <1>2, <2>1 DEF Open
<1>13. Agreed'
  <2> SUFFICES ASSUME NEW r \in Run, holds[r] # 0
               PROVE  (Took(r)' <=> Took(r)) /\ (delivery'[r] = "consumed" <=> delivery[r] = "consumed")
    BY <1>1 DEF Agreed
  <2>1. holds[r] \in Version /\ holds'[r] = holds[r]
    BY <1>1, HoldsVersion
  <2>2. Took(r)' <=> Took(r)
    BY <1>2, <1>4, <2>1 DEF Took
  <2> QED
    BY <1>6, <2>2 DEF Unsettled
<1>14. InTime' /\ OnlyNewestPending'
  BY <1>1, <1>2, <1>4 DEF InTime, OnlyNewestPending, Newer, Open
<1>15. Withdrawn'
  BY <1>2, <1>4 DEF Withdrawn, Open
<1>16. OvertakenNotDelivered'
  <2> SUFFICES ASSUME NEW r \in Run, delivery'[r] = "overtaken"
               PROVE  item'[holds[r]].status \in {"superseded", "retracted"}
    BY <1>1 DEF OvertakenNotDelivered
  <2>1. delivery[r] = "overtaken"
    BY <1>6 DEF Unsettled
  <2>2. holds[r] \in Version /\ item[holds[r]].status \in {"superseded", "retracted"}
    BY <2>1, HoldsVersion DEF OvertakenNotDelivered
  <2> QED
    BY <1>4, <2>2
<1> QED
  BY <1>7, <1>8, <1>9, <1>10, <1>11, <1>12, <1>13, <1>14, <1>15, <1>16

\* A Run is created with the pending item.
LEMMA CreateKept ==
    ASSUME HubPart, NEW r \in Run, Create(r)
    PROVE  HubPart'
<1> USE DEF HubPart, With
<1>1. /\ UNCHANGED <<version, lapsed, listed, consumption, known, node>>
      /\ state[r] = "none" /\ item[version].status = "pending" /\ ~Tombstone
      /\ state' = [state EXCEPT ![r] = "queued"]
      /\ holds' = [holds EXCEPT ![r] = version]
      /\ delivery' = [delivery EXCEPT ![r] = "sent"]
      /\ item' = [item EXCEPT ![version].status = "delivered", ![version].run = r]
  BY DEF Create, nodeVars
<1>t. version \in Version /\ r \in 0..MaxRun /\ version \in 0..MaxVersion /\ version # 0
  BY WorkInboxAssumption DEF InboxTypes, Version, Run
<1>2. /\ item' \in [Version -> Items] /\ item'[version].status = "delivered" /\ item'[version].run = r
      /\ \A w \in Version : w # version => item'[w] = item[w]
  BY <1>1, <1>t DEF InboxTypes, Items
<1>3. /\ state'[r] = "queued" /\ holds'[r] = version /\ delivery'[r] = "sent"
      /\ \A q \in Run : q # r => state'[q] = state[q] /\ holds'[q] = holds[q] /\ delivery'[q] = delivery[q]
  BY <1>1 DEF RunTypes
<1>4. InboxTypes' /\ RunTypes'
  BY <1>1, <1>t, <1>2 DEF InboxTypes, RunTypes
<1>5. Begun'
  BY <1>1, <1>t, <1>3 DEF Begun
<1>6. holds[r] = 0 /\ consumption[r] = "none" /\ delivery[r] = "none"
  BY <1>1 DEF Begun
<1>7. \A w \in Version : w # version /\ item[w].status \in At => item[w].run \in Run \ {r} /\ holds[item[w].run] = w
  BY <1>6, WorkInboxAssumption DEF Places, Version
<1>8. Places'
  BY <1>1, <1>2, <1>3, <1>7 DEF Places, At
<1>9. Windows'
  BY <1>1, <1>2 DEF Windows, InboxTypes
<1>10. Undecided'
  <2> SUFFICES ASSUME NEW w \in Version, item'[w].status \in {"delivered", "unconfirmed"}, w \notin lapsed
               PROVE  /\ consumption[item'[w].run] = "none"
                      /\ delivery'[item'[w].run] = IF item'[w].status \in {"delivered"} THEN "sent" ELSE "unconfirmed"
    BY <1>1 DEF Undecided
  <2>1. CASE w = version
    BY <1>2, <1>3, <1>6, <2>1
  <2>2. CASE w # version
    BY <1>2, <1>3, <1>7, <2>2 DEF Undecided, At
  <2> QED
    BY <2>1, <2>2
<1>11. Agreed'
  <2> SUFFICES ASSUME NEW q \in Run, holds'[q] # 0
               PROVE  /\ consumption[q] = "consumed" <=> Took(q)'
                      /\ delivery'[q] = "consumed" <=> Took(q)'
    BY <1>1 DEF Agreed
  <2>1. CASE q = r
    BY <1>2, <1>3, <1>6, <2>1 DEF Took
  <2>2. CASE q # r
    <3>1. holds[q] \in Version /\ holds'[q] = holds[q] /\ delivery'[q] = delivery[q]
      BY <1>3, <2>2, HoldsVersion
    <3>2. Took(q)' <=> Took(q)
      BY <1>1, <1>2, <3>1 DEF Took
    <3>3. /\ consumption[q] = "consumed" <=> Took(q)
          /\ delivery[q] = "consumed" <=> Took(q)
      BY <1>3, <2>2 DEF Agreed
    <3> QED
      BY <3>1, <3>2, <3>3
  <2> QED
    BY <2>1, <2>2
<1>12. InTime' /\ OnlyNewestPending'
  BY <1>1, <1>2 DEF InTime, OnlyNewestPending, Newer
<1>13. Withdrawn'
  BY <1>1, <1>2 DEF Withdrawn, Tombstone
<1>14. OvertakenNotDelivered'
  <2> SUFFICES ASSUME NEW q \in Run, delivery'[q] = "overtaken"
               PROVE  item'[holds'[q]].status \in {"superseded", "retracted"}
    BY DEF OvertakenNotDelivered
  <2>1. q # r /\ delivery[q] = "overtaken" /\ holds'[q] = holds[q]
    BY <1>3
  <2>2. holds[q] \in Version /\ item[holds[q]].status \in {"superseded", "retracted"}
    BY <2>1, HoldsVersion DEF OvertakenNotDelivered
  <2> QED
    BY <1>1, <1>2, <2>1, <2>2
<1> QED
  BY <1>4, <1>5, <1>8, <1>9, <1>10, <1>11, <1>12, <1>13, <1>14

\* setRunStatus, terminal, for a Run that was created.
LEMMA EndedKept ==
    ASSUME HubPart, NEW r \in Run, state[r] # "none", Ended(r),
           UNCHANGED <<version, lapsed, listed, holds, consumption, known>>,
           \A q \in Run : node'[q] # "none" => state[q] # "none"
    PROVE  HubPart'
<1> USE DEF HubPart, With
<1>1. /\ state' = [state EXCEPT ![r] = "ended"]
      /\ item' = [v \in Version |->
                    IF item[v].run = r /\ item[v].status = "delivered"
                    THEN [item[v] EXCEPT !.status = "unconfirmed"] ELSE item[v]]
      /\ delivery' = [delivery EXCEPT ![r] = IF @ = "sent" THEN "unconfirmed" ELSE @]
  BY DEF Ended
<1>2. /\ item' \in [Version -> Items]
      /\ \A v \in Version :
            /\ item'[v].run = item[v].run
            /\ item[v].run = r /\ item[v].status = "delivered" => item'[v].status = "unconfirmed"
            /\ ~(item[v].run = r /\ item[v].status = "delivered") => item'[v] = item[v]
  BY <1>1 DEF InboxTypes, Items
<1>3. /\ delivery'[r] = IF delivery[r] = "sent" THEN "unconfirmed" ELSE delivery[r]
      /\ \A q \in Run : q # r => delivery'[q] = delivery[q]
      /\ \A q \in Run : state'[q] = "none" <=> state[q] = "none"
  BY <1>1 DEF RunTypes
<1>4. InboxTypes' /\ RunTypes'
  BY <1>1, <1>2 DEF InboxTypes, RunTypes
<1>5. Begun'
  BY <1>3 DEF Begun
<1>6. Places'
  BY <1>2 DEF Places, At
<1>7. Windows'
  BY <1>2 DEF Windows, InboxTypes
<1>8. Undecided'
  <2> SUFFICES ASSUME NEW w \in Version, item'[w].status \in {"delivered", "unconfirmed"}, w \notin lapsed
               PROVE  /\ consumption[item'[w].run] = "none"
                      /\ delivery'[item'[w].run] = IF item'[w].status \in {"delivered"} THEN "sent" ELSE "unconfirmed"
    BY DEF Undecided
  <2>1. item[w].status \in {"delivered", "unconfirmed"} /\ item'[w].run = item[w].run
    BY <1>2
  <2>2. item[w].run \in Run
    BY <2>1 DEF Places, At
  <2>3. /\ consumption[item[w].run] = "none"
        /\ delivery[item[w].run] = IF item[w].status \in {"delivered"} THEN "sent" ELSE "unconfirmed"
    BY <2>1 DEF Undecided
  <2> QED
    BY <1>2, <1>3, <2>1, <2>2, <2>3
<1>9. Agreed'
  <2> SUFFICES ASSUME NEW q \in Run, holds[q] # 0
               PROVE  (Took(q)' <=> Took(q)) /\ (delivery'[q] = "consumed" <=> delivery[q] = "consumed")
    BY DEF Agreed
  <2>1. holds[q] \in Version
    BY HoldsVersion
  <2>2. Took(q)' <=> Took(q)
    BY <1>2, <2>1 DEF Took
  <2> QED
    BY <1>3, <2>2
<1>10. InTime' /\ OnlyNewestPending'
  BY <1>2 DEF InTime, OnlyNewestPending, Newer
<1>11. Withdrawn'
  BY <1>2 DEF Withdrawn, Tombstone, Open
<1>12. OvertakenNotDelivered'
  <2> SUFFICES ASSUME NEW q \in Run, delivery'[q] = "overtaken"
               PROVE  item'[holds[q]].status \in {"superseded", "retracted"}
    BY DEF OvertakenNotDelivered
  <2>1. delivery[q] = "overtaken"
    BY <1>3
  <2>2. holds[q] \in Version /\ item[holds[q]].status \in {"superseded", "retracted"}
    BY <2>1, HoldsVersion DEF OvertakenNotDelivered
  <2> QED
    BY <1>2, <2>2
<1> QED
  BY <1>4, <1>5, <1>6, <1>7, <1>8, <1>9, <1>10, <1>11, <1>12

\* A Run that is sent to the Node starts or ends; its item waits for a confirmation then.
LEMMA DispatchKept ==
    ASSUME HubPart, NodeTypes, NEW r \in Run, Dispatch(r) \/ End(r)
    PROVE  HubPart' /\ NodeTypes' /\ (\A q \in Run : state'[q] = "none" <=> state[q] = "none")
<1>1. \A q \in Run : node[q] # "none" => state[q] # "none"
  BY DEF HubPart, Begun
<1>2. ASSUME state[r] \in {"queued", "started"}, Ended(r), UNCHANGED nodeVars,
             UNCHANGED <<version, lapsed, listed, holds, consumption, known>>
      PROVE  HubPart' /\ NodeTypes' /\ (\A q \in Run : state'[q] = "none" <=> state[q] = "none")
  <2>1. HubPart'
    BY <1>1, <1>2, EndedKept DEF nodeVars
  <2>2. \A q \in Run : state'[q] = "none" <=> state[q] = "none"
    BY <1>2 DEF Ended, HubPart, RunTypes
  <2> QED
    BY <1>2, <2>1, <2>2 DEF NodeTypes, nodeVars
<1>3. CASE End(r)
  BY <1>2, <1>3 DEF End
<1>4. CASE Dispatch(r) /\ Ended(r) /\ UNCHANGED node
  BY <1>2, <1>4 DEF Dispatch, nodeVars
<1>5. ASSUME state[r] = "queued", state' = [state EXCEPT ![r] = "started"],
             node' = [node EXCEPT ![r] = "ordered"],
             UNCHANGED <<item, delivery, version, lapsed, listed, holds, consumption, known,
                         seq, outbox, wire, conn, lost>>
      PROVE  HubPart' /\ NodeTypes' /\ (\A q \in Run : state'[q] = "none" <=> state[q] = "none")
  <2>1. \A q \in Run : state'[q] = "none" <=> state[q] = "none"
    BY <1>5 DEF HubPart, RunTypes
  <2>2. NodeTypes'
    BY <1>5 DEF NodeTypes
  <2>3. InboxTypes' /\ RunTypes'
    BY <1>5 DEF HubPart, InboxTypes, RunTypes
  <2>4. \A q \in Run : node'[q] # "none" => state[q] # "none"
    BY <1>1, <1>5 DEF NodeTypes
  <2>5. Begun'
    BY <1>5, <2>1, <2>4 DEF HubPart, Begun
  <2>6. (Places /\ Windows /\ Undecided /\ Agreed)'
    BY <1>5 DEF HubPart, Places, Windows, Undecided, Agreed, Took, With
  <2>7. (InTime /\ OnlyNewestPending /\ Withdrawn /\ OvertakenNotDelivered)'
    BY <1>5 DEF HubPart, InTime, OnlyNewestPending, Newer, Withdrawn, Tombstone, OvertakenNotDelivered, With
  <2> QED
    BY <2>1, <2>2, <2>3, <2>5, <2>6, <2>7 DEF HubPart
<1> QED
  BY <1>3, <1>4, <1>5 DEF Dispatch

\* A first read settles the item and the Run it is with.
LEMMA SettleKept ==
    ASSUME HubPart, NEW v \in Version, NEW r \in Run, Settle(v, r)
    PROVE  HubPart'
<1> USE DEF HubPart, With
<1>u. /\ UNCHANGED <<version, state, holds, consumption, known, node>>
      /\ listed' \in {listed, listed \ {<<v, r>>}}
  BY DEF Settle, nodeVars
<1>1. CASE UNCHANGED <<item, delivery, lapsed>>
  <2>1. InboxTypes' /\ RunTypes' /\ Begun'
    BY <1>u, <1>1 DEF InboxTypes, RunTypes, Begun
  <2>2. (Places /\ Windows /\ Undecided /\ Agreed)'
    BY <1>u, <1>1 DEF Places, Windows, Undecided, Agreed, Took
  <2>3. (InTime /\ OnlyNewestPending /\ Withdrawn /\ OvertakenNotDelivered)'
    BY <1>u, <1>1 DEF InTime, OnlyNewestPending, Newer, Withdrawn, Tombstone, OvertakenNotDelivered
  <2> QED
    BY <2>1, <2>2, <2>3
<1>2. ASSUME StillDue(v, r), StillLapsed,
             item' = [w \in Version |->
                        IF w = v THEN [item[v] EXCEPT !.status = Back(v), !.run = 0]
                        ELSE IF ~Newer(v) /\ item[w].status = "pending" THEN [item[w] EXCEPT !.status = "superseded"]
                        ELSE item[w]],
             delivery' = [q \in Run |->
                            IF holds[q] = v /\ delivery[q] = "unconfirmed" THEN "returned" ELSE delivery[q]]
      PROVE  HubPart'
  <2>0. v \in lapsed /\ item[v].status = "unconfirmed" /\ item[v].run = r /\ holds[r] = v
    BY <1>2 DEF StillDue, Windows, Places, At
  <2>b. Back(v) \in {"superseded", "pending"} /\ (Back(v) = "pending" <=> ~Newer(v))
    BY DEF Back
  <2> DEFINE b == Back(v)
             newer == Newer(v)
  <2>1. /\ item'[v].status = b /\ item'[v].run = 0
        /\ \A w \in Version \ {v} :
              /\ item'[w].run = item[w].run
              /\ ~newer /\ item[w].status = "pending" => item'[w].status = "superseded"
              /\ ~(~newer /\ item[w].status = "pending") => item'[w] = item[w]
    BY <1>2 DEF InboxTypes, Items
  <2>2. item' \in [Version -> Items]
    <3>1. [item[v] EXCEPT !.status = Back(v), !.run = 0] \in Items
      <4>1. 0 \in 0..MaxRun /\ item[v] \in Items
        BY WorkInboxAssumption DEF InboxTypes
      <4>2. \A s \in {"superseded", "pending"} : [item[v] EXCEPT !.status = s, !.run = 0] \in Items
        BY <4>1 DEF Items
      <4> QED
        BY <2>b, <4>2
    <3>2. \A w \in Version : [item[w] EXCEPT !.status = "superseded"] \in Items /\ item[w] \in Items
      BY DEF InboxTypes, Items
    <3> QED
      BY <1>2, <3>1, <3>2
  <2>3. lapsed' = {w \in lapsed : item'[w].status = "unconfirmed"}
    BY <1>2 DEF StillLapsed
  <2>4. /\ delivery' \in [Run -> {"none", "sent", "unconfirmed", "consumed", "late", "overtaken",
                                  "returned", "withdrawn"}]
        /\ \A q \in Run : delivery'[q] \in {delivery[q], "returned"}
        /\ \A q \in Run : delivery[q] # "unconfirmed" \/ holds[q] # v => delivery'[q] = delivery[q]
    BY <1>2 DEF RunTypes
  <2> HIDE DEF b, newer
  <2>5. InboxTypes'
    BY <1>u, <2>2, <2>3 DEF InboxTypes
  <2>6. RunTypes'
    BY <1>u, <2>4 DEF RunTypes
  <2>7. Begun'
    BY <1>u, <2>4 DEF Begun
  <2>8. \A w \in Version : item'[w].status \in At => w # v /\ item'[w] = item[w]
    BY <2>b, <2>1 DEF At, b
  <2>n. item'[v].status \notin At
    BY <2>8
  <2>9. Places'
    BY <1>u, <2>1, <2>8 DEF Places, At
  <2>10. Windows'
    BY <2>3 DEF Windows
  <2>11. Undecided'
    <3> SUFFICES ASSUME NEW w \in Version, item'[w].status \in {"delivered", "unconfirmed"}, w \notin lapsed'
                 PROVE  /\ consumption[item'[w].run] = "none"
                        /\ delivery'[item'[w].run] = IF item'[w].status \in {"delivered"} THEN "sent" ELSE "unconfirmed"
      BY <1>u DEF Undecided
    <3>1. w # v /\ item'[w] = item[w] /\ w \notin lapsed
      BY <2>3, <2>8 DEF At, Windows
    <3>2. item[w].run \in Run /\ holds[item[w].run] = w
      BY <3>1 DEF Places, At
    <3>3. delivery'[item[w].run] = delivery[item[w].run]
      BY <2>4, <3>1, <3>2
    <3> QED
      BY <3>1, <3>3 DEF Undecided
  <2>12. Agreed'
    <3> SUFFICES ASSUME NEW q \in Run, holds[q] # 0
                 PROVE  (Took(q)' <=> Took(q)) /\ (delivery'[q] = "consumed" <=> delivery[q] = "consumed")
      BY <1>u DEF Agreed
    <3>1. holds[q] \in Version /\ holds'[q] = holds[q]
      BY <1>u, HoldsVersion
    <3>2. \A w \in Version : (item'[w].status = "consumed" <=> item[w].status = "consumed")
      BY <2>0, <2>1, <2>8 DEF At
    <3>3. Took(q)' <=> Took(q)
      BY <2>8, <3>1, <3>2 DEF Took, At
    <3> QED
      BY <2>4, <3>3
  <2>13. \A w \in Version : item'[w].status = "none" <=> item[w].status = "none"
    BY <2>0, <2>b, <2>1 DEF b
  <2>14. InTime'
    BY <1>u, <2>13 DEF InTime
  <2>15. OnlyNewestPending'
    <3> SUFFICES ASSUME NEW w \in Version, item'[w].status = "pending" PROVE ~Newer(w)'
      BY DEF OnlyNewestPending
    <3>1. ~Newer(w)
      <4>1. CASE w = v
        BY <2>b, <2>1, <4>1 DEF b
      <4>2. CASE w # v
        BY <2>1, <4>2 DEF OnlyNewestPending
      <4> QED
        BY <4>1, <4>2
    <3> QED
      BY <2>13, <3>1 DEF Newer
  <2>16. Withdrawn'
    <3>1. ~Tombstone
      BY <2>0 DEF Withdrawn, Open
    <3> QED
      BY <2>1, <2>b, <3>1 DEF Withdrawn, Tombstone, b
  <2>17. OvertakenNotDelivered'
    <3> SUFFICES ASSUME NEW q \in Run, delivery'[q] = "overtaken"
                 PROVE  item'[holds[q]].status \in {"superseded", "retracted"}
      BY <1>u DEF OvertakenNotDelivered
    <3>1. delivery[q] = "overtaken"
      BY <2>4
    <3>2. holds[q] \in Version /\ item[holds[q]].status \in {"superseded", "retracted"}
      BY <3>1, HoldsVersion DEF OvertakenNotDelivered
    <3> QED
      BY <2>0, <2>1, <3>2
  <2> QED
    BY <2>5, <2>6, <2>7, <2>9, <2>10, <2>11, <2>12, <2>14, <2>15, <2>16, <2>17
<1> QED
  BY <1>1, <1>2 DEF Settle

\* What a receipt changes of the rows of the Run that read, or that has the item.
LEMMA ConsumedFacts ==
    ASSUME RunTypes, NEW r \in Run, NEW kind \in {"consumed", "duplicate", "duplicate_consumption"},
           Consumed(r, kind)
    PROVE  /\ consumption' \in [Run -> {"none", "consumed", "duplicate", "duplicate_consumption"}]
           /\ consumption'[r] = IF consumption[r] = "none" THEN kind ELSE consumption[r]
           /\ \A q \in Run : q # r => consumption'[q] = consumption[q]
BY DEF RunTypes, Consumed

\* What a receipt records of the delivery of its Run.
LEMMA SettledFacts ==
    ASSUME RunTypes, NEW r \in Run, NEW s \in {"consumed", "late", "overtaken"}, Settled(r, s)
    PROVE  /\ delivery' \in [Run -> {"none", "sent", "unconfirmed", "consumed", "late", "overtaken",
                                     "returned", "withdrawn"}]
           /\ delivery'[r] = IF delivery[r] \in Unsettled THEN s ELSE delivery[r]
           /\ \A q \in Run : q # r => delivery'[q] = delivery[q]
BY DEF RunTypes, Settled

\* A read that decides nothing: what is recorded is that it was a duplicate.
LEMMA DuplicateKept ==
    ASSUME HubPart, NEW r \in Run, state[r] # "none",
           UNCHANGED <<version, item, lapsed, listed, state, holds, node>>, known' \subseteq Receipts,
           consumption' = consumption \/ \E k \in {"duplicate", "duplicate_consumption"} : Consumed(r, k),
           delivery' = delivery \/ Settled(r, "late"),
           item[holds[r]].run # r \/ With(holds[r], {"consumed"}) \/ holds[r] \in lapsed
    PROVE  HubPart'
<1> USE DEF HubPart, With
<1>1. /\ consumption' \in [Run -> {"none", "consumed", "duplicate", "duplicate_consumption"}]
      /\ consumption'[r] # consumption[r] =>
            consumption[r] = "none" /\ consumption'[r] \in {"duplicate", "duplicate_consumption"}
      /\ \A q \in Run : q # r => consumption'[q] = consumption[q]
  BY ConsumedFacts DEF RunTypes
<1>2. /\ delivery' \in [Run -> {"none", "sent", "unconfirmed", "consumed", "late", "overtaken",
                                "returned", "withdrawn"}]
      /\ delivery'[r] # delivery[r] => delivery[r] \in Unsettled /\ delivery'[r] = "late"
      /\ \A q \in Run : q # r => delivery'[q] = delivery[q]
  BY SettledFacts DEF RunTypes
<1>3. InboxTypes' /\ RunTypes'
  BY <1>1, <1>2 DEF InboxTypes, RunTypes
<1>4. Begun'
  BY <1>1, <1>2 DEF Begun
<1>5. Places' /\ Windows'
  BY DEF Places, Windows
<1>6. Undecided'
  <2> SUFFICES ASSUME NEW w \in Version, item[w].status \in {"delivered", "unconfirmed"}, w \notin lapsed
               PROVE  /\ consumption'[item[w].run] = "none"
                      /\ delivery'[item[w].run] = IF item[w].status \in {"delivered"} THEN "sent" ELSE "unconfirmed"
    BY DEF Undecided
  <2>1. item[w].run \in Run /\ holds[item[w].run] = w
    BY DEF Places, At
  <2>2. item[w].run # r
    BY <2>1
  <2> QED
    BY <1>1, <1>2, <2>1, <2>2 DEF Undecided
<1>7. Agreed'
  <2>1. \A q \in Run : /\ consumption'[q] = "consumed" <=> consumption[q] = "consumed"
                       /\ delivery'[q] = "consumed" <=> delivery[q] = "consumed"
    BY <1>1, <1>2 DEF Unsettled
  <2> QED
    BY <2>1 DEF Agreed, Took
<1>8. InTime' /\ OnlyNewestPending' /\ Withdrawn'
  BY DEF InTime, OnlyNewestPending, Newer, Withdrawn, Tombstone
<1>9. OvertakenNotDelivered'
  BY <1>2 DEF OvertakenNotDelivered
<1> QED
  BY <1>3, <1>4, <1>5, <1>6, <1>7, <1>8, <1>9

\* A delivery that an earlier read overtook ends, and the item with it.
LEMMA OvertakenKept ==
    ASSUME HubPart, NEW r \in Run, NEW v \in Version, holds[r] = v, item[v].run # r,
           With(v, {"delivered", "unconfirmed"}), Consumed(r, "duplicate"),
           Settled(item[v].run, "overtaken"),
           item' = [item EXCEPT ![v].status = "superseded", ![v].run = 0],
           lapsed' = {w \in lapsed : item'[w].status = "unconfirmed"},
           UNCHANGED <<version, listed, state, holds, node>>, known' \subseteq Receipts
    PROVE  HubPart'
<1> USE DEF HubPart, With
<1> DEFINE q == item[v].run
<1>q. q \in Run /\ holds[q] = v /\ q # r
  BY DEF Places, At
<1>r. state[r] # "none" /\ state[q] # "none"
  BY <1>q, WorkInboxAssumption DEF Begun, Version
<1>1. /\ consumption' \in [Run -> {"none", "consumed", "duplicate", "duplicate_consumption"}]
      /\ consumption'[r] \in {consumption[r], "duplicate"} /\ (consumption[r] = "consumed" => consumption'[r] = "consumed")
      /\ \A x \in Run : x # r => consumption'[x] = consumption[x]
  BY ConsumedFacts
<1>2. /\ delivery' \in [Run -> {"none", "sent", "unconfirmed", "consumed", "late", "overtaken",
                                "returned", "withdrawn"}]
      /\ delivery'[q] \in {delivery[q], "overtaken"} /\ (delivery[q] = "consumed" => delivery'[q] = "consumed")
      /\ \A x \in Run : x # q => delivery'[x] = delivery[x]
  BY <1>q, SettledFacts DEF Unsettled
<1> HIDE DEF q
<1>3. item' \in [Version -> Items] /\ item'[v].status = "superseded" /\ item'[v].run = 0
      /\ \A w \in Version : w # v => item'[w] = item[w]
  <2>1. 0 \in 0..MaxRun /\ item[v] \in Items
    BY WorkInboxAssumption DEF InboxTypes
  <2>2. [item[v] EXCEPT !.status = "superseded", !.run = 0] \in Items
    BY <2>1 DEF Items
  <2>3. item' = [item EXCEPT ![v] = [item[v] EXCEPT !.status = "superseded", !.run = 0]]
    BY DEF InboxTypes
  <2> QED
    BY <2>1, <2>2, <2>3 DEF InboxTypes, Items
<1>4. InboxTypes' /\ RunTypes'
  BY <1>1, <1>2, <1>3 DEF InboxTypes, RunTypes
<1>5. Begun'
  BY <1>r, <1>1, <1>2 DEF Begun
<1>6. Places'
  BY <1>3 DEF Places, At
<1>7. Windows'
  BY DEF Windows
<1>8. Undecided'
  <2> SUFFICES ASSUME NEW w \in Version, item'[w].status \in {"delivered", "unconfirmed"}, w \notin lapsed'
               PROVE  /\ consumption'[item'[w].run] = "none"
                      /\ delivery'[item'[w].run] = IF item'[w].status \in {"delivered"} THEN "sent" ELSE "unconfirmed"
    BY DEF Undecided
  <2>1. w # v /\ item'[w] = item[w] /\ w \notin lapsed
    BY <1>3 DEF Windows
  <2>2. item[w].run \in Run /\ holds[item[w].run] = w
    BY <2>1 DEF Places, At
  <2>3. item[w].run # r /\ item[w].run # q
    BY <1>q, <2>1, <2>2
  <2>4. /\ consumption[item[w].run] = "none"
        /\ delivery[item[w].run] = IF item[w].status \in {"delivered"} THEN "sent" ELSE "unconfirmed"
    BY <2>1 DEF Undecided
  <2>5. consumption'[item[w].run] = consumption[item[w].run] /\ delivery'[item[w].run] = delivery[item[w].run]
    BY <1>1, <1>2, <2>2, <2>3
  <2> QED
    BY <2>1, <2>4, <2>5
<1>9. Agreed'
  <2> SUFFICES ASSUME NEW x \in Run, holds[x] # 0
               PROVE  /\ Took(x)' <=> Took(x)
                      /\ consumption'[x] = "consumed" <=> consumption[x] = "consumed"
                      /\ delivery'[x] = "consumed" <=> delivery[x] = "consumed"
    BY DEF Agreed
  <2>1. holds[x] \in Version
    BY HoldsVersion
  <2>2. Took(x)' <=> Took(x)
    BY <1>3, <2>1 DEF Took
  <2> QED
    BY <1>1, <1>2, <2>2
<1>10. InTime' /\ OnlyNewestPending'
  BY <1>3 DEF InTime, OnlyNewestPending, Newer
<1>11. Withdrawn'
  BY <1>3 DEF Withdrawn, Tombstone, Open
<1>12. OvertakenNotDelivered'
  <2> SUFFICES ASSUME NEW x \in Run, delivery'[x] = "overtaken"
               PROVE  item'[holds[x]].status \in {"superseded", "retracted"}
    BY DEF OvertakenNotDelivered
  <2>1. CASE x = q
    BY <1>q, <1>3, <2>1
  <2>2. CASE x # q
    <3>1. delivery[x] = "overtaken"
      BY <1>2, <2>2
    <3>2. holds[x] \in Version /\ item[holds[x]].status \in {"superseded", "retracted"}
      BY <3>1, HoldsVersion DEF OvertakenNotDelivered
    <3> QED
      BY <1>3, <3>2
  <2> QED
    BY <2>1, <2>2
<1> QED
  BY <1>4, <1>5, <1>6, <1>7, <1>8, <1>9, <1>10, <1>11, <1>12

\* The item is read within its window, by the Run that has it.
LEMMA ConsumptionKept ==
    ASSUME HubPart, NEW r \in Run, NEW v \in Version, holds[r] = v, item[v].run = r,
           With(v, {"delivered", "unconfirmed"}), v \notin lapsed,
           Consumed(r, "consumed"), Settled(r, "consumed"),
           item' = [item EXCEPT ![v].status = "consumed"],
           lapsed' = {w \in lapsed : item'[w].status = "unconfirmed"},
           UNCHANGED <<version, listed, state, holds, node>>, known' \subseteq Receipts
    PROVE  HubPart'
<1> USE DEF HubPart, With
<1>r. state[r] # "none" /\ consumption[r] = "none" /\ delivery[r] \in Unsettled
  BY WorkInboxAssumption DEF Begun, Version, Undecided, Unsettled
<1>1. /\ consumption' \in [Run -> {"none", "consumed", "duplicate", "duplicate_consumption"}]
      /\ consumption'[r] = "consumed"
      /\ \A x \in Run : x # r => consumption'[x] = consumption[x]
  BY <1>r, ConsumedFacts
<1>2. /\ delivery' \in [Run -> {"none", "sent", "unconfirmed", "consumed", "late", "overtaken",
                                "returned", "withdrawn"}]
      /\ delivery'[r] = "consumed"
      /\ \A x \in Run : x # r => delivery'[x] = delivery[x]
  BY <1>r, SettledFacts
<1>3. item' \in [Version -> Items] /\ item'[v].status = "consumed" /\ item'[v].run = r
      /\ \A w \in Version : w # v => item'[w] = item[w]
  BY DEF InboxTypes, Items
<1>4. InboxTypes' /\ RunTypes'
  BY <1>1, <1>2, <1>3 DEF InboxTypes, RunTypes
<1>5. Begun'
  BY <1>r, <1>1, <1>2 DEF Begun
<1>6. Places'
  BY <1>3 DEF Places, At
<1>7. Windows'
  BY DEF Windows
<1>8. Undecided'
  <2> SUFFICES ASSUME NEW w \in Version, item'[w].status \in {"delivered", "unconfirmed"}, w \notin lapsed'
               PROVE  /\ consumption'[item'[w].run] = "none"
                      /\ delivery'[item'[w].run] = IF item'[w].status \in {"delivered"} THEN "sent" ELSE "unconfirmed"
    BY DEF Undecided
  <2>1. w # v /\ item'[w] = item[w] /\ w \notin lapsed
    BY <1>3 DEF Windows
  <2>2. item[w].run \in Run /\ holds[item[w].run] = w
    BY <2>1 DEF Places, At
  <2>3. item[w].run # r
    BY <2>1, <2>2
  <2> QED
    BY <1>1, <1>2, <2>1, <2>2, <2>3 DEF Undecided
<1>9. Agreed'
  <2> SUFFICES ASSUME NEW x \in Run, holds[x] # 0
               PROVE  /\ consumption'[x] = "consumed" <=> Took(x)'
                      /\ delivery'[x] = "consumed" <=> Took(x)'
    BY DEF Agreed
  <2>1. CASE x = r
    BY <1>1, <1>2, <1>3, <2>1 DEF Took
  <2>2. CASE x # r
    <3>1. holds[x] \in Version
      BY HoldsVersion
    <3>2. Took(x)' <=> Took(x)
      BY <1>3, <2>2, <3>1 DEF Took
    <3> QED
      BY <1>1, <1>2, <2>2, <3>2 DEF Agreed
  <2> QED
    BY <2>1, <2>2
<1>10. InTime' /\ OnlyNewestPending'
  BY <1>3 DEF InTime, OnlyNewestPending, Newer
<1>11. Withdrawn'
  BY <1>3 DEF Withdrawn, Tombstone, Open
<1>12. OvertakenNotDelivered'
  <2> SUFFICES ASSUME NEW x \in Run, delivery'[x] = "overtaken"
               PROVE  item'[holds[x]].status \in {"superseded", "retracted"}
    BY DEF OvertakenNotDelivered
  <2>1. x # r /\ delivery[x] = "overtaken"
    BY <1>2
  <2>2. holds[x] \in Version /\ item[holds[x]].status \in {"superseded", "retracted"}
    BY <2>1, HoldsVersion DEF OvertakenNotDelivered
  <2> QED
    BY <1>3, <2>2
<1> QED
  BY <1>4, <1>5, <1>6, <1>7, <1>8, <1>9, <1>10, <1>11, <1>12

\* A receipt that arrives is recorded once.
LEMMA ReceiveKept ==
    ASSUME HubPart, NodePart, Receive
    PROVE  HubPart' /\ NodePart'
<1> DEFINE h == Head(wire)
           r == h.run
           v == holds[r]
<1>1. wire # <<>> /\ wire' = Tail(wire)
      /\ UNCHANGED <<version, listed, state, holds, node, seq, outbox, conn, lost>>
  BY DEF Receive
<1>2. h \in Receipts /\ wire' \in Seq(Receipts) /\ Range(wire) = {h} \union Range(wire')
  BY <1>1, TailRange DEF NodePart, NodeTypes
<1>3. r \in Run /\ state[r] # "none"
  BY <1>2 DEF NodePart, Readers, Receipts
<1>4. v \in Version
  BY <1>3, HoldsVersion DEF HubPart, Begun
<1>5. \/ h \in known /\ UNCHANGED <<item, delivery, consumption, known, lapsed>>
      \/ /\ known' = known \union {h}
         /\ ReadByPrevious(r, v) \/ ReadByHolder(r, v)
         /\ StillLapsed
  BY DEF Receive
<1>6. known' \subseteq Receipts /\ h \in known' /\ known' \subseteq known \union {h} /\ known \subseteq known'
  BY <1>2, <1>5 DEF HubPart, RunTypes
<1> HIDE DEF h, v
<1>w. Written' = Written
  BY <1>1 DEF Written, Receipts
<1>7. NodePart'
  <2>1. NodeTypes'
    BY <1>1, <1>2 DEF NodePart, NodeTypes
  <2>2. Begun'
    <3>1. \A q \in Run : state[q] = "none" => delivery'[q] = "none" /\ consumption'[q] = "none"
      <4> SUFFICES ASSUME NEW q \in Run, state[q] = "none"
                   PROVE  delivery'[q] = "none" /\ consumption'[q] = "none"
        OBVIOUS
      <4>1. q # r /\ delivery[q] = "none" /\ consumption[q] = "none"
        BY <1>3 DEF HubPart, Begun
      <4>2. CASE UNCHANGED <<delivery, consumption>>
        BY <4>1, <4>2
      <4>3. CASE ReadByHolder(r, v)
        BY <1>3, <4>1, <4>3 DEF ReadByHolder, Consumed, Settled, HubPart, RunTypes, Unsettled
      <4>4. CASE ReadByPrevious(r, v)
        BY <1>3, <4>1, <4>4 DEF ReadByPrevious, Consumed, Settled, HubPart, RunTypes, Unsettled
      <4> QED
        BY <1>5, <4>2, <4>3, <4>4
    <3> QED
      BY <1>1, <3>1 DEF HubPart, Begun
  <2>3. Readers'
    BY <1>1, <1>2, <1>3, <1>6 DEF NodePart, Readers
  <2>4. ReadKept'
    BY <1>1, <1>2, <1>6, <1>w DEF NodePart, ReadKept
  <2> QED
    BY <2>1, <2>2, <2>3, <2>4 DEF NodePart
<1>8. HubPart'
  <2>s. StillLapsed => lapsed' = {w \in lapsed : item'[w].status = "unconfirmed"}
    BY DEF StillLapsed
  <2>l. StillLapsed /\ item' = item => lapsed' = lapsed
    BY <2>s DEF HubPart, Windows, With
  <2>1. CASE UNCHANGED <<item, delivery, consumption, known, lapsed>>
    <3>1. InboxTypes' /\ RunTypes' /\ Begun'
      BY <1>1, <2>1 DEF HubPart, InboxTypes, RunTypes, Begun
    <3>2. (Places /\ Windows /\ Undecided /\ Agreed)'
      BY <1>1, <2>1 DEF HubPart, Places, Windows, Undecided, Agreed, Took, With
    <3>3. (InTime /\ OnlyNewestPending /\ Withdrawn /\ OvertakenNotDelivered)'
      BY <1>1, <2>1 DEF HubPart, InTime, OnlyNewestPending, Newer, Withdrawn, Tombstone, OvertakenNotDelivered, With
    <3> QED
      BY <3>1, <3>2, <3>3 DEF HubPart
  <2>2. CASE StillLapsed /\ ReadByPrevious(r, v)
    <3>1. item[v].run # r
      BY <2>2 DEF ReadByPrevious
    <3>2. CASE \/ Consumed(r, "duplicate_consumption") /\ UNCHANGED <<item, delivery>>
               \/ Consumed(r, "duplicate") /\ UNCHANGED <<item, delivery>>
      BY <1>1, <1>3, <1>6, <2>2, <2>l, <3>1, <3>2, DuplicateKept DEF v
    <3>3. CASE /\ With(v, {"delivered", "unconfirmed"})
               /\ Consumed(r, "duplicate")
               /\ Settled(item[v].run, "overtaken")
               /\ item' = [item EXCEPT ![v].status = "superseded", ![v].run = 0]
      BY <1>1, <1>3, <1>4, <1>6, <2>2, <2>s, <3>1, <3>3, OvertakenKept DEF v
    <3> QED
      BY <2>2, <3>2, <3>3 DEF ReadByPrevious
  <2>3. CASE StillLapsed /\ ReadByHolder(r, v)
    <3>1. item[v].run = r
      BY <2>3 DEF ReadByHolder
    <3>2. CASE With(v, {"consumed"}) /\ UNCHANGED <<item, delivery, consumption>>
      BY <1>1, <1>3, <1>6, <2>3, <2>l, <3>2, DuplicateKept DEF v
    <3>3. CASE /\ With(v, {"delivered", "unconfirmed"}) /\ v \notin lapsed
               /\ item' = [item EXCEPT ![v].status = "consumed"]
               /\ Consumed(r, "consumed")
               /\ Settled(r, "consumed")
      BY <1>1, <1>3, <1>4, <1>6, <2>3, <2>s, <3>1, <3>3, ConsumptionKept DEF v
    <3>4. CASE v \in lapsed /\ Consumed(r, "duplicate") /\ Settled(r, "late") /\ UNCHANGED item
      BY <1>1, <1>3, <1>6, <2>3, <2>l, <3>4, DuplicateKept DEF v
    <3> QED
      BY <2>3, <3>2, <3>3, <3>4 DEF ReadByHolder
  <2> QED
    BY <1>5, <2>1, <2>2, <2>3
<1> QED
  BY <1>7, <1>8

-----------------------------------------------------------------------------
(* The invariant *)

\* A step of the Hub alone leaves what the Node keeps as it was.
LEMMA HubAlone ==
    ASSUME Inv, HubPart', NodeTypes', UNCHANGED <<seq, outbox, wire, lost, known>>,
           \A r \in Run : state[r] # "none" => state'[r] # "none"
    PROVE  Inv'
<1>1. Readers'
  <2>1. \A x \in outbox \union Range(wire) \union known : x.run \in Run
    <3>1. outbox \subseteq Receipts /\ known \subseteq Receipts /\ wire \in Seq(Receipts)
      BY DEF Inv, NodePart, NodeTypes, HubPart, RunTypes
    <3>2. Range(wire) \subseteq Receipts
      BY <3>1 DEF Range
    <3> QED
      BY <3>1, <3>2 DEF Receipts
  <2> QED
    BY <2>1 DEF Inv, NodePart, Readers
<1>2. ReadKept'
  BY DEF Inv, NodePart, ReadKept, Written, Receipts
<1>3. Begun'
  BY DEF HubPart
<1> QED
  BY <1>1, <1>2, <1>3 DEF Inv, NodePart

\* The initial state satisfies the invariant.
LEMMA InvInit ==
    ASSUME Init
    PROVE  Inv
<1>1. InboxTypes /\ RunTypes /\ NodeTypes
  BY WorkInboxAssumption DEF Init, InboxTypes, RunTypes, NodeTypes, Items, None, Version, Run
<1>2. Begun /\ Readers /\ ReadKept
  BY DEF Init, Begun, Readers, ReadKept, Written, Receipts, Range
<1>3. Places /\ Windows /\ Undecided /\ Agreed
  BY DEF Init, Places, Windows, Undecided, Agreed, Took, With, At, None
<1>4. InTime /\ OnlyNewestPending /\ Withdrawn /\ OvertakenNotDelivered
  BY DEF Init, InTime, OnlyNewestPending, Withdrawn, Tombstone, OvertakenNotDelivered, With, None
<1> QED
  BY <1>1, <1>2, <1>3, <1>4 DEF Inv, HubPart, NodePart

\* Every step keeps it.
LEMMA InvNext ==
    ASSUME Inv, Next
    PROVE  Inv'
<1>i. HubPart /\ NodePart /\ NodeTypes /\ RunTypes
  BY DEF Inv, HubPart, NodePart
<1>n. UNCHANGED nodeVars => NodeTypes' /\ UNCHANGED <<seq, outbox, wire, lost>>
  BY <1>i DEF NodeTypes, nodeVars
<1>1. ASSUME Edit \/ Associate \/ ListDue PROVE Inv'
  <2>1. UNCHANGED <<state, known>> /\ UNCHANGED nodeVars
    BY <1>1 DEF Edit, Associate, ListDue, runVars
  <2>2. HubPart'
    BY <1>i, <1>1, QuietKept, AssociateKept
  <2> QED
    BY <1>n, <2>1, <2>2, HubAlone
<1>2. ASSUME NEW v \in Version, PutAside(v) \/ Retract(v) \/ Lapse(v) PROVE Inv'
  <2>1. UNCHANGED <<state, known>> /\ UNCHANGED nodeVars
    BY <1>2 DEF PutAside, Retract, Lapse, runVars
  <2>2. HubPart'
    BY <1>i, <1>2, PutAsideKept, RetractKept, LapseKept
  <2> QED
    BY <1>n, <2>1, <2>2, HubAlone
<1>3. ASSUME NEW r \in Run, Create(r) PROVE Inv'
  <2>1. state' = [state EXCEPT ![r] = "queued"] /\ UNCHANGED known /\ UNCHANGED nodeVars
    BY <1>3 DEF Create
  <2>2. \A q \in Run : state[q] # "none" => state'[q] # "none"
    BY <1>i, <2>1 DEF RunTypes
  <2>3. HubPart'
    BY <1>i, <1>3, CreateKept
  <2> QED
    BY <1>n, <2>1, <2>2, <2>3, HubAlone
<1>4. ASSUME NEW r \in Run, Dispatch(r) \/ End(r) PROVE Inv'
  <2>1. UNCHANGED <<known, seq, outbox, wire, lost>>
    BY <1>4 DEF Dispatch, End, nodeVars
  <2>2. HubPart' /\ NodeTypes' /\ (\A q \in Run : state'[q] = "none" <=> state[q] = "none")
    BY <1>i, <1>4, DispatchKept
  <2> QED
    BY <2>1, <2>2, HubAlone
<1>5. ASSUME NEW v \in Version, NEW r \in Run, Settle(v, r) PROVE Inv'
  <2>1. UNCHANGED <<state, known>> /\ UNCHANGED nodeVars
    BY <1>5 DEF Settle
  <2>2. HubPart'
    BY <1>i, <1>5, SettleKept
  <2> QED
    BY <1>n, <2>1, <2>2, HubAlone
<1>6. CASE Receive
  BY <1>i, <1>6, ReceiveKept DEF Inv
<1>7. CASE NodeStep
  <2>1. NodePart' /\ UNCHANGED <<hubVars, runVars>>
    BY <1>i, <1>7, NodeKept
  <2>u. UNCHANGED <<version, item, lapsed, listed, state, holds, delivery, consumption, known>>
    BY <2>1 DEF hubVars, runVars
  <2>2. InboxTypes' /\ RunTypes' /\ Begun'
    BY <1>i, <2>1, <2>u DEF HubPart, NodePart, InboxTypes, RunTypes
  <2>3. (Places /\ Windows /\ Undecided /\ Agreed)'
    BY <1>i, <2>u DEF HubPart, Places, Windows, Undecided, Agreed, Took, With
  <2>4. (InTime /\ OnlyNewestPending /\ Withdrawn /\ OvertakenNotDelivered)'
    BY <1>i, <2>u DEF HubPart, InTime, OnlyNewestPending, Newer, Withdrawn, Tombstone, OvertakenNotDelivered, With
  <2> QED
    BY <2>1, <2>2, <2>3, <2>4 DEF HubPart, Inv
<1> QED
  BY <1>1, <1>2, <1>3, <1>4, <1>5, <1>6, <1>7 DEF Next, NodeStep

\* So does a step of anything else.
LEMMA InvStutter ==
    ASSUME Inv, UNCHANGED vars
    PROVE  Inv'
<1> USE DEF vars, hubVars, runVars, nodeVars
<1>1. (InboxTypes /\ RunTypes /\ NodeTypes)'
  BY DEF Inv, HubPart, NodePart, InboxTypes, RunTypes, NodeTypes
<1>2. (Begun /\ Readers /\ ReadKept)'
  BY DEF Inv, HubPart, NodePart, Begun, Readers, ReadKept, Written, Receipts
<1>3. (Places /\ Windows /\ Undecided /\ Agreed)'
  BY DEF Inv, HubPart, Places, Windows, Undecided, Agreed, Took, With
<1>4. (InTime /\ OnlyNewestPending /\ Withdrawn /\ OvertakenNotDelivered)'
  BY DEF Inv, HubPart, InTime, OnlyNewestPending, Newer, Withdrawn, Tombstone, OvertakenNotDelivered, With
<1> QED
  BY <1>1, <1>2, <1>3, <1>4 DEF Inv, HubPart, NodePart

\* The invariant holds in every state.
THEOREM Invariance == Spec => []Inv
<1>1. Inv /\ [Next]_vars => Inv'
  BY InvNext, InvStutter
<1> QED
  BY <1>1, InvInit, PTL DEF Spec

\* Every variable has its type.
THEOREM TypeCorrect == Spec => []TypeOK
<1>1. Inv => TypeOK
  BY DEF Inv, HubPart, NodePart, InboxTypes, RunTypes, NodeTypes, TypeOK, Items
<1> QED
  BY <1>1, Invariance, PTL

\* An item is consumed exactly when one Run, the one it is with, has the consumption
\* and the delivery that say so.
THEOREM ConsumedTheorem == Spec => []ConsumedOnce
<1>1. Inv => ConsumedOnce
  <2> SUFFICES ASSUME Inv, NEW v \in Version
               PROVE  /\ {r \in Run : holds[r] = v /\ consumption[r] = "consumed"}
                            = {r \in Run : holds[r] = v /\ delivery[r] = "consumed"}
                      /\ {r \in Run : holds[r] = v /\ consumption[r] = "consumed"}
                            = IF With(v, {"consumed"}) THEN {item[v].run} ELSE {}
    BY DEF ConsumedOnce
  <2>1. v # 0
    BY WorkInboxAssumption DEF Version
  <2>2. \A r \in Run : holds[r] = v =>
           /\ consumption[r] = "consumed" <=> With(v, {"consumed"}) /\ item[v].run = r
           /\ delivery[r] = "consumed" <=> With(v, {"consumed"}) /\ item[v].run = r
    BY <2>1 DEF Inv, HubPart, Agreed, Took
  <2>3. With(v, {"consumed"}) => item[v].run \in Run /\ holds[item[v].run] = v
    BY DEF Inv, HubPart, Places, With, At
  <2> QED
    BY <2>2, <2>3
<1> QED
  BY <1>1, Invariance, PTL

\* Only the newest associated version of a source is ever open for a new Run.
THEOREM NewestTheorem == Spec => []OnlyNewestPending
<1>1. Inv => OnlyNewestPending
  BY DEF Inv, HubPart
<1> QED
  BY <1>1, Invariance, PTL

\* An item whose delivery was overtaken by an earlier read is not delivered again.
THEOREM OvertakenTheorem == Spec => []OvertakenNotDelivered
<1>1. Inv => OvertakenNotDelivered
  BY DEF Inv, HubPart
<1> QED
  BY <1>1, Invariance, PTL

\* No read is forgotten: its receipt is kept, on its way, recorded, or was on a
\* connection that broke.
THEOREM ReadTheorem == Spec => []ReadKept
<1>1. Inv => ReadKept
  BY DEF Inv, NodePart
<1> QED
  BY <1>1, Invariance, PTL

\* buildRunWorkInputBundle hands nothing out of a source withdrawn from the Work:
\* a copy of it that is still made is of an answer given before.
THEOREM NoCopyTheorem == Spec => NoCopyAfterRetract
<1> DEFINE Step == Tombstone => \A r \in Run :
                      node'[r] \in {"coming", "ready"} => node[r] \in {"coming", "ready"}
<1>1. Inv /\ [Next]_vars => [Step]_vars
  <2> SUFFICES ASSUME Inv, Next, Tombstone, NEW r \in Run, node'[r] \in {"coming", "ready"}
               PROVE  node[r] \in {"coming", "ready"}
    OBVIOUS
  <2>i. node \in [Run -> {"none", "ordered", "coming", "ready", "gone"}] /\ Withdrawn
    BY DEF Inv, HubPart, NodePart, NodeTypes
  <2>1. CASE UNCHANGED node
    BY <2>1
  <2>2. ASSUME NEW q \in Run, Answer(q) PROVE node[r] \in {"coming", "ready"}
    <3>1. node[q] = "ordered" /\ node' = [node EXCEPT ![q] = IF Delivered(q) THEN "coming" ELSE "gone"]
      BY <2>2 DEF Answer
    <3>2. ~Delivered(q)
      <4>1. holds[q] \in Version
        <5>1. state[q] # "none" /\ HubPart
          BY <3>1 DEF Inv, HubPart, Begun
        <5> QED
          BY <5>1, HoldsVersion DEF HubPart, Begun
      <4> QED
        BY <2>i, <4>1 DEF Withdrawn, Delivered, Open, With
    <3> QED
      BY <2>i, <3>1, <3>2
  <2>3. ASSUME NEW q \in Run, Prepare(q) PROVE node[r] \in {"coming", "ready"}
    <3>1. node[q] = "coming" /\ \E c \in {"ready", "gone"} : node' = [node EXCEPT ![q] = c]
      BY <2>3 DEF Prepare
    <3> QED
      BY <2>i, <3>1
  <2>4. ASSUME NEW q \in Run, Cleanup(q) \/ Dispatch(q) PROVE node[r] \in {"coming", "ready"}
    BY <2>i, <2>4 DEF Cleanup, Dispatch
  <2>5. CASE Crash
    BY <2>i, <2>5 DEF Crash
  <2>6. ASSUME \/ Edit \/ Associate \/ ListDue \/ Receive \/ Break \/ Connect \/ Drain
               \/ \E v \in Version : PutAside(v) \/ Retract(v) \/ Lapse(v)
               \/ \E q \in Run : Create(q) \/ End(q) \/ Read(q)
               \/ \E v \in Version, q \in Run : Settle(v, q)
        PROVE  UNCHANGED node
    BY <2>6 DEF Edit, Associate, ListDue, Receive, Break, Connect, Drain, PutAside, Retract, Lapse,
                Create, End, Read, Settle, nodeVars
  <2> QED
    BY <2>1, <2>2, <2>3, <2>4, <2>5, <2>6 DEF Next
<1>2. Spec => [][Step]_vars
  BY <1>1, Invariance, PTL DEF Spec
<1> QED
  BY <1>2 DEF NoCopyAfterRetract
=============================================================================
