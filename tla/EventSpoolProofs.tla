--------------------------- MODULE EventSpoolProofs ---------------------------
(***************************************************************************)
(* No event is lost, no acknowledgement covers a gap, events take effect   *)
(* in order as long as no handler fails, and the spool implements the log: *)
(* for any number of events, connections and failures.                     *)
(***************************************************************************)
EXTENDS EventSpool, TLAPS, WellFoundedInduction

\* A set of numbers that is not empty has a least member.
LEMMA LeastNumber ==
    ASSUME NEW T, T \subseteq Nat, T # {}
    PROVE  \E n \in T : \A m \in T : n <= m
<1>1. \E n \in T : \A m \in T : ~ (<<m, n>> \in OpToRel(<, Nat))
  BY NatLessThanWellFounded, WFMin
<1>2. ASSUME NEW m \in Nat, NEW n \in Nat, m < n PROVE <<m, n>> \in OpToRel(<, Nat)
  <2>1. <<m, n>> \in Nat \X Nat /\ <<m, n>>[1] = m /\ <<m, n>>[2] = n
    OBVIOUS
  <2> QED
    BY <1>2, <2>1 DEF OpToRel
<1>3. \E n \in T : \A m \in T : ~ (m < n)
  BY <1>1, <1>2
<1> QED
  BY <1>3

\* runEventWatermark is well defined, and everything up to it is in the table.
LEMMA WatermarkSound ==
    ASSUME runEvents \in SUBSET SeqNo
    PROVE  /\ Watermark \in 0..MaxSeq
           /\ 1..Watermark \subseteq runEvents
<1> DEFINE Gaps == {n \in Nat : n + 1 \notin runEvents}
<1>1. MaxSeq \in Gaps
  BY BoundsAssumption DEF SeqNo
<1>2. PICK w \in Gaps : \A n \in Gaps : w <= n
  BY <1>1, LeastNumber
<1>3. w \in 0..MaxSeq /\ w + 1 \notin runEvents
  BY <1>1, <1>2, BoundsAssumption
<1>4. ASSUME NEW s \in 1..w PROVE s \in runEvents
  <2>1. s - 1 \in Nat /\ s - 1 \notin Gaps
    BY <1>2, <1>3, BoundsAssumption
  <2> QED
    BY <2>1
<1> QED
  BY <1>3, <1>4 DEF Watermark

\* A frame that is sent leaves the queues well typed.
LEMMA SendTyped ==
    ASSUME TypeOK, NEW frame \in UpFrame, Send(frame)
    PROVE  up' \in [Conn -> Seq(UpFrame)]
<1>1. CASE conn = 0
  BY <1>1 DEF Send, TypeOK
<1>2. CASE conn # 0
  <2>1. conn \in Conn /\ up[conn] \in Seq(UpFrame)
    BY <1>2, BoundsAssumption DEF TypeOK, Conn
  <2>2. Append(up[conn], frame) \in Seq(UpFrame)
    BY <2>1
  <2> QED
    BY <1>2, <2>1, <2>2 DEF Send, TypeOK
<1> QED
  BY <1>1, <1>2

\* So does a drain of the spool.
LEMMA DrainTyped ==
    ASSUME TypeOK, NEW S \in SUBSET SeqNo, Drain(S)
    PROVE  up' \in [Conn -> Seq(UpFrame)]
<1>1. Burst(S) \in UpFrame
  BY DEF Burst, UpFrame
<1> QED
  BY <1>1, SendTyped DEF Drain, TypeOK

\* So does the handling of one event of a burst.
LEMMA WithoutTyped ==
    ASSUME NEW frames \in Seq(UpFrame), frames # <<>>, Head(frames).type = "events", NEW s
    PROVE  Without(frames, s) \in Seq(UpFrame)
<1>1. Head(frames) \in UpFrame /\ Tail(frames) \in Seq(UpFrame)
  OBVIOUS
<1>2. Burst(Head(frames).seqs \ {s}) \in UpFrame
  BY <1>1 DEF UpFrame, Burst
<1> QED
  BY <1>1, <1>2 DEF Without

\* So does the loss of the frames after some point.
LEMMA CutTyped ==
    ASSUME NEW frames \in Seq(UpFrame), NEW k \in 0..Len(frames), NEW t
    PROVE  Cut(frames, k, t) \in Seq(UpFrame)
<1>1. SubSeq(frames, 1, k) \in Seq(UpFrame)
  OBVIOUS
<1> DEFINE rest == {s \in frames[k + 1].seqs : s <= t}
<1>2. ASSUME k < Len(frames), frames[k + 1].type = "events"
      PROVE  Burst(rest) \in UpFrame
  <2>1. frames[k + 1] \in UpFrame
    BY <1>2
  <2> QED
    BY <1>2, <2>1 DEF UpFrame, Burst
<1> QED
  BY <1>1, <1>2 DEF Cut

\* Every step keeps every variable in its type.
LEMMA TypeStep == TypeOK /\ [Next]_vars => TypeOK'
<1> SUFFICES ASSUME TypeOK, [Next]_vars PROVE TypeOK'
  OBVIOUS
<1> USE BoundsAssumption DEF nodeVars, linkVars, hubVars, SeqNo
<1>1. CASE Emit
  <2>1. nextSeq \in SeqNo /\ spool' \in SUBSET SeqNo
    BY <1>1 DEF Emit, TypeOK
  <2>2. up' \in [Conn -> Seq(UpFrame)]
    BY <1>1, <2>1, DrainTyped DEF Emit
  <2> QED
    BY <1>1, <2>1, <2>2 DEF Emit, TypeOK
<1>2. CASE Connect
  <2>1. opened' \in 0..MaxConn /\ conn' \in 0..MaxConn
    BY <1>2 DEF Connect, TypeOK
  <2>2. down' \in Seq(DownFrame)
    BY <1>2 DEF Connect
  <2> QED
    BY <1>2, <2>1, <2>2 DEF Connect, TypeOK
<1>3. CASE Hello
  <2>1. up' \in [Conn -> Seq(UpFrame)]
    BY <1>3, DrainTyped DEF Hello, TypeOK
  <2> QED
    BY <1>3, <2>1 DEF Hello, TypeOK
<1>4. CASE SendHeartbeat
  <2>1. Heartbeat(nextSeq - 1) \in UpFrame
    BY DEF TypeOK, Heartbeat, UpFrame
  <2>2. up' \in [Conn -> Seq(UpFrame)]
    BY <1>4, <2>1, SendTyped DEF SendHeartbeat
  <2> QED
    BY <1>4, <2>2 DEF SendHeartbeat, TypeOK
<1>5. CASE ReceiveAck
  <2>1. down' \in Seq(DownFrame)
    BY <1>5 DEF ReceiveAck, TypeOK
  <2>2. spool' \in SUBSET SeqNo
    BY <1>5 DEF ReceiveAck, TypeOK
  <2> QED
    BY <1>5, <2>1, <2>2 DEF ReceiveAck, TypeOK
<1>6. CASE ReceiveResend
  <2>1. up' \in [Conn -> Seq(UpFrame)]
    BY <1>6, DrainTyped DEF ReceiveResend, TypeOK
  <2> QED
    BY <1>6, <2>1 DEF ReceiveResend, TypeOK
<1>7. ASSUME NEW c \in Conn, HubIngest(c) PROVE TypeOK'
  <2>1. ASSUME NEW s \in SeqNo, NextEvent(c, s) PROVE Without(up[c], s) \in Seq(UpFrame)
    BY <2>1, WithoutTyped DEF NextEvent, Handling, TypeOK
  <2> QED
    BY <1>7, <2>1 DEF HubIngest, TypeOK
<1>8. ASSUME NEW c \in Conn, HubAck(c) PROVE TypeOK'
  <2>1. Watermark > 0 => AckFrame(Watermark) \in DownFrame
    BY WatermarkSound DEF TypeOK, AckFrame, DownFrame
  <2> QED
    BY <1>8, <2>1 DEF HubAck, TypeOK
<1>9. ASSUME NEW c \in Conn, HubHeartbeat(c) PROVE TypeOK'
  <2>1. ResendFrame(Watermark + 1) \in DownFrame
    BY WatermarkSound DEF TypeOK, ResendFrame, DownFrame
  <2> QED
    BY <1>9, <2>1 DEF HubHeartbeat, Handling, TypeOK
<1>10. ASSUME NEW c \in Conn, HubFail(c) PROVE TypeOK'
  <2>1. ASSUME NEW s \in SeqNo, NextEvent(c, s) PROVE Without(up[c], s) \in Seq(UpFrame)
    BY <2>1, WithoutTyped DEF NextEvent, Handling, TypeOK
  <2>2. up[c] \in Seq(UpFrame) /\ (up[c] # <<>> => Tail(up[c]) \in Seq(UpFrame))
    BY DEF TypeOK
  <2>3. up' \in [Conn -> Seq(UpFrame)]
    BY <1>10, <2>1, <2>2 DEF HubFail, Handling, TypeOK
  <2>4. owesAck' \in [Conn -> BOOLEAN]
    BY <1>10 DEF HubFail, TypeOK
  <2>5. conn' \in 0..MaxConn /\ down' \in Seq(DownFrame)
    <3>1. CASE c = conn
      BY <1>10, <3>1 DEF HubFail
    <3>2. CASE c # conn
      BY <1>10, <3>2 DEF HubFail, TypeOK
    <3> QED
      BY <3>1, <3>2
  <2>6. failures' \in 0..MaxFail
    BY <1>10 DEF HubFail, TypeOK
  <2> QED
    BY <1>10, <2>3, <2>4, <2>5, <2>6 DEF HubFail, TypeOK
<1>11. CASE Disconnect
  <2>1. conn \in Conn
    BY <1>11 DEF Disconnect, Conn, TypeOK
  <2>2. up' \in [Conn -> Seq(UpFrame)]
    BY <1>11, <2>1, CutTyped DEF Disconnect, TypeOK
  <2> QED
    BY <1>11, <2>2 DEF Disconnect, TypeOK
<1>12. CASE HubRestart
  BY <1>12 DEF HubRestart, TypeOK
<1>13. CASE UNCHANGED vars
  BY <1>13 DEF vars, TypeOK
<1> QED
  BY <1>1, <1>2, <1>3, <1>4, <1>5, <1>6, <1>7, <1>8, <1>9, <1>10, <1>11, <1>12, <1>13
     DEF Next, Node, Hub, Environment

\* What holds of the acknowledgements and of the spool.
AcksSound == TypeOK /\ AckCoversNoGap /\ NothingLost

\* The watermark is read after the append and the table only grows, so an ack never
\* covers more than the table; and ackUntil deletes only what an ack covers.
LEMMA AcksStep == AcksSound /\ [Next]_vars => (AckCoversNoGap /\ NothingLost)'
<1> SUFFICES ASSUME TypeOK, AckCoversNoGap, NothingLost, [Next]_vars
             PROVE  AckCoversNoGap' /\ NothingLost'
  BY DEF AcksSound
<1> USE BoundsAssumption DEF nodeVars, linkVars, hubVars
<1>0. ASSUME UNCHANGED <<nextSeq, spool, down, runEvents>>
      PROVE  AckCoversNoGap' /\ NothingLost'
  BY <1>0 DEF AckCoversNoGap, NothingLost
<1>13. ASSUME UNCHANGED <<nextSeq, spool, runEvents>>, down' = <<>>
      PROVE  AckCoversNoGap' /\ NothingLost'
  BY <1>13 DEF AckCoversNoGap, NothingLost
<1>1. CASE Emit
  BY <1>1 DEF Emit, AckCoversNoGap, NothingLost, TypeOK, SeqNo
<1>2. CASE Connect
  BY <1>13, <1>2 DEF Connect
<1>5. CASE ReceiveAck
  <2>1. down \in Seq(DownFrame) /\ down # <<>>
    BY <1>5 DEF ReceiveAck, TypeOK
  <2>2. Head(down) = down[1] /\ 1 \in 1..Len(down)
    BY <2>1
  <2>3. 1..Head(down).seq \subseteq runEvents
    BY <1>5, <2>2 DEF ReceiveAck, AckCoversNoGap
  <2>4. Head(down).seq \in Nat
    <3>1. Head(down) \in DownFrame
      BY <2>1
    <3> QED
      BY <3>1 DEF DownFrame
  <2>5. NothingLost'
    BY <1>5, <2>3, <2>4 DEF ReceiveAck, NothingLost, TypeOK
  <2>6. AckCoversNoGap'
    BY <1>5, <2>1 DEF ReceiveAck, AckCoversNoGap
  <2> QED
    BY <2>5, <2>6
<1>6. CASE ReceiveResend
  <2>1. down \in Seq(DownFrame) /\ down # <<>>
    BY <1>6 DEF ReceiveResend, TypeOK
  <2>6. AckCoversNoGap'
    BY <1>6, <2>1 DEF ReceiveResend, AckCoversNoGap
  <2> QED
    BY <1>6, <2>6 DEF ReceiveResend, NothingLost
<1>7. ASSUME NEW c \in Conn, HubIngest(c) PROVE AckCoversNoGap' /\ NothingLost'
  BY <1>7 DEF HubIngest, AckCoversNoGap, NothingLost
<1>8. ASSUME NEW c \in Conn, HubAck(c) PROVE AckCoversNoGap' /\ NothingLost'
  <2>1. CASE down' = Append(down, AckFrame(Watermark))
    <3>1. AckFrame(Watermark).seq = Watermark
      BY DEF AckFrame
    <3>2. 1..Watermark \subseteq runEvents
      BY WatermarkSound DEF TypeOK
    <3>3. AckCoversNoGap'
      BY <1>8, <2>1, <3>1, <3>2 DEF HubAck, AckCoversNoGap, TypeOK
    <3> QED
      BY <1>8, <3>3 DEF HubAck, NothingLost
  <2>2. CASE down' = down
    BY <1>0, <1>8, <2>2 DEF HubAck
  <2> QED
    BY <1>8, <2>1, <2>2 DEF HubAck
<1>9. ASSUME NEW c \in Conn, HubHeartbeat(c) PROVE AckCoversNoGap' /\ NothingLost'
  <2>1. CASE down' = Append(down, ResendFrame(Watermark + 1))
    <3>1. ResendFrame(Watermark + 1).type = "resend"
      BY DEF ResendFrame
    <3>3. AckCoversNoGap'
      BY <1>9, <2>1, <3>1 DEF HubHeartbeat, AckCoversNoGap, TypeOK
    <3> QED
      BY <1>9, <3>3 DEF HubHeartbeat, NothingLost
  <2>2. CASE down' = down
    BY <1>0, <1>9, <2>2 DEF HubHeartbeat
  <2> QED
    BY <1>9, <2>1, <2>2 DEF HubHeartbeat
<1>10. ASSUME NEW c \in Conn, HubFail(c) PROVE AckCoversNoGap' /\ NothingLost'
  BY <1>0, <1>13, <1>10 DEF HubFail
<1> QED
  BY <1>0, <1>13, <1>1, <1>2, <1>5, <1>6, <1>7, <1>8, <1>9, <1>10
     DEF Next, Node, Hub, Environment, Hello, SendHeartbeat, Disconnect, HubRestart, vars


\* Every burst in a queue is a member of B.
Bursts(frames, B) == \A i \in 1..Len(frames) : frames[i].type = "events" => frames[i].seqs \in B

\* A drain adds the burst it sends.
LEMMA DrainBursts ==
    ASSUME TypeOK, NEW B, \A c \in Conn : Bursts(up[c], B),
           NEW S \in SUBSET SeqNo, S = {} \/ S \in B, Drain(S)
    PROVE  \A c \in Conn : Bursts(up'[c], B)
<1>1. CASE up' = up
  BY <1>1
<1>2. CASE conn # 0 /\ S \in B /\ up' = [up EXCEPT ![conn] = Append(@, Burst(S))]
  <2>1. conn \in Conn /\ up[conn] \in Seq(UpFrame) /\ Burst(S).seqs = S
    BY <1>2, BoundsAssumption DEF TypeOK, Conn, Burst
  <2>2. Bursts(Append(up[conn], Burst(S)), B)
    BY <1>2, <2>1 DEF Bursts
  <2> QED
    BY <1>2, <2>1, <2>2 DEF TypeOK
<1> QED
  BY <1>1, <1>2 DEF Drain, Send

\* A frame that was handled takes nothing else with it.
LEMMA TailBursts ==
    ASSUME NEW frames \in Seq(UpFrame), NEW B, Bursts(frames, B), frames # <<>>
    PROVE  Tail(frames) \in Seq(UpFrame) /\ Bursts(Tail(frames), B)
BY DEF Bursts

\* Taking the lowest event off a burst leaves a burst of its own.
LEMMA WithoutBursts ==
    ASSUME NEW frames \in Seq(UpFrame), NEW B, Bursts(frames, B), frames # <<>>,
           Head(frames).type = "events", NEW s,
           Head(frames).seqs # {s} => Head(frames).seqs \ {s} \in B
    PROVE  Bursts(Without(frames, s), B)
<1> DEFINE t == Tail(frames)
           b == Burst(Head(frames).seqs \ {s})
<1>1. t \in Seq(UpFrame) /\ Bursts(t, B)
  BY TailBursts
<1>2. ASSUME Head(frames).seqs # {s} PROVE Bursts(<<b>> \o t, B)
  <2>1. b \in UpFrame /\ b.seqs \in B
    <3>1. Head(frames) \in UpFrame
      OBVIOUS
    <3> QED
      BY <1>2, <3>1 DEF UpFrame, Burst
  <2> HIDE DEF b, t
  <2>2. Len(<<b>> \o t) = Len(t) + 1 /\ (<<b>> \o t)[1] = b
    BY <1>1, <2>1
  <2>3. \A i \in 1..Len(t) : (<<b>> \o t)[i + 1] = t[i]
    BY <1>1, <2>1
  <2>4. ASSUME NEW i \in 1..Len(<<b>> \o t), (<<b>> \o t)[i].type = "events"
        PROVE  (<<b>> \o t)[i].seqs \in B
    <3>1. CASE i = 1
      BY <2>1, <2>2, <3>1
    <3>2. CASE i # 1
      <4>1. i - 1 \in 1..Len(t) /\ (i - 1) + 1 = i
        BY <1>1, <2>2, <3>2
      <4> QED
        BY <1>1, <2>3, <2>4, <4>1 DEF Bursts
    <3> QED
      BY <3>1, <3>2
  <2> QED
    BY <2>4 DEF Bursts
<1> QED
  BY <1>1, <1>2 DEF Without

\* A loss cuts the last burst at some number.
LEMMA CutBursts ==
    ASSUME NEW frames \in Seq(UpFrame), NEW B, Bursts(frames, B),
           NEW k \in 0..Len(frames), NEW t, \A S \in B : {s \in S : s <= t} \in B
    PROVE  Bursts(Cut(frames, k, t), B)
<1> DEFINE front == SubSeq(frames, 1, k)
           b == Burst({s \in frames[k + 1].seqs : s <= t})
<1>1. front \in Seq(UpFrame) /\ Len(front) = k /\ \A i \in 1..k : front[i] = frames[i]
  OBVIOUS
<1>2. Bursts(front, B)
  BY <1>1 DEF Bursts
<1>3. ASSUME k < Len(frames), frames[k + 1].type = "events"
      PROVE  Bursts(Append(front, b), B)
  <2>1. b.seqs \in B
    BY <1>3 DEF Bursts, Burst
  <2> HIDE DEF front, b
  <2>2. Len(Append(front, b)) = Len(front) + 1 /\ Append(front, b)[Len(front) + 1] = b
    BY <1>1
  <2>3. \A i \in 1..Len(front) : Append(front, b)[i] = front[i]
    BY <1>1
  <2> QED
    BY <1>1, <1>2, <2>1, <2>2, <2>3 DEF Bursts
<1> QED
  BY <1>2, <1>3 DEF Cut

\* Every burst in any queue is a member of B.
InFlight(B) == \A c \in Conn : Bursts(up[c], B)

\* What is held or on its way was produced.
ProducedSound ==
    /\ spool \subseteq 1..nextSeq - 1
    /\ runEvents \subseteq 1..nextSeq - 1
    /\ InFlight(SUBSET (1..nextSeq - 1))

\* Nothing appears anywhere that the Node has not produced.
LEMMA ProducedStep == TypeOK /\ ProducedSound /\ [Next]_vars => ProducedSound'
<1> SUFFICES ASSUME TypeOK, ProducedSound, [Next]_vars PROVE ProducedSound'
  OBVIOUS
<1> USE BoundsAssumption DEF nodeVars, linkVars, hubVars
<1> DEFINE B == SUBSET (1..nextSeq - 1)
<1>0. ASSUME UNCHANGED nodeVars, runEvents' = runEvents, \A c \in Conn : Bursts(up'[c], B)
      PROVE  ProducedSound'
  BY <1>0 DEF ProducedSound, InFlight
<1>1. CASE Emit
  <2> DEFINE BB == SUBSET (1..nextSeq)
  <2>1. nextSeq \in SeqNo /\ nextSeq \in Nat /\ spool' \in BB /\ spool' \in SUBSET SeqNo
    BY <1>1 DEF Emit, ProducedSound, TypeOK, SeqNo
  <2>2. B \subseteq BB
    BY <2>1
  <2>3. \A c \in Conn : Bursts(up[c], BB)
    BY <2>2 DEF ProducedSound, InFlight, Bursts
  <2>4. \A c \in Conn : Bursts(up'[c], BB)
    BY <1>1, <2>1, <2>3, DrainBursts DEF Emit
  <2>5. nextSeq' - 1 = nextSeq
    BY <1>1, <2>1 DEF Emit
  <2>6. spool' \subseteq 1..nextSeq' - 1 /\ runEvents' \subseteq 1..nextSeq' - 1
    BY <1>1, <2>1, <2>5 DEF Emit, ProducedSound
  <2>7. InFlight(SUBSET (1..nextSeq - 1))'
    BY <2>4, <2>5 DEF InFlight
  <2> QED
    BY <2>6, <2>7 DEF ProducedSound
<1>2. CASE Hello \/ ReceiveResend
  <2>1. Drain(spool)
    BY <1>2 DEF Hello, ReceiveResend
  <2>3. spool \in B /\ spool \in SUBSET SeqNo
    BY DEF ProducedSound, TypeOK
  <2>2. \A c \in Conn : Bursts(up'[c], B)
    BY <2>1, <2>3, DrainBursts DEF ProducedSound, InFlight
  <2> QED
    BY <1>0, <1>2, <2>2 DEF Hello, ReceiveResend
<1>3. CASE SendHeartbeat
  <2>0. conn \in Conn
    BY <1>3 DEF SendHeartbeat, TypeOK, Conn
  <2>1. up[conn] \in Seq(UpFrame) /\ Bursts(up[conn], B)
    BY <2>0 DEF ProducedSound, InFlight, TypeOK
  <2>2. Heartbeat(nextSeq - 1).type # "events"
    BY DEF Heartbeat
  <2>3. Bursts(Append(up[conn], Heartbeat(nextSeq - 1)), B)
    BY <2>1, <2>2 DEF Bursts
  <2>4. \A c \in Conn : Bursts(up'[c], B)
    BY <1>3, <2>0, <2>3 DEF SendHeartbeat, Send, ProducedSound, InFlight, TypeOK
  <2> QED
    BY <1>0, <1>3, <2>4 DEF SendHeartbeat
<1>4. CASE ReceiveAck
  BY <1>4 DEF ReceiveAck, ProducedSound, InFlight
<1>5. ASSUME NEW c \in Conn, NEW s \in SeqNo, NextEvent(c, s)
      PROVE  Bursts(Without(up[c], s), B) /\ s \in 1..nextSeq - 1
  <2>1. up[c] \in Seq(UpFrame) /\ up[c] # <<>> /\ Bursts(up[c], B) /\ Head(up[c]).type = "events"
    BY <1>5 DEF NextEvent, Handling, ProducedSound, InFlight, TypeOK
  <2>2. Head(up[c]).seqs \in B
    BY <2>1 DEF Bursts
  <2>3. Head(up[c]).seqs \ {s} \in B
    BY <2>2
  <2> QED
    BY <1>5, <2>1, <2>2, <2>3, WithoutBursts DEF NextEvent
<1>6. ASSUME NEW c \in Conn, Handling(c, "heartbeat") PROVE Bursts(Tail(up[c]), B)
  BY <1>6, TailBursts DEF Handling, ProducedSound, InFlight, TypeOK
<1>7. ASSUME NEW c \in Conn, HubIngest(c) PROVE ProducedSound'
  <2>1. PICK s \in SeqNo : NextEvent(c, s) /\ runEvents' = runEvents \union {s}
                           /\ up' = [up EXCEPT ![c] = Without(@, s)]
    BY <1>7 DEF HubIngest
  <2>2. \A d \in Conn : Bursts(up'[d], B)
    BY <1>5, <2>1 DEF ProducedSound, InFlight, TypeOK
  <2> QED
    BY <1>5, <1>7, <2>1, <2>2 DEF HubIngest, ProducedSound, InFlight
<1>8. ASSUME NEW c \in Conn, HubHeartbeat(c) PROVE ProducedSound'
  <2>1. \A d \in Conn : Bursts(up'[d], B)
    BY <1>6, <1>8 DEF HubHeartbeat, ProducedSound, InFlight, TypeOK
  <2> QED
    BY <1>0, <1>8, <2>1 DEF HubHeartbeat
<1>9. ASSUME NEW c \in Conn, HubFail(c) PROVE ProducedSound'
  <2>1. ASSUME NEW s \in SeqNo, NextEvent(c, s), up' = [up EXCEPT ![c] = Without(@, s)]
        PROVE  \A d \in Conn : Bursts(up'[d], B)
    BY <1>5, <2>1 DEF ProducedSound, InFlight, TypeOK
  <2>2. ASSUME Handling(c, "heartbeat"), up' = [up EXCEPT ![c] = Tail(@)]
        PROVE  \A d \in Conn : Bursts(up'[d], B)
    BY <1>6, <2>2 DEF ProducedSound, InFlight, TypeOK
  <2>3. ASSUME up' = up PROVE \A d \in Conn : Bursts(up'[d], B)
    BY <2>3 DEF ProducedSound, InFlight
  <2>4. \A d \in Conn : Bursts(up'[d], B)
    BY <1>9, <2>1, <2>2, <2>3 DEF HubFail
  <2> QED
    BY <1>0, <1>9, <2>4 DEF HubFail
<1>10. CASE Disconnect
  <2>1. conn \in Conn
    BY <1>10 DEF Disconnect, Conn, TypeOK
  <2>2. \A t \in 0..MaxSeq, S \in B : {s \in S : s <= t} \in B
    OBVIOUS
  <2> HIDE DEF B
  <2>3. up[conn] \in Seq(UpFrame) /\ Bursts(up[conn], B)
    BY <2>1 DEF ProducedSound, InFlight, TypeOK, B
  <2>5. \A k \in 0..Len(up[conn]), t \in 0..MaxSeq : Bursts(Cut(up[conn], k, t), B)
    BY <2>2, <2>3, CutBursts
  <2>4. \A d \in Conn : Bursts(up'[d], B)
    BY <1>10, <2>1, <2>5 DEF Disconnect, ProducedSound, InFlight, TypeOK, B
  <2> QED
    BY <1>0, <1>10, <2>4 DEF Disconnect, B
<1>11. CASE HubRestart
  <2>1. \A d \in Conn : Bursts(up'[d], B)
    BY <1>11 DEF HubRestart, Bursts
  <2> QED
    BY <1>0, <1>11, <2>1 DEF HubRestart
<1>12. ASSUME UNCHANGED <<nextSeq, spool, up, runEvents>> PROVE ProducedSound'
  BY <1>12 DEF ProducedSound, InFlight
<1> QED
  BY <1>1, <1>2, <1>3, <1>4, <1>7, <1>8, <1>9, <1>10, <1>11, <1>12
     DEF Next, Node, Hub, Environment, Connect, HubAck, vars

\* A burst in order: what comes before one of its events is in it too, or at the Hub.
Closed == {S \in SUBSET SeqNo : \A s \in S : \A t \in 1..s - 1 : t \in S \/ t \in runEvents}

\* Until a handler fails, what is in flight is in order.
ClosedUntilFailure == failures = 0 => InFlight(Closed)

\* Bursts stay in order as long as no handler fails: each is a whole spool, and what is not
\* in the spool any more was acknowledged.
LEMMA ClosedStep ==
    TypeOK /\ NothingLost /\ ProducedSound /\ ClosedUntilFailure /\ [Next]_vars => ClosedUntilFailure'
<1> SUFFICES ASSUME TypeOK, NothingLost, ProducedSound, ClosedUntilFailure, [Next]_vars, failures' = 0
             PROVE  InFlight(Closed)'
  BY DEF ClosedUntilFailure
<1>8. failures = 0 /\ ~\E c \in Conn : HubFail(c)
  <2>1. failures \in Nat
    BY BoundsAssumption DEF TypeOK
  <2>2. ~\E c \in Conn : HubFail(c)
    BY <2>1 DEF HubFail
  <2> QED
    BY <2>2 DEF Next, Node, Hub, Environment, Emit, Connect, Hello, SendHeartbeat, ReceiveAck,
           ReceiveResend, HubIngest, HubAck, HubHeartbeat, Disconnect, HubRestart, hubVars, vars
<1> SUFFICES InFlight(Closed) => InFlight(Closed)'
  BY <1>8 DEF ClosedUntilFailure
<1> SUFFICES ASSUME InFlight(Closed) PROVE InFlight(Closed)'
  OBVIOUS
<1> USE BoundsAssumption DEF nodeVars, linkVars, hubVars
<1>0. ASSUME runEvents' = runEvents, \A c \in Conn : Bursts(up'[c], Closed)
      PROVE  InFlight(Closed)'
  <2>1. Closed' = Closed
    BY <1>0 DEF Closed
  <2> QED
    BY <1>0, <2>1 DEF InFlight
<1>1. CASE Emit \/ Hello \/ ReceiveResend
  <2>1. spool \in SUBSET SeqNo /\ nextSeq \in Nat
    BY DEF TypeOK
  <2>2. spool \in Closed
    BY <2>1 DEF ProducedSound, NothingLost, Closed, SeqNo
  <2>3. CASE Emit
    <3>1. spool' \in SUBSET SeqNo /\ Drain(spool')
      BY <1>1, <2>1, <2>3 DEF Emit, SeqNo, TypeOK
    <3>2. spool' \in Closed
      BY <2>1, <2>3, <3>1 DEF Emit, ProducedSound, NothingLost, Closed, SeqNo
    <3>3. \A c \in Conn : Bursts(up'[c], Closed)
      BY <3>1, <3>2, DrainBursts DEF InFlight
    <3> QED
      BY <1>0, <2>3, <3>3 DEF Emit
  <2>4. CASE Hello \/ ReceiveResend
    <3>1. Drain(spool)
      BY <2>4 DEF Hello, ReceiveResend
    <3>2. \A c \in Conn : Bursts(up'[c], Closed)
      BY <2>1, <2>2, <3>1, DrainBursts DEF InFlight
    <3> QED
      BY <1>0, <2>4, <3>2 DEF Hello, ReceiveResend
  <2> QED
    BY <1>1, <2>3, <2>4
<1>2. CASE SendHeartbeat
  <2>0. conn \in Conn
    BY <1>2 DEF SendHeartbeat, TypeOK, Conn
  <2>1. up[conn] \in Seq(UpFrame) /\ Bursts(up[conn], Closed)
    BY <2>0 DEF InFlight, TypeOK
  <2>2. Heartbeat(nextSeq - 1).type # "events"
    BY DEF Heartbeat
  <2>3. Bursts(Append(up[conn], Heartbeat(nextSeq - 1)), Closed)
    BY <2>1, <2>2 DEF Bursts
  <2>4. \A c \in Conn : Bursts(up'[c], Closed)
    BY <1>2, <2>0, <2>3 DEF SendHeartbeat, Send, InFlight, TypeOK
  <2> QED
    BY <1>0, <1>2, <2>4 DEF SendHeartbeat
<1>3. ASSUME NEW c \in Conn, HubIngest(c) PROVE InFlight(Closed)'
  <2>1. PICK s \in SeqNo : NextEvent(c, s) /\ runEvents' = runEvents \union {s}
                           /\ up' = [up EXCEPT ![c] = Without(@, s)]
    BY <1>3 DEF HubIngest
  <2>2. Closed \subseteq Closed'
    BY <2>1 DEF Closed
  <2>3. \A d \in Conn : Bursts(up[d], Closed')
    BY <2>2 DEF InFlight, Bursts
  <2>4. up[c] \in Seq(UpFrame) /\ up[c] # <<>> /\ Head(up[c]).type = "events"
    BY <2>1 DEF NextEvent, Handling, TypeOK
  <2>5. Head(up[c]).seqs \in Closed
    BY <2>4 DEF InFlight, Bursts
  <2>6. Head(up[c]).seqs \ {s} \in Closed'
    BY <2>1, <2>5 DEF Closed
  <2> DEFINE D == Closed'
  <2>7. Bursts(up[c], D) /\ Head(up[c]).seqs \ {s} \in D
    BY <2>3, <2>6
  <2> HIDE DEF D
  <2>8. Bursts(Without(up[c], s), D)
    BY <2>4, <2>7, WithoutBursts
  <2>9. \A d \in Conn : Bursts(up'[d], D)
    BY <2>1, <2>3, <2>8 DEF TypeOK, D
  <2> QED
    BY <2>9 DEF InFlight, D
<1>4. ASSUME NEW c \in Conn, HubHeartbeat(c) PROVE InFlight(Closed)'
  <2>1. up[c] \in Seq(UpFrame) /\ up[c] # <<>> /\ Bursts(up[c], Closed)
    BY <1>4 DEF HubHeartbeat, Handling, InFlight, TypeOK
  <2>2. Bursts(Tail(up[c]), Closed)
    BY <2>1, TailBursts
  <2>3. \A d \in Conn : Bursts(up'[d], Closed)
    BY <1>4, <2>2 DEF HubHeartbeat, InFlight, TypeOK
  <2> QED
    BY <1>0, <1>4, <2>3 DEF HubHeartbeat
<1>5. CASE Disconnect
  <2>1. conn \in Conn
    BY <1>5 DEF Disconnect, Conn, TypeOK
  <2>2. ASSUME NEW t \in 0..MaxSeq, NEW S \in Closed PROVE {s \in S : s <= t} \in Closed
    <3> DEFINE low == {s \in S : s <= t}
    <3>1. low \in SUBSET SeqNo
      BY DEF Closed
    <3>2. ASSUME NEW s \in low, NEW r \in 1..s - 1 PROVE r \in low \/ r \in runEvents
      BY DEF Closed, SeqNo
    <3> QED
      BY <3>1, <3>2 DEF Closed
  <2>3. up[conn] \in Seq(UpFrame) /\ Bursts(up[conn], Closed)
    BY <2>1 DEF InFlight, TypeOK
  <2>4. \A k \in 0..Len(up[conn]), t \in 0..MaxSeq : Bursts(Cut(up[conn], k, t), Closed)
    BY <2>2, <2>3, CutBursts
  <2>5. \A d \in Conn : Bursts(up'[d], Closed)
    BY <1>5, <2>1, <2>4 DEF Disconnect, InFlight, TypeOK
  <2> QED
    BY <1>0, <1>5, <2>5 DEF Disconnect
<1>6. CASE HubRestart
  <2>1. \A d \in Conn : Bursts(up'[d], Closed)
    BY <1>6 DEF HubRestart, Bursts
  <2> QED
    BY <1>0, <1>6, <2>1 DEF HubRestart
<1>7. ASSUME UNCHANGED <<up, runEvents>> PROVE InFlight(Closed)'
  BY <1>7 DEF InFlight, Closed
<1> QED
  BY <1>1, <1>2, <1>3, <1>4, <1>5, <1>6, <1>7, <1>8
     DEF Next, Node, Hub, Environment, Connect, ReceiveAck, HubAck, vars

-----------------------------------------------------------------------------
Inv == TypeOK /\ AckCoversNoGap /\ NothingLost /\ ProducedSound

\* All of it holds at first.
LEMMA InitSound == Init => Inv /\ ClosedUntilFailure
<1> SUFFICES ASSUME Init PROVE Inv /\ InFlight(Closed)
  BY DEF ClosedUntilFailure
<1> USE BoundsAssumption DEF Init
<1>1. TypeOK
  <2>1. <<>> \in Seq(UpFrame) /\ <<>> \in Seq(DownFrame)
    OBVIOUS
  <2>2. up \in [Conn -> Seq(UpFrame)] /\ down \in Seq(DownFrame)
    BY <2>1
  <2>3. nextSeq \in 1..MaxSeq + 1 /\ conn \in 0..MaxConn /\ opened \in 0..MaxConn /\ failures \in 0..MaxFail
    OBVIOUS
  <2>4. owesAck \in [Conn -> BOOLEAN]
    OBVIOUS
  <2> QED
    BY <2>2, <2>3, <2>4 DEF TypeOK
<1>2. AckCoversNoGap /\ NothingLost
  BY DEF AckCoversNoGap, NothingLost
<1>3. \A c \in Conn : Len(up[c]) = 0
  OBVIOUS
<1>4. ProducedSound /\ InFlight(Closed)
  BY <1>3 DEF ProducedSound, InFlight, Bursts
<1> QED
  BY <1>1, <1>2, <1>4 DEF Inv

\* The inductive invariant of the transport.
THEOREM Invariance == Spec => []Inv
<1>1. Inv /\ [Next]_vars => Inv'
  BY TypeStep, AcksStep, ProducedStep DEF Inv, AcksSound
<1> QED
  BY <1>1, InitSound, PTL DEF Spec

\* Every variable keeps its type.
THEOREM TypeCorrect == Spec => []TypeOK
BY Invariance, PTL DEF Inv

\* An event that has left the spool of the Node is in the table of the Hub, whatever
\* frames, connections and processes are lost (ackUntil after appendRunEvent).
THEOREM NoLoss == Spec => []NothingLost
BY Invariance, PTL DEF Inv

\* An acknowledgement under way covers only events the Hub has committed.
THEOREM AckSafe == Spec => []AckCoversNoGap
BY Invariance, PTL DEF Inv

\* Until a handler fails, events are applied in the order of their numbers, also when
\* the chain of an old connection runs next to that of the new one.
THEOREM OrderedUnlessFailing == Spec => OrderedUntilFailure
<1>1. Inv /\ ClosedUntilFailure /\ [Next]_vars => (Inv /\ ClosedUntilFailure)'
  BY TypeStep, AcksStep, ProducedStep, ClosedStep DEF Inv, AcksSound
<1>2. Inv /\ ClosedUntilFailure /\ [Next]_vars
        => [failures = 0 => \A s \in runEvents' \ runEvents : 1..s - 1 \subseteq runEvents]_vars
  <2> SUFFICES ASSUME TypeOK, InFlight(Closed), [Next]_vars, NEW s \in runEvents' \ runEvents
               PROVE  1..s - 1 \subseteq runEvents
    BY DEF Inv, ClosedUntilFailure
  <2>1. PICK c \in Conn : HubIngest(c)
    BY DEF Next, Node, Hub, Environment, Emit, Connect, Hello, SendHeartbeat, ReceiveAck,
           ReceiveResend, HubAck, HubHeartbeat, HubFail, Disconnect, HubRestart, hubVars, vars
  <2>2. NextEvent(c, s) /\ s \in SeqNo
    BY <2>1 DEF HubIngest
  <2>3. up[c] \in Seq(UpFrame) /\ up[c] # <<>> /\ Head(up[c]).type = "events"
    BY <2>2 DEF NextEvent, Handling, TypeOK
  <2>4. Head(up[c]).seqs \in Closed
    BY <2>3 DEF InFlight, Bursts
  <2> QED
    BY <2>2, <2>4 DEF NextEvent, Closed, SeqNo
<1> QED
  BY <1>1, <1>2, InitSound, PTL DEF Spec, OrderedUntilFailure

\* The spool, the connections and the table implement the log of events.
THEOREM Refinement == Spec => ImplementsLog
<1>1. Init => Log!Init
  BY DEF Init, Log!Init
<1>2. Inv /\ Inv' /\ [Next]_vars => [Log!Next]_Log!vars
  <2> SUFFICES ASSUME Inv, Inv', [Next]_vars PROVE [Log!Next]_Log!vars
    OBVIOUS
  <2> USE BoundsAssumption DEF nodeVars, linkVars, hubVars
  <2>0. nextSeq \in 1..MaxSeq + 1 /\ nextSeq \in Nat
    BY DEF Inv, TypeOK
  <2>1. CASE Emit
    <3>1. nextSeq' = nextSeq + 1 /\ runEvents' = runEvents
      BY <2>1 DEF Emit
    <3>2. 1..nextSeq' - 1 \ spool' = 1..nextSeq - 1 \ spool
      BY <2>0, <2>1 DEF Emit
    <3> QED
      BY <2>0, <3>1, <3>2 DEF Log!Next, Log!Produce
  <2>2. CASE ReceiveAck
    <3>1. down \in Seq(DownFrame) /\ down # <<>>
      BY <2>2 DEF ReceiveAck, Inv, TypeOK
    <3>2. Head(down) = down[1] /\ 1 \in 1..Len(down) /\ Head(down) \in DownFrame
      BY <3>1
    <3>3. 1..Head(down).seq \subseteq runEvents /\ Head(down).seq \in Nat \ {0}
      BY <2>2, <3>2 DEF ReceiveAck, Inv, AckCoversNoGap, DownFrame
    <3>4. Head(down).seq \in 1..nextSeq - 1
      BY <2>0, <3>3 DEF Inv, ProducedSound
    <3>5. 1..nextSeq' - 1 \ spool' = (1..nextSeq - 1 \ spool) \union 1..Head(down).seq
      BY <2>0, <2>2, <3>3, <3>4 DEF ReceiveAck, Inv, ProducedSound
    <3> QED
      BY <2>2, <3>3, <3>4, <3>5 DEF ReceiveAck, Log!Next, Log!Discard
  <2>3. ASSUME NEW c \in Conn, HubIngest(c) PROVE [Log!Next]_Log!vars
    <3>1. PICK s \in SeqNo : runEvents' = runEvents \union {s}
      BY <2>3 DEF HubIngest
    <3>2. nextSeq' = nextSeq /\ spool' = spool
      BY <2>3 DEF HubIngest
    <3>3. s \in 1..nextSeq - 1
      BY <3>1, <3>2 DEF Inv, ProducedSound
    <3>4. CASE s \in runEvents
      BY <3>1, <3>2, <3>4 DEF Log!vars
    <3>5. CASE s \notin runEvents
      BY <3>1, <3>2, <3>3, <3>5 DEF Log!Next, Log!Persist
    <3> QED
      BY <3>4, <3>5
  <2>4. CASE UNCHANGED <<nextSeq, spool, runEvents>>
    BY <2>4 DEF Log!vars
  <2> QED
    BY <2>1, <2>2, <2>3, <2>4
       DEF Next, Node, Hub, Environment, Connect, Hello, SendHeartbeat, ReceiveResend, HubAck,
           HubHeartbeat, HubFail, Disconnect, HubRestart, vars
<1> QED
  BY <1>1, <1>2, Invariance, PTL DEF Spec, ImplementsLog, Log!Spec
=============================================================================
