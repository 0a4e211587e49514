----------------------------- MODULE EventSpool -----------------------------
(***************************************************************************)
(* The durable path of one Run's events from a Node to the Hub.            *)
(*                                                                         *)
(* Node: apps/node/src/spool/event-store.ts (a SQLite spool that allocates *)
(* the sequence number in the transaction that inserts the event),         *)
(* run-manager.ts (spoolAndDrain, drainRun, onReconnect) and               *)
(* gateway/session.ts (hello first, then the drain).                       *)
(* Hub: node-websocket.ts (frames of one socket are handled one after the  *)
(* other; after a run.event the Hub acknowledges its contiguous watermark),*)
(* event.ts (append deduplicates on the sequence number).                  *)
(*                                                                         *)
(* Every connection has its own frame queue at the Hub: the queue of a     *)
(* connection that is gone is still worked off, next to the queue of the   *)
(* connection that replaced it.                                            *)
(***************************************************************************)
EXTENDS Naturals, Sequences

CONSTANTS
    MaxSeq,     \* bound: events the Run produces
    MaxConn,    \* bound: connections opened; the last one stays up
    MaxFail     \* bound: upstream frames whose handling throws at the Hub

ASSUME BoundsAssumption ==
    /\ MaxSeq \in Nat
    /\ MaxConn \in Nat
    /\ MaxFail \in Nat

VARIABLES
    nextSeq,    \* run_event_seq.next_seq: the number the next event gets
    spool,      \* spooled_event: the sequence numbers not yet acknowledged
    conn,       \* the Node's current connection, 0 when it has none
    opened,     \* how many connections were opened so far
    greeted,    \* the current connection's hello went out, and the drain too
    up,         \* up[c]: frames of connection c the Hub has still to handle
    owesAck,    \* owesAck[c]: the event is committed, its ack not yet sent
    down,       \* frames on the current connection to the Node
    runEvents,  \* the run_event table of the Hub: the sequence numbers in it
    terminal,   \* the Run is terminal at the Hub
    failures    \* how many frames the Hub has failed on

nodeVars == <<nextSeq, spool>>
linkVars == <<conn, opened, greeted>>
hubVars  == <<runEvents, terminal, failures>>
vars == <<nextSeq, spool, conn, opened, greeted, up, owesAck, down,
          runEvents, terminal, failures>>

Conn == 1..MaxConn
SeqNo == 1..MaxSeq

\* One drain puts a burst of run.event frames on the wire, in ascending order of
\* their numbers: a burst is the set of the numbers it still holds.
Burst(S) == [type |-> "events", seqs |-> S]
Heartbeat(last) == [type |-> "heartbeat", last |-> last]
AckFrame(through) == [type |-> "ack", seq |-> through]
ResendFrame(from) == [type |-> "resend", seq |-> from]

UpFrame == [type : {"events"}, seqs : SUBSET SeqNo]
           \union [type : {"heartbeat"}, last : 0..MaxSeq]
DownFrame == [type : {"ack", "resend"}, seq : 1..MaxSeq + 1]

TypeOK ==
    /\ nextSeq \in 1..MaxSeq + 1
    /\ spool \in SUBSET SeqNo
    /\ conn \in 0..MaxConn
    /\ opened \in 0..MaxConn
    /\ greeted \in BOOLEAN
    /\ up \in [Conn -> Seq(UpFrame)]
    /\ owesAck \in [Conn -> BOOLEAN]
    /\ down \in Seq(DownFrame)
    /\ runEvents \in SUBSET SeqNo
    /\ terminal \in BOOLEAN
    /\ failures \in 0..MaxFail

Init ==
    /\ nextSeq = 1
    /\ spool = {}
    /\ conn = 0
    /\ opened = 0
    /\ greeted = FALSE
    /\ up = [c \in Conn |-> <<>>]
    /\ owesAck = [c \in Conn |-> FALSE]
    /\ down = <<>>
    /\ runEvents = {}
    /\ terminal = FALSE
    /\ failures = 0

-----------------------------------------------------------------------------
(* The Node.                                                               *)

\* session.send: written when the connection is open, dropped otherwise.
Send(frame) ==
    up' = IF conn = 0 THEN up ELSE [up EXCEPT ![conn] = Append(@, frame)]

\* EventStore.pending and drainRun: the whole spool of the Run, not only what is new.
Drain(S) == IF S = {} THEN up' = up ELSE Send(Burst(S))

\* Mutant: the number is taken, the event is not kept.
EmitUnkept ==
    /\ nextSeq <= MaxSeq
    /\ nextSeq' = nextSeq + 1
    /\ Drain({nextSeq})
    /\ UNCHANGED <<spool, linkVars, owesAck, down, hubVars>>

\* spoolAndDrain: the number is allocated and the event inserted in one
\* transaction; then the whole spool of the Run is sent, not only the new event.
Emit ==
    /\ nextSeq <= MaxSeq
    /\ nextSeq' = nextSeq + 1
    /\ spool' = spool \union {nextSeq}
    /\ Drain(spool')
    /\ UNCHANGED <<linkVars, owesAck, down, hubVars>>

\* A connection opens. Its hello is built asynchronously (sendHello awaits its
\* facts), so events can be emitted between this and Hello.
Connect ==
    /\ conn = 0
    /\ opened < MaxConn
    /\ opened' = opened + 1
    /\ conn' = opened + 1
    /\ greeted' = FALSE
    /\ down' = <<>>
    /\ UNCHANGED <<nodeVars, up, owesAck, hubVars>>

\* Mutant: nothing is drained on reconnecting.
HelloOnly ==
    /\ conn # 0
    /\ ~greeted
    /\ greeted' = TRUE
    /\ UNCHANGED <<nodeVars, conn, opened, up, owesAck, down, hubVars>>

\* The hello has gone out; onReconnect drains every Run that has events pending.
Hello ==
    /\ conn # 0
    /\ ~greeted
    /\ greeted' = TRUE
    /\ Drain(spool)
    /\ UNCHANGED <<nodeVars, conn, opened, owesAck, down, hubVars>>

\* The periodic heartbeat reports the highest allocated number. Its period (10 s)
\* is taken to be longer than a round trip: one is under way at a time.
SendHeartbeat ==
    /\ conn # 0
    /\ \A i \in 1..Len(up[conn]) : up[conn][i].type # "heartbeat"
    /\ \A i \in 1..Len(down) : down[i].type # "resend"
    /\ Send(Heartbeat(nextSeq - 1))
    /\ UNCHANGED <<nodeVars, linkVars, owesAck, down, hubVars>>

\* Mutant: one more than acknowledged is deleted.
ReceiveAckOneMore ==
    /\ down # <<>>
    /\ Head(down).type = "ack"
    /\ spool' = {s \in spool : s > Head(down).seq + 1}
    /\ down' = Tail(down)
    /\ UNCHANGED <<nextSeq, linkVars, up, owesAck, hubVars>>

\* run.event_ack: ackUntil deletes everything up to throughSeq.
ReceiveAck ==
    /\ down # <<>>
    /\ Head(down).type = "ack"
    /\ spool' = {s \in spool : s > Head(down).seq}
    /\ down' = Tail(down)
    /\ UNCHANGED <<nextSeq, linkVars, up, owesAck, hubVars>>

\* run.resend_from: the Node drains everything it has, whatever fromSeq says.
ReceiveResend ==
    /\ down # <<>>
    /\ Head(down).type = "resend"
    /\ Drain(spool)
    /\ down' = Tail(down)
    /\ UNCHANGED <<nodeVars, linkVars, owesAck, hubVars>>

-----------------------------------------------------------------------------
(* The Hub. One frame of a connection is handled before its next one; the  *)
(* handlers of two connections interleave.                                 *)

\* runEventWatermark: the largest number up to which the table has no gap.
Watermark == CHOOSE w \in 0..MaxSeq :
    /\ 1..w \subseteq runEvents
    /\ w + 1 \notin runEvents

\* Something is waiting on c and the previous frame of c is done with.
Handling(c, type) ==
    /\ up[c] # <<>>
    /\ ~owesAck[c]
    /\ Head(up[c]).type = type

\* The next run.event frame of c, the lowest of the burst in front, is number s.
NextEvent(c, s) ==
    /\ Handling(c, "events")
    /\ s \in Head(up[c]).seqs
    /\ \A t \in Head(up[c]).seqs : s <= t

\* The frames of c once s is taken off its first burst.
Without(frames, s) ==
    IF Head(frames).seqs = {s} THEN Tail(frames)
    ELSE <<Burst(Head(frames).seqs \ {s})>> \o Tail(frames)

\* handleRunEvent: one transaction appends the event, unless its number is
\* already there, and applies it; an applied event may end the Run.
HubIngest(c) ==
    /\ \E s \in SeqNo :
          /\ NextEvent(c, s)
          /\ runEvents' = runEvents \union {s}
          /\ terminal' \in IF s \in runEvents THEN {terminal} ELSE {terminal, TRUE}
          /\ up' = [up EXCEPT ![c] = Without(@, s)]
    /\ owesAck' = [owesAck EXCEPT ![c] = TRUE]
    /\ UNCHANGED <<nodeVars, linkVars, down, failures>>

\* After the transaction, duplicate or not: read the watermark and acknowledge
\* it, if the socket is still open.
HubAck(c) ==
    /\ owesAck[c]
    /\ owesAck' = [owesAck EXCEPT ![c] = FALSE]
    /\ down' = IF c = conn /\ Watermark > 0
               THEN Append(down, AckFrame(Watermark)) ELSE down
    /\ UNCHANGED <<nodeVars, linkVars, up, hubVars>>

\* node.heartbeat: the Node is ahead of the watermark of a Run that is not
\* terminal, so ask for the gap.
HubHeartbeat(c) ==
    /\ Handling(c, "heartbeat")
    /\ up' = [up EXCEPT ![c] = Tail(@)]
    /\ down' = IF c = conn /\ ~terminal /\ Head(up[c]).last > Watermark
               THEN Append(down, ResendFrame(Watermark + 1)) ELSE down
    /\ UNCHANGED <<nodeVars, linkVars, owesAck, hubVars>>

\* The handling of a frame throws (the database is not reachable, for one), its
\* transaction rolled back, or the reading of the watermark after it: the socket
\* is closed with 4003. The frames behind it are in the chain of the socket
\* already and will be handled.
HubFail(c) ==
    /\ failures < MaxFail
    /\ c = conn => opened < MaxConn
    /\ failures' = failures + 1
    /\ \/ /\ \E s \in SeqNo : NextEvent(c, s) /\ up' = [up EXCEPT ![c] = Without(@, s)]
          /\ UNCHANGED owesAck
       \/ /\ Handling(c, "heartbeat")
          /\ up' = [up EXCEPT ![c] = Tail(@)]
          /\ UNCHANGED owesAck
       \/ /\ owesAck[c]
          /\ owesAck' = [owesAck EXCEPT ![c] = FALSE]
          /\ UNCHANGED up
    /\ IF c = conn THEN conn' = 0 /\ down' = <<>>
                   ELSE UNCHANGED <<conn, down>>
    /\ UNCHANGED <<nodeVars, opened, greeted, runEvents, terminal>>

-----------------------------------------------------------------------------
(* The environment.                                                        *)

\* What the Hub receives of the frames sent: the first k, and of the burst after
\* them the events up to number t.
Cut(frames, k, t) ==
    LET rest == {s \in frames[k + 1].seqs : s <= t} IN
    IF k < Len(frames) /\ frames[k + 1].type = "events" /\ rest # {}
    THEN Append(SubSeq(frames, 1, k), Burst(rest))
    ELSE SubSeq(frames, 1, k)

\* The connection breaks, or the Node process ends and starts again: frames on
\* their way to the Hub are lost from some point on, those to the Node all. What
\* the Hub has received stays in the chain of the old socket.
Disconnect ==
    /\ conn # 0
    /\ opened < MaxConn
    /\ \E k \in 0..Len(up[conn]), t \in 0..MaxSeq :
          up' = [up EXCEPT ![conn] = Cut(@, k, t)]
    /\ conn' = 0
    /\ down' = <<>>
    /\ UNCHANGED <<nodeVars, opened, greeted, owesAck, hubVars>>

\* The Hub process ends and starts again: every socket and every chain is gone,
\* the tables stay.
HubRestart ==
    /\ conn # 0
    /\ opened < MaxConn
    /\ conn' = 0
    /\ up' = [c \in Conn |-> <<>>]
    /\ owesAck' = [c \in Conn |-> FALSE]
    /\ down' = <<>>
    /\ UNCHANGED <<nodeVars, opened, greeted, hubVars>>

Node == Emit \/ Connect \/ Hello \/ SendHeartbeat \/ ReceiveAck \/ ReceiveResend
Hub == \E c \in Conn : HubIngest(c) \/ HubAck(c) \/ HubHeartbeat(c) \/ HubFail(c)
Environment == Disconnect \/ HubRestart

Next == Node \/ Hub \/ Environment

Spec == Init /\ [][Next]_vars

\* The Node reconnects with a back-off for ever and handles what it receives;
\* the Hub works off every chain. Emitting, failing and disconnecting are not fair.
Fairness ==
    /\ WF_vars(Connect \/ Hello)
    /\ WF_vars(ReceiveAck \/ ReceiveResend)
    /\ WF_vars(\E c \in Conn : HubIngest(c) \/ HubAck(c) \/ HubHeartbeat(c))

FairSpec == Spec /\ Fairness

-----------------------------------------------------------------------------
(* Properties.                                                             *)

\* No event is ever lost: one that the Node no longer holds is in the Hub's
\* table, whatever frames, connections and processes were lost on the way
\* (ackUntil deletes a prefix, so the ack must never pass a gap).
NothingLost == \A s \in 1..nextSeq - 1 : s \in spool \/ s \in runEvents

\* An acknowledgement on its way covers only events the Hub has committed, also
\* when two chains commit events between an append and the ack it is owed.
AckCoversNoGap ==
    \A i \in 1..Len(down) :
        down[i].type = "ack" => 1..down[i].seq \subseteq runEvents

\* run.event frames take effect in the order in which the Node produced them: when
\* an event is applied, all earlier ones have been, over any number of replaced
\* connections. It ends with the first frame whose handling throws: the frames
\* behind it in the chain are handled all the same.
OrderedUntilFailure ==
    [][failures = 0 => \A s \in runEvents' \ runEvents : 1..s - 1 \subseteq runEvents]_vars

\* Every event reaches the Hub and leaves the spool.
EventuallyDelivered ==
    spool # {} ~> spool = {} /\ 1..nextSeq - 1 \subseteq runEvents

\* The transport as the rest of the system sees it.
Log == INSTANCE EventLog WITH
    produced <- nextSeq - 1,
    persisted <- runEvents,
    discarded <- 1..nextSeq - 1 \ spool

ImplementsLog == Log!Spec
=============================================================================
