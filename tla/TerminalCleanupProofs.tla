------------------------ MODULE TerminalCleanupProofs ------------------------
(***************************************************************************)
(* The safety properties of TerminalCleanup for any set of Runs and homes  *)
(* they share, any number of deliveries of a run.start that meet, of       *)
(* faults of the queue's database, of copies that stick and of ends of the *)
(* Node.                                                                   *)
(*                                                                         *)
(* A pass takes a home only when no Runtime in the table works in it, and  *)
(* a Run that is refused takes one without looking: that is safe since the *)
(* Hub resumes only a Run whose run.start was answered (Resumes), so that  *)
(* nobody can be at work in the home of a Run still being refused - unless *)
(* it is refused beside the delivery that was answered, which is what      *)
(* "twice" is there to tell (Apart).                                       *)
(***************************************************************************)
EXTENDS TerminalCleanup, FiniteSetTheorems, TLAPS

-----------------------------------------------------------------------------
(* The invariant *)

\* The table and active_runtime say the same once the orphans are dealt with, and
\* every Runtime that is spoken of as there is in them.
Table ==
    /\ phase # "up" => handles = {} /\ stray = {} /\ \A r \in Run : handling[r] = Idle
    /\ phase = "up" => rows = handles /\ \A r \in Run : runtime[r] # "orphan"
    /\ \A r \in Run : /\ runtime[r] = "child" => r \in handles
                      /\ runtime[r] = "orphan" => r \in rows

\* What is being started or at work had been resumed rightly, and what is at work was
\* answered.
Starts ==
    \A r \in Run :
        /\ Starting(r) \/ r \in handles \/ projectors[r] # "none" => MayStart(r)
        /\ r \in handles \/ projectors[r] # "none" => command[r] = "acked"

\* A Run no two deliveries of which have met has no process beside the table, and is
\* answered by the one delivery that is in handling.
Apart ==
    \A r \in Run \ twice :
        /\ r \notin stray /\ runtime[r] \notin {"loose", "stranded"}
        /\ Starting(r) =>
              command[r] # "acked" /\ \E s \in Slot : \A t \in Slot \ {s} : handling[r][t] = "no"

\* A session that anybody knows of is of a Run that was answered.
Resumes ==
    /\ \A r \in known : command[r] = "acked" /\ MayStart(r)
    /\ ready \subseteq known
    /\ \A r \in Run : facts[r] = "ready" \/ task[r].ready \/ kept[r] = "ready" => r \in known

\* A delivery that has begun has written the facts, and no task done hides them.
Begun ==
    \A r \in Run, s \in Slot :
        handling[r][s] \in {"begun", "prepared", "missed"} => facts[r] # "none" /\ task[r].state # "done"

\* A Run with a task that is done is not at work, or was seen so when it was done.
Seen == \A r \in Run \ unseen : task[r].state = "done" => r \notin Alive

IInv == TypeOK /\ Table /\ Starts /\ Apart /\ Resumes /\ SourceSessionKept /\ Begun /\ Seen /\ DoneIsClean

-----------------------------------------------------------------------------
(* The queue *)

Tasks  == [Run -> [state : Open \union {"none", "done"}, ready : BOOLEAN]]
Kept   == [Run -> {"no", "unready", "ready"}]
Queues == [task : Tasks, kept : Kept]

\* What a process remembered becomes a task of a Run that has none.
FromKept(q, r, t) ==
    q.task[r].state = "none" /\ q.kept[r] # "no" /\ (t.ready <=> q.kept[r] = "ready")

\* A pass may turn what the process remembers into a task.
LEMMA RetriedFacts ==
    ASSUME NEW q \in Queues, NEW shared
    PROVE  /\ Retried(q, shared) \in Queues
           /\ \A r \in Run :
                 /\ Retried(q, shared).kept[r] \in {q.kept[r], "no"}
                 /\ \/ Retried(q, shared).task[r] = q.task[r]
                    \/ /\ FromKept(q, r, Retried(q, shared).task[r])
                       /\ Retried(q, shared).task[r].state = "pending"
<1> DEFINE R == {r \in Run : q.kept[r] # "no" /\ (shared \/ Owns(r))}
           P(r) == [state |-> "pending", ready |-> q.kept[r] = "ready"]
           T == [r \in Run |-> IF r \in R /\ q.task[r].state = "none" THEN P(r) ELSE q.task[r]]
           K == [r \in Run |-> IF r \in R THEN "no" ELSE q.kept[r]]
<1>1. Retried(q, shared) = [task |-> T, kept |-> K]
  BY DEF Retried
<1>2. q.task \in Tasks /\ q.kept \in Kept
  BY DEF Queues
<1>3. \A r \in Run : P(r) \in [state : Open \union {"none", "done"}, ready : BOOLEAN]
  BY DEF Open
<1>4. T \in Tasks /\ K \in Kept
  BY <1>2, <1>3 DEF Tasks, Kept
<1>5. ASSUME NEW r \in Run
      PROVE  K[r] \in {q.kept[r], "no"} /\ (T[r] = q.task[r] \/ (FromKept(q, r, T[r]) /\ T[r].state = "pending"))
  BY DEF FromKept
<1> HIDE DEF T, K
<1> QED
  BY <1>1, <1>4, <1>5 DEF Queues

\* Where the task of a Run comes from after a pass.
Origin(q, r) ==
    \/ task'[r] = q.task[r]
    \/ /\ task'[r].state \in Open \union {"done"}
       /\ \/ q.task[r].state \in Open /\ (task'[r].ready <=> q.task[r].ready)
          \/ FromKept(q, r, task'[r])

\* What a pass does to one Run, whose task was q's.
PassOn(q, managed, table, r) ==
    /\ Origin(q, r) /\ kept'[r] \in {q.kept[r], "no"}
    /\ task'[r].state = "done" /\ q.task[r].state # "done" =>
          /\ ~Starting(r) /\ r \notin context'
          /\ ReachesHome(r, task'[r].ready) => r \notin spill' /\ (r \in blocked => r \notin session')
    /\ r \in context \ context' => ~Starting(r) /\ r \notin managed
    /\ r \in managed \intersect table => r \notin spill \ spill' /\ r \notin session \ session'
    /\ r \in session \ session' =>
          \E y \in blocked \intersect Run :
              SameHome(y, r) /\ (Owns(y) \/ q.task[y].ready \/ q.kept[y] = "ready")

\* runTerminalCleanupTick
LEMMA PassFacts ==
    ASSUME NEW q \in Queues, NEW managed, NEW table, NEW all, NEW late, NEW shared, NEW store,
           context \subseteq Run, session \subseteq Run, spill \subseteq Run, stucks \in 0..MaxStuck,
           Pass(q, managed, table, all, late, shared, store)
    PROVE  /\ task' \in Tasks /\ kept' \in Kept /\ stucks' \in 0..MaxStuck
           /\ context' \subseteq context /\ session' \subseteq session /\ spill' \subseteq spill
           /\ \A r \in Run : PassOn(q, managed, table, r)
<1>q. q.task \in Tasks /\ q.kept \in Kept
  BY DEF Queues
<1>1. CASE store = "locked"
  <2>1. task' = q.task /\ kept' = q.kept /\ UNCHANGED <<context, session, spill, stucks>>
    BY <1>1 DEF Pass, diskVars
  <2> QED
    BY <1>q, <2>1 DEF PassOn, Origin
<1>2. CASE store # "locked"
  <2> DEFINE s == IF store = "ok" THEN Retried(q, shared) ELSE q
             due == {r \in Run : Due(s.task[r], all, r \in late) /\ (shared \/ Owns(r))}
             held == {r \in due : Held(r, managed, table)}
  <2> DEFINE Rest(s1, due1, held1) ==
               \E stuck \in SUBSET (due1 \ held1) :
                  /\ stucks' = stucks + Cardinality(stuck) /\ stucks' <= MaxStuck
                  /\ \E part \in SUBSET stuck :
                       LET gone == due1 \ (held1 \union stuck)
                       IN  Remove(gone, {r \in gone : ReachesHome(r, s1.task[r].ready)}, part)
                  /\ kept' = s1.kept
                  /\ task' = IF store = "ok"
                             THEN [r \in Run |->
                                    IF r \notin due1 THEN s1.task[r]
                                    ELSE [s1.task[r] EXCEPT !.state =
                                            IF r \in held1 THEN "deferred"
                                            ELSE IF r \in stuck THEN "cleanup_pending" ELSE "done"]]
                             ELSE s1.task
  <2>a. \E s1 \in {IF store = "ok" THEN Retried(q, shared) ELSE q} :
        \E due1 \in {{r \in Run : Due(s1.task[r], all, r \in late) /\ (shared \/ Owns(r))}} :
        \E held1 \in {{r \in due1 : Held(r, managed, table)}} : Rest(s1, due1, held1)
    BY <1>2 DEF Pass
  <2>b. Rest(s, due, held)
    <3> HIDE DEF Rest
    <3> QED
      BY <2>a
  <2>1. PICK stuck \in SUBSET (due \ held) :
           /\ stucks' = stucks + Cardinality(stuck) /\ stucks' <= MaxStuck
           /\ \E part \in SUBSET stuck :
                LET gone == due \ (held \union stuck)
                IN  Remove(gone, {r \in gone : ReachesHome(r, s.task[r].ready)}, part)
           /\ kept' = s.kept
           /\ task' = IF store = "ok"
                      THEN [r \in Run |->
                             IF r \notin due THEN s.task[r]
                             ELSE [s.task[r] EXCEPT !.state =
                                     IF r \in held THEN "deferred"
                                     ELSE IF r \in stuck THEN "cleanup_pending" ELSE "done"]]
                      ELSE s.task
    BY <2>b
  <2> HIDE DEF Rest
  <2> DEFINE gone == due \ (held \union stuck)
             home == {r \in gone : ReachesHome(r, s.task[r].ready)}
  <2>2. PICK part \in SUBSET stuck : Remove(gone, home, part)
    BY <2>1
  <2>3. s \in Queues /\ \A r \in Run : /\ s.kept[r] \in {q.kept[r], "no"}
                                       /\ s.task[r] = q.task[r] \/ (FromKept(q, r, s.task[r]) /\ s.task[r].state = "pending")
    BY RetriedFacts
  <2>4. s.task \in Tasks /\ s.kept \in Kept
    BY <2>3 DEF Queues
  <2>5. stucks' \in 0..MaxStuck
    <3>1. IsFiniteSet(stuck)
      BY CleanupAssumption, FS_Subset
    <3>2. Cardinality(stuck) \in Nat
      BY <3>1, FS_CardinalityType
    <3> QED
      BY <2>1, <3>2, CleanupAssumption
  <2>6. /\ context' = context \ (gone \union part)
        /\ spill' = {x \in spill : \A r \in home : ~SameHome(x, r)}
        /\ session' = {x \in session : \A r \in home : ClearsSession(r) => ~SameHome(x, r)}
    BY <2>2 DEF Remove
  <2>7. gone \union part \subseteq due \ held /\ home \subseteq due \ held
    OBVIOUS
  <2>8. \A r \in due \ held : /\ ~Starting(r) /\ r \notin managed /\ ~InUse(r, table)
                              /\ s.task[r].state \in Open
    BY DEF Held, Due
  <2>9. \A r \in Run : /\ r \notin due => task'[r] = s.task[r]
                       /\ r \in due => /\ \/ task'[r] = s.task[r]
                                          \/ (task'[r].state \in Open \union {"done"} /\ (task'[r].ready <=> s.task[r].ready))
                                       /\ task'[r].state = "done" => r \in gone /\ store = "ok" /\ (task'[r].ready <=> s.task[r].ready)
    <3> SUFFICES ASSUME NEW r \in Run
                 PROVE  /\ r \notin due => task'[r] = s.task[r]
                        /\ r \in due => /\ \/ task'[r] = s.task[r]
                                           \/ (task'[r].state \in Open \union {"done"} /\ (task'[r].ready <=> s.task[r].ready))
                                        /\ task'[r].state = "done" => r \in gone /\ store = "ok" /\ (task'[r].ready <=> s.task[r].ready)
      OBVIOUS
    <3>1. s.task[r] \in [state : Open \union {"none", "done"}, ready : BOOLEAN]
      BY <2>4 DEF Tasks
    <3>2. r \in due => s.task[r].state \in Open
      BY DEF Due
    <3> HIDE DEF s, due, held
    <3>3. CASE store = "ok" /\ r \in due
      <4> DEFINE st == IF r \in held THEN "deferred" ELSE IF r \in stuck THEN "cleanup_pending" ELSE "done"
      <4>1. task'[r] = [s.task[r] EXCEPT !.state = st]
        BY <2>1, <3>3
      <4>2. st \in Open \union {"done"} /\ (st = "done" => r \in gone)
        BY <3>3 DEF Open
      <4> HIDE DEF st
      <4>3. task'[r].state = st /\ (task'[r].ready <=> s.task[r].ready)
        BY <3>1, <4>1
      <4> QED
        BY <3>3, <4>2, <4>3
    <3>4. CASE ~(store = "ok" /\ r \in due)
      <4>1. task'[r] = s.task[r]
        BY <2>1, <3>4
      <4> QED
        BY <3>2, <3>4, <4>1 DEF Open
    <3> QED
      BY <3>3, <3>4
  <2>10. task' \in Tasks /\ kept' \in Kept
    <3>1. ASSUME NEW r \in Run, NEW st \in Open \union {"done"}
          PROVE  [s.task[r] EXCEPT !.state = st] \in [state : Open \union {"none", "done"}, ready : BOOLEAN]
      BY <2>4 DEF Tasks
    <3> HIDE DEF s, due, held
    <3>2. task' \in Tasks
      BY <2>1, <2>4, <3>1 DEF Tasks, Open
    <3> QED
      BY <2>1, <2>4, <3>2
  <2>11. ASSUME NEW r \in Run PROVE PassOn(q, managed, table, r)
    <3> HIDE DEF gone, home, held
    <3>1. Origin(q, r)
      <4>1. CASE r \notin due
        <5>1. task'[r] = s.task[r]
          BY <2>9, <4>1
        <5> QED
          BY <2>3, <5>1 DEF Origin, Open
      <4>2. CASE r \in due
        <5>1. s.task[r].state \in Open
          BY <4>2 DEF Due
        <5> HIDE DEF s, due
        <5> QED
          BY <2>3, <2>9, <4>2, <5>1 DEF Origin, FromKept
      <4> QED
        BY <4>1, <4>2
    <3>2. kept'[r] \in {q.kept[r], "no"}
      BY <2>1, <2>3
    <3> HIDE DEF s, due
    <3>3. ASSUME task'[r].state = "done", q.task[r].state # "done"
          PROVE  /\ ~Starting(r) /\ r \notin context'
                 /\ ReachesHome(r, task'[r].ready) => r \notin spill' /\ (r \in blocked => r \notin session')
      <4>1. r \in gone /\ (task'[r].ready <=> s.task[r].ready)
        BY <2>3, <2>9, <3>3
      <4>2. ReachesHome(r, task'[r].ready) => r \in home
        BY <4>1 DEF ReachesHome, home
      <4>3. SameHome(r, r)
        BY DEF SameHome
      <4> QED
        BY <2>6, <2>7, <2>8, <4>1, <4>2, <4>3 DEF ClearsSession
    <3>4. r \in context \ context' => ~Starting(r) /\ r \notin managed
      BY <2>6, <2>7, <2>8
    <3>5. ASSUME r \in managed \intersect table
          PROVE  r \notin spill \ spill' /\ r \notin session \ session'
      <4>1. \A x \in home : ~SameHome(r, x)
        BY <2>7, <2>8, <3>5 DEF InUse, SameHome
      <4> QED
        BY <2>6, <4>1
    <3>6. ASSUME r \in session \ session'
          PROVE  \E y \in blocked \intersect Run :
                    SameHome(y, r) /\ (Owns(y) \/ q.task[y].ready \/ q.kept[y] = "ready")
      <4>1. PICK y \in home : ClearsSession(y) /\ SameHome(r, y)
        BY <2>6, <3>6
      <4>2. y \in Run /\ (Owns(y) \/ s.task[y].ready) /\ y \in blocked
        BY <4>1 DEF home, gone, due, ReachesHome, ClearsSession
      <4>3. s.task[y].ready => q.task[y].ready \/ q.kept[y] = "ready"
        BY <2>3, <4>2 DEF FromKept
      <4> QED
        BY <4>1, <4>2, <4>3 DEF SameHome
    <3> QED
      BY <3>1, <3>2, <3>3, <3>4, <3>5, <3>6 DEF PassOn
  <2> QED
    BY <2>5, <2>6, <2>10, <2>11
<1> QED
  BY <1>1, <1>2

\* A task learns of a session that the facts or the process have seen.
Hears(r, isReady) == isReady => KnownReady(r)

\* A queue made from this one by new tasks of Runs that had none, or by new memories.
From(q) ==
    \A r \in Run :
        /\ \/ q.task[r] = task[r]
           \/ task[r].state = "none" /\ q.task[r].state = "pending" /\ Hears(r, q.task[r].ready)
        /\ \/ q.kept[r] \in {kept[r], "no"}
           \/ q.kept[r] \in {"unready", "ready"} /\ Hears(r, q.kept[r] = "ready")

\* The queue as it is.
LEMMA QueueFacts ==
    ASSUME TypeOK
    PROVE  Queue \in Queues /\ From(Queue)
BY DEF TypeOK, Queue, Queues, Tasks, Kept, From

\* scheduleTerminalCleanup
LEMMA RegisteredFacts ==
    ASSUME TypeOK, NEW r \in Run, NEW store
    PROVE  Registered(Queue, r, store) \in Queues /\ From(Registered(Queue, r, store))
<1> DEFINE q == Registered(Queue, r, store)
           new == [state |-> "pending", ready |-> KnownReady(r)]
<1>t. task \in Tasks /\ kept \in Kept
  BY DEF TypeOK, Tasks, Kept
<1>h. Hears(r, KnownReady(r))
  BY DEF Hears, KnownReady
<1>n. new \in [state : Open \union {"none", "done"}, ready : BOOLEAN]
  BY DEF Open, KnownReady
<1>1. CASE store = "ok"
  <2>1. q = [task |-> Scheduled(task, r, KnownReady(r)), kept |-> [kept EXCEPT ![r] = "no"]]
    BY <1>1 DEF Registered, Queue
  <2>2. CASE task[r].state = "none"
    <3>1. q = [task |-> [task EXCEPT ![r] = new], kept |-> [kept EXCEPT ![r] = "no"]]
      BY <2>1, <2>2 DEF Scheduled
    <3>2. new.state = "pending" /\ (new.ready <=> KnownReady(r))
      OBVIOUS
    <3> HIDE DEF q, new
    <3>3. [task EXCEPT ![r] = new] \in Tasks /\ [kept EXCEPT ![r] = "no"] \in Kept
      BY <1>t, <1>n DEF Tasks, Kept
    <3>4. q \in Queues /\ q.task = [task EXCEPT ![r] = new] /\ q.kept = [kept EXCEPT ![r] = "no"]
      BY <3>1, <3>3 DEF Queues
    <3>5. \A x \in Run : (IF x = r THEN q.task[x] = new ELSE q.task[x] = task[x]) /\ q.kept[x] \in {kept[x], "no"}
      BY <1>t, <3>4 DEF Tasks, Kept
    <3>6. Hears(r, q.task[r].ready)
      BY <1>h, <3>2, <3>5 DEF Hears
    <3> QED
      BY <2>2, <3>2, <3>4, <3>5, <3>6 DEF From, q
  <2>3. CASE task[r].state # "none"
    <3>1. q = [task |-> task, kept |-> [kept EXCEPT ![r] = "no"]]
      BY <2>1, <2>3 DEF Scheduled
    <3> QED
      BY <1>t, <3>1 DEF From, Queues, Tasks, Kept
  <2> QED
    BY <2>2, <2>3
<1>2. CASE store # "ok"
  <2> DEFINE memory == IF KnownReady(r) THEN "ready" ELSE "unready"
  <2>1. q = [task |-> task, kept |-> [kept EXCEPT ![r] = memory]]
    BY <1>2 DEF Registered, Queue
  <2>2. memory \in {"unready", "ready"} /\ (memory = "ready" <=> KnownReady(r))
    OBVIOUS
  <2> HIDE DEF q, memory
  <2>3. q.task = task /\ q.kept = [kept EXCEPT ![r] = memory] /\ q \in Queues
    BY <1>t, <2>1, <2>2 DEF Queues, Kept
  <2>4. \A x \in Run : q.kept[x] = IF x = r THEN memory ELSE kept[x]
    BY <1>t, <2>3 DEF Kept
  <2>5. Hears(r, q.kept[r] = "ready")
    BY <1>h, <2>2, <2>4 DEF Hears
  <2> QED
    BY <2>2, <2>3, <2>4, <2>5 DEF From, q
<1> QED
  BY <1>1, <1>2

\* reconcileCleanupFacts
LEMMA ReconciledFacts ==
    ASSUME TypeOK, NEW shared, NEW store
    PROVE  Reconciled(shared, store) \in Queues /\ From(Reconciled(shared, store))
<1> DEFINE q == Reconciled(shared, store)
           new(r) == [state |-> "pending", ready |-> facts[r] = "ready"]
           T == [r \in Run |-> IF r \in Forgotten(shared) THEN new(r) ELSE task[r]]
<1>t. task \in Tasks /\ kept \in Kept
  BY DEF TypeOK, Tasks, Kept
<1>1. CASE store = "ok"
  <2>1. q = [task |-> T, kept |-> kept]
    BY <1>1 DEF Reconciled, Queue
  <2>2. \A r \in Run : /\ new(r) \in [state : Open \union {"none", "done"}, ready : BOOLEAN]
                       /\ new(r).state = "pending" /\ Hears(r, new(r).ready)
    BY DEF Open, Hears, KnownReady
  <2>3. \A r \in Forgotten(shared) : task[r].state = "none"
    BY DEF Forgotten
  <2> HIDE DEF new, q
  <2>4. T \in Tasks
    BY <1>t, <2>2 DEF Tasks
  <2>5. \A r \in Run : T[r] = task[r] \/ (task[r].state = "none" /\ T[r].state = "pending" /\ Hears(r, T[r].ready))
    BY <2>2, <2>3
  <2> HIDE DEF T
  <2> QED
    BY <1>t, <2>1, <2>4, <2>5 DEF From, Queues, q
<1>2. CASE store # "ok"
  BY <1>2, QueueFacts DEF Reconciled
<1> QED
  BY <1>1, <1>2

\* What a step with a pass does, to a queue made from this one.
Passed(managed, table) ==
    /\ task' \in Tasks /\ kept' \in Kept /\ stucks' \in 0..MaxStuck /\ faults' \in 0..MaxFault
    /\ context' \subseteq context /\ session' \subseteq session /\ spill' \subseteq spill
    /\ \E q \in Queues : From(q) /\ \A r \in Run : PassOn(q, managed, table, r)

\* Faults of the database are counted.
LEMMA CountFacts ==
    ASSUME TypeOK, NEW store \in Answers, Count(store)
    PROVE  faults' \in 0..MaxFault
BY CleanupAssumption DEF TypeOK, Answers, Count

\* A pass with a settled answer of the store is one of those Passed describes.
LEMMA PassPasses ==
    ASSUME TypeOK, NEW q \in Queues, From(q), NEW managed, NEW table, NEW all, NEW late, NEW shared,
           NEW store \in Answers, Count(store), Pass(q, managed, table, all, late, shared, store)
    PROVE  Passed(managed, table)
<1>1. /\ task' \in Tasks /\ kept' \in Kept /\ stucks' \in 0..MaxStuck
      /\ context' \subseteq context /\ session' \subseteq session /\ spill' \subseteq spill
      /\ \A r \in Run : PassOn(q, managed, table, r)
  BY PassFacts DEF TypeOK
<1> QED
  BY <1>1, CountFacts DEF Passed

\* So is the pass of a Run that concludes.
LEMMA ConcludeFacts ==
    ASSUME TypeOK, NEW r \in Run, NEW managed, NEW table, Conclude(r, managed, table)
    PROVE  Passed(managed, table) /\ Noted /\ final' = final \union {r}
<1>f. Noted /\ final' = final \union {r}
  BY DEF Conclude
<1>1. PICK store \in Answers, late \in {{}, Run} :
         /\ Count(store)
         /\ Pass(IF r \in final THEN Queue ELSE Registered(Queue, r, store),
                 managed, table, FALSE, late, TRUE, store)
  BY DEF Conclude
<1>2. CASE r \in final
  BY <1>f, <1>1, <1>2, QueueFacts, PassPasses
<1>3. CASE r \notin final
  BY <1>f, <1>1, <1>3, RegisteredFacts, PassPasses
<1> QED
  BY <1>2, <1>3

\* So is the pass over all of the queue.
LEMMA CleanAllFacts ==
    ASSUME TypeOK, NEW shared, NEW store \in Answers, CleanAll(shared, store)
    PROVE  Passed(handles, rows) /\ Noted
BY ReconciledFacts, PassPasses DEF CleanAll

-----------------------------------------------------------------------------
(* What is written and removed *)

\* A step that writes to the queue, with or without a pass, makes nothing ready that
\* the Hub has not heard of.
Known == \A r \in Run : task'[r].ready \/ kept'[r] = "ready" => r \in known

\* What comes from the queue names sessions somebody knows of.
LEMMA FromKnown ==
    ASSUME TypeOK, Resumes, NEW q \in Queues, From(q)
    PROVE  \A r \in Run : q.task[r].ready \/ q.kept[r] = "ready" => r \in known
<1> TAKE r \in Run
<1>1. KnownReady(r) => r \in known
  BY DEF Resumes, KnownReady
<1>2. task[r].ready \/ kept[r] = "ready" => r \in known
  BY DEF Resumes
<1> QED
  BY <1>1, <1>2 DEF From, Hears

\* So do the tasks that a pass leaves.
LEMMA PassedKnown ==
    ASSUME TypeOK, Resumes, NEW managed, NEW table, Passed(managed, table)
    PROVE  Known
<1>1. PICK q \in Queues : From(q) /\ \A r \in Run : PassOn(q, managed, table, r)
  BY DEF Passed
<1>2. SUFFICES ASSUME NEW r \in Run, task'[r].ready \/ kept'[r] = "ready"
               PROVE  r \in known
  BY DEF Known
<1>3. q.task[r].ready \/ q.kept[r] = "ready" => r \in known
  BY <1>1, FromKnown
<1> QED
  BY <1>1, <1>2, <1>3 DEF PassOn, Origin, FromKept

\* A session goes only on behalf of a Run with entries in the same home, which is the
\* home's owner or known.
Missed(r) == \E y \in blocked : SameHome(y, r) /\ (Owns(y) \/ y \in known)

\* A pass takes a session for a Run with entries in its home, which nobody resumes.
LEMMA PassedSession ==
    ASSUME TypeOK, Resumes, NEW managed, NEW table, Passed(managed, table)
    PROVE  \A r \in session \ session' : Missed(r)
<1>1. PICK q \in Queues : From(q) /\ \A r \in Run : PassOn(q, managed, table, r)
  BY DEF Passed
<1>2. \A r \in Run : q.task[r].ready \/ q.kept[r] = "ready" => r \in known
  BY <1>1, FromKnown
<1> QED
  BY <1>1, <1>2 DEF PassOn, TypeOK, Missed

\* cleanupAbortedRun, where something is removed.
Refused(r) == Remove({r}, {q \in {r} : ReachesHome(q, KnownReady(q))}, {})

\* What the refusal of a Run takes, and from whom.
LEMMA RefusedFacts ==
    ASSUME TypeOK, NEW r \in Run, Refused(r)
    PROVE  /\ context' = context \ {r} /\ spill' \subseteq spill /\ session' \subseteq session
           /\ \A x \in (spill \ spill') \union (session \ session') :
                 SameHome(x, r) /\ (Owns(r) \/ KnownReady(r))
           /\ \A x \in session \ session' : r \in blocked
BY DEF Refused, Remove, ReachesHome, ClearsSession

\* What is written to the queue outside a pass.
Wrote == /\ task' \in Tasks /\ kept' \in Kept /\ faults' \in 0..MaxFault
         /\ \E q \in Queues :
               /\ From(q) /\ kept' = q.kept
               /\ \A r \in Run : /\ task'[r].ready = q.task[r].ready
                                 /\ \/ task'[r].state = q.task[r].state
                                    \/ task'[r].state \in Open /\ q.task[r].state \in Open

\* A task that is written names sessions somebody knows of.
LEMMA WroteKnown ==
    ASSUME TypeOK, Resumes, Wrote
    PROVE  Known
BY FromKnown DEF Wrote, Known

\* Writing nothing is a case of it.
LEMMA UnwrittenWrote ==
    ASSUME TypeOK, UNCHANGED <<task, kept, faults>>
    PROVE  Wrote
<1>1. task' \in Tasks /\ kept' \in Kept /\ faults' \in 0..MaxFault
  BY DEF TypeOK, Tasks, Kept
<1>2. Queue \in Queues /\ From(Queue) /\ Queue.task = task /\ Queue.kept = kept
  BY QueueFacts DEF Queue
<1> QED
  BY <1>1, <1>2 DEF Wrote

\* A Run that registers its cleanup writes a task or remembers it.
LEMMA RegisteredWrote ==
    ASSUME TypeOK, NEW r \in Run, NEW store \in Answers, Count(store),
           task' = Registered(Queue, r, store).task, kept' = Registered(Queue, r, store).kept
    PROVE  Wrote
<1> DEFINE q == Registered(Queue, r, store)
<1>1. q \in Queues /\ From(q)
  BY RegisteredFacts
<1>2. task' = q.task /\ kept' = q.kept
  OBVIOUS
<1> HIDE DEF q
<1>3. q.task \in Tasks /\ q.kept \in Kept
  BY <1>1 DEF Queues
<1> QED
  BY <1>1, <1>2, <1>3, CountFacts DEF Wrote

\* So does what puts a Run into the queue.
LEMMA PutWrote ==
    ASSUME TypeOK, NEW r \in Run, PutIntoQueue(r)
    PROVE  Wrote
BY RegisteredWrote DEF PutIntoQueue

\* And the removal at once, which may take the directory of the Run.
LEMMA RemovedWrote ==
    ASSUME TypeOK, NEW r \in Run, RemoveAtOnce(r)
    PROVE  /\ Wrote /\ stucks' \in 0..MaxStuck
           /\ context' \in {context, context \ {r}}
           /\ Refused(r) \/ UNCHANGED <<session, spill>>
<1>1. CASE Refused(r) /\ UNCHANGED <<task, kept, faults, stucks>>
  BY <1>1, UnwrittenWrote, RefusedFacts DEF TypeOK
<1>2. CASE /\ stucks < MaxStuck /\ stucks' = stucks + 1
           /\ context' \in {context, context \ {r}} /\ UNCHANGED <<session, spill>>
           /\ \E store \in Answers :
               LET q == Registered(Queue, r, store)
               IN  /\ Count(store) /\ kept' = q.kept
                   /\ task' = IF store = "ok" /\ q.task[r].state # "done"
                              THEN [q.task EXCEPT ![r].state = "cleanup_pending"] ELSE q.task
  <2>1. stucks' \in 0..MaxStuck
    BY <1>2, CleanupAssumption DEF TypeOK
  <2>2. PICK store \in Answers :
               LET q == Registered(Queue, r, store)
               IN  /\ Count(store) /\ kept' = q.kept
                   /\ task' = IF store = "ok" /\ q.task[r].state # "done"
                              THEN [q.task EXCEPT ![r].state = "cleanup_pending"] ELSE q.task
    BY <1>2
  <2> DEFINE q == Registered(Queue, r, store)
  <2>3. q \in Queues /\ From(q)
    BY RegisteredFacts
  <2>4. /\ Count(store) /\ kept' = q.kept
        /\ task' = IF store = "ok" /\ q.task[r].state # "done"
                   THEN [q.task EXCEPT ![r].state = "cleanup_pending"] ELSE q.task
    BY <2>2
  <2> HIDE DEF q
  <2>5. q.task \in Tasks /\ q.kept \in Kept
    BY <2>3 DEF Queues
  <2>6. task' \in Tasks
    BY <2>4, <2>5 DEF Tasks, Open
  <2>r. store = "ok" => q.task[r].state # "none"
    BY DEF q, Registered, Scheduled, Queue, TypeOK
  <2>7. \A x \in Run : /\ task'[x].ready = q.task[x].ready
                       /\ \/ task'[x].state = q.task[x].state
                          \/ task'[x].state \in Open /\ q.task[x].state \in Open
    BY <2>4, <2>5, <2>r DEF Tasks, Open
  <2>8. Wrote
    BY <2>3, <2>4, <2>5, <2>6, <2>7, CountFacts DEF Wrote
  <2> QED
    BY <1>2, <2>1, <2>8
<1> QED
  BY <1>1, <1>2 DEF RemoveAtOnce, Refused

-----------------------------------------------------------------------------
(* The invariant is kept, part by part *)

\* A task done is dropped when its Run is started again.
LEMMA ReopenedFacts ==
    ASSUME TypeOK, NEW r \in Run
    PROVE  /\ Reopened(r) \in Tasks
           /\ \A x \in Run : Reopened(r)[x] \in {task[x], NoTask}
           /\ Reopened(r)[r].state # "done"
BY DEF TypeOK, Reopened, Tasks, NoTask, Open

\* A refusal: what it writes and takes.
LEMMA RefuseFacts ==
    ASSUME TypeOK, NEW r \in Run, NEW s \in Slot, Refuse(r, s)
    PROVE  /\ Wrote /\ stucks' \in 0..MaxStuck
           /\ context' \in {context, context \ {r}}
           /\ session' \subseteq session /\ spill' \subseteq spill
           /\ \/ UNCHANGED <<session, spill>>
              \/ r \notin handles /\ Refused(r)
<1>1. CASE r \in handles
  BY <1>1, PutWrote DEF Refuse, TypeOK
<1>2. CASE r \notin handles
  <2>1. RemoveAtOnce(r)
    BY <1>2 DEF Refuse
  <2> QED
    BY <1>2, <2>1, RemovedWrote, RefusedFacts
<1> QED
  BY <1>1, <1>2

\* A Runtime that is entered may have its cleanup put into the queue.
LEMMA RegisterFacts ==
    ASSUME TypeOK, NEW r \in Run, NEW s \in Slot, Register(r, s)
    PROVE  Wrote /\ projectors' \in {[projectors EXCEPT ![r] = "new"], [projectors EXCEPT ![r] = "none"]}
BY UnwrittenWrote, PutWrote DEF Register

\* A run.start that is delivered begins, or is refused with nothing written.
LEMMA DeliverFacts ==
    ASSUME TypeOK, NEW r \in Run, NEW s \in Slot, Deliver(r, s)
    PROVE  /\ faults' \in 0..MaxFault
           /\ task' \in {task, Reopened(r)} /\ task' \in Tasks
           /\ \/ /\ task' = Reopened(r) /\ At(r, s, "begun")
                 /\ facts' = [facts EXCEPT ![r] = IF @ = "none" THEN "written" ELSE @]
              \/ facts' = facts /\ At(r, s, "refused")
<1>1. PICK store \in Answers :
        /\ Count(store)
        /\ \/ /\ store = "ok"
              /\ task' = Reopened(r)
              /\ facts' = [facts EXCEPT ![r] = IF @ = "none" THEN "written" ELSE @]
              /\ At(r, s, "begun")
           \/ /\ store # "ok"
              /\ task' \in {task, Reopened(r)} /\ UNCHANGED facts
              /\ At(r, s, "refused")
  BY DEF Deliver
<1>2. faults' \in 0..MaxFault
  BY <1>1, CountFacts
<1>3. task' \in {task, Reopened(r)}
  BY <1>1
<1>4. task \in Tasks
  BY DEF TypeOK, Tasks
<1>5. task' \in Tasks
  BY <1>3, <1>4, ReopenedFacts
<1> QED
  BY <1>1, <1>2, <1>3, <1>5

\* How far a delivery is after a step that moves it.
LEMMA AtFacts ==
    ASSUME TypeOK, NEW r \in Run, NEW s \in Slot, NEW stage \in Stage, At(r, s, stage)
    PROVE  /\ handling' \in [Run -> [Slot -> Stage]]
           /\ handling'[r][s] = stage
           /\ \A x \in Run, t \in Slot : <<x, t>> # <<r, s>> => handling'[x][t] = handling[x][t]
BY DEF At, TypeOK

\* A Runtime that is ready tells the facts, and a task that is open.
LEMMA ReadyFacts ==
    ASSUME TypeOK, NEW r \in Run, Ready(r)
    PROVE  /\ faults' \in 0..MaxFault
           /\ task' \in Tasks /\ facts' \in [Run -> {"none", "written", "ready"}]
           /\ \A x \in Run : /\ task'[x].state = task[x].state
                             /\ x # r => task'[x] = task[x] /\ facts'[x] = facts[x]
           /\ facts'[r] = "ready" /\ task[r].state \in Open => facts[r] = "ready" \/ task'[r].ready
           /\ task[r].ready => task'[r].ready
<1>1. PICK store \in Answers :
        /\ Count(store)
        /\ \/ /\ store = "ok" /\ TaskReady(r)
              /\ facts' = [facts EXCEPT ![r] = IF @ = "none" THEN @ ELSE "ready"]
           \/ store # "ok" /\ UNCHANGED <<facts, task>>
  BY DEF Ready
<1>2. faults' \in 0..MaxFault
  BY <1>1, CountFacts
<1>3. CASE UNCHANGED <<facts, task>>
  BY <1>2, <1>3 DEF TypeOK, Tasks
<1>4. CASE TaskReady(r) /\ facts' = [facts EXCEPT ![r] = IF @ = "none" THEN @ ELSE "ready"]
  <2> DEFINE b == task[r].ready \/ task[r].state \in Open
  <2>1. task' = [task EXCEPT ![r].ready = b]
    BY <1>4 DEF TaskReady
  <2>2. b \in BOOLEAN
    BY DEF TypeOK
  <2>3. (task[r].ready => b) /\ (task[r].state \in Open => b)
    OBVIOUS
  <2> HIDE DEF b
  <2>4. task' \in Tasks /\ (\A x \in Run : task'[x].state = task[x].state /\ (x # r => task'[x] = task[x]))
    BY <2>1, <2>2 DEF TypeOK, Tasks
  <2>5. task'[r].ready = b
    BY <2>1 DEF TypeOK
  <2> QED
    BY <1>2, <1>4, <2>3, <2>4, <2>5 DEF TypeOK
<1> QED
  BY <1>1, <1>3, <1>4

\* The initial state satisfies the invariant.
LEMMA InitProof ==
    ASSUME Init
    PROVE  IInv
<1>1. TypeOK
  BY CleanupAssumption DEF Init, TypeOK, NoTask, Open, Idle, Stage
<1>2. \A r \in Run : ~Starting(r)
  BY DEF Init, Starting, Idle
<1> QED
  BY <1>1, <1>2 DEF Init, IInv, Table, Starts, Apart, Resumes, SourceSessionKept, Begun, Seen, Alive,
                    DoneIsClean, NoTask, Open, Idle

\* The steps with a pass, by what they do beside it.
Passes ==
    \/ \E r \in Run, s \in Slot : Miss(r, s)
    \/ \E r \in Run : Repeat(r) \/ Exit(r) \/ StrayExit(r) \/ Recover(r)
    \/ \E late \in {{}, Run} : Hourly(late)
    \/ Startup \/ Connect

\* What every one of them leaves, and what it does to the Runtimes.
Aside ==
    /\ UNCHANGED <<blocked, known, command, facts, ready, crashes, twice>>
    /\ \A r \in Run : /\ runtime'[r] \in {runtime[r], "no", "loose"}
                      /\ runtime'[r] = "loose" =>
                            runtime[r] = "loose" \/ (runtime[r] = "child" /\ (r \in stray \/ Starting(r)))
                      /\ runtime'[r] # "no" => runtime[r] # "no"
                      /\ r \in handles \ handles' => r \in stray \/ Starting(r) \/ runtime'[r] = "no"
                      /\ projectors'[r] \in {projectors[r], "none"}
    /\ \A r \in Run, s \in Slot :
          handling'[r][s] = handling[r][s] \/ (handling[r][s] = "prepared" /\ handling'[r][s] = "missed")
    /\ phase' # "up" => phase # "up"
    /\ stray' \subseteq stray /\ handles' \subseteq handles /\ handles' \subseteq rows'

\* The exit of a process, whether or not the table had it.
LEMMA SeeExitFacts ==
    ASSUME TypeOK, NEW r \in Run, SeeExit(r)
    PROVE  /\ Passed(handles', rows') /\ Noted /\ final' \subseteq Run
           /\ handles' = handles \ {r} /\ rows' = rows \ {r}
           /\ projectors' \in {projectors, [projectors EXCEPT ![r] = "none"]}
           /\ UNCHANGED <<blocked, known, command, facts, phase, connected, ready, twice, crashes, reconciled>>
<1>1. Conclude(r, handles \ {r}, rows \ {r}) /\ handles' = handles \ {r} /\ rows' = rows \ {r}
  BY DEF SeeExit
<1>2. Passed(handles', rows') /\ Noted /\ final' = final \union {r}
  BY <1>1, ConcludeFacts
<1> QED
  BY <1>1, <1>2 DEF Conclude, TypeOK, hubVars, procVars

\* What goes from the table and not from the machine.
LEMMA LoosenedFacts ==
    ASSUME TypeOK, NEW r \in Run, Loosened(r)
    PROVE  /\ runtime' \in [Run -> {"no", "child", "loose", "orphan", "stranded"}]
           /\ \A x \in Run : \/ runtime'[x] = runtime[x]
                             \/ x = r /\ runtime[x] = "child" /\ runtime'[x] = "loose"
BY DEF TypeOK, Loosened

\* Repeat and Recover report what is gone without a Runtime.
LEMMA GoneFacts ==
    ASSUME TypeOK, NEW r \in Run, Repeat(r) \/ Recover(r)
    PROVE  /\ Passed(handles', rows') /\ Noted /\ final' \subseteq Run
           /\ rows' \subseteq Run
           /\ projectors' \in {projectors, [projectors EXCEPT ![r] = "none"]}
           /\ UNCHANGED <<blocked, known, command, facts, phase, connected, handling, handles, stray,
                          ready, twice, crashes, reconciled>>
<1>1. CASE Repeat(r)
  <2>1. Conclude(r, handles, rows) /\ UNCHANGED <<rows, handling, handles, stray>>
    BY <1>1 DEF Repeat
  <2>2. Passed(handles', rows') /\ Noted /\ final' = final \union {r}
    BY <2>1, ConcludeFacts
  <2> QED
    BY <2>1, <2>2 DEF Conclude, TypeOK, hubVars, procVars
<1>2. CASE Recover(r)
  <2>1. Conclude(r, handles, rows \ {r}) /\ UNCHANGED <<handling, handles, stray>> /\ rows' = rows \ {r}
    BY <1>2 DEF Recover
  <2>2. Passed(handles', rows') /\ Noted /\ final' = final \union {r}
    BY <2>1, ConcludeFacts
  <2> QED
    BY <2>1, <2>2 DEF Conclude, TypeOK, hubVars, procVars
<1> QED
  BY <1>1, <1>2

\* Hourly, Startup and Connect pass over the queue and touch no Run.
LEMMA SweepFacts ==
    ASSUME TypeOK, Startup \/ Connect \/ \E late \in {{}, Run} : Hourly(late)
    PROVE  /\ Passed(handles, rows) /\ Noted
           /\ phase' \in {phase, "up"} /\ connected' \in BOOLEAN /\ reconciled' \in BOOLEAN
           /\ UNCHANGED <<blocked, known, command, facts, rows, runtime, handling, handles, stray, projectors,
                          ready, final, twice, crashes>>
<1> USE DEF TypeOK, hubVars, procVars, runVars
<1>1. ASSUME NEW late \in {{}, Run}, Hourly(late) PROVE Passed(handles, rows) /\ Noted
  <2>1. PICK store \in Answers :
           Count(store) /\ Pass(Queue, handles, rows, FALSE, late, connected, store)
    BY <1>1 DEF Hourly
  <2> QED
    BY <1>1, <2>1, QueueFacts, PassPasses DEF Hourly
<1>2. CASE Startup
  <2>1. PICK store \in Answers : CleanAll(FALSE, store)
    BY <1>2 DEF Startup
  <2>2. Passed(handles, rows) /\ Noted
    BY <2>1, CleanAllFacts
  <2> QED
    BY <1>2, <2>2 DEF Startup
<1>3. CASE Connect
  <2>1. PICK store \in Answers : CleanAll(TRUE, store) /\ reconciled' = (store = "ok")
    BY <1>3 DEF Connect
  <2>2. Passed(handles, rows) /\ Noted
    BY <2>1, CleanAllFacts
  <2> QED
    BY <1>3, <2>1, <2>2 DEF Connect
<1> QED
  BY <1>1, <1>2, <1>3 DEF Hourly

\* The steps with a pass over the queue, seen as one.
LEMMA PassesFacts ==
    ASSUME TypeOK, Table, Passes
    PROVE  /\ Passed(handles', rows') /\ Noted /\ Aside
           /\ final' \subseteq Run /\ rows' \subseteq Run
           /\ phase' \in {"down", "recover", "up"} /\ connected' \in BOOLEAN /\ reconciled' \in BOOLEAN
           /\ runtime' \in [Run -> {"no", "child", "loose", "orphan", "stranded"}]
           /\ handling' \in [Run -> [Slot -> Stage]]
           /\ projectors' \in [Run -> {"none", "new", "ready"}]
<1> USE DEF TypeOK
<1>1. ASSUME NEW r \in Run, NEW s \in Slot, Miss(r, s)
      PROVE  /\ SeeExit(r) /\ Loosened(r) /\ UNCHANGED stray /\ Starting(r)
             /\ handling[r][s] = "prepared" /\ At(r, s, "missed")
  BY <1>1 DEF Miss, Starting
<1>2. ASSUME NEW r \in Run, StrayExit(r)
      PROVE  SeeExit(r) /\ Loosened(r) /\ UNCHANGED handling /\ stray' = stray \ {r} /\ r \in stray
  BY <1>2 DEF StrayExit
<1>3. ASSUME NEW r \in Run, Exit(r)
      PROVE  SeeExit(r) /\ runtime' = [runtime EXCEPT ![r] = "no"] /\ UNCHANGED <<handling, stray>>
  BY <1>3 DEF Exit
<1>4. ASSUME NEW r \in Run, Repeat(r) \/ Recover(r)
      PROVE  runtime' \in {runtime, [runtime EXCEPT ![r] = "no"]} /\ rows' \in {rows, rows \ {r}} /\ (rows' # rows => phase = "recover")
  BY <1>4 DEF Repeat, Recover
<1> HIDE DEF TypeOK
<1>5. ASSUME NEW r \in Run, NEW s \in Slot, Miss(r, s)
      PROVE  /\ Aside /\ runtime' \in [Run -> {"no", "child", "loose", "orphan", "stranded"}]
             /\ handling' \in [Run -> [Slot -> Stage]]
  <2>1. SeeExit(r) /\ Loosened(r) /\ UNCHANGED stray /\ Starting(r)
    BY <1>1, <1>5
  <2>2. handling[r][s] = "prepared" /\ At(r, s, "missed")
    BY <1>1, <1>5
  <2>3. /\ handling' \in [Run -> [Slot -> Stage]] /\ handling'[r][s] = "missed"
        /\ \A x \in Run, t \in Slot : <<x, t>> # <<r, s>> => handling'[x][t] = handling[x][t]
    BY <2>2, AtFacts DEF Stage
  <2>4. /\ runtime' \in [Run -> {"no", "child", "loose", "orphan", "stranded"}]
        /\ \A x \in Run : \/ runtime'[x] = runtime[x]
                          \/ x = r /\ runtime[x] = "child" /\ runtime'[x] = "loose"
    BY <2>1, LoosenedFacts
  <2>5. /\ handles' = handles \ {r} /\ rows' = rows \ {r} /\ handles \subseteq rows
        /\ \A x \in Run : projectors'[x] \in {projectors[x], "none"}
        /\ UNCHANGED <<blocked, known, command, facts, phase, connected, ready, twice, crashes, reconciled>>
    BY <2>1, SeeExitFacts DEF TypeOK
  <2> QED
    BY <2>1, <2>2, <2>3, <2>4, <2>5 DEF Aside
<1>6. ASSUME NEW r \in Run, StrayExit(r)
      PROVE  /\ Aside /\ runtime' \in [Run -> {"no", "child", "loose", "orphan", "stranded"}]
             /\ handling' \in [Run -> [Slot -> Stage]]
  <2>1. SeeExit(r) /\ Loosened(r) /\ UNCHANGED handling /\ stray' = stray \ {r} /\ r \in stray
    BY <1>2, <1>6
  <2>2. handling' \in [Run -> [Slot -> Stage]]
    BY <2>1 DEF TypeOK
  <2>3. /\ runtime' \in [Run -> {"no", "child", "loose", "orphan", "stranded"}]
        /\ \A x \in Run : \/ runtime'[x] = runtime[x]
                          \/ x = r /\ runtime[x] = "child" /\ runtime'[x] = "loose"
    BY <2>1, LoosenedFacts
  <2>4. /\ handles' = handles \ {r} /\ rows' = rows \ {r} /\ handles \subseteq rows
        /\ \A x \in Run : projectors'[x] \in {projectors[x], "none"}
        /\ UNCHANGED <<blocked, known, command, facts, phase, connected, ready, twice, crashes, reconciled>>
    BY <2>1, SeeExitFacts DEF TypeOK
  <2> QED
    BY <2>1, <2>2, <2>3, <2>4 DEF Aside
<1>7. ASSUME NEW r \in Run, Exit(r)
      PROVE  /\ Aside /\ runtime' \in [Run -> {"no", "child", "loose", "orphan", "stranded"}]
             /\ handling' \in [Run -> [Slot -> Stage]]
  BY <1>3, <1>7, SeeExitFacts DEF TypeOK, Aside
<1>8. ASSUME NEW r \in Run, Repeat(r) \/ Recover(r)
      PROVE  /\ Aside /\ runtime' \in [Run -> {"no", "child", "loose", "orphan", "stranded"}]
             /\ handling' \in [Run -> [Slot -> Stage]]
  <2>1. runtime' \in [Run -> {"no", "child", "loose", "orphan", "stranded"}] /\ UNCHANGED handling
    BY <1>4, <1>8, GoneFacts DEF TypeOK
  <2>2. handles' = handles /\ handles' \subseteq rows'
    BY <1>4, <1>8, GoneFacts DEF TypeOK, Table
  <2>3. \A x \in Run : runtime'[x] \in {runtime[x], "no"} /\ projectors'[x] \in {projectors[x], "none"}
    BY <1>4, <1>8, GoneFacts DEF TypeOK
  <2>4. /\ UNCHANGED <<blocked, known, command, facts, phase, handling, handles, stray, ready, twice, crashes>>
    BY <1>8, GoneFacts
  <2>5. handling' \in [Run -> [Slot -> Stage]]
    BY <2>1 DEF TypeOK
  <2> QED
    BY <2>1, <2>2, <2>3, <2>4, <2>5 DEF Aside
<1>9. CASE Startup \/ Connect \/ \E late \in {{}, Run} : Hourly(late)
  BY <1>9, SweepFacts DEF TypeOK, Aside
<1>10. ASSUME NEW r \in Run, NEW s \in Slot, Miss(r, s) PROVE SeeExit(r)
  BY <1>1, <1>10
<1>11. ASSUME NEW r \in Run, StrayExit(r) \/ Exit(r) PROVE SeeExit(r)
  BY <1>2, <1>3, <1>11
<1>12. ASSUME NEW r \in Run, SeeExit(r)
       PROVE  /\ Passed(handles', rows') /\ Noted /\ final' \subseteq Run /\ rows' \subseteq Run
              /\ phase' \in {"down", "recover", "up"} /\ connected' \in BOOLEAN /\ reconciled' \in BOOLEAN
              /\ projectors' \in [Run -> {"none", "new", "ready"}]
  BY <1>12, SeeExitFacts DEF TypeOK
<1>13. ASSUME NEW r \in Run, Repeat(r) \/ Recover(r)
       PROVE  /\ Passed(handles', rows') /\ Noted /\ final' \subseteq Run /\ rows' \subseteq Run
              /\ phase' \in {"down", "recover", "up"} /\ connected' \in BOOLEAN /\ reconciled' \in BOOLEAN
              /\ projectors' \in [Run -> {"none", "new", "ready"}]
  BY <1>13, GoneFacts DEF TypeOK
<1>14. CASE Startup \/ Connect \/ \E late \in {{}, Run} : Hourly(late)
  BY <1>9, <1>14, SweepFacts DEF TypeOK
<1> QED
  BY <1>5, <1>6, <1>7, <1>8, <1>9, <1>10, <1>11, <1>12, <1>13, <1>14 DEF Passes

-----------------------------------------------------------------------------
(* The invariant is kept, part by part *)

\* Every step keeps the types.
LEMMA TypeStep ==
    ASSUME IInv, Next
    PROVE  TypeOK'
<1> USE DEF hubVars, storeVars, diskVars, procVars, runVars, factVars, memoryVars, boundVars, pastVars
<1>i. TypeOK /\ Table
  BY DEF IInv
<1>1. ASSUME NEW r \in Run, NEW s \in Slot, Deliver(r, s) PROVE TypeOK'
  <2>1. task' \in Tasks /\ faults' \in 0..MaxFault
    BY <1>i, <1>1, DeliverFacts
  <2>2. /\ handling' \in [Run -> [Slot -> Stage]]
        /\ facts' \in [Run -> {"none", "written", "ready"}]
    <3>1. (At(r, s, "begun") \/ At(r, s, "refused")) /\ facts' \in {facts, [facts EXCEPT ![r] = IF @ = "none" THEN "written" ELSE @]}
      BY <1>i, <1>1, DeliverFacts
    <3> QED
      BY <1>i, <3>1, AtFacts DEF TypeOK, Stage
  <2> QED
    BY <1>i, <1>1, <2>1, <2>2 DEF Deliver, TypeOK, Tasks
<1>2. ASSUME NEW r \in Run, NEW s \in Slot, StartStep(r, s) PROVE TypeOK'
  <2>1. CASE Prepare(r, s)
    <3>1. handling' \in [Run -> [Slot -> Stage]]
      BY <1>i, <2>1, AtFacts DEF Prepare, Stage
    <3> QED
      BY <1>i, <2>1, <3>1 DEF Prepare, TypeOK
  <2>2. CASE Register(r, s)
    <3>1. handling' \in [Run -> [Slot -> Stage]]
      BY <1>i, <2>2, AtFacts DEF Register, Stage
    <3>2. /\ task' \in Tasks /\ kept' \in Kept /\ faults' \in 0..MaxFault
          /\ projectors' \in [Run -> {"none", "new", "ready"}]
      BY <1>i, <2>2, RegisterFacts DEF Wrote, TypeOK
    <3>3. runtime' \in {runtime, [runtime EXCEPT ![r] = "child"]} /\ handles' \subseteq rows' /\ rows' \subseteq Run
      BY <1>i, <2>2 DEF Register, TypeOK
    <3> QED
      BY <1>i, <2>2, <3>1, <3>2, <3>3 DEF Register, TypeOK, Tasks, Kept
  <2>3. CASE Refuse(r, s)
    <3>1. handling' \in [Run -> [Slot -> Stage]]
      BY <1>i, <2>3, AtFacts DEF Refuse, Stage
    <3>2. /\ Wrote /\ stucks' \in 0..MaxStuck /\ context' \subseteq Run
          /\ session' \subseteq Run /\ spill' \subseteq Run
      BY <1>i, <2>3, RefuseFacts DEF TypeOK
    <3>3. stray' \subseteq Run
      BY <1>i, <2>3 DEF Refuse, TypeOK
    <3>4. /\ UNCHANGED <<hubVars, facts, rows, runtime, procVars, handles, ready, final, twice, crashes, pastVars>>
          /\ command' = [command EXCEPT ![r] = "acked"] /\ projectors' = [projectors EXCEPT ![r] = "none"]
      BY <2>3 DEF Refuse
    <3> QED
      BY <1>i, <3>1, <3>2, <3>3, <3>4 DEF TypeOK, Wrote, Tasks, Kept
  <2> QED
    BY <1>2, <2>1, <2>2, <2>3 DEF StartStep
<1>3. ASSUME NEW r \in Run, RuntimeStep(r) PROVE TypeOK'
  <2>1. CASE Ready(r)
    BY <1>i, <2>1, ReadyFacts DEF Ready, TypeOK, Tasks
  <2>2. CASE Work(r)
    BY <1>i, <2>2 DEF Work, TypeOK
  <2>3. CASE TerminalFrame(r)
    BY <1>i, <2>3, PutWrote DEF TerminalFrame, TypeOK, Wrote, Tasks, Kept
  <2> QED
    BY <1>3, <2>1, <2>2, <2>3 DEF RuntimeStep
<1>4. ASSUME NEW r \in Run, OrphanExit(r) PROVE TypeOK'
  BY <1>i, <1>4 DEF OrphanExit, TypeOK
<1>5. CASE Crash
  <2>1. crashes' \in 0..MaxCrash
    BY <1>i, <1>5, CleanupAssumption DEF Crash, TypeOK
  <2>2. rows' \subseteq Run /\ command' \in [Run -> {"none", "recorded", "acked"}]
    BY <1>i, <1>5 DEF Crash, TypeOK
  <2>3. runtime' \in [Run -> {"no", "child", "loose", "orphan", "stranded"}]
    <3> DEFINE After(r) == CASE runtime[r] = "child" -> "orphan"
                             [] runtime[r] = "loose" -> "stranded"
                             [] OTHER -> runtime[r]
    <3>1. runtime' = [r \in Run |-> After(r)]
      BY <1>5 DEF Crash
    <3>2. \A r \in Run : After(r) \in {"no", "child", "loose", "orphan", "stranded"}
      BY <1>i DEF TypeOK
    <3> HIDE DEF After
    <3> QED
      BY <3>1, <3>2
  <2>4. handling' \in [Run -> [Slot -> Stage]]
    BY <1>5 DEF Crash, Idle, Stage
  <2> QED
    BY <1>i, <1>5, <2>1, <2>2, <2>3, <2>4 DEF Crash, TypeOK
<1>6. CASE Restart
  BY <1>i, <1>6 DEF Restart, TypeOK
<1>7. CASE Passes
  <2>1. /\ Passed(handles', rows') /\ Noted /\ Aside
        /\ final' \subseteq Run /\ rows' \subseteq Run
        /\ phase' \in {"down", "recover", "up"} /\ connected' \in BOOLEAN /\ reconciled' \in BOOLEAN
        /\ runtime' \in [Run -> {"no", "child", "loose", "orphan", "stranded"}]
        /\ handling' \in [Run -> [Slot -> Stage]]
        /\ projectors' \in [Run -> {"none", "new", "ready"}]
    BY <1>i, <1>7, PassesFacts
  <2>2. /\ task' \in Tasks /\ kept' \in Kept /\ stucks' \in 0..MaxStuck /\ faults' \in 0..MaxFault
        /\ context' \subseteq context /\ session' \subseteq session /\ spill' \subseteq spill
    BY <2>1 DEF Passed
  <2>3. unseen' \subseteq Run
    BY <1>i, <2>1 DEF Noted, TypeOK
  <2> QED
    BY <1>i, <2>1, <2>2, <2>3 DEF TypeOK, Aside, Tasks, Kept
<1> QED
  BY <1>1, <1>2, <1>3, <1>4, <1>5, <1>6, <1>7 DEF Next, Passes

\* After a crash a Runtime of the table is an orphan, and one outside it stranded.
LEMMA CrashFacts ==
    ASSUME TypeOK, Crash, NEW r \in Run
    PROVE  /\ runtime'[r] \in {"no", "orphan", "stranded"}
           /\ runtime'[r] = "orphan" => runtime[r] \in {"child", "orphan"}
           /\ runtime'[r] = "stranded" => runtime[r] \in {"loose", "stranded"}
           /\ runtime'[r] # "no" => runtime[r] # "no"
           /\ ~Starting(r)' /\ r \notin handles' /\ projectors'[r] = "none" /\ r \notin stray'
           /\ (command[r] = "acked" => command'[r] = "acked") /\ rows \subseteq rows'
<1>1. runtime'[r] = CASE runtime[r] = "child" -> "orphan"
                      [] runtime[r] = "loose" -> "stranded"
                      [] OTHER -> runtime[r]
  BY DEF Crash
<1>2. handling'[r] = Idle
  BY DEF Crash
<1> QED
  BY <1>1, <1>2 DEF Crash, TypeOK, Starting, Idle

\* Every step keeps the table and active_runtime in step.
LEMMA TableStep ==
    ASSUME IInv, Next
    PROVE  Table'
<1> USE DEF Table, hubVars, storeVars, diskVars, procVars, runVars, factVars, memoryVars, boundVars, pastVars
<1>i. TypeOK /\ Table
  BY DEF IInv
<1>1. ASSUME NEW r \in Run, NEW s \in Slot, Deliver(r, s) PROVE Table'
  BY <1>i, <1>1 DEF Deliver
<1>2. ASSUME NEW r \in Run, NEW s \in Slot, StartStep(r, s) PROVE Table'
  <2>1. handling[r][s] # "no"
    BY <1>2 DEF StartStep, Prepare, Refuse, Register
  <2>2. phase = "up"
    BY <1>i, <2>1 DEF Idle
  <2>3. CASE Prepare(r, s)
    BY <1>i, <2>2, <2>3 DEF Prepare
  <2>4. CASE Register(r, s)
    BY <1>i, <2>2, <2>4 DEF Register, TypeOK
  <2>5. CASE Refuse(r, s)
    BY <1>i, <2>2, <2>5 DEF Refuse
  <2> QED
    BY <1>2, <2>3, <2>4, <2>5 DEF StartStep
<1>3. ASSUME NEW r \in Run, RuntimeStep(r) PROVE Table'
  BY <1>i, <1>3 DEF RuntimeStep, Work, Ready, TerminalFrame
<1>4. ASSUME NEW r \in Run, OrphanExit(r) PROVE Table'
  BY <1>i, <1>4 DEF OrphanExit, TypeOK
<1>5. CASE Crash
  <2>1. phase' = "down" /\ handles' = {} /\ stray' = {} /\ \A r \in Run : handling'[r] = Idle
    BY <1>5 DEF Crash
  <2> QED
    BY <1>i, <1>5, <2>1, CrashFacts DEF TypeOK
<1>6. CASE Restart
  BY <1>i, <1>6 DEF Restart
<1>7. ASSUME NEW r \in Run, SeeExit(r), phase = "up",
             runtime' = [runtime EXCEPT ![r] = "no"] \/ Loosened(r)
      PROVE  Table'
  <2>1. handles' = handles \ {r} /\ rows' = rows \ {r} /\ phase' = phase
    BY <1>i, <1>7, SeeExitFacts
  <2> QED
    BY <1>i, <1>7, <2>1 DEF Loosened, TypeOK
<1>8. ASSUME NEW r \in Run, NEW s \in Slot, Miss(r, s) PROVE Table'
  <2>1. SeeExit(r) /\ Loosened(r) /\ handling[r][s] # "no"
    BY <1>8 DEF Miss
  <2>2. phase = "up"
    BY <1>i, <2>1 DEF Idle
  <2> QED
    BY <1>7, <2>1, <2>2
<1>9. ASSUME NEW r \in Run, StrayExit(r) PROVE Table'
  <2>1. SeeExit(r) /\ Loosened(r) /\ r \in stray
    BY <1>9 DEF StrayExit
  <2> QED
    BY <1>i, <1>7, <2>1
<1>10. ASSUME NEW r \in Run, Exit(r) PROVE Table'
  <2>1. SeeExit(r) /\ runtime' = [runtime EXCEPT ![r] = "no"] /\ UNCHANGED <<handling, stray>>
    BY <1>10 DEF Exit
  <2>2. handles' = handles \ {r} /\ rows' = rows \ {r} /\ phase' = phase
    BY <1>i, <2>1, SeeExitFacts
  <2> QED
    BY <1>i, <2>1, <2>2 DEF TypeOK
<1>11. ASSUME NEW r \in Run, Repeat(r) \/ Recover(r) PROVE Table'
  <2>1. UNCHANGED <<phase, handling, handles, stray>>
    BY <1>i, <1>11, GoneFacts
  <2>2. CASE Repeat(r)
    BY <1>i, <2>1, <2>2 DEF Repeat
  <2>3. CASE Recover(r)
    <3>1. /\ phase = "recover" /\ rows' = rows \ {r}
          /\ runtime' = IF runtime[r] = "orphan" THEN [runtime EXCEPT ![r] = "no"] ELSE runtime
      BY <2>3 DEF Recover
    <3> QED
      BY <1>i, <2>1, <3>1 DEF TypeOK
  <2> QED
    BY <1>11, <2>2, <2>3
<1>12. CASE Startup \/ Connect \/ \E late \in {{}, Run} : Hourly(late)
  <2>1. UNCHANGED <<rows, runtime, handling, handles, stray>>
    BY <1>i, <1>12, SweepFacts
  <2>2. Startup => rows = {} /\ phase = "recover"
    BY DEF Startup
  <2>3. Connect \/ (\E late \in {{}, Run} : Hourly(late)) => phase' = phase
    BY DEF Connect, Hourly
  <2> QED
    BY <1>i, <1>12, <2>1, <2>2, <2>3
<1> QED
  BY <1>1, <1>2, <1>3, <1>4, <1>5, <1>6, <1>8, <1>9, <1>10, <1>11, <1>12 DEF Next

\* A Run that may be started may be started on.
LEMMA MayStartKept ==
    ASSUME NEW r \in Run, MayStart(r), blocked' = blocked, known \subseteq known'
    PROVE  MayStart(r)'
BY DEF MayStart, Owns

\* Whether a Run is being started, where no delivery moves, and where one of it does.
LEMMA StartingKept ==
    ASSUME handling' = handling
    PROVE  \A r \in Run : Starting(r)' <=> Starting(r)
BY DEF Starting

LEMMA StartingMoved ==
    ASSUME TypeOK, NEW r \in Run, NEW s \in Slot, NEW stage \in Stage, At(r, s, stage)
    PROVE  \A x \in Run : x # r => (Starting(x)' <=> Starting(x))
BY AtFacts DEF Starting

LEMMA StartingPassed ==
    ASSUME Aside
    PROVE  \A r \in Run : Starting(r)' <=> Starting(r)
BY DEF Aside, Starting

\* Every step keeps what is known of Runs being started and at work.
LEMMA StartsStep ==
    ASSUME IInv, Next
    PROVE  Starts'
<1> USE DEF Starts, hubVars, storeVars, diskVars, procVars, runVars, factVars, memoryVars, boundVars, pastVars
<1>i. TypeOK /\ Table /\ Starts
  BY DEF IInv
<1>m. ASSUME blocked' = blocked, known \subseteq known' PROVE \A r \in Run : MayStart(r) => MayStart(r)'
  BY <1>m, MayStartKept
<1>1. ASSUME NEW r \in Run, NEW s \in Slot, Deliver(r, s) PROVE Starts'
  <2>1. At(r, s, "begun") \/ At(r, s, "refused")
    BY <1>i, <1>1, DeliverFacts
  <2>2. \A x \in Run : x # r => (Starting(x)' <=> Starting(x))
    BY <1>i, <2>1, StartingMoved DEF Stage
  <2>3. /\ UNCHANGED <<blocked, known, handles, projectors>> /\ command' = [command EXCEPT ![r] = "recorded"]
        /\ MayStart(r) /\ r \notin handles /\ command[r] # "acked"
    BY <1>1 DEF Deliver
  <2> QED
    BY <1>i, <1>m, <2>2, <2>3 DEF TypeOK
<1>2. ASSUME NEW r \in Run, NEW s \in Slot, StartStep(r, s) PROVE Starts'
  <2>1. PICK stage \in Stage : At(r, s, stage)
    BY <1>2 DEF StartStep, Prepare, Refuse, Register, Stage
  <2>2. \A x \in Run : x # r => (Starting(x)' <=> Starting(x))
    BY <1>i, <2>1, StartingMoved
  <2>3. UNCHANGED <<blocked, known>> /\ Starting(r)
    BY <1>2 DEF StartStep, Prepare, Refuse, Register, Starting
  <2>4. \A x \in Run : MayStart(x) => MayStart(x)'
    BY <1>m, <2>3
  <2>5. MayStart(r)
    BY <1>i, <2>3
  <2>6. CASE Prepare(r, s)
    BY <1>i, <2>2, <2>3, <2>4, <2>5, <2>6 DEF Prepare
  <2>7. CASE Register(r, s)
    <3>1. /\ handles' = handles \union {r} /\ command' = [command EXCEPT ![r] = "acked"]
          /\ \A x \in Run : x # r => projectors'[x] = projectors[x]
      BY <1>i, <2>7 DEF Register, TypeOK
    <3> QED
      BY <1>i, <2>2, <2>4, <2>5, <3>1 DEF TypeOK
  <2>8. CASE Refuse(r, s)
    <3>1. /\ handles' = handles /\ command' = [command EXCEPT ![r] = "acked"]
          /\ \A x \in Run : x # r => projectors'[x] = projectors[x]
      BY <1>i, <2>8 DEF Refuse, TypeOK
    <3> QED
      BY <1>i, <2>2, <2>4, <2>5, <3>1 DEF TypeOK
  <2> QED
    BY <1>2, <2>6, <2>7, <2>8 DEF StartStep
<1>3. ASSUME NEW r \in Run, RuntimeStep(r) PROVE Starts'
  <2>1. UNCHANGED <<blocked, command, handling, handles>> /\ known \subseteq known'
    BY <1>3 DEF RuntimeStep, Work, Ready, TerminalFrame
  <2>2. \A x \in Run : projectors'[x] # "none" => projectors[x] # "none"
    BY <1>i, <1>3 DEF RuntimeStep, Work, Ready, TerminalFrame, TypeOK
  <2> QED
    BY <1>i, <1>m, <2>1, <2>2, StartingKept
<1>4. ASSUME NEW r \in Run, OrphanExit(r) PROVE Starts'
  <2>1. UNCHANGED <<blocked, known, command, handling, handles, projectors>>
    BY <1>4 DEF OrphanExit
  <2> QED
    BY <1>i, <1>m, <2>1, StartingKept
<1>5. CASE Crash
  BY <1>i, <1>5, CrashFacts
<1>6. CASE Restart
  <2>1. UNCHANGED <<blocked, known, command, handling, handles, projectors>>
    BY <1>6 DEF Restart
  <2> QED
    BY <1>i, <1>m, <2>1, StartingKept
<1>7. CASE Passes
  <2>1. Aside
    BY <1>i, <1>7, PassesFacts
  <2>2. /\ UNCHANGED <<blocked, known, command>> /\ handles' \subseteq handles
        /\ \A r \in Run : projectors'[r] \in {projectors[r], "none"}
    BY <2>1 DEF Aside
  <2> QED
    BY <1>i, <1>m, <2>1, <2>2, StartingPassed
<1> QED
  BY <1>1, <1>2, <1>3, <1>4, <1>5, <1>6, <1>7 DEF Next, Passes

\* The one delivery in handling of a Run none of whose deliveries have met.
LEMMA OneDelivery ==
    ASSUME TypeOK, Apart, NEW r \in Run \ twice, NEW s \in Slot, handling[r][s] # "no"
    PROVE  command[r] # "acked" /\ \A t \in Slot \ {s} : handling[r][t] = "no"
BY DEF Apart, Starting

\* Every step leaves a Run no two deliveries of which have met on its own.
LEMMA ApartStep ==
    ASSUME IInv, Next
    PROVE  Apart'
<1> USE DEF hubVars, storeVars, diskVars, procVars, runVars, factVars, memoryVars, boundVars, pastVars
<1>i. TypeOK /\ Table /\ Starts /\ Apart
  BY DEF IInv
<1> DEFINE Alone(r) == \E s \in Slot : \A t \in Slot \ {s} : handling[r][t] = "no"
<1>k. ASSUME twice' = twice, command' = command, handling' = handling, stray' = stray,
             \A r \in Run \ twice : runtime'[r] \notin {"loose", "stranded"}
      PROVE  Apart'
  BY <1>i, <1>k, StartingKept DEF Apart
<1>1. ASSUME NEW r \in Run, NEW s \in Slot, Deliver(r, s) PROVE Apart'
  <2>1. At(r, s, "begun") \/ At(r, s, "refused")
    BY <1>i, <1>1, DeliverFacts
  <2>2. /\ UNCHANGED <<stray, runtime>> /\ command' = [command EXCEPT ![r] = "recorded"]
        /\ twice' = IF Starting(r) THEN twice \union {r} ELSE twice
    BY <1>1 DEF Deliver
  <2>3. \A x \in Run, t \in Slot : <<x, t>> # <<r, s>> => handling'[x][t] = handling[x][t]
    BY <1>i, <2>1, AtFacts DEF Stage
  <2>4. \A x \in Run : x # r => (Starting(x)' <=> Starting(x))
    BY <1>i, <2>1, StartingMoved DEF Stage
  <2>5. ASSUME r \notin twice' PROVE command'[r] # "acked" /\ \A t \in Slot \ {s} : handling'[r][t] = "no"
    BY <1>i, <2>2, <2>3, <2>5 DEF Starting, TypeOK
  <2>6. ASSUME NEW x \in Run \ twice', x # r, Starting(x)' PROVE command'[x] # "acked" /\ Alone(x)'
    <3>1. Starting(x) /\ x \notin twice
      BY <2>2, <2>4, <2>6
    <3>2. command[x] # "acked" /\ Alone(x)
      BY <1>i, <3>1 DEF Apart
    <3>3. PICK u \in Slot : \A t \in Slot \ {u} : handling[x][t] = "no"
      BY <3>2
    <3>4. \A t \in Slot \ {u} : handling'[x][t] = "no"
      BY <2>3, <2>6, <3>3
    <3>5. command'[x] = command[x]
      BY <1>i, <2>2, <2>6 DEF TypeOK
    <3> QED
      BY <3>2, <3>4, <3>5
  <2>7. ASSUME NEW x \in Run \ twice' PROVE x \notin stray' /\ runtime'[x] \notin {"loose", "stranded"}
    BY <1>i, <2>2 DEF Apart
  <2> QED
    BY <2>5, <2>6, <2>7 DEF Apart
<1>2. ASSUME NEW r \in Run, NEW s \in Slot, StartStep(r, s) PROVE Apart'
  <2>1. PICK stage \in Stage : At(r, s, stage) /\ (~Prepare(r, s) => stage = "no")
    BY <1>2 DEF StartStep, Prepare, Refuse, Register, Stage
  <2>2. handling[r][s] # "no"
    BY <1>2 DEF StartStep, Prepare, Refuse, Register
  <2>3. /\ handling'[r][s] = stage
        /\ \A x \in Run, t \in Slot : <<x, t>> # <<r, s>> => handling'[x][t] = handling[x][t]
    BY <1>i, <2>1, AtFacts
  <2>4. r \notin twice => command[r] # "acked" /\ \A t \in Slot \ {s} : handling'[r][t] = "no"
    BY <1>i, <2>2, <2>3, OneDelivery
  <2>5. /\ twice' = twice /\ \A x \in Run : x # r => command'[x] = command[x]
        /\ Prepare(r, s) => command' = command
    BY <1>i, <1>2 DEF StartStep, Prepare, Refuse, Register, TypeOK
  <2>6. r \notin twice /\ Starting(r)' => command'[r] # "acked" /\ Alone(r)'
    BY <2>1, <2>3, <2>4, <2>5 DEF Starting
  <2>7. ASSUME NEW x \in Run \ twice, x # r, Starting(x)' PROVE command'[x] # "acked" /\ Alone(x)'
    <3>1. Starting(x)
      BY <1>i, <2>1, <2>7, StartingMoved
    <3> QED
      BY <1>i, <2>3, <2>5, <2>7, <3>1 DEF Apart
  <2>8. ASSUME NEW x \in Run \ twice PROVE x \notin stray'
    <3>1. x \notin stray
      BY <1>i DEF Apart
    <3>2. CASE Prepare(r, s) \/ Register(r, s)
      BY <3>1, <3>2 DEF Prepare, Register
    <3>3. CASE Refuse(r, s)
      <4>1. stray' = stray \/ (stray' = stray \union {r} /\ r \in rows)
        BY <3>3 DEF Refuse
      <4>2. phase = "up" /\ rows = handles
        BY <1>i, <2>2 DEF Table, Idle
      <4>3. r \in rows => r \in twice
        BY <1>i, <2>4, <4>2 DEF Starts
      <4> QED
        BY <3>1, <4>1, <4>3
    <3> QED
      BY <1>2, <3>2, <3>3 DEF StartStep
  <2>9. ASSUME NEW x \in Run \ twice PROVE runtime'[x] \notin {"loose", "stranded"}
    <3>1. runtime[x] \notin {"loose", "stranded"}
      BY <1>i DEF Apart
    <3> QED
      BY <1>i, <1>2, <3>1 DEF StartStep, Prepare, Refuse, Register, TypeOK
  <2> QED
    BY <2>5, <2>6, <2>7, <2>8, <2>9 DEF Apart
<1>3. ASSUME NEW r \in Run, RuntimeStep(r) PROVE Apart'
  <2>1. UNCHANGED <<twice, command, handling, stray, runtime>>
    BY <1>3 DEF RuntimeStep, Work, Ready, TerminalFrame
  <2> QED
    BY <1>i, <1>k, <2>1 DEF Apart
<1>4. ASSUME NEW r \in Run, OrphanExit(r) PROVE Apart'
  <2>1. UNCHANGED <<twice, command, handling, stray>> /\ runtime' = [runtime EXCEPT ![r] = "no"]
    BY <1>4 DEF OrphanExit
  <2> QED
    BY <1>i, <1>k, <2>1 DEF Apart, TypeOK
<1>5. CASE Crash
  <2>1. twice' = twice
    BY <1>5 DEF Crash
  <2> QED
    BY <1>i, <1>5, <2>1, CrashFacts DEF Apart
<1>6. CASE Restart
  <2>1. UNCHANGED <<twice, command, handling, stray, runtime>>
    BY <1>6 DEF Restart
  <2> QED
    BY <1>i, <1>k, <2>1 DEF Apart
<1>7. CASE Passes
  <2>1. Aside
    BY <1>i, <1>7, PassesFacts
  <2>2. ASSUME NEW r \in Run \ twice'
        PROVE  /\ r \notin stray' /\ runtime'[r] \notin {"loose", "stranded"}
               /\ Starting(r)' => command'[r] # "acked" /\ Alone(r)'
    <3>1. r \in Run \ twice /\ command' = command
      BY <2>1 DEF Aside
    <3>2. r \notin stray /\ runtime[r] \notin {"loose", "stranded"}
      BY <1>i, <3>1 DEF Apart
    <3>3. Starting(r) => command[r] # "acked" /\ Alone(r)
      BY <1>i, <3>1 DEF Apart
    <3>4. Starting(r) => r \notin handles
      BY <1>i, <3>3 DEF Starts
    <3>5. Starting(r) => runtime[r] # "child"
      BY <1>i, <3>4 DEF Table
    <3>6. r \notin stray' /\ runtime'[r] \in {runtime[r], "no", "loose"} /\ (runtime'[r] = "loose" =>
             runtime[r] = "loose" \/ (runtime[r] = "child" /\ (r \in stray \/ Starting(r))))
      BY <2>1, <3>2 DEF Aside
    <3>7. \A t \in Slot : handling[r][t] = "no" => handling'[r][t] = "no"
      BY <2>1 DEF Aside
    <3>8. Starting(r)' <=> Starting(r)
      BY <2>1, StartingPassed
    <3>9. Alone(r) => Alone(r)'
      BY <3>7
    <3> QED
      BY <3>1, <3>2, <3>3, <3>5, <3>6, <3>8, <3>9
  <2> QED
    BY <2>2 DEF Apart
<1> QED
  BY <1>1, <1>2, <1>3, <1>4, <1>5, <1>6, <1>7 DEF Next, Passes

\* Every step keeps that a session somebody knows of is of a Run that was answered.
LEMMA ResumesStep ==
    ASSUME IInv, Next
    PROVE  Resumes'
<1> USE DEF hubVars, storeVars, diskVars, procVars, runVars, factVars, memoryVars, boundVars, pastVars
<1>i. TypeOK /\ Table /\ Starts /\ Resumes
  BY DEF IInv
<1>m. ASSUME blocked' = blocked, known \subseteq known' PROVE \A r \in Run : MayStart(r) => MayStart(r)'
  BY <1>m, MayStartKept
<1>n. known \subseteq Run
  BY <1>i DEF TypeOK
<1>k. ASSUME UNCHANGED <<blocked, known, facts>>, ready' \subseteq ready, Known,
             \A r \in known : command[r] = "acked" => command'[r] = "acked"
      PROVE  Resumes'
  BY <1>i, <1>k, <1>m, <1>n DEF Resumes, Known
<1>u. UNCHANGED <<task, kept>> => Known
  BY <1>i DEF Resumes, Known
<1>1. ASSUME NEW r \in Run, NEW s \in Slot, Deliver(r, s) PROVE Resumes'
  <2>1. /\ \A x \in Run : task'[x] \in {task[x], NoTask}
        /\ \A x \in Run : facts'[x] = "ready" => facts[x] = "ready"
    BY <1>i, <1>1, DeliverFacts, ReopenedFacts DEF TypeOK
  <2>2. /\ UNCHANGED <<blocked, known, ready, kept>> /\ command' = [command EXCEPT ![r] = "recorded"]
        /\ command[r] # "acked"
    BY <1>1 DEF Deliver
  <2>3. \A x \in Run : task'[x].ready => task[x].ready
    BY <2>1 DEF NoTask
  <2>4. \A x \in known : command'[x] = "acked" /\ MayStart(x)'
    BY <1>i, <1>m, <1>n, <2>2 DEF TypeOK, Resumes
  <2> QED
    BY <1>i, <2>1, <2>2, <2>3, <2>4 DEF Resumes
<1>2. ASSUME NEW r \in Run, NEW s \in Slot, StartStep(r, s) PROVE Resumes'
  <2>1. CASE Prepare(r, s)
    BY <1>k, <1>u, <2>1 DEF Prepare
  <2>2. CASE Register(r, s)
    <3>1. Known
      BY <1>i, <2>2, RegisterFacts, WroteKnown
    <3> QED
      BY <1>i, <1>k, <2>2, <3>1 DEF Register, TypeOK
  <2>3. CASE Refuse(r, s)
    <3>1. Known
      BY <1>i, <2>3, RefuseFacts, WroteKnown
    <3> QED
      BY <1>i, <1>k, <2>3, <3>1 DEF Refuse, TypeOK
  <2> QED
    BY <1>2, <2>1, <2>2, <2>3 DEF StartStep
<1>3. ASSUME NEW r \in Run, RuntimeStep(r) PROVE Resumes'
  <2>1. CASE Ready(r)
    <3>1. \A x \in Run : x # r => task'[x] = task[x] /\ facts'[x] = facts[x]
      BY <1>i, <2>1, ReadyFacts
    <3>2. /\ UNCHANGED <<blocked, command, kept>> /\ known' = known \union {r}
          /\ ready' = ready \union {r} /\ projectors[r] = "new"
      BY <2>1 DEF Ready
    <3>3. command[r] = "acked" /\ MayStart(r)
      BY <1>i, <3>2 DEF Starts
    <3>4. \A x \in known' : command'[x] = "acked" /\ MayStart(x)'
      BY <1>i, <1>m, <1>n, <3>2, <3>3 DEF Resumes
    <3> QED
      BY <1>i, <3>1, <3>2, <3>4 DEF Resumes
  <2>2. CASE Work(r)
    BY <1>k, <1>u, <2>2 DEF Work
  <2>3. CASE TerminalFrame(r)
    <3>1. Known
      BY <1>i, <2>3, PutWrote, WroteKnown DEF TerminalFrame
    <3> QED
      BY <1>k, <2>3, <3>1 DEF TerminalFrame
  <2> QED
    BY <1>3, <2>1, <2>2, <2>3 DEF RuntimeStep
<1>4. ASSUME NEW r \in Run, OrphanExit(r) PROVE Resumes'
  BY <1>k, <1>u, <1>4 DEF OrphanExit
<1>5. CASE Crash
  <2>1. Known
    BY <1>i, <1>5 DEF Crash, Known, Resumes
  <2>2. UNCHANGED <<blocked, known, facts>> /\ ready' \subseteq ready
    BY <1>5 DEF Crash
  <2> QED
    BY <1>i, <1>k, <1>n, <1>5, <2>1, <2>2, CrashFacts
<1>6. CASE Restart
  BY <1>k, <1>u, <1>6 DEF Restart
<1>7. CASE Passes
  <2>1. Aside /\ Passed(handles', rows')
    BY <1>i, <1>7, PassesFacts
  <2>2. Known
    BY <1>i, <2>1, PassedKnown
  <2> QED
    BY <1>k, <2>1, <2>2 DEF Aside
<1> QED
  BY <1>1, <1>2, <1>3, <1>4, <1>5, <1>6, <1>7 DEF Next, Passes

\* A session that goes was no longer kept for anybody.
LEMMA NotMissed ==
    ASSUME Resumes, NEW r \in known \ blocked, Missed(r)
    PROVE  \E q \in blocked : SameHome(q, r) /\ q \in known
<1>1. PICK y \in blocked : SameHome(y, r) /\ (Owns(y) \/ y \in known)
  BY DEF Missed
<1>2. MayStart(r)
  BY DEF Resumes
<1> QED
  BY <1>1, <1>2 DEF MayStart, Owns, SameHome

\* Every step keeps the session of a Run that can be resumed.
LEMMA SessionStep ==
    ASSUME IInv, Next
    PROVE  SourceSessionKept'
<1> USE DEF SourceSessionKept, SameHome, hubVars, storeVars, diskVars, procVars, runVars, factVars, memoryVars,
            boundVars, pastVars
<1>i. TypeOK /\ Table /\ Resumes /\ SourceSessionKept
  BY DEF IInv
<1>1. ASSUME NEW r \in Run, NEW s \in Slot, Deliver(r, s) PROVE SourceSessionKept'
  BY <1>i, <1>1 DEF Deliver
<1>2. ASSUME NEW r \in Run, NEW s \in Slot, StartStep(r, s) PROVE SourceSessionKept'
  <2>1. CASE Prepare(r, s)
    BY <1>i, <2>1 DEF Prepare
  <2>2. CASE Register(r, s)
    BY <1>i, <2>2 DEF Register
  <2>3. CASE Refuse(r, s)
    <3>1. UNCHANGED <<blocked, known>> /\ (Refused(r) \/ UNCHANGED session)
      BY <1>i, <2>3, RefuseFacts DEF Refuse
    <3>2. ASSUME Refused(r), NEW x \in session \ session' PROVE Missed(x)
      <4>1. SameHome(x, r) /\ (Owns(r) \/ KnownReady(r)) /\ r \in blocked
        BY <1>i, <3>2, RefusedFacts
      <4>2. KnownReady(r) => r \in known
        BY <1>i DEF Resumes, KnownReady
      <4> QED
        BY <4>1, <4>2 DEF Missed
    <3> QED
      BY <1>i, <3>1, <3>2, NotMissed
  <2> QED
    BY <1>2, <2>1, <2>2, <2>3 DEF StartStep
<1>3. ASSUME NEW r \in Run, RuntimeStep(r) PROVE SourceSessionKept'
  <2>1. CASE Ready(r)
    BY <1>i, <2>1 DEF Ready
  <2>2. CASE Work(r)
    BY <1>i, <2>2 DEF Work
  <2>3. CASE TerminalFrame(r)
    BY <1>i, <2>3 DEF TerminalFrame
  <2> QED
    BY <1>3, <2>1, <2>2, <2>3 DEF RuntimeStep
<1>4. ASSUME NEW r \in Run, OrphanExit(r) PROVE SourceSessionKept'
  BY <1>i, <1>4 DEF OrphanExit
<1>5. CASE Crash
  BY <1>i, <1>5 DEF Crash
<1>6. CASE Restart
  BY <1>i, <1>6 DEF Restart
<1>7. CASE Passes
  <2>1. UNCHANGED <<blocked, known>> /\ Passed(handles', rows')
    BY <1>i, <1>7, PassesFacts DEF Aside
  <2>2. \A r \in session \ session' : Missed(r)
    BY <1>i, <2>1, PassedSession
  <2> QED
    BY <1>i, <2>1, <2>2, NotMissed
<1> QED
  BY <1>1, <1>2, <1>3, <1>4, <1>5, <1>6, <1>7 DEF Next, Passes

\* What is put into the queue outside a pass is not done by that.
LEMMA WroteState ==
    ASSUME TypeOK, Wrote
    PROVE  \A r \in Run : task'[r].state = "done" <=> task[r].state = "done"
BY DEF Wrote, From, Open

\* A task that was done stays what it was.
LEMMA WroteDone ==
    ASSUME TypeOK, Wrote, NEW r \in Run, task'[r].state = "done"
    PROVE  task[r].state = "done" /\ (task'[r].ready <=> task[r].ready)
BY DEF Wrote, From, Open

\* What a pass does with a task that is done, or that it finishes.
LEMMA PassedDone ==
    ASSUME TypeOK, NEW managed, NEW table, Passed(managed, table), NEW r \in Run, task'[r].state = "done"
    PROVE  \/ task[r].state = "done" /\ (task'[r].ready <=> task[r].ready)
           \/ /\ task[r].state # "done" /\ ~Starting(r) /\ r \notin context'
              /\ Owns(r) \/ task'[r].ready => r \notin spill' /\ (r \in blocked => r \notin session')
<1>1. PICK q \in Queues : From(q) /\ PassOn(q, managed, table, r)
  BY DEF Passed
<1>2. /\ q.task[r].state = "done" => task[r].state = "done" /\ q.task[r] = task[r]
      /\ task[r].state = "done" => q.task[r] = task[r]
  BY <1>1 DEF From
<1>3. CASE q.task[r].state = "done"
  <2>1. task'[r] = q.task[r]
    BY <1>1, <1>3 DEF PassOn, Origin, FromKept, Open
  <2> QED
    BY <1>2, <1>3, <2>1
<1>4. CASE q.task[r].state # "done"
  BY <1>1, <1>2, <1>4 DEF PassOn, ReachesHome
<1> QED
  BY <1>3, <1>4

\* Where no task becomes done and no delivery begins, what has begun stays begun.
LEMMA BegunKept ==
    ASSUME Begun,
           \A r \in Run : task'[r].state = "done" => task[r].state = "done",
           \A r \in Run : facts[r] # "none" => facts'[r] # "none",
           \A r \in Run, s \in Slot :
              handling'[r][s] \in {"begun", "prepared", "missed"} =>
                 handling[r][s] \in {"begun", "prepared", "missed"}
    PROVE  Begun'
BY DEF Begun

\* Every step keeps the facts of what has begun.
LEMMA BegunStep ==
    ASSUME IInv, Next
    PROVE  Begun'
<1> USE DEF hubVars, storeVars, diskVars, procVars, runVars, factVars, memoryVars, boundVars, pastVars
<1>i. TypeOK /\ Table /\ Begun
  BY DEF IInv
<1>1. ASSUME NEW r \in Run, NEW s \in Slot, Deliver(r, s) PROVE Begun'
  <2>1. \A x \in Run : Reopened(r)[x] \in {task[x], NoTask}
    BY <1>i, ReopenedFacts
  <2>2. /\ task' \in {task, Reopened(r)}
        /\ \/ /\ task' = Reopened(r) /\ At(r, s, "begun")
              /\ facts' = [facts EXCEPT ![r] = IF @ = "none" THEN "written" ELSE @]
           \/ facts' = facts /\ At(r, s, "refused")
    BY <1>i, <1>1, DeliverFacts
  <2>3. \A x \in Run : /\ task'[x].state = "done" => task[x].state = "done"
                       /\ facts[x] # "none" => facts'[x] # "none"
    BY <1>i, <2>1, <2>2 DEF TypeOK, NoTask
  <2>4. CASE facts' = facts /\ At(r, s, "refused")
    BY <1>i, <2>3, <2>4, AtFacts, BegunKept DEF Stage
  <2>5. CASE /\ task' = Reopened(r) /\ At(r, s, "begun")
             /\ facts' = [facts EXCEPT ![r] = IF @ = "none" THEN "written" ELSE @]
    <3>1. facts'[r] # "none" /\ task'[r].state # "done"
      BY <1>i, <2>5, ReopenedFacts DEF TypeOK
    <3>2. \A x \in Run, t \in Slot : <<x, t>> # <<r, s>> => handling'[x][t] = handling[x][t]
      BY <1>i, <2>5, AtFacts DEF Stage
    <3> QED
      BY <1>i, <2>3, <3>1, <3>2 DEF Begun
  <2> QED
    BY <2>2, <2>4, <2>5
<1>2. ASSUME NEW r \in Run, NEW s \in Slot, StartStep(r, s) PROVE Begun'
  <2>1. PICK stage \in {"no", "prepared"} : At(r, s, stage) /\ (stage = "prepared" => handling[r][s] = "begun")
    BY <1>2 DEF StartStep, Prepare, Refuse, Register
  <2>2. \A x \in Run, t \in Slot :
          handling'[x][t] \in {"begun", "prepared", "missed"} =>
             handling[x][t] \in {"begun", "prepared", "missed"}
    BY <1>i, <2>1, AtFacts DEF Stage
  <2>3. facts' = facts
    BY <1>2 DEF StartStep, Prepare, Refuse, Register
  <2>4. \A x \in Run : task'[x].state = "done" => task[x].state = "done"
    <3>1. CASE Prepare(r, s)
      BY <3>1 DEF Prepare
    <3>2. CASE Register(r, s)
      BY <1>i, <3>2, RegisterFacts, WroteState
    <3>3. CASE Refuse(r, s)
      BY <1>i, <3>3, RefuseFacts, WroteState
    <3> QED
      BY <1>2, <3>1, <3>2, <3>3 DEF StartStep
  <2> QED
    BY <1>i, <2>2, <2>3, <2>4, BegunKept
<1>3. ASSUME NEW r \in Run, RuntimeStep(r) PROVE Begun'
  <2>1. handling' = handling
    BY <1>3 DEF RuntimeStep, Work, Ready, TerminalFrame
  <2>2. CASE Ready(r)
    <3>1. \A x \in Run : task'[x].state = task[x].state
      BY <1>i, <2>2, ReadyFacts
    <3>2. \A x \in Run : facts[x] # "none" => facts'[x] # "none"
      BY <1>i, <2>2 DEF Ready, TypeOK
    <3> QED
      BY <1>i, <2>1, <3>1, <3>2, BegunKept
  <2>3. CASE Work(r)
    BY <1>i, <2>1, <2>3 DEF Work, Begun
  <2>4. CASE TerminalFrame(r)
    <3>1. \A x \in Run : task'[x].state = "done" => task[x].state = "done"
      BY <1>i, <2>4, PutWrote, WroteState DEF TerminalFrame
    <3>2. facts' = facts
      BY <2>4 DEF TerminalFrame
    <3> QED
      BY <1>i, <2>1, <3>1, <3>2, BegunKept
  <2> QED
    BY <1>3, <2>2, <2>3, <2>4 DEF RuntimeStep
<1>4. ASSUME NEW r \in Run, OrphanExit(r) PROVE Begun'
  BY <1>i, <1>4 DEF OrphanExit, Begun
<1>5. CASE Crash
  BY <1>5 DEF Crash, Begun, Idle
<1>6. CASE Restart
  BY <1>i, <1>6 DEF Restart, Begun
<1>7. CASE Passes
  <2>1. Aside /\ Passed(handles', rows')
    BY <1>i, <1>7, PassesFacts
  <2>2. ASSUME NEW r \in Run, NEW s \in Slot, handling'[r][s] \in {"begun", "prepared", "missed"}
        PROVE  facts'[r] # "none" /\ task'[r].state # "done"
    <3>1. handling[r][s] \in {"begun", "prepared", "missed"} /\ facts' = facts
      BY <2>1, <2>2 DEF Aside
    <3>2. facts[r] # "none" /\ task[r].state # "done" /\ Starting(r)
      BY <1>i, <3>1 DEF Begun, Starting
    <3> QED
      BY <1>i, <2>1, <3>1, <3>2, PassedDone
  <2> QED
    BY <2>2 DEF Begun
<1> QED
  BY <1>1, <1>2, <1>3, <1>4, <1>5, <1>6, <1>7 DEF Next, Passes

\* Where no task becomes done, only a Runtime that is entered can be seen at one.
LEMMA SeenKept ==
    ASSUME TypeOK, Seen, unseen' = unseen,
           \A r \in Run : task'[r].state = "done" => task[r].state = "done",
           \A r \in Run : runtime'[r] # "no" => runtime[r] # "no" \/ task'[r].state # "done"
    PROVE  Seen'
BY DEF Seen, Alive

\* Every step keeps that a task done has been seen with its Runtime, or has none.
LEMMA SeenStep ==
    ASSUME IInv, Next
    PROVE  Seen'
<1> USE DEF hubVars, storeVars, diskVars, procVars, runVars, factVars, memoryVars, boundVars, pastVars
<1>i. TypeOK /\ Table /\ Begun /\ Seen
  BY DEF IInv
<1>1. ASSUME NEW r \in Run, NEW s \in Slot, Deliver(r, s) PROVE Seen'
  <2>1. \A x \in Run : task'[x] \in {task[x], NoTask}
    BY <1>i, <1>1, DeliverFacts, ReopenedFacts
  <2>2. UNCHANGED <<runtime, unseen>>
    BY <1>1 DEF Deliver
  <2> QED
    BY <1>i, <2>1, <2>2, SeenKept DEF NoTask
<1>2. ASSUME NEW r \in Run, NEW s \in Slot, StartStep(r, s) PROVE Seen'
  <2>1. CASE Prepare(r, s)
    BY <1>i, <2>1 DEF Prepare, Seen, Alive
  <2>2. CASE Register(r, s)
    <3>1. \A x \in Run : task'[x].state = "done" <=> task[x].state = "done"
      BY <1>i, <2>2, RegisterFacts, WroteState
    <3>2. task[r].state # "done"
      BY <1>i, <2>2 DEF Register, Begun
    <3>3. unseen' = unseen /\ \A x \in Run : x # r => runtime'[x] = runtime[x]
      BY <1>i, <2>2 DEF Register, TypeOK
    <3> QED
      BY <1>i, <3>1, <3>2, <3>3, SeenKept
  <2>3. CASE Refuse(r, s)
    <3>1. \A x \in Run : task'[x].state = "done" <=> task[x].state = "done"
      BY <1>i, <2>3, RefuseFacts, WroteState
    <3>2. UNCHANGED <<runtime, unseen>>
      BY <2>3 DEF Refuse
    <3> QED
      BY <1>i, <3>1, <3>2, SeenKept
  <2> QED
    BY <1>2, <2>1, <2>2, <2>3 DEF StartStep
<1>3. ASSUME NEW r \in Run, RuntimeStep(r) PROVE Seen'
  <2>1. UNCHANGED <<runtime, unseen>>
    BY <1>3 DEF RuntimeStep, Work, Ready, TerminalFrame
  <2>2. \A x \in Run : task'[x].state = "done" <=> task[x].state = "done"
    <3>1. CASE Ready(r)
      BY <1>i, <3>1, ReadyFacts
    <3>2. CASE Work(r)
      BY <3>2 DEF Work
    <3>3. CASE TerminalFrame(r)
      BY <1>i, <3>3, PutWrote, WroteState DEF TerminalFrame
    <3> QED
      BY <1>3, <3>1, <3>2, <3>3 DEF RuntimeStep
  <2> QED
    BY <1>i, <2>1, <2>2, SeenKept
<1>4. ASSUME NEW r \in Run, OrphanExit(r) PROVE Seen'
  BY <1>i, <1>4, SeenKept DEF OrphanExit, TypeOK
<1>5. CASE Crash
  <2>1. UNCHANGED <<task, unseen>>
    BY <1>5 DEF Crash
  <2> QED
    BY <1>i, <1>5, <2>1, CrashFacts, SeenKept
<1>6. CASE Restart
  BY <1>i, <1>6 DEF Restart, Seen, Alive
<1>7. CASE Passes
  <2>1. Aside /\ Passed(handles', rows') /\ Noted
    BY <1>i, <1>7, PassesFacts
  <2>2. ASSUME NEW r \in Run \ unseen', task'[r].state = "done"
        PROVE  r \notin Alive'
    <3>1. CASE task[r].state # "done"
      BY <2>1, <2>2, <3>1 DEF Noted
    <3>2. CASE task[r].state = "done"
      <4>1. r \notin unseen
        BY <2>1, <2>2, <3>2 DEF Noted
      <4> QED
        BY <1>i, <2>1, <3>2, <4>1 DEF Seen, Alive, Aside
    <3> QED
      BY <3>1, <3>2
  <2> QED
    BY <2>2 DEF Seen
<1> QED
  BY <1>1, <1>2, <1>3, <1>4, <1>5, <1>6, <1>7 DEF Next, Passes

\* Where nothing comes to the disk and no task is done by the step, the tasks that are
\* done are clean.
LEMMA CleanKept ==
    ASSUME TypeOK, DoneIsClean, blocked' = blocked, unseen' = unseen,
           context' \subseteq context, session' \subseteq session, spill' \subseteq spill,
           \A r \in Run : facts[r] # "none" => facts'[r] # "none",
           \A r \in Run : task'[r].state = "done" =>
              task[r].state = "done" /\ (task'[r].ready => task[r].ready)
    PROVE  DoneIsClean'
BY DEF DoneIsClean, Owns

\* Every step keeps that a task done is done with.
LEMMA CleanStep ==
    ASSUME IInv, Next
    PROVE  DoneIsClean'
<1> USE DEF hubVars, storeVars, diskVars, procVars, runVars, factVars, memoryVars, boundVars, pastVars
<1>i. TypeOK /\ Table /\ Begun /\ Seen /\ DoneIsClean
  BY DEF IInv
<1>1. ASSUME NEW r \in Run, NEW s \in Slot, Deliver(r, s) PROVE DoneIsClean'
  <2>1. \A x \in Run : task'[x] \in {task[x], NoTask}
    BY <1>i, <1>1, DeliverFacts, ReopenedFacts
  <2>2. UNCHANGED <<blocked, unseen, context, session, spill>>
    BY <1>1 DEF Deliver
  <2>3. \A x \in Run : facts[x] # "none" => facts'[x] # "none"
    BY <1>i, <1>1, DeliverFacts DEF TypeOK
  <2> QED
    BY <1>i, <2>1, <2>2, <2>3, CleanKept DEF NoTask
<1>2. ASSUME NEW r \in Run, NEW s \in Slot, StartStep(r, s) PROVE DoneIsClean'
  <2>1. CASE Prepare(r, s)
    <3>1. facts[r] # "none" /\ task[r].state # "done"
      BY <1>i, <2>1 DEF Prepare, Begun
    <3> QED
      BY <1>i, <2>1, <3>1 DEF Prepare, DoneIsClean, Owns
  <2>2. CASE Register(r, s)
    <3>1. \A x \in Run : task'[x].state = "done" =>
            task[x].state = "done" /\ (task'[x].ready => task[x].ready)
      BY <1>i, <2>2, RegisterFacts, WroteDone
    <3>2. UNCHANGED <<blocked, unseen, facts, context, session, spill>>
      BY <2>2 DEF Register
    <3> QED
      BY <1>i, <3>1, <3>2, CleanKept
  <2>3. CASE Refuse(r, s)
    <3>1. \A x \in Run : task'[x].state = "done" =>
            task[x].state = "done" /\ (task'[x].ready => task[x].ready)
      BY <1>i, <2>3, RefuseFacts, WroteDone
    <3>2. context' \subseteq context /\ session' \subseteq session /\ spill' \subseteq spill
      BY <1>i, <2>3, RefuseFacts
    <3>3. UNCHANGED <<blocked, unseen, facts>>
      BY <2>3 DEF Refuse
    <3> QED
      BY <1>i, <3>1, <3>2, <3>3, CleanKept
  <2> QED
    BY <1>2, <2>1, <2>2, <2>3 DEF StartStep
<1>3. ASSUME NEW r \in Run, RuntimeStep(r) PROVE DoneIsClean'
  <2>1. CASE Ready(r)
    <3>1. UNCHANGED <<blocked, unseen, context, session, spill>>
      BY <2>1 DEF Ready
    <3>2. \A x \in Run : facts[x] # "none" => facts'[x] # "none"
      BY <1>i, <2>1 DEF Ready, TypeOK
    <3>3. ASSUME NEW x \in Run, task'[x].state = "done"
          PROVE  task[x].state = "done" /\ (task'[x].ready => task[x].ready)
      <4>1. task[x].state = "done" /\ (x # r => task'[x] = task[x])
        BY <1>i, <2>1, <3>3, ReadyFacts
      <4>2. x = r => (task'[x].ready => task[x].ready)
        BY <1>i, <2>1, <4>1 DEF Ready, TaskReady, TypeOK, Open
      <4> QED
        BY <4>1, <4>2
    <3> QED
      BY <1>i, <3>1, <3>2, <3>3, CleanKept
  <2>2. CASE Work(r)
    <3>1. r \in Alive /\ session' = session \union {r} /\ spill' = spill \union {r}
      BY <2>2 DEF Work
    <3>2. UNCHANGED <<blocked, facts, task, context, unseen>>
      BY <2>2 DEF Work
    <3>3. task[r].state = "done" => r \in unseen
      BY <1>i, <3>1 DEF Seen
    <3> QED
      BY <1>i, <3>1, <3>2, <3>3 DEF DoneIsClean, Owns
  <2>3. CASE TerminalFrame(r)
    <3>1. \A x \in Run : task'[x].state = "done" =>
            task[x].state = "done" /\ (task'[x].ready => task[x].ready)
      BY <1>i, <2>3, PutWrote, WroteDone DEF TerminalFrame
    <3>2. UNCHANGED <<blocked, unseen, facts, context, session, spill>>
      BY <2>3 DEF TerminalFrame
    <3> QED
      BY <1>i, <3>1, <3>2, CleanKept
  <2> QED
    BY <1>3, <2>1, <2>2, <2>3 DEF RuntimeStep
<1>4. ASSUME NEW r \in Run, OrphanExit(r) PROVE DoneIsClean'
  BY <1>i, <1>4 DEF OrphanExit, DoneIsClean, Owns
<1>5. CASE Crash
  BY <1>i, <1>5 DEF Crash, DoneIsClean, Owns
<1>6. CASE Restart
  BY <1>i, <1>6 DEF Restart, DoneIsClean, Owns
<1>7. CASE Passes
  <2>1. Aside /\ Passed(handles', rows') /\ Noted
    BY <1>i, <1>7, PassesFacts
  <2>2. context' \subseteq context /\ session' \subseteq session /\ spill' \subseteq spill
    BY <2>1 DEF Passed
  <2>3. UNCHANGED <<blocked, facts>>
    BY <2>1 DEF Aside
  <2>4. ASSUME NEW r \in Run, task'[r].state = "done"
        PROVE  /\ r \notin context'
               /\ r \notin unseen' /\ (Owns(r) \/ task'[r].ready) =>
                     r \notin spill' /\ (r \in blocked => r \notin session')
    <3>1. CASE task[r].state = "done" /\ (task'[r].ready <=> task[r].ready)
      <4>1. r \notin unseen' => r \notin unseen
        BY <2>1, <3>1 DEF Noted
      <4> QED
        BY <1>i, <2>2, <3>1, <4>1 DEF DoneIsClean
    <3>2. CASE /\ task[r].state # "done" /\ ~Starting(r) /\ r \notin context'
               /\ Owns(r) \/ task'[r].ready => r \notin spill' /\ (r \in blocked => r \notin session')
      BY <3>2
    <3> QED
      BY <1>i, <2>1, <2>4, <3>1, <3>2, PassedDone
  <2>5. \A r \in Run : r \in context' => facts'[r] # "none"
    BY <1>i, <2>2, <2>3 DEF DoneIsClean
  <2> QED
    BY <2>3, <2>4, <2>5 DEF DoneIsClean, Owns
<1> QED
  BY <1>1, <1>2, <1>3, <1>4, <1>5, <1>6, <1>7 DEF Next, Passes

\* What KeptWhileUsed says of a step.
KeptStep ==
    \A r \in Run : phase = "up" /\ Undisturbed(r) =>
        /\ r \in Alive /\ r \in Alive' =>
            /\ r \in context => r \in context'
            /\ r \in session => r \in session'
            /\ r \in spill => r \in spill'
        /\ Fetched(r) /\ Fetched(r)' => (r \in context => r \in context')

\* A Runtime that is there, of a Run none of whose deliveries have met, is in the table
\* and no delivery of the Run is in handling.
LEMMA AtWork ==
    ASSUME IInv, NEW r \in Run \ twice, r \in Alive, phase = "up"
    PROVE  r \in handles /\ ~Starting(r) /\ MayStart(r)
<1>1. TypeOK /\ Table /\ Starts /\ Apart
  BY DEF IInv
<1>2. runtime[r] = "child"
  BY <1>1 DEF Alive, Apart, Table, TypeOK
<1> QED
  BY <1>1, <1>2 DEF Table, Starts, Apart

\* No step takes from a home what a Runtime at work in it uses.
LEMMA UsedStep ==
    ASSUME IInv, Next
    PROVE  KeptStep
<1> USE DEF hubVars, storeVars, diskVars, procVars, runVars, factVars, memoryVars, boundVars, pastVars
<1>i. TypeOK /\ Table /\ Starts /\ Apart /\ Resumes
  BY DEF IInv
<1>k. context \subseteq context' /\ session \subseteq session' /\ spill \subseteq spill' => KeptStep
  BY DEF KeptStep
<1>1. ASSUME NEW r \in Run, NEW s \in Slot, Deliver(r, s) PROVE KeptStep
  BY <1>k, <1>1 DEF Deliver
<1>2. ASSUME NEW r \in Run, NEW s \in Slot, StartStep(r, s) PROVE KeptStep
  <2>1. CASE Prepare(r, s)
    BY <1>k, <2>1 DEF Prepare
  <2>2. CASE Register(r, s)
    BY <1>k, <2>2 DEF Register
  <2>3. CASE Refuse(r, s)
    <3>1. handling[r][s] # "no" /\ Starting(r) /\ At(r, s, "no")
      BY <2>3 DEF Refuse, Starting
    <3>2. /\ context' \in {context, context \ {r}}
          /\ UNCHANGED <<session, spill>> \/ Refused(r)
      BY <1>i, <2>3, RefuseFacts
    <3>3. ASSUME NEW x \in Run, phase = "up", Undisturbed(x), x \in Alive
          PROVE  /\ x \in context => x \in context'
                 /\ x \notin (spill \ spill') \union (session \ session')
      <4>1. x \notin twice
        BY <3>3 DEF Undisturbed, SameHome
      <4>2. x \in handles /\ ~Starting(x) /\ MayStart(x)
        BY <3>3, <4>1, AtWork
      <4>3. x # r
        BY <3>1, <4>2
      <4>4. SUFFICES ASSUME Refused(r), x \in (spill \ spill') \union (session \ session')
                     PROVE  FALSE
        BY <3>2, <4>3
      <4>5. SameHome(x, r) /\ (Owns(r) \/ KnownReady(r))
        BY <1>i, <4>4, RefusedFacts
      <4>6. r \notin twice
        BY <3>3, <4>5 DEF Undisturbed, SameHome
      <4>7. command[r] # "acked"
        BY <1>i, <3>1, <4>6 DEF Apart
      <4>8. r \notin known /\ ~KnownReady(r)
        BY <1>i, <4>7 DEF Resumes, KnownReady
      <4> QED
        BY <4>2, <4>3, <4>5, <4>8 DEF SameHome, Owns, MayStart
    <3>4. ASSUME NEW x \in Run, Undisturbed(x), Fetched(x)', x \in context
          PROVE  x \in context'
      <4>1. x \notin twice
        BY <3>4 DEF Undisturbed, SameHome
      <4>2. x # r
        <5>1. /\ handling'[r][s] = "no"
              /\ \A t \in Slot : t # s => handling'[r][t] = handling[r][t]
          BY <1>i, <3>1, AtFacts DEF Stage
        <5>2. r \notin twice => \A t \in Slot \ {s} : handling[r][t] = "no"
          BY <1>i, <3>1, OneDelivery
        <5> QED
          BY <3>4, <4>1, <5>1, <5>2 DEF Fetched
      <4> QED
        BY <3>2, <3>4, <4>2
    <3> QED
      BY <3>3, <3>4 DEF KeptStep
  <2> QED
    BY <1>2, <2>1, <2>2, <2>3 DEF StartStep
<1>3. ASSUME NEW r \in Run, RuntimeStep(r) PROVE KeptStep
  BY <1>k, <1>3 DEF RuntimeStep, Work, Ready, TerminalFrame
<1>4. ASSUME NEW r \in Run, OrphanExit(r) PROVE KeptStep
  BY <1>k, <1>4 DEF OrphanExit
<1>5. CASE Crash
  BY <1>k, <1>5 DEF Crash
<1>6. CASE Restart
  BY <1>k, <1>6 DEF Restart
<1>7. CASE Passes
  <2>1. Aside /\ Passed(handles', rows')
    BY <1>i, <1>7, PassesFacts
  <2>2. PICK q \in Queues : \A r \in Run : PassOn(q, handles', rows', r)
    BY <2>1 DEF Passed
  <2>3. ASSUME NEW r \in Run, phase = "up", Undisturbed(r), r \in Alive, r \in Alive'
        PROVE  r \in handles' \intersect rows'
    <3>1. r \notin twice
      BY <2>3 DEF Undisturbed, SameHome
    <3>2. r \in handles /\ ~Starting(r) /\ r \notin stray
      BY <1>i, <2>3, <3>1, AtWork DEF Apart
    <3>3. r \in handles'
      BY <2>1, <2>3, <3>2 DEF Aside, Alive
    <3> QED
      BY <2>1, <3>3 DEF Aside
  <2>4. \A r \in Run : Fetched(r) => Starting(r)
    BY DEF Fetched, Starting
  <2> QED
    BY <2>2, <2>3, <2>4 DEF KeptStep, PassOn
<1> QED
  BY <1>1, <1>2, <1>3, <1>4, <1>5, <1>6, <1>7 DEF Next, Passes

\* A step of anything else keeps everything.
LEMMA StutterStep ==
    ASSUME IInv, UNCHANGED vars
    PROVE  IInv' /\ KeptStep
<1> USE DEF vars, hubVars, storeVars, diskVars, procVars, runVars, factVars, memoryVars, boundVars, pastVars
<1>1. (TypeOK /\ Table)'
  BY DEF IInv, TypeOK, Table
<1>2. (Starts /\ Apart)'
  BY DEF IInv, Starts, Apart, Starting, MayStart, Owns
<1>3. (Resumes /\ SourceSessionKept)'
  BY DEF IInv, Resumes, MayStart, Owns, SourceSessionKept, SameHome
<1>4. (Begun /\ Seen /\ DoneIsClean)'
  BY DEF IInv, Begun, Seen, Alive, DoneIsClean, Owns
<1>5. KeptStep
  BY DEF KeptStep
<1> QED
  BY <1>1, <1>2, <1>3, <1>4, <1>5 DEF IInv

-----------------------------------------------------------------------------
(* The theorems *)

\* The invariant, for every set of Runs and homes and every bound.
THEOREM Invariance == Spec => []IInv
<1>1. Init => IInv
  BY InitProof
<1>2. IInv /\ Next => IInv'
  BY TypeStep, TableStep, StartsStep, ApartStep, ResumesStep, SessionStep, BegunStep, SeenStep, CleanStep
     DEF IInv
<1>3. IInv /\ [Next]_vars => IInv'
  BY <1>2, StutterStep
<1> QED
  BY <1>1, <1>3, PTL DEF Spec

\* Every variable has its type.
THEOREM TypeCorrect == Spec => []TypeOK
<1>1. IInv => TypeOK
  BY DEF IInv
<1> QED
  BY <1>1, Invariance, PTL

\* A session without entries is kept for whoever resumes it, until a Run with entries
\* has been in the same home: however deliveries meet, and whoever is refused.
THEOREM SourceTheorem == Spec => []SourceSessionKept
<1>1. IInv => SourceSessionKept
  BY DEF IInv
<1> QED
  BY <1>1, Invariance, PTL

\* What a Runtime that is there works with, and what was fetched for a Run that is being
\* started, is taken by nothing, once the orphans are dealt with and unless a run.start
\* of the home was in handling twice.
THEOREM KeptTheorem == Spec => KeptWhileUsed
<1>1. IInv /\ [Next]_vars => [KeptStep]_vars
  BY UsedStep
<1>2. Spec => [][KeptStep]_vars
  BY <1>1, Invariance, PTL DEF Spec
<1> QED
  BY <1>2 DEF KeptWhileUsed, KeptStep

\* A task that is done has left nothing behind, and no directory is out of the queue's
\* reach.
THEOREM DoneTheorem == Spec => []DoneIsClean
<1>1. IInv => DoneIsClean
  BY DEF IInv
<1> QED
  BY <1>1, Invariance, PTL
=============================================================================
