------------------------- MODULE TaskBillingProofs -------------------------
(***************************************************************************)
(* Proofs about TaskBilling, for any sets of tasks and actors and any      *)
(* charges, costs and numbers of troubles.  Until a query takes a task out *)
(* of a final status, a task that is not final has never been billed and   *)
(* every copy of such a row carries the charge of its submission; so the   *)
(* one actor whose guarded write ends it bills from the right quota.       *)
(***************************************************************************)
EXTENDS TaskBilling, TLAPS

Rows == [task : Tasks \cup {NoTask}, status : {"none"} \cup Active \cup Final, quota : Nat,
         settled : {"no", "yes"}, version : {"current", "old"},
         role : {"none", "poll", "sweep", "query", "worker"},
         answer : {"none"} \cup Active \cup Final]
Closing == {"refund", "settle", "saveQuota", "mark"}
Target(t) == IF cost[t] = Unmeasured \/ kind[t] \in {"suno", "legacy"} THEN base[t] ELSE cost[t]

\* An actor works on a stored task; its answer is one its place and its role allow.
Placed(a) == pc[a] # "idle" =>
    /\ mem[a].task \in Tasks /\ Stored(mem[a].task) /\ mem[a].status \in Active \cup Final
    /\ pc[a] = "work" => mem[a].status \in Active
    /\ pc[a] = "read" => mem[a].role # "sweep"
    /\ pc[a] = "answered" => mem[a].answer # "none" /\ (mem[a].role = "sweep" => mem[a].answer = "FAILURE")
    /\ pc[a] \in Closing => mem[a].answer \in Final
    /\ pc[a] \in {"answered"} \cup Closing /\ mem[a].answer = "SUCCESS" => outcome[mem[a].task] = "SUCCESS"

\* A row before its end is as submitted; a task ends once and is never given back more
\* than it was charged.
Before(t) ==
    /\ status[t] \notin Final => wins[t] = 0 /\ t \notin costSettled
    /\ status[t] \in Active => net[t] = base[t] /\ quota[t] = base[t]
    /\ status[t] = "SUCCESS" => outcome[t] = "SUCCESS"
    /\ wins[t] <= 1 /\ net[t] >= 0

\* A copy of a row before its end carries the charge of the submission.
Carries(a) ==
    pc[a] \in Reading /\ mem[a].status \in Active => mem[a].quota = base[mem[a].task] /\ mem[a].settled = "no"

\* Where a biller stands says what the task costs by now.
Bills(a) == LET t == mem[a].task IN
    pc[a] \in Closing =>
      /\ status[t] \in Final /\ (t \notin gone => status[t] = mem[a].answer)
      /\ pc[a] = "refund" => /\ mem[a].answer = "FAILURE" /\ net[t] = base[t]
                             /\ mem[a].quota = base[t] \/ (kind[t] = "legacy" /\ mem[a].quota = 0)
      /\ pc[a] = "settle" => /\ mem[a].answer = "SUCCESS" /\ net[t] = base[t] /\ mem[a].quota = base[t]
                             /\ mem[a].settled = "no" /\ kind[t] \in Metered \cup Images
      /\ pc[a] \in {"saveQuota", "mark"} =>
            /\ mem[a].answer = "FAILURE" => net[t] = 0
            /\ mem[a].answer = "SUCCESS" => net[t] = Target(t)

\* One biller at a time
Alone(a, b) == a # b /\ mem[a].task = mem[b].task => pc[a] \notin Closing \/ pc[b] \notin Closing

\* What a final status makes the task cost
Right(t) ==
    /\ status[t] = "FAILURE" /\ kind[t] # "legacy" => net[t] = 0
    /\ status[t] = "SUCCESS" => net[t] = Target(t)
After(t) == status[t] \in Final /\ Ordinary(t) /\ ~BeingBilled(t) => Right(t)

Inv ==
    /\ TypeOK
    /\ \A a \in Actors : Placed(a)
    /\ \A t \in Tasks \ reopened : Before(t) /\ After(t)
    /\ \A a \in Actors : mem[a].task \in Tasks \ reopened =>
           Carries(a) /\ Bills(a) /\ \A b \in Actors : Alone(a, b)

-----------------------------------------------------------------------------
LEMMA InitInv == Init => Inv
<1> USE TaskBillingAssumption DEF TaskBillingAssumption
<1> SUFFICES ASSUME Init PROVE Inv
  OBVIOUS
<1>1. TypeOK
  BY DEF Init, TypeOK, Nothing, Places, Reading, Unmeasured
<1>2. \A a \in Actors : pc[a] = "idle" /\ mem[a].task = NoTask
  BY DEF Init, Nothing
<1>3. \A t \in Tasks : Before(t) /\ After(t)
  BY DEF Init, Before, After, Final, Active
<1> QED
  BY <1>1, <1>2, <1>3 DEF Inv, Placed

\* A step of actor a on task t leaves the other tasks and the other actors alone, though
\* it may outdate the other copies of the row.
SameTask(u) ==
    /\ status'[u] = status[u] /\ quota'[u] = quota[u] /\ net'[u] = net[u] /\ wins'[u] = wins[u]
    /\ u \in costSettled' <=> u \in costSettled
    /\ u \in reopened' <=> u \in reopened
    /\ u \in silent' <=> u \in silent
    /\ u \in gone' <=> u \in gone
    /\ u \in unpaid' <=> u \in unpaid
SameActor(b) ==
    /\ pc'[b] = pc[b] /\ mem'[b].task = mem[b].task /\ mem'[b].status = mem[b].status
    /\ mem'[b].quota = mem[b].quota /\ mem'[b].settled = mem[b].settled
    /\ mem'[b].role = mem[b].role /\ mem'[b].answer = mem[b].answer
Frame(a, t) ==
    /\ \A u \in Tasks \ {t} : SameTask(u)
    /\ \A b \in Actors \ {a} : SameActor(b)
    /\ mem[a].task \in {t, NoTask} /\ mem'[a].task \in {t, NoTask}
    /\ UNCHANGED <<kind, base, outcome, cost>>

\* On the task itself it disturbs no other actor's billing.
Calm(a, t) ==
    /\ Stored(t)'
    /\ t \in reopened => t \in reopened'
    /\ t \in gone => t \in gone'
    /\ t \notin reopened' /\ status[t] \in Final =>
         /\ status'[t] \in Final
         /\ status'[t] = status[t] \/ t \in gone'
         /\ pc'[a] \in Closing => pc[a] \in Closing
    /\ pc[a] \notin Closing => net'[t] = net[t]

\* It keeps what the invariant says of a and t.
Own(a, t) ==
    /\ Placed(a)'
    /\ t \notin reopened' =>
         /\ Before(t)'
         /\ pc'[a] # "idle" => Carries(a)' /\ Bills(a)'
         /\ \/ pc'[a] \in Closing \/ status'[t] \notin Final \/ (Ordinary(t)' => Right(t)')
            \/ /\ pc[a] \notin Closing /\ status'[t] = status[t] /\ net'[t] = net[t]
               /\ Ordinary(t)' => Ordinary(t)

StepOf(a, t) == TypeOK' /\ Frame(a, t) /\ Calm(a, t) /\ Own(a, t)

LEMMA StepKeeps ==
    ASSUME Inv, NEW a \in Actors, NEW t \in Tasks, StepOf(a, t)
    PROVE  Inv'
<1> USE TaskBillingAssumption DEF TaskBillingAssumption
<1>0. TypeOK /\ TypeOK' /\ Frame(a, t) /\ Calm(a, t) /\ Own(a, t)
  BY DEF Inv, StepOf
<1>t. /\ mem \in [Actors -> [task : Tasks \cup {NoTask},
                           status : {"none"} \cup Active \cup Final, quota : Nat,
                           settled : {"no", "yes"}, version : {"current", "old"},
                           role : {"none", "poll", "sweep", "query", "worker"},
                           answer : {"none"} \cup Active \cup Final]]
      /\ \A b \in Actors : (pc[b] = "idle" <=> mem[b].task = NoTask) /\ (pc'[b] = "idle" <=> mem'[b].task = NoTask)
  BY <1>0 DEF TypeOK
<1>1. ASSUME NEW b \in Actors PROVE Placed(b)'
  <2>1. CASE b = a
    BY <1>0, <2>1 DEF Own
  <2>2. CASE b # a /\ mem[b].task = t
    BY <1>0, <2>2 DEF Inv, Frame, SameActor, Calm, Placed
  <2>3. CASE b # a /\ mem[b].task # t
    BY <1>0, <1>t, <2>3 DEF Inv, Frame, SameActor, SameTask, Placed, Stored
  <2> QED
    BY <2>1, <2>2, <2>3
<1>2. ASSUME NEW b \in Actors \ {a}, mem'[b].task \in Tasks \ reopened' PROVE Carries(b)' /\ Bills(b)'
  <2>1. Carries(b) /\ Bills(b)
    BY <1>0, <1>2 DEF Inv, Frame, SameActor, SameTask, Calm
  <2>2. Carries(b)'
    BY <1>0, <2>1 DEF Frame, SameActor, Carries
  <2>3. CASE mem[b].task # t
    <3>1. SameTask(mem[b].task) /\ SameActor(b) /\ UNCHANGED <<kind, base, outcome, cost>>
      BY <1>0, <1>2, <2>3 DEF Frame, SameActor
    <3> QED
      BY <2>1, <2>2, <3>1 DEF SameTask, SameActor, Bills, Target
  <2>4. CASE mem[b].task = t /\ pc[b] \in Closing
    <3>1. SameActor(b) /\ UNCHANGED <<kind, base, outcome, cost>> /\ t \notin reopened' /\ t \notin reopened
      BY <1>0, <1>2, <2>4 DEF Frame, SameActor, Calm
    <3>2. pc[a] \notin Closing
      <4>1. CASE mem[a].task = t
        BY <1>2, <2>4, <3>1, <4>1 DEF Inv, Alone
      <4>2. CASE mem[a].task = NoTask
        BY <1>t, <4>2 DEF Closing
      <4> QED
        BY <1>0, <4>1, <4>2 DEF Frame
    <3>3. net'[t] = net[t] /\ status[t] \in Final /\ status'[t] \in Final
          /\ (status'[t] = status[t] \/ t \in gone') /\ (t \in gone => t \in gone')
      BY <1>0, <2>1, <2>4, <3>1, <3>2 DEF Calm, Bills
    <3>4. Bills(b)'
      BY <2>1, <2>4, <3>1, <3>3 DEF SameActor, Bills, Target
    <3> QED
      BY <2>2, <3>4
  <2>5. CASE pc[b] \notin Closing
    BY <1>0, <2>2, <2>5 DEF Frame, SameActor, Bills
  <2> QED
    BY <2>3, <2>4, <2>5
<1>3. ASSUME mem'[a].task \in Tasks \ reopened' PROVE Carries(a)' /\ Bills(a)'
  BY <1>0, <1>t, <1>3 DEF Frame, Own
<1>4. ASSUME NEW b \in Actors, NEW c \in Actors, mem'[b].task \in Tasks \ reopened' PROVE Alone(b, c)'
  <2>1. ASSUME NEW d \in Actors \ {a}, mem'[d].task = t, t \notin reopened', mem'[a].task = t
        PROVE pc'[a] \notin Closing \/ pc'[d] \notin Closing
    <3>1. mem[d].task = t /\ pc'[d] = pc[d] /\ t \notin reopened
      BY <1>0, <2>1 DEF Frame, SameActor, Calm
    <3>2. pc[d] \in Closing => status[t] \in Final
      BY <3>1 DEF Inv, Bills
    <3>3. mem[a].task = t => (pc[a] \notin Closing \/ pc[d] \notin Closing)
      BY <3>1 DEF Inv, Alone
    <3>4. mem[a].task # t => pc[a] \notin Closing
      BY <1>0, <1>t DEF Frame, Closing
    <3> QED
      BY <1>0, <2>1, <3>1, <3>2, <3>3, <3>4 DEF Calm
  <2>2. CASE b # a /\ c # a
    <3>1. SameActor(b) /\ SameActor(c) /\ mem[b].task \in Tasks \ reopened
      BY <1>0, <1>4, <2>2 DEF Frame, SameActor, SameTask, Calm
    <3> QED
      BY <2>2, <3>1 DEF Inv, SameActor, Alone
  <2>3. CASE b = a \/ c = a
    BY <1>0, <1>4, <2>1, <2>3 DEF Frame, Alone
  <2> QED
    BY <2>2, <2>3
<1>5. ASSUME NEW u \in Tasks \ reopened' PROVE Before(u)' /\ After(u)'
  <2>1. CASE u # t
    <3>1. SameTask(u) /\ UNCHANGED <<kind, base, outcome, cost>>
      BY <1>0, <1>5, <2>1 DEF Frame
    <3>2. Before(u) /\ After(u)
      BY <1>5, <3>1 DEF Inv, SameTask
    <3>3. BeingBilled(u)' <=> BeingBilled(u)
      BY <1>0, <1>t, <2>1 DEF Frame, SameActor, BeingBilled
    <3>4. Before(u)'
      BY <3>1, <3>2 DEF Before, SameTask
    <3>5. After(u)'
      BY <3>1, <3>2, <3>3 DEF After, Right, Target, Ordinary, SameTask
    <3> QED
      BY <3>4, <3>5
  <2>2. CASE u = t
    <3>1. Before(t)' /\ t \notin reopened /\ After(t)
      BY <1>0, <1>5, <2>2 DEF Own, Calm, Inv
    <3>2. ASSUME status'[t] \in Final, Ordinary(t)', ~BeingBilled(t)' PROVE Right(t)'
      <4>1. pc'[a] \notin Closing
        BY <1>0, <1>t, <3>2 DEF Frame, BeingBilled, Closing
      <4>2. CASE Right(t)'
        BY <4>2
      <4>3. CASE /\ pc[a] \notin Closing /\ status'[t] = status[t] /\ net'[t] = net[t]
                 /\ Ordinary(t)' => Ordinary(t)
        <5>1. ~BeingBilled(t)
          BY <1>0, <3>2, <4>3 DEF BeingBilled, Frame, SameActor, Closing
        <5> QED
          BY <1>0, <3>1, <3>2, <4>3, <5>1 DEF After, Right, Target, Frame
      <4> QED
        BY <1>0, <1>5, <2>2, <3>2, <4>1, <4>2, <4>3 DEF Own
    <3> QED
      BY <2>2, <3>1, <3>2 DEF After
  <2> QED
    BY <2>1, <2>2
<1> QED
  BY <1>0, <1>1, <1>2, <1>3, <1>4, <1>5 DEF Inv

-----------------------------------------------------------------------------
\* One step per action of an actor: its types, its frame, and what it keeps.
LEMMA ActorStep ==
    ASSUME Inv, NEW a \in Actors, NEW t \in Tasks,
           \/ PollRead(a, t) \/ SweepRead(a, t) \/ QueryRead(a, t) \/ WorkerStart(a, t)
           \/ mem[a].task = t /\ (Step(a) \/ FundingFails(a) \/ SaveQuotaFails(a) \/ Crash(a))
    PROVE  StepOf(a, t)
<1> USE TaskBillingAssumption DEF TaskBillingAssumption, Closing, Reading, Places, Active, Final,
        Metered, Images, Unmeasured, Stored, row, fixed, upstream, actors, ghosts, losses, counters,
        Unbilled
<1>t. TypeOK /\ Placed(a) /\ (t \notin reopened => Before(t))
      /\ (mem[a].task = t /\ t \notin reopened => Carries(a) /\ Bills(a))
  BY DEF Inv
<1>1. ASSUME PollRead(a, t) \/ SweepRead(a, t) \/ QueryRead(a, t) PROVE StepOf(a, t)
  <2>1. TypeOK'
    <3>1. CASE PollRead(a, t)
      BY <1>t, <3>1 DEF TypeOK, Placed, PollRead, Copy
    <3>2. CASE SweepRead(a, t)
      BY <1>t, <3>2 DEF TypeOK, Placed, SweepRead, Copy
    <3>3. CASE QueryRead(a, t)
      BY <1>t, <3>3 DEF TypeOK, Placed, QueryRead, Copy
    <3> QED
      BY <1>1, <3>1, <3>2, <3>3
  <2>2. Frame(a, t)
    BY <1>t, <1>1 DEF TypeOK, Frame, SameTask, SameActor, PollRead, SweepRead, QueryRead, Copy
  <2>3. Calm(a, t)
    BY <1>t, <1>1 DEF TypeOK, Placed, Calm, PollRead, SweepRead, QueryRead, Copy
  <2>4. Placed(a)'
    BY <1>t, <1>1 DEF TypeOK, Placed, PollRead, SweepRead, QueryRead, Copy
  <2>5. ASSUME t \notin reopened' PROVE Before(t)'
    BY <1>t, <1>1, <2>5 DEF TypeOK, Placed, Before, Carries, Bills, Target, PollRead,
       SweepRead, QueryRead, Copy
  <2>6. ASSUME t \notin reopened', pc'[a] # "idle" PROVE Carries(a)' /\ Bills(a)'
    BY <1>t, <1>1, <2>6 DEF TypeOK, Placed, Before, Carries, Bills, Target, PollRead,
       SweepRead, QueryRead, Copy
  <2>7. ASSUME t \notin reopened'
        PROVE  \/ pc'[a] \in Closing \/ status'[t] \notin Final \/ (Ordinary(t)' => Right(t)')
               \/ /\ pc[a] \notin Closing /\ status'[t] = status[t] /\ net'[t] = net[t]
                  /\ Ordinary(t)' => Ordinary(t)
    BY <1>t, <1>1, <2>7 DEF TypeOK, Placed, Before, Carries, Bills, Target, Right, Ordinary,
       PollRead, SweepRead, QueryRead, Copy
  <2> QED
    BY <2>1, <2>2, <2>3, <2>4, <2>5, <2>6, <2>7 DEF StepOf, Own
<1>2. ASSUME WorkerStart(a, t) PROVE StepOf(a, t)
  <2>1. TypeOK'
    <3>1. CASE status[t] = "submitted"
      <4>1. mem' \in [Actors -> Rows] /\ \A b \in Actors : pc'[b] = "idle" <=> mem'[b].task = NoTask
        BY SMTT(30), <1>t, <1>2, <3>1 DEF TypeOK, Rows, WorkerStart, Copy
      <4>2. /\ status' \in [Tasks -> {"none", "unsaved"} \cup Active \cup Final] /\ pc' \in [Actors -> Places]
            /\ launched' \subseteq Tasks
            /\ UNCHANGED <<kind, quota, base, net, outcome, cost, wins, costSettled, full, bound, late,
                           reopened, silent, gone, unpaid, misrecorded, endQueries, troubles>>
        BY SMTT(30), <1>t, <1>2, <3>1 DEF TypeOK, WorkerStart, Copy
      <4> QED
        BY <1>t, <4>1, <4>2 DEF TypeOK, Rows
    <3>2. CASE status[t] # "submitted"
      BY <1>t, <1>2, <3>2 DEF TypeOK, WorkerStart, Copy
    <3> QED
      BY <3>1, <3>2
  <2>2. Frame(a, t)
    BY <1>t, <1>2 DEF TypeOK, Frame, SameTask, SameActor, WorkerStart, Copy
  <2>3. Calm(a, t)
    BY <1>t, <1>2 DEF TypeOK, Placed, Calm, WorkerStart, Copy
  <2>4. Placed(a)'
    BY <1>t, <1>2 DEF TypeOK, Placed, WorkerStart, Copy
  <2>5. ASSUME t \notin reopened' PROVE Before(t)'
    BY <1>t, <1>2, <2>5 DEF TypeOK, Placed, Before, Carries, Bills, Target, WorkerStart, Copy
  <2>6. ASSUME t \notin reopened', pc'[a] # "idle" PROVE Carries(a)' /\ Bills(a)'
    <3>1. pc'[a] = "work" /\ status[t] = "submitted" /\ base' = base /\ t \notin reopened
          /\ mem'[a].task = t /\ mem'[a].quota = quota[t] /\ (t \notin costSettled => mem'[a].settled = "no")
      BY <1>t, <1>2, <2>6 DEF TypeOK, WorkerStart, Copy
    <3> QED
      BY <1>t, <3>1 DEF Before, Carries, Bills
  <2>7. ASSUME t \notin reopened'
        PROVE  \/ pc'[a] \in Closing \/ status'[t] \notin Final \/ (Ordinary(t)' => Right(t)')
               \/ /\ pc[a] \notin Closing /\ status'[t] = status[t] /\ net'[t] = net[t]
                  /\ Ordinary(t)' => Ordinary(t)
    BY <1>t, <1>2, <2>7 DEF TypeOK, Placed, Before, Carries, Bills, Target, Right, Ordinary,
       WorkerStart, Copy
  <2> QED
    BY <2>1, <2>2, <2>3, <2>4, <2>5, <2>6, <2>7 DEF StepOf, Own
<1>3. ASSUME mem[a].task = t, Ask(a) PROVE StepOf(a, t)
  <2>1. TypeOK'
    BY SMTT(30), <1>t, <1>3 DEF TypeOK, Placed, Ask
  <2>2. Frame(a, t)
    BY <1>t, <1>3 DEF TypeOK, Frame, SameTask, SameActor, Ask
  <2>3. Calm(a, t)
    BY <1>t, <1>3 DEF TypeOK, Placed, Calm, Ask
  <2>4. Placed(a)'
    BY SMTT(30), <1>t, <1>3 DEF TypeOK, Placed, Ask
  <2>5. ASSUME t \notin reopened' PROVE Before(t)'
    BY <1>t, <1>3, <2>5 DEF TypeOK, Placed, Before, Carries, Bills, Target, Ask
  <2>6. ASSUME t \notin reopened', pc'[a] # "idle" PROVE Carries(a)' /\ Bills(a)'
    BY <1>t, <1>3, <2>6 DEF TypeOK, Placed, Before, Carries, Bills, Target, Ask
  <2>7. ASSUME t \notin reopened'
        PROVE  \/ pc'[a] \in Closing \/ status'[t] \notin Final \/ (Ordinary(t)' => Right(t)')
               \/ /\ pc[a] \notin Closing /\ status'[t] = status[t] /\ net'[t] = net[t]
                  /\ Ordinary(t)' => Ordinary(t)
    BY <1>t, <1>3, <2>7 DEF TypeOK, Placed, Before, Carries, Bills, Target, Right, Ordinary, Ask
  <2> QED
    BY <2>1, <2>2, <2>3, <2>4, <2>5, <2>6, <2>7 DEF StepOf, Own
<1>4. ASSUME mem[a].task = t, Write(a) PROVE StepOf(a, t)
  <2>1. TypeOK'
    <3>0. mem \in [Actors -> Rows] /\ mem[a] \in Rows /\ Nothing \in Rows
      BY <1>t DEF TypeOK, Rows, Nothing
    <3>1. pc' \in [Actors -> Places] /\ \A b \in Actors \ {a} : pc'[b] = pc[b] /\ mem'[b] = mem[b]
      BY <1>t, <1>4 DEF TypeOK, Write, Wins, Billing, QuotaWritten, Ends, Silent, Nothing
    <3>2. mem'[a] \in Rows /\ mem' = [mem EXCEPT ![a] = mem'[a]]
      <4>1. Billing(a) = "idle" => mem' = [mem EXCEPT ![a] = Nothing]
        BY <1>4 DEF Write
      <4>2. Billing(a) # "idle" => mem' = [mem EXCEPT ![a] = [mem[a] EXCEPT !.quota = QuotaWritten(a), !.status = mem[a].answer]]
        BY <1>4 DEF Write
      <4>3. QuotaWritten(a) \in Nat /\ mem[a].answer \in Active \cup Final
        BY <1>t, <1>4, <3>0 DEF Placed, Rows, QuotaWritten, Write
      <4>4. [mem[a] EXCEPT !.quota = QuotaWritten(a), !.status = mem[a].answer] \in Rows
        BY <3>0, <4>3 DEF Rows
      <4> QED
        BY <3>0, <4>1, <4>2, <4>4
    <3>3. pc'[a] = "idle" <=> mem'[a].task = NoTask
      BY <1>t, <1>4 DEF TypeOK, Placed, Write, Wins, Billing, QuotaWritten, Ends, Silent, Nothing
    <3>4. mem' \in [Actors -> Rows]
      BY <3>0, <3>2
    <3>5. full' \subseteq Tasks
      BY <1>t, <1>4 DEF TypeOK, Write, WriteProgress
    <3>6. costSettled' \subseteq Tasks /\ reopened' \subseteq Tasks /\ silent' \subseteq Tasks
      BY <1>t, <1>4 DEF TypeOK, Write
    <3>7. /\ status' \in [Tasks -> {"none", "unsaved"} \cup Active \cup Final]
          /\ quota' \in [Tasks -> Nat] /\ wins' \in [Tasks -> Nat]
      BY <1>t, <1>4, <3>0 DEF TypeOK, Placed, Rows, Write, QuotaWritten, Ends
    <3> QED
      BY <1>t, <1>4, <3>1, <3>3, <3>4, <3>5, <3>6, <3>7 DEF TypeOK, Rows, Write, Unbilled,
         fixed, upstream, losses, counters
  <2>2. Frame(a, t)
    BY <1>t, <1>4 DEF TypeOK, Frame, SameTask, SameActor, Write, Wins, Billing, QuotaWritten,
       Ends, Silent, Nothing
  <2>3. Calm(a, t)
    BY <1>t, <1>4 DEF TypeOK, Placed, Calm, Write, Wins, Billing, QuotaWritten, Ends, Silent,
       Nothing
  <2>4. Placed(a)'
    BY <1>t, <1>4 DEF TypeOK, Placed, Write, Wins, Billing, QuotaWritten, Ends, Silent, Nothing
  <2>5. ASSUME t \notin reopened' PROVE Before(t)'
    BY <1>t, <1>4, <2>5 DEF TypeOK, Placed, Before, Carries, Bills, Target, Write, Wins,
       Billing, QuotaWritten, Ends, Silent, Nothing
  <2>6. ASSUME t \notin reopened', pc'[a] # "idle" PROVE Carries(a)' /\ Bills(a)'
    BY <1>t, <1>4, <2>6 DEF TypeOK, Placed, Before, Carries, Bills, Target, Write, Wins,
       Billing, QuotaWritten, Ends, Silent, Nothing
  <2>7. ASSUME t \notin reopened'
        PROVE  \/ pc'[a] \in Closing \/ status'[t] \notin Final \/ (Ordinary(t)' => Right(t)')
               \/ /\ pc[a] \notin Closing /\ status'[t] = status[t] /\ net'[t] = net[t]
                  /\ Ordinary(t)' => Ordinary(t)
    <3>1. kind' = kind /\ cost' = cost /\ base' = base /\ net' = net /\ gone' = gone /\ unpaid' = unpaid
          /\ status'[t] = mem[a].answer /\ pc[a] = "answered" /\ mem[a].status = status[t]
      BY <1>t, <1>4 DEF TypeOK, Write, Wins
    <3>2. CASE Ends(a)
      <4> SUFFICES ASSUME pc'[a] \notin Closing, Ordinary(t)' PROVE Right(t)'
        OBVIOUS
      <4>1. ~Silent(a) /\ t \notin reopened /\ status[t] \in Active
        BY <1>t, <1>4, <2>7, <3>1, <3>2 DEF TypeOK, Placed, Ordinary, Write, Ends
      <4>2. net[t] = base[t]
        BY <1>t, <4>1 DEF Before
      <4>3. mem[a].answer = "SUCCESS" /\ kind[t] \notin Metered \cup Images
        BY <1>t, <1>4, <3>2, <4>1 DEF TypeOK, Write, Billing, Ends
      <4> QED
        BY <1>t, <3>1, <4>2, <4>3 DEF TypeOK, Right, Target
    <3>3. CASE ~Ends(a)
      <4>1. status'[t] \in Final => status'[t] = status[t]
        BY <3>1, <3>3 DEF Ends
      <4>2. Ordinary(t)' => Ordinary(t)
        BY <1>4, <3>1, <3>3 DEF Ordinary, Write, Ends
      <4> QED
        BY <3>1, <4>1, <4>2
    <3> QED
      BY <3>2, <3>3
  <2> QED
    BY <2>1, <2>2, <2>3, <2>4, <2>5, <2>6, <2>7 DEF StepOf, Own
<1>5. ASSUME mem[a].task = t, WriteLost(a) \/ FundingFails(a) \/ Crash(a) PROVE StepOf(a, t)
  <2>1. TypeOK'
    <3>1. CASE WriteLost(a)
      BY <1>t, <3>1 DEF TypeOK, Placed, WriteLost, Settled, Actual, Finish, Nothing
    <3>2. CASE FundingFails(a)
      BY <1>t, <3>2 DEF TypeOK, Placed, FundingFails, Settled, Actual, Finish, Nothing
    <3>3. CASE Crash(a)
      BY <1>t, <3>3 DEF TypeOK, Placed, Crash, Settled, Actual, Finish, Nothing
    <3> QED
      BY <1>5, <3>1, <3>2, <3>3
  <2>2. Frame(a, t)
    BY <1>t, <1>5 DEF TypeOK, Frame, SameTask, SameActor, WriteLost, FundingFails, Crash,
       Settled, Actual, Finish, Nothing
  <2>3. Calm(a, t)
    BY <1>t, <1>5 DEF TypeOK, Placed, Calm, WriteLost, FundingFails, Crash, Settled, Actual,
       Finish, Nothing
  <2>4. Placed(a)'
    BY <1>t, <1>5 DEF TypeOK, Placed, WriteLost, FundingFails, Crash, Settled, Actual, Finish,
       Nothing
  <2>5. ASSUME t \notin reopened' PROVE Before(t)'
    BY <1>t, <1>5, <2>5 DEF TypeOK, Placed, Before, Carries, Bills, Target, WriteLost,
       FundingFails, Crash, Settled, Actual, Finish, Nothing
  <2>6. ASSUME t \notin reopened', pc'[a] # "idle" PROVE Carries(a)' /\ Bills(a)'
    BY <1>t, <1>5, <2>6 DEF TypeOK, Placed, Before, Carries, Bills, Target, WriteLost,
       FundingFails, Crash, Settled, Actual, Finish, Nothing
  <2>7. ASSUME t \notin reopened'
        PROVE  \/ pc'[a] \in Closing \/ status'[t] \notin Final \/ (Ordinary(t)' => Right(t)')
               \/ /\ pc[a] \notin Closing /\ status'[t] = status[t] /\ net'[t] = net[t]
                  /\ Ordinary(t)' => Ordinary(t)
    BY <1>t, <1>5, <2>7 DEF TypeOK, Placed, Before, Carries, Bills, Target, Right, Ordinary,
       WriteLost, FundingFails, Crash, Settled, Actual, Finish, Nothing
  <2> QED
    BY <2>1, <2>2, <2>3, <2>4, <2>5, <2>6, <2>7 DEF StepOf, Own
<1>6. ASSUME mem[a].task = t, ChannelGone(a) PROVE StepOf(a, t)
  <2>1. TypeOK'
    <3>0. mem \in [Actors -> Rows] /\ Nothing \in Rows
      BY <1>t DEF TypeOK, Rows, Nothing
    <3>1. \A b \in Actors : [mem[b] EXCEPT !.version = "old"] \in Rows
      BY <3>0 DEF Rows
    <3>2. mem' \in [Actors -> Rows]
      BY <1>6, <3>0, <3>1 DEF ChannelGone
    <3>3. \A b \in Actors : pc'[b] = "idle" <=> mem'[b].task = NoTask
      BY <1>t, <1>6, <3>0 DEF TypeOK, Rows, ChannelGone, Nothing
    <3>4. full' \subseteq Tasks /\ gone' \subseteq Tasks
      BY <1>t, <1>6 DEF TypeOK, ChannelGone
    <3>5. /\ status' \in [Tasks -> {"none", "unsaved"} \cup Active \cup Final]
          /\ pc' \in [Actors -> Places] /\ troubles' \in 0..MaxTroubles
      BY <1>t, <1>6 DEF TypeOK, Places, Final, ChannelGone
    <3> QED
      BY <1>t, <1>6, <3>2, <3>3, <3>4, <3>5 DEF TypeOK, Rows, ChannelGone, Unbilled, fixed, upstream, losses
  <2>2. Frame(a, t)
    BY <1>t, <1>6 DEF TypeOK, Frame, SameTask, SameActor, ChannelGone, Nothing
  <2>3. Calm(a, t)
    BY <1>t, <1>6 DEF TypeOK, Placed, Calm, ChannelGone, Nothing
  <2>4. Placed(a)'
    BY <1>t, <1>6 DEF TypeOK, Placed, ChannelGone, Nothing
  <2>5. ASSUME t \notin reopened' PROVE Before(t)'
    BY <1>t, <1>6, <2>5 DEF TypeOK, Placed, Before, Carries, Bills, Target, ChannelGone, Nothing
  <2>6. ASSUME t \notin reopened', pc'[a] # "idle" PROVE Carries(a)' /\ Bills(a)'
    BY <1>t, <1>6, <2>6 DEF TypeOK, Placed, Before, Carries, Bills, Target, ChannelGone, Nothing
  <2>7. ASSUME t \notin reopened'
        PROVE  \/ pc'[a] \in Closing \/ status'[t] \notin Final \/ (Ordinary(t)' => Right(t)')
               \/ /\ pc[a] \notin Closing /\ status'[t] = status[t] /\ net'[t] = net[t]
                  /\ Ordinary(t)' => Ordinary(t)
    BY <1>t, <1>6, <2>7 DEF TypeOK, Placed, Before, Carries, Bills, Target, Right, Ordinary,
       ChannelGone, Nothing
  <2> QED
    BY <2>1, <2>2, <2>3, <2>4, <2>5, <2>6, <2>7 DEF StepOf, Own
<1>7. ASSUME mem[a].task = t, WorkerBinds(a) PROVE StepOf(a, t)
  <2>1. TypeOK'
    BY <1>t, <1>7 DEF TypeOK, Placed, WorkerBinds, Wins, Nothing
  <2>2. Frame(a, t)
    BY <1>t, <1>7 DEF TypeOK, Frame, SameTask, SameActor, WorkerBinds, Wins, Nothing
  <2>3. Calm(a, t)
    BY <1>t, <1>7 DEF TypeOK, Placed, Calm, WorkerBinds, Wins, Nothing
  <2>4. Placed(a)'
    BY <1>t, <1>7 DEF TypeOK, Placed, WorkerBinds, Wins, Nothing
  <2>5. ASSUME t \notin reopened' PROVE Before(t)'
    BY <1>t, <1>7, <2>5 DEF TypeOK, Placed, Before, Carries, Bills, Target, WorkerBinds, Wins,
       Nothing
  <2>6. ASSUME t \notin reopened', pc'[a] # "idle" PROVE Carries(a)' /\ Bills(a)'
    BY <1>t, <1>7, <2>6 DEF TypeOK, Placed, Before, Carries, Bills, Target, WorkerBinds, Wins,
       Nothing
  <2>7. ASSUME t \notin reopened'
        PROVE  \/ pc'[a] \in Closing \/ status'[t] \notin Final \/ (Ordinary(t)' => Right(t)')
               \/ /\ pc[a] \notin Closing /\ status'[t] = status[t] /\ net'[t] = net[t]
                  /\ Ordinary(t)' => Ordinary(t)
    BY <1>t, <1>7, <2>7 DEF TypeOK, Placed, Before, Carries, Bills, Target, Right, Ordinary,
       WorkerBinds, Wins, Nothing
  <2> QED
    BY <2>1, <2>2, <2>3, <2>4, <2>5, <2>6, <2>7 DEF StepOf, Own
<1>8. ASSUME mem[a].task = t, WorkerReload(a) PROVE StepOf(a, t)
  <2>1. TypeOK'
    <3>1. CASE status[t] \in Final
      BY SMTT(30), <1>t, <1>8, <3>1 DEF TypeOK, Placed, WorkerReload, Nothing
    <3>2. CASE status[t] \notin Final
      <4>1. Copy(t, "worker", outcome[t]) \in Rows /\ t # NoTask
        BY <1>t, <1>8, <3>2 DEF TypeOK, Placed, Rows, Copy, WorkerReload
      <4>2. /\ mem' = [mem EXCEPT ![a] = Copy(t, "worker", outcome[t])] /\ pc' = [pc EXCEPT ![a] = "answered"]
            /\ UNCHANGED <<row, Unbilled, net, ghosts, losses, counters>>
        BY <1>8, <3>2 DEF WorkerReload
      <4>3. Copy(t, "worker", outcome[t]).task = t
        BY DEF Copy
      <4>4. mem' \in [Actors -> Rows] /\ \A b \in Actors : pc'[b] = "idle" <=> mem'[b].task = NoTask
        BY <1>t, <4>1, <4>2, <4>3 DEF TypeOK, Rows
      <4>5. pc' \in [Actors -> Places]
        BY <1>t, <4>2 DEF TypeOK
      <4> QED
        BY <1>t, <4>2, <4>4, <4>5 DEF TypeOK, Rows
    <3> QED
      BY <3>1, <3>2
  <2>2. Frame(a, t)
    BY <1>t, <1>8 DEF TypeOK, Frame, SameTask, SameActor, WorkerReload, Copy, Nothing
  <2>3. Calm(a, t)
    BY <1>t, <1>8 DEF TypeOK, Placed, Calm, WorkerReload, Copy, Nothing
  <2>4. Placed(a)'
    BY <1>t, <1>8 DEF TypeOK, Placed, WorkerReload, Copy, Nothing
  <2>5. ASSUME t \notin reopened' PROVE Before(t)'
    BY <1>t, <1>8, <2>5 DEF TypeOK, Placed, Before, Carries, Bills, Target, WorkerReload, Copy,
       Nothing
  <2>6. ASSUME t \notin reopened', pc'[a] # "idle" PROVE Carries(a)' /\ Bills(a)'
    BY <1>t, <1>8, <2>6 DEF TypeOK, Placed, Before, Carries, Bills, Target, WorkerReload, Copy,
       Nothing
  <2>7. ASSUME t \notin reopened'
        PROVE  \/ pc'[a] \in Closing \/ status'[t] \notin Final \/ (Ordinary(t)' => Right(t)')
               \/ /\ pc[a] \notin Closing /\ status'[t] = status[t] /\ net'[t] = net[t]
                  /\ Ordinary(t)' => Ordinary(t)
    BY <1>t, <1>8, <2>7 DEF TypeOK, Placed, Before, Carries, Bills, Target, Right, Ordinary,
       WorkerReload, Copy, Nothing
  <2> QED
    BY <2>1, <2>2, <2>3, <2>4, <2>5, <2>6, <2>7 DEF StepOf, Own
<1>9. ASSUME mem[a].task = t, Refund(a) PROVE StepOf(a, t)
  <2>1. TypeOK'
    <3>0. mem \in [Actors -> Rows] /\ mem[a] \in Rows /\ Nothing \in Rows
      BY <1>t DEF TypeOK, Rows, Nothing
    <3>1. pc' \in [Actors -> Places] /\ \A b \in Actors \ {a} : pc'[b] = pc[b] /\ mem'[b] = mem[b]
      BY SMTT(30), <1>t, <1>9 DEF TypeOK, Refund, BySession, AfterFunding, Finish, Nothing
    <3>2. mem'[a] \in Rows /\ mem' = [mem EXCEPT ![a] = mem'[a]]
      BY <1>t, <1>9, <3>0 DEF TypeOK, Placed, Rows, Refund, BySession, AfterFunding, Finish,
         Nothing
    <3>3. pc'[a] = "idle" <=> mem'[a].task = NoTask
      BY <1>t, <1>9 DEF TypeOK, Placed, Refund, BySession, AfterFunding, Finish, Nothing
    <3>4. mem' \in [Actors -> Rows]
      BY <3>0, <3>2
    <3>5. net' \in [Tasks -> Int]
      BY <1>t, <1>9, <3>0 DEF TypeOK, Rows, Refund
    <3> QED
      BY <1>t, <1>9, <3>1, <3>3, <3>4, <3>5 DEF TypeOK, Rows, Refund, Unbilled, row, fixed,
         upstream, ghosts, losses, counters
  <2>2. Frame(a, t)
    BY <1>t, <1>9 DEF TypeOK, Frame, SameTask, SameActor, Refund, BySession, AfterFunding,
       Finish, Nothing
  <2>3. Calm(a, t)
    BY <1>t, <1>9 DEF TypeOK, Placed, Calm, Refund, BySession, AfterFunding, Finish, Nothing
  <2>4. Placed(a)'
    BY <1>t, <1>9 DEF TypeOK, Placed, Refund, BySession, AfterFunding, Finish, Nothing
  <2>5. ASSUME t \notin reopened' PROVE Before(t)'
    BY <1>t, <1>9, <2>5 DEF TypeOK, Placed, Before, Carries, Bills, Target, Refund, BySession,
       AfterFunding, Finish, Nothing
  <2>6. ASSUME t \notin reopened', pc'[a] # "idle" PROVE Carries(a)' /\ Bills(a)'
    BY <1>t, <1>9, <2>6 DEF TypeOK, Placed, Before, Carries, Bills, Target, Refund, BySession,
       AfterFunding, Finish, Nothing
  <2>7. ASSUME t \notin reopened'
        PROVE  \/ pc'[a] \in Closing \/ status'[t] \notin Final \/ (Ordinary(t)' => Right(t)')
               \/ /\ pc[a] \notin Closing /\ status'[t] = status[t] /\ net'[t] = net[t]
                  /\ Ordinary(t)' => Ordinary(t)
    <3> SUFFICES ASSUME pc'[a] \notin Closing, Ordinary(t)' PROVE Right(t)'
      OBVIOUS
    <3>1. t \notin reopened /\ t \notin gone
      BY <1>t, <1>9, <2>7 DEF Ordinary, Refund
    <3>2. /\ status[t] = mem[a].answer
          /\ pc[a] = "refund" => net[t] = base[t] /\ mem[a].answer = "FAILURE"
                                /\ (mem[a].quota = base[t] \/ kind[t] = "legacy")
          /\ pc[a] = "settle" => net[t] = base[t] /\ mem[a].answer = "SUCCESS" /\ mem[a].settled = "no"
          /\ pc[a] \in {"saveQuota", "mark"} =>
                /\ mem[a].answer = "FAILURE" => net[t] = 0
                /\ mem[a].answer = "SUCCESS" => net[t] = Target(t)
      BY <1>t, <1>9, <3>1 DEF Bills, Refund
    <3>3. status'[t] = status[t] /\ kind' = kind /\ cost' = cost /\ base' = base
      BY <1>9 DEF Refund
    <3> QED
      BY <1>t, <1>9, <3>2, <3>3 DEF TypeOK, Right, Target, Refund, BySession, AfterFunding,
         Finish, Nothing
  <2> QED
    BY <2>1, <2>2, <2>3, <2>4, <2>5, <2>6, <2>7 DEF StepOf, Own
<1>10. ASSUME mem[a].task = t, Settle(a) PROVE StepOf(a, t)
  <2>1. TypeOK'
    <3>0. mem \in [Actors -> Rows] /\ mem[a] \in Rows /\ Nothing \in Rows
      BY <1>t DEF TypeOK, Rows, Nothing
    <3>1. pc' \in [Actors -> Places] /\ \A b \in Actors \ {a} : pc'[b] = pc[b] /\ mem'[b] = mem[b]
      BY <1>t, <1>10 DEF TypeOK, Settle, Settled, Actual, Finish, Nothing
    <3>2. mem'[a] \in Rows /\ mem' = [mem EXCEPT ![a] = mem'[a]]
      BY <1>t, <1>10, <3>0 DEF TypeOK, Placed, Rows, Settle, Settled, Actual, Finish, Nothing
    <3>3. pc'[a] = "idle" <=> mem'[a].task = NoTask
      BY <1>t, <1>10 DEF TypeOK, Placed, Settle, Settled, Actual, Finish, Nothing
    <3>4. mem' \in [Actors -> Rows]
      BY <3>0, <3>2
    <3> QED
      BY SMTT(30), <1>t, <1>10, <3>1, <3>3, <3>4 DEF TypeOK, Placed, Rows, Settle, Settled, Actual,
         Finish, Nothing
  <2>2. Frame(a, t)
    BY <1>t, <1>10 DEF TypeOK, Frame, SameTask, SameActor, Settle, Settled, Actual, Finish,
       Nothing
  <2>3. Calm(a, t)
    BY <1>t, <1>10 DEF TypeOK, Placed, Calm, Settle, Settled, Actual, Finish, Nothing
  <2>4. Placed(a)'
    <3>1. CASE Settled(a)
      BY <1>t, <1>10, <3>1 DEF TypeOK, Placed, Settle, Finish, Nothing
    <3>2. CASE ~Settled(a)
      <4>1. mem'[a].task = t /\ mem'[a].status = mem[a].status /\ mem'[a].answer = mem[a].answer /\ pc'[a] = "saveQuota"
            /\ status' = status /\ outcome' = outcome /\ pc[a] = "settle"
        BY <1>t, <1>10, <3>2 DEF TypeOK, Settle
      <4> QED
        BY <1>t, <1>10, <4>1 DEF Placed
    <3> QED
      BY <3>1, <3>2
  <2>5. ASSUME t \notin reopened' PROVE Before(t)'
    BY <1>t, <1>10, <2>5 DEF TypeOK, Placed, Before, Carries, Bills, Target, Settle, Settled,
       Actual, Finish, Nothing
  <2>6. ASSUME t \notin reopened', pc'[a] # "idle" PROVE Carries(a)' /\ Bills(a)'
    BY <1>t, <1>10, <2>6 DEF TypeOK, Placed, Before, Carries, Bills, Target, Settle, Settled,
       Actual, Finish, Nothing
  <2>7. ASSUME t \notin reopened'
        PROVE  \/ pc'[a] \in Closing \/ status'[t] \notin Final \/ (Ordinary(t)' => Right(t)')
               \/ /\ pc[a] \notin Closing /\ status'[t] = status[t] /\ net'[t] = net[t]
                  /\ Ordinary(t)' => Ordinary(t)
    <3> SUFFICES ASSUME pc'[a] \notin Closing, Ordinary(t)' PROVE Right(t)'
      OBVIOUS
    <3>1. t \notin reopened /\ t \notin gone
      BY <1>t, <1>10, <2>7 DEF Ordinary, Settle
    <3>2. /\ status[t] = mem[a].answer
          /\ pc[a] = "refund" => net[t] = base[t] /\ mem[a].answer = "FAILURE"
                                /\ (mem[a].quota = base[t] \/ kind[t] = "legacy")
          /\ pc[a] = "settle" => net[t] = base[t] /\ mem[a].answer = "SUCCESS" /\ mem[a].settled = "no"
          /\ pc[a] \in {"saveQuota", "mark"} =>
                /\ mem[a].answer = "FAILURE" => net[t] = 0
                /\ mem[a].answer = "SUCCESS" => net[t] = Target(t)
      BY <1>t, <1>10, <3>1 DEF Bills, Settle
    <3>3. status'[t] = status[t] /\ kind' = kind /\ cost' = cost /\ base' = base
      BY <1>10 DEF Settle
    <3> QED
      BY <1>t, <1>10, <3>2, <3>3 DEF TypeOK, Right, Target, Settle, Settled, Actual, Finish,
         Nothing
  <2> QED
    BY <2>1, <2>2, <2>3, <2>4, <2>5, <2>6, <2>7 DEF StepOf, Own
<1>11. ASSUME mem[a].task = t, SaveQuota(a) \/ SaveQuotaFails(a) PROVE StepOf(a, t)
  <2>1. TypeOK'
    <3>1. CASE SaveQuota(a)
      BY <1>t, <3>1 DEF TypeOK, Placed, SaveQuota, AfterSave, GoOn, Nothing
    <3>2. CASE SaveQuotaFails(a)
      BY <1>t, <3>2 DEF TypeOK, Placed, SaveQuotaFails, AfterSave, GoOn, Nothing
    <3> QED
      BY <1>11, <3>1, <3>2
  <2>2. Frame(a, t)
    BY <1>t, <1>11 DEF TypeOK, Frame, SameTask, SameActor, SaveQuota, SaveQuotaFails,
       AfterSave, GoOn, Nothing
  <2>3. Calm(a, t)
    BY <1>t, <1>11 DEF TypeOK, Placed, Calm, SaveQuota, SaveQuotaFails, AfterSave, GoOn, Nothing
  <2>4. Placed(a)'
    BY <1>t, <1>11 DEF TypeOK, Placed, SaveQuota, SaveQuotaFails, AfterSave, GoOn, Nothing
  <2>5. ASSUME t \notin reopened' PROVE Before(t)'
    BY <1>t, <1>11, <2>5 DEF TypeOK, Placed, Before, Carries, Bills, Target, SaveQuota,
       SaveQuotaFails, AfterSave, GoOn, Nothing
  <2>6. ASSUME t \notin reopened', pc'[a] # "idle" PROVE Carries(a)' /\ Bills(a)'
    BY <1>t, <1>11, <2>6 DEF TypeOK, Placed, Before, Carries, Bills, Target, SaveQuota,
       SaveQuotaFails, AfterSave, GoOn, Nothing
  <2>7. ASSUME t \notin reopened'
        PROVE  \/ pc'[a] \in Closing \/ status'[t] \notin Final \/ (Ordinary(t)' => Right(t)')
               \/ /\ pc[a] \notin Closing /\ status'[t] = status[t] /\ net'[t] = net[t]
                  /\ Ordinary(t)' => Ordinary(t)
    <3> SUFFICES ASSUME pc'[a] \notin Closing, Ordinary(t)' PROVE Right(t)'
      OBVIOUS
    <3>1. t \notin reopened /\ t \notin gone
      BY <1>t, <1>11, <2>7 DEF Ordinary, SaveQuota, SaveQuotaFails
    <3>2. /\ status[t] = mem[a].answer
          /\ pc[a] = "refund" => net[t] = base[t] /\ mem[a].answer = "FAILURE"
                                /\ (mem[a].quota = base[t] \/ kind[t] = "legacy")
          /\ pc[a] = "settle" => net[t] = base[t] /\ mem[a].answer = "SUCCESS" /\ mem[a].settled = "no"
          /\ pc[a] \in {"saveQuota", "mark"} =>
                /\ mem[a].answer = "FAILURE" => net[t] = 0
                /\ mem[a].answer = "SUCCESS" => net[t] = Target(t)
      BY <1>t, <1>11, <3>1 DEF Bills, SaveQuota, SaveQuotaFails
    <3>3. status'[t] = status[t] /\ kind' = kind /\ cost' = cost /\ base' = base
      BY <1>11 DEF SaveQuota, SaveQuotaFails
    <3> QED
      BY <1>t, <1>11, <3>2, <3>3 DEF TypeOK, Right, Target, SaveQuota, SaveQuotaFails,
         AfterSave, GoOn, Nothing
  <2> QED
    BY <2>1, <2>2, <2>3, <2>4, <2>5, <2>6, <2>7 DEF StepOf, Own
<1>12. ASSUME mem[a].task = t, Mark(a) PROVE StepOf(a, t)
  <2>1. TypeOK'
    BY <1>t, <1>12 DEF TypeOK, Placed, Mark, GoOn, Nothing
  <2>2. Frame(a, t)
    BY <1>t, <1>12 DEF TypeOK, Frame, SameTask, SameActor, Mark, GoOn, Nothing
  <2>3. Calm(a, t)
    BY <1>t, <1>12 DEF TypeOK, Placed, Calm, Mark, GoOn, Nothing
  <2>4. Placed(a)'
    BY <1>t, <1>12 DEF TypeOK, Placed, Mark, GoOn, Nothing
  <2>5. ASSUME t \notin reopened' PROVE Before(t)'
    BY <1>t, <1>12, <2>5 DEF TypeOK, Placed, Before, Carries, Bills, Target, Mark, GoOn, Nothing
  <2>6. ASSUME t \notin reopened', pc'[a] # "idle" PROVE Carries(a)' /\ Bills(a)'
    BY <1>t, <1>12, <2>6 DEF TypeOK, Placed, Before, Carries, Bills, Target, Mark, GoOn, Nothing
  <2>7. ASSUME t \notin reopened'
        PROVE  \/ pc'[a] \in Closing \/ status'[t] \notin Final \/ (Ordinary(t)' => Right(t)')
               \/ /\ pc[a] \notin Closing /\ status'[t] = status[t] /\ net'[t] = net[t]
                  /\ Ordinary(t)' => Ordinary(t)
    <3> SUFFICES ASSUME pc'[a] \notin Closing, Ordinary(t)' PROVE Right(t)'
      OBVIOUS
    <3>1. t \notin reopened /\ t \notin gone
      BY <1>t, <1>12, <2>7 DEF Ordinary, Mark
    <3>2. /\ status[t] = mem[a].answer
          /\ pc[a] = "refund" => net[t] = base[t] /\ mem[a].answer = "FAILURE"
                                /\ (mem[a].quota = base[t] \/ kind[t] = "legacy")
          /\ pc[a] = "settle" => net[t] = base[t] /\ mem[a].answer = "SUCCESS" /\ mem[a].settled = "no"
          /\ pc[a] \in {"saveQuota", "mark"} =>
                /\ mem[a].answer = "FAILURE" => net[t] = 0
                /\ mem[a].answer = "SUCCESS" => net[t] = Target(t)
      BY <1>t, <1>12, <3>1 DEF Bills, Mark
    <3>3. status'[t] = status[t] /\ kind' = kind /\ cost' = cost /\ base' = base
      BY <1>12 DEF Mark
    <3> QED
      BY <1>t, <1>12, <3>2, <3>3 DEF TypeOK, Right, Target, Mark, GoOn, Nothing
  <2> QED
    BY <2>1, <2>2, <2>3, <2>4, <2>5, <2>6, <2>7 DEF StepOf, Own
<1> QED
  BY <1>1, <1>2, <1>3, <1>4, <1>5, <1>6, <1>7, <1>8, <1>9, <1>10, <1>11, <1>12 DEF Step

LEMMA ActorInv ==
    ASSUME Inv, NEW a \in Actors, NEW t \in Tasks,
           \/ PollRead(a, t) \/ SweepRead(a, t) \/ QueryRead(a, t) \/ WorkerStart(a, t)
           \/ mem[a].task = t /\ (Step(a) \/ FundingFails(a) \/ SaveQuotaFails(a) \/ Crash(a))
    PROVE  Inv'
BY ActorStep, StepKeeps

\* The steps of a task that no actor takes
LEMMA TaskInv ==
    ASSUME Inv, NEW t \in Tasks, Submit(t) \/ InsertFails(t) \/ UpstreamEnds(t) \/ GrowLate(t)
    PROVE  Inv'
<1> USE TaskBillingAssumption DEF TaskBillingAssumption, Closing, Reading, Places, Active, Final,
        Metered, Images, Unmeasured, Stored, row, fixed, upstream, actors, ghosts, losses, counters
<1>t. TypeOK
  BY DEF Inv
<1>1. CASE Submit(t) \/ InsertFails(t)
  <2>1. TypeOK'
    BY <1>t, <1>1 DEF TypeOK, Submit, InsertFails
  <2>2. \A a \in Actors : mem[a].task # t
    BY <1>t, <1>1 DEF Inv, TypeOK, Placed, Submit, InsertFails
  <2>3. \A a \in Actors : Placed(a)'
    BY <1>t, <1>1, <2>2 DEF Inv, TypeOK, Placed, Submit, InsertFails
  <2>4. ASSUME NEW u \in Tasks \ reopened' PROVE Before(u)' /\ After(u)'
    BY <1>t, <1>1, <2>4 DEF Inv, TypeOK, Before, After, Right, Target, Ordinary, BeingBilled,
       Submit, InsertFails
  <2>5. ASSUME NEW a \in Actors, mem'[a].task \in Tasks \ reopened'
        PROVE  Carries(a)' /\ Bills(a)' /\ \A b \in Actors : Alone(a, b)'
    <3>1. mem' = mem /\ pc' = pc /\ reopened' = reopened /\ gone' = gone /\ kind' = kind /\ cost' = cost
          /\ \A u \in Tasks \ {t} : status'[u] = status[u] /\ base'[u] = base[u] /\ net'[u] = net[u]
      BY <1>t, <1>1 DEF TypeOK, Submit, InsertFails
    <3>2. Carries(a) /\ Bills(a) /\ \A b \in Actors : Alone(a, b)
      BY <2>5, <3>1 DEF Inv
    <3> QED
      BY <2>2, <2>5, <3>1, <3>2 DEF Carries, Bills, Target, Alone
  <2> QED
    BY <2>1, <2>3, <2>4, <2>5 DEF Inv
<1>2. CASE UpstreamEnds(t)
  <2>1. TypeOK'
    BY <1>t, <1>2 DEF TypeOK, UpstreamEnds
  <2>2. mem' = mem /\ pc' = pc /\ reopened' = reopened /\ gone' = gone /\ kind' = kind /\ status' = status
        /\ base' = base /\ net' = net /\ quota' = quota /\ wins' = wins /\ costSettled' = costSettled
        /\ silent' = silent /\ unpaid' = unpaid
        /\ \A u \in Tasks : outcome[u] # "pending" => outcome'[u] = outcome[u] /\ cost'[u] = cost[u]
    BY <1>t, <1>2 DEF TypeOK, UpstreamEnds
  <2>3. \A a \in Actors : Placed(a)'
    BY <2>2 DEF Inv, Placed
  <2>4. ASSUME NEW u \in Tasks \ reopened' PROVE Before(u)' /\ After(u)'
    BY <2>2, <2>4 DEF Inv, Before, After, Right, Target, Ordinary, BeingBilled
  <2>5. ASSUME NEW a \in Actors, mem'[a].task \in Tasks \ reopened'
        PROVE  Carries(a)' /\ Bills(a)' /\ \A b \in Actors : Alone(a, b)'
    <3>1. Placed(a) /\ Carries(a) /\ Bills(a) /\ \A b \in Actors : Alone(a, b)
      BY <2>2, <2>5 DEF Inv
    <3> QED
      BY <1>t, <2>2, <2>5, <3>1 DEF TypeOK, Placed, Carries, Bills, Target, Alone
  <2> QED
    BY <2>1, <2>3, <2>4, <2>5 DEF Inv
<1>3. CASE GrowLate(t)
  BY <1>t, <1>3 DEF GrowLate, Inv, TypeOK, Placed, Before, After, Right, Target, Ordinary,
     BeingBilled,
     Carries, Bills, Alone
<1> QED
  BY <1>1, <1>2, <1>3

LEMMA Stuttering == Inv /\ UNCHANGED vars => Inv'
<1> QED
  BY DEF vars, row, fixed, upstream, actors, ghosts, losses, counters, Inv, TypeOK, Placed,
     Stored,
     Before, After, Right, Target, Ordinary, BeingBilled, Carries, Bills, Alone

\* The invariant holds in every state of every behaviour.
THEOREM Invariance == Spec => []Inv
<1>1. Inv /\ [Next]_vars => Inv'
  <2> SUFFICES ASSUME Inv, [Next]_vars PROVE Inv'
    OBVIOUS
  <2>1. CASE UNCHANGED vars
    BY <2>1, Stuttering
  <2>2. ASSUME NEW t \in Tasks, Submit(t) \/ InsertFails(t) \/ UpstreamEnds(t) \/ GrowLate(t) PROVE Inv'
    BY <2>2, TaskInv
  <2>3. ASSUME NEW a \in Actors, NEW t \in Tasks,
               PollRead(a, t) \/ SweepRead(a, t) \/ QueryRead(a, t) \/ WorkerStart(a, t)
        PROVE  Inv'
    BY <2>3, ActorInv
  <2>4. ASSUME NEW a \in Actors, Step(a) \/ FundingFails(a) \/ SaveQuotaFails(a) \/ Crash(a) PROVE Inv'
    <3>1. pc[a] # "idle"
      BY <2>4 DEF Step, Ask, Write, WriteLost, ChannelGone, WorkerBinds, WorkerReload, Refund,
         Settle,
         SaveQuota, Mark, FundingFails, SaveQuotaFails, Crash
    <3>2. mem[a].task \in Tasks
      BY <3>1 DEF Inv, Placed
    <3> QED
      BY <2>4, <3>2, ActorInv
  <2> QED
    BY <2>1, <2>2, <2>3, <2>4 DEF Next
<1> QED
  BY <1>1, InitInv, PTL DEF Spec

\* Every variable keeps its type, in particular the quotas of the rows never fall below
\* zero.
THEOREM TypeCorrectness == Spec => []TypeOK
<1>1. Inv => TypeOK
  BY DEF Inv
<1> QED
  BY <1>1, Invariance, PTL

\* UpdateWithStatus lets one of any number of pollers, sweeps, queries and workers end a
\* task that no query reopens.
THEOREM BilledOnceAlways == Spec => []BilledOnce
<1>1. Inv => BilledOnce
  BY DEF Inv, BilledOnce, Before
<1> QED
  BY <1>1, Invariance, PTL

\* RefundTaskQuota gives back what the submission charged, whoever ended the task.
THEOREM FailureRefundedAlways == Spec => []FailureRefunded
<1>1. Inv => FailureRefunded
  BY DEF Inv, FailureRefunded, After, Right, Ordinary, Final
<1> QED
  BY <1>1, Invariance, PTL

\* recalculateTaskQuota and settleImageTaskActualQuota bring the charge to the real cost.
THEOREM SuccessChargedAlways == Spec => []SuccessCharged
<1>1. Inv => SuccessCharged
  BY DEF Inv, SuccessCharged, After, Right, Target, Ordinary, Final
<1> QED
  BY <1>1, Invariance, PTL

\* No interleaving, fault or crash gives back more than was charged.
THEOREM NeverOverRefundedAlways == Spec => []NeverOverRefunded
<1>1. Inv => NeverOverRefunded
  BY DEF Inv, NeverOverRefunded, Before
<1> QED
  BY <1>1, Invariance, PTL

-----------------------------------------------------------------------------
(***************************************************************************)
(* The quota of the row.  For kinds that only polls, the sweep and guarded *)
(* queries write, nobody who has yet to write holds a copy of an ended     *)
(* row, so that the row is the biller's alone until it has saved.          *)
(***************************************************************************)
Plain(t) == kind[t] \in {"seedance", "suno", "image"}

Kept(t) == Ordinary(t) /\ t \notin misrecorded

ReadOpen(a) ==
    /\ mem[a].role # "worker" /\ pc[a] # "work"
    /\ pc[a] \in Reading => mem[a].status \in Active

\* What the biller still has to write, or has written
Saves(a) == LET t == mem[a].task IN
    /\ pc[a] \in {"refund", "settle"} => quota[t] = base[t]
    /\ pc[a] = "saveQuota" => mem[a].quota = net[t]
    /\ pc[a] = "mark" => /\ mem[a].answer = "SUCCESS" => quota[t] = net[t]
                         /\ mem[a].answer = "FAILURE" => mem[a].quota = 0

Recorded(t) == Plain(t) =>
    /\ \A a \in Actors : mem[a].task = t => ReadOpen(a)
    /\ Kept(t) => /\ \A a \in Actors : mem[a].task = t => Saves(a)
                  /\ Stored(t) /\ ~BeingBilled(t) => quota[t] = net[t]

\* A step of a on t is a step on no other task.
LEMMA OthersRecorded ==
    ASSUME Inv, NEW a \in Actors, NEW t \in Tasks, Frame(a, t), TypeOK',
           \A u \in Tasks \ {t} : u \in misrecorded' <=> u \in misrecorded,
           NEW u \in Tasks \ {t}, Recorded(u)
    PROVE  Recorded(u)'
<1>1. SameTask(u) /\ kind' = kind /\ base' = base
  BY DEF Frame
<1>2. \A b \in Actors : mem'[b].task = u => SameActor(b)
  BY TaskBillingAssumption DEF Frame, TaskBillingAssumption
<1>3. \A b \in Actors : mem[b].task = u => SameActor(b)
  BY TaskBillingAssumption DEF Frame, TaskBillingAssumption
<1>4. BeingBilled(u)' <=> BeingBilled(u)
  BY <1>2, <1>3 DEF SameActor, BeingBilled
<1>5. Kept(u)' <=> Kept(u)
  BY <1>1 DEF SameTask, Kept, Ordinary
<1>6. Plain(u) => \A b \in Actors : mem'[b].task = u => ReadOpen(b)'
  BY <1>2 DEF SameActor, Recorded, ReadOpen
<1>7. Plain(u) /\ Kept(u) => \A b \in Actors : mem'[b].task = u => Saves(b)'
  BY <1>1, <1>2 DEF SameActor, SameTask, Recorded, Saves
<1> QED
  BY <1>1, <1>4, <1>5, <1>6, <1>7 DEF Recorded, Plain, SameTask, Stored

\* What a step of a does to the record of its own task
Books(a, t) ==
    /\ mem'[a].task = t => ReadOpen(a)'
    /\ Kept(t)' =>
         /\ Kept(t)
         /\ mem'[a].task = t => Saves(a)'
         /\ pc[a] \in Closing \/ status[t] \notin Final \/ (quota'[t] = quota[t] /\ net'[t] = net[t])
         /\ \/ pc'[a] \in Closing \/ quota'[t] = net'[t]
            \/ pc[a] \notin Closing /\ Stored(t) /\ quota'[t] = quota[t] /\ net'[t] = net[t]

LEMMA OwnRecorded ==
    ASSUME Inv, NEW a \in Actors, NEW t \in Tasks, StepOf(a, t), Recorded(t),
           Plain(t) => Books(a, t)
    PROVE  Recorded(t)'
<1> SUFFICES ASSUME Plain(t) PROVE Recorded(t)'
  BY DEF Recorded, Plain, StepOf, Frame
<1>1. Frame(a, t) /\ TypeOK /\ TypeOK' /\ Books(a, t)
  BY DEF StepOf, Inv
<1>2. \A b \in Actors : mem'[b].task = t => ReadOpen(b)'
  BY <1>1 DEF Frame, SameActor, Recorded, ReadOpen, Books
<1>3. ASSUME Kept(t)', NEW b \in Actors, mem'[b].task = t PROVE Saves(b)'
  <2>1. CASE b = a
    BY <1>1, <1>3, <2>1 DEF Books
  <2>2. CASE b # a /\ pc[b] \in Closing
    <3>1. SameActor(b) /\ mem[b].task = t /\ base' = base
      BY <1>1, <1>3, <2>2 DEF Frame, SameActor
    <3>2. Saves(b) /\ t \notin reopened
      BY <1>1, <1>3, <3>1 DEF Recorded, Books, Kept, Ordinary
    <3>3. status[t] \in Final
      BY <2>2, <3>1, <3>2 DEF Inv, Bills
    <3>4. pc[a] \notin Closing
      BY <1>1, <2>2, <3>1, <3>2, TaskBillingAssumption
      DEF Inv, Alone, Frame, TypeOK, Closing, TaskBillingAssumption
    <3>5. quota'[t] = quota[t] /\ net'[t] = net[t]
      BY <1>1, <1>3, <3>3, <3>4 DEF Books
    <3> QED
      BY <3>1, <3>2, <3>5 DEF SameActor, Saves
  <2>3. CASE b # a /\ pc[b] \notin Closing
    BY <1>1, <2>3 DEF Frame, SameActor, Saves, Closing
  <2> QED
    BY <2>1, <2>2, <2>3
<1>4. ASSUME Kept(t)', Stored(t)', ~BeingBilled(t)' PROVE quota'[t] = net'[t]
  <2>1. pc'[a] \notin Closing
    BY <1>1, <1>4, TaskBillingAssumption
    DEF Frame, BeingBilled, TypeOK, Closing, TaskBillingAssumption
  <2>2. CASE pc[a] \notin Closing /\ Stored(t) /\ quota'[t] = quota[t] /\ net'[t] = net[t]
    <3>1. ~BeingBilled(t)
      BY <1>1, <1>4, <2>2 DEF Frame, SameActor, BeingBilled, Closing
    <3> QED
      BY <1>1, <1>4, <2>2, <3>1 DEF Recorded, Books
  <2> QED
    BY <1>1, <1>4, <2>1, <2>2 DEF Books
<1> QED
  BY <1>2, <1>3, <1>4 DEF Recorded

LEMMA ActorRecorded ==
    ASSUME Inv, NEW a \in Actors, NEW t \in Tasks, Recorded(t), Plain(t),
           \/ PollRead(a, t) \/ SweepRead(a, t) \/ QueryRead(a, t) \/ WorkerStart(a, t)
           \/ mem[a].task = t /\ (Step(a) \/ FundingFails(a) \/ SaveQuotaFails(a) \/ Crash(a))
    PROVE  Books(a, t)
<1> USE TaskBillingAssumption DEF TaskBillingAssumption, Closing, Reading, Final, Active, Stored,
        row, fixed, upstream, actors, ghosts, losses, counters, Unbilled, Kept, Ordinary
<1>t. TypeOK /\ Placed(a) /\ (t \notin reopened => Before(t))
      /\ (mem[a].task = t /\ t \notin reopened => Carries(a) /\ Bills(a))
  BY DEF Inv
<1>r. mem[a].task = t => ReadOpen(a) /\ (Kept(t) => Saves(a))
  BY DEF Recorded
<1>1. ASSUME PollRead(a, t) \/ SweepRead(a, t) \/ QueryRead(a, t) PROVE Books(a, t)
  <2>1. status[t] \in Active
    BY <1>1 DEF PollRead, SweepRead, QueryRead, Plain, Metered
  <2> QED
    BY <1>t, <1>1, <2>1
    DEF TypeOK, Books, ReadOpen, Saves, PollRead, SweepRead, QueryRead, Copy
<1>2. ASSUME WorkerStart(a, t) PROVE Books(a, t)
  BY <1>2 DEF WorkerStart, Plain
<1>3. ASSUME mem[a].task = t, Ask(a) PROVE Books(a, t)
  BY <1>t, <1>r, <1>3 DEF TypeOK, Placed, Books, ReadOpen, Saves, Ask
<1>4. ASSUME mem[a].task = t, Write(a) PROVE Books(a, t)
  <2>1. mem[a].status \in Active /\ mem[a].role # "worker" /\ status[t] = mem[a].status
    BY <1>r, <1>4 DEF ReadOpen, Write, Wins
  <2>2. ASSUME Kept(t)' PROVE quota'[t] = base[t] /\ net'[t] = base[t] /\ Kept(t)
    BY <1>t, <1>4, <2>1, <2>2
    DEF TypeOK, Before, Carries, Write, QuotaWritten, Plain
  <2>3. pc'[a] \in {"idle", "refund", "settle"}
    BY <1>t, <1>4 DEF TypeOK, Write, Billing
  <2>4. mem'[a].task = t => mem'[a].role = mem[a].role
    BY <1>t, <1>4 DEF TypeOK, Write, Nothing
  <2>5. base' = base
    BY <1>4 DEF Write
  <2> QED
    BY <1>t, <1>4, <2>1, <2>2, <2>3, <2>4, <2>5 DEF Books, ReadOpen, Saves
<1>5. ASSUME mem[a].task = t, WriteLost(a) PROVE Books(a, t)
  BY <1>t, <1>5 DEF TypeOK, Placed, Books, WriteLost, Nothing
<1>6. ASSUME mem[a].task = t, ChannelGone(a) PROVE Books(a, t)
  BY <1>t, <1>6 DEF TypeOK, Books, ChannelGone, Nothing
<1>7. ASSUME mem[a].task = t, WorkerBinds(a) PROVE Books(a, t)
  BY <1>r, <1>7 DEF ReadOpen, WorkerBinds
<1>8. ASSUME mem[a].task = t, WorkerReload(a) PROVE Books(a, t)
  BY <1>r, <1>8 DEF ReadOpen, WorkerReload
<1>9. ASSUME mem[a].task = t, Refund(a) PROVE Books(a, t)
  <2>1. mem[a].role # "worker"
    BY <1>r, <1>9 DEF ReadOpen
  <2>2. Kept(t)' => Kept(t)
    BY <1>9 DEF Refund
  <2>3. ASSUME Kept(t) PROVE /\ mem[a].quota = base[t] /\ net[t] = base[t] /\ quota[t] = base[t]
                             /\ mem[a].answer = "FAILURE"
    BY <1>t, <1>r, <1>9, <2>3 DEF Bills, Saves, Refund, Plain
  <2>4. CASE mem[a].quota = 0
    BY <1>t, <1>9, <2>1, <2>2, <2>3, <2>4
    DEF TypeOK, Books, ReadOpen, Saves, Refund, BySession, Finish, Nothing
  <2>5. CASE mem[a].quota # 0
    <3>1. /\ pc' = [pc EXCEPT ![a] = AfterFunding(a)]
          /\ mem' = [mem EXCEPT ![a].quota = 0]
          /\ net' = [net EXCEPT ![t] = @ - mem[a].quota]
      BY <1>9, <2>1, <2>5 DEF Refund, BySession
    <3>2. pc'[a] \in {"mark", "saveQuota"} /\ mem'[a].quota = 0
          /\ mem'[a].answer = mem[a].answer /\ mem'[a].role = mem[a].role
      BY <1>t, <3>1 DEF TypeOK, AfterFunding
    <3>3. Kept(t) => net'[t] = 0
      BY <1>t, <2>3, <3>1 DEF TypeOK
    <3> QED
      BY <1>t, <1>9, <2>1, <2>2, <2>3, <3>2, <3>3 DEF Books, ReadOpen, Saves, Refund
  <2> QED
    BY <2>4, <2>5
<1>10. ASSUME mem[a].task = t, Settle(a) PROVE Books(a, t)
  <2>1. mem[a].role # "worker"
    BY <1>r, <1>10 DEF ReadOpen
  <2>2. Kept(t)' => Kept(t)
    BY <1>10 DEF Settle
  <2>3. ASSUME Kept(t) PROVE mem[a].quota = base[t] /\ net[t] = base[t] /\ quota[t] = base[t]
    BY <1>t, <1>r, <1>10, <2>3 DEF Bills, Saves, Settle
  <2>4. CASE Settled(a)
    BY <1>t, <1>10, <2>1, <2>2, <2>3, <2>4
    DEF TypeOK, Books, ReadOpen, Saves, Settle, Finish, Nothing
  <2>5. CASE ~Settled(a)
    <3>1. /\ pc' = [pc EXCEPT ![a] = "saveQuota"]
          /\ mem' = [mem EXCEPT ![a].quota = Actual(a)]
          /\ net' = [net EXCEPT ![t] = @ + Actual(a) - mem[a].quota]
      BY <1>10, <2>5 DEF Settle
    <3>2. pc'[a] = "saveQuota" /\ mem'[a].quota = Actual(a) /\ mem'[a].role = mem[a].role
      BY <1>t, <3>1 DEF TypeOK
    <3>3. Actual(a) \in Int
      BY <1>t, <1>10 DEF TypeOK, Actual, Unmeasured
    <3>4. Kept(t) => net'[t] = Actual(a)
      BY <1>t, <2>3, <3>1, <3>3 DEF TypeOK
    <3> QED
      BY <1>t, <1>10, <2>1, <2>2, <3>2, <3>4 DEF Books, ReadOpen, Saves, Settle
  <2> QED
    BY <2>4, <2>5
<1>11. ASSUME mem[a].task = t, FundingFails(a) PROVE Books(a, t)
  BY <1>t, <1>11 DEF TypeOK, Books, FundingFails, Finish, Nothing
<1>12. ASSUME mem[a].task = t, SaveQuota(a) PROVE Books(a, t)
  <2>1. pc[a] = "saveQuota" /\ quota'[t] = mem[a].quota /\ net' = net
    BY <1>t, <1>12 DEF TypeOK, SaveQuota
  <2>2. Kept(t)' => Kept(t) /\ quota'[t] = net'[t]
    BY <1>r, <1>12, <2>1 DEF Saves, SaveQuota
  <2>3. pc'[a] = AfterSave(a) /\ (AfterSave(a) = "mark" => mem' = mem)
        /\ (AfterSave(a) = "idle" => mem'[a].task = NoTask)
    BY <1>t, <1>12 DEF TypeOK, SaveQuota, AfterSave, GoOn, Nothing
  <2>4. AfterSave(a) \in {"mark", "idle"} /\ (AfterSave(a) = "mark" => mem[a].answer = "SUCCESS")
    BY DEF AfterSave
  <2> QED
    BY <1>r, <2>1, <2>2, <2>3, <2>4 DEF Books, ReadOpen, Saves
<1>13. ASSUME mem[a].task = t, SaveQuotaFails(a) PROVE Books(a, t)
  BY <1>t, <1>r, <1>13
  DEF TypeOK, Books, ReadOpen, SaveQuotaFails, AfterSave, GoOn, Nothing
<1>14. ASSUME mem[a].task = t, Mark(a) PROVE Books(a, t)
  <2>1. pc[a] = "mark" /\ quota' = quota /\ net' = net /\ (Kept(t)' => Kept(t))
    BY <1>14 DEF Mark
  <2>2. CASE mem[a].answer = "FAILURE"
    <3>1. pc'[a] = "saveQuota" /\ mem' = mem
      BY <1>t, <1>14, <2>2 DEF TypeOK, Mark, GoOn
    <3>2. Kept(t) => mem[a].quota = 0 /\ net[t] = 0
      BY <1>t, <1>r, <1>14, <2>1, <2>2 DEF Saves, Bills
    <3> QED
      BY <1>r, <2>1, <3>1, <3>2 DEF Books, ReadOpen, Saves
  <2>3. CASE mem[a].answer = "SUCCESS"
    <3>1. pc'[a] = "idle" /\ mem'[a].task = NoTask
      BY <1>t, <1>14, <2>3 DEF TypeOK, Mark, GoOn, Nothing
    <3>2. Kept(t) => quota[t] = net[t]
      BY <1>r, <1>14, <2>1, <2>3 DEF Saves
    <3> QED
      BY <2>1, <3>1, <3>2 DEF Books
  <2> QED
    BY <1>t, <1>14, <2>1, <2>2, <2>3 DEF Placed
<1>15. ASSUME mem[a].task = t, Crash(a) PROVE Books(a, t)
  BY <1>t, <1>15 DEF TypeOK, Placed, Books, Crash, Finish, Nothing, Places
<1> QED
  BY <1>1, <1>2, <1>3, <1>4, <1>5, <1>6, <1>7, <1>8, <1>9, <1>10, <1>11, <1>12, <1>13, <1>14,
     <1>15 DEF Step

AllRecorded == \A t \in Tasks : Recorded(t)

LEMMA RecordedStep ==
    ASSUME Inv, \A t \in Tasks : Recorded(t), [Next]_vars
    PROVE  \A t \in Tasks : Recorded(t)'
<1>1. ASSUME NEW a \in Actors, NEW t \in Tasks,
             \/ PollRead(a, t) \/ SweepRead(a, t) \/ QueryRead(a, t) \/ WorkerStart(a, t)
             \/ mem[a].task = t /\ (Step(a) \/ FundingFails(a) \/ SaveQuotaFails(a) \/ Crash(a))
      PROVE  \A u \in Tasks : Recorded(u)'
  <2>1. StepOf(a, t)
    BY <1>1, ActorStep
  <2>2. Recorded(t)'
    <3>1. Plain(t) => Books(a, t)
      BY <1>1, ActorRecorded
    <3> QED
      BY <2>1, <3>1, OwnRecorded
  <2>3. \A u \in Tasks \ {t} : u \in misrecorded' <=> u \in misrecorded
    BY <1>1 DEF PollRead, SweepRead, QueryRead, WorkerStart, Step, Ask, Write, WriteLost, ChannelGone,
       WorkerBinds, WorkerReload, Refund, Settle, FundingFails, SaveQuota, SaveQuotaFails, Mark, Crash,
       losses
  <2>4. Frame(a, t) /\ TypeOK'
    BY <2>1 DEF StepOf
  <2>5. ASSUME NEW u \in Tasks \ {t} PROVE Recorded(u)'
    BY <2>3, <2>4, OthersRecorded
  <2> QED
    BY <2>2, <2>5
<1>2. ASSUME NEW a \in Actors, Step(a) \/ FundingFails(a) \/ SaveQuotaFails(a) \/ Crash(a)
      PROVE  \A u \in Tasks : Recorded(u)'
  <2>1. pc[a] # "idle"
    BY <1>2 DEF Step, Ask, Write, WriteLost, ChannelGone, WorkerBinds, WorkerReload, Refund, Settle,
       SaveQuota, Mark, FundingFails, SaveQuotaFails, Crash
  <2>2. mem[a].task \in Tasks
    BY <2>1 DEF Inv, Placed
  <2> QED
    BY <1>1, <1>2, <2>2
<1>3. ASSUME NEW t \in Tasks, Submit(t) \/ InsertFails(t) PROVE \A u \in Tasks : Recorded(u)'
  <2>1. /\ UNCHANGED <<kind, pc, mem, reopened, silent, gone, unpaid, misrecorded>>
        /\ \A u \in Tasks \ {t} : /\ status'[u] = status[u] /\ quota'[u] = quota[u]
                                  /\ net'[u] = net[u] /\ base'[u] = base[u]
        /\ Stored(t)' => quota'[t] = net'[t]
    BY <1>3 DEF Inv, TypeOK, Submit, InsertFails, actors, ghosts, losses, fixed, Stored, Active, Final
  <2>2. \A a \in Actors : mem[a].task # t
    BY <1>3, TaskBillingAssumption
    DEF Inv, TypeOK, Placed, Submit, InsertFails, Stored, Active, Final, TaskBillingAssumption
  <2>3. ASSUME NEW u \in Tasks PROVE Recorded(u)'
    <3>1. CASE u = t
      BY <2>1, <2>2, <3>1 DEF Recorded
    <3>2. CASE u # t
      BY <2>1, <3>2 DEF Recorded, Plain, Kept, Ordinary, ReadOpen, Saves, BeingBilled, Stored
    <3> QED
      BY <3>1, <3>2
  <2> QED
    BY <2>3
<1>4. ASSUME NEW t \in Tasks, UpstreamEnds(t) \/ GrowLate(t) PROVE \A u \in Tasks : Recorded(u)'
  BY <1>4 DEF UpstreamEnds, GrowLate, row, fixed, actors, ghosts, losses, Recorded, Plain, Kept,
     Ordinary, ReadOpen, Saves, BeingBilled, Stored
<1>5. CASE UNCHANGED vars
  BY <1>5 DEF vars, row, fixed, actors, ghosts, losses, Recorded, Plain, Kept, Ordinary, ReadOpen,
     Saves, BeingBilled, Stored
<1> QED
  BY <1>1, <1>2, <1>3, <1>4, <1>5 DEF Next

\* The row of a task keeps the quota that is charged for it, however many pollers, sweeps
\* and queries hold copies of it, for the kinds the property is about.
THEOREM RowMatchesChargeAlways == Spec => []RowMatchesCharge
<1>1. ASSUME Init PROVE AllRecorded
  BY <1>1, TaskBillingAssumption
  DEF Init, AllRecorded, Recorded, Saves, ReadOpen, Nothing, Stored, Active, Final, TaskBillingAssumption
<1>2. ASSUME Inv, AllRecorded, [Next]_vars PROVE AllRecorded'
  BY <1>2, RecordedStep DEF AllRecorded
<1>3. ASSUME Inv, AllRecorded PROVE RowMatchesCharge
  <2> SUFFICES ASSUME NEW t \in Tasks, kind[t] \notin {"configurable", "gemini", "local", "legacy"}
               PROVE  Plain(t)
    BY <1>3 DEF AllRecorded, RowMatchesCharge, Recorded, Kept
  <2>1. kind[t] \in Kinds
    BY <1>3 DEF Inv, TypeOK
  <2> QED
    BY <2>1, TaskBillingAssumption DEF Plain, TaskBillingAssumption, Metered, Images
<1> QED
  BY <1>1, <1>2, <1>3, Invariance, PTL DEF Spec
=============================================================================
