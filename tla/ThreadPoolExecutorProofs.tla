---------------------- MODULE ThreadPoolExecutorProofs ----------------------
(***************************************************************************)
(* Proofs about ThreadPoolExecutor, for every number of workers,           *)
(* submitters and tasks and all queue sizes of at least two.               *)
(***************************************************************************)
EXTENDS ThreadPoolExecutor, FiniteSetTheorems, TLAPS

(* An index into the queues. *)
LEMMA ModRange ==
  ASSUME NEW C \in Nat, C > 0, NEW x \in Int
  PROVE  x % C \in 0 .. C - 1
  OBVIOUS

-----------------------------------------------------------------------------
(* The inductive invariant.                                                *)

QueueShape  == [log : Seq(Tasks \cup {NoTask}), taken : Nat, writing : SUBSET Nat, reading : SUBSET Nat]
SubShape    == [pc : {"idle", "push", "overflow", "publish"}, task : Tasks \cup {NoTask},
                q : Queues, pos : Nat]
WorkerShape == [pc : {"top", "own", "steal", "global", "sleep", "blocking", "blocked", "run",
                      "drain_own", "drain_global", "exited"},
                back : {"top", "drain_own", "drain_global"}, i : 1 .. N, q : Queues, pos : Nat]

Shapes ==
    /\ stop \in BOOLEAN
    /\ next_worker \in Nat
    /\ queue \in [Queues -> QueueShape]
    /\ sub \in [Submitters -> SubShape]
    /\ worker \in [Workers -> WorkerShape]
    /\ manager \in {"idle", "notify", "join", "done"}
    /\ outcome \in [Tasks -> {"none", "pending", "queued", "dropped", "rejected"}]
    /\ runs \in [Tasks -> Nat]
    /\ overlap \subseteq Tasks

\* The positions of one queue: taken, claimed, being written, being read.
LaneOK(r, cap) ==
    /\ r.taken <= Len(r.log)
    /\ Len(r.log) <= r.taken + cap
    /\ r.writing \subseteq r.taken .. Len(r.log) - 1
    /\ r.reading \subseteq Len(r.log) - cap .. r.taken - 1

Lanes == \A q \in Queues : LaneOK(queue[q], Capacity(q))

\* Tasks are submitted in order, and next_worker_ counts no other calls.
Submitted ==
    \E k \in 0 .. MaxTasks :
        /\ next_worker <= k
        /\ \A t \in Tasks : outcome[t] # "none" <=> t <= k

Publishing(s, q, x) == sub[s].pc = "publish" /\ sub[s].q = q /\ sub[s].pos = x
Reading(w, q, x)    == worker[w].pc = "run" /\ worker[w].q = q /\ worker[w].pos = x

\* The positions being written are those of the submits that have claimed one.
Publishers ==
    /\ \A s \in Submitters : sub[s].pc = "push" => sub[s].q \in Workers
    /\ \A s \in Submitters : sub[s].pc = "publish" =>
          /\ sub[s].pos \in queue[sub[s].q].writing
          /\ sub[s].q # Global => queue[sub[s].q].log[sub[s].pos + 1] = sub[s].task
    /\ \A q \in Queues : \A x \in queue[q].writing : \E s \in Submitters : Publishing(s, q, x)
    /\ \A s, z \in Submitters : \A q \in Queues : \A x \in Nat :
          Publishing(s, q, x) /\ Publishing(z, q, x) => s = z

\* The positions being read are those of the workers that run a task.
Readers ==
    /\ \A w \in Workers : worker[w].pc = "run" => worker[w].pos \in queue[worker[w].q].reading
    /\ \A q \in Queues : \A x \in queue[q].reading : \E w \in Workers : Reading(w, q, x)
    /\ \A w, v \in Workers : \A q \in Queues : \A x \in Nat :
          Reading(w, q, x) /\ Reading(v, q, x) => w = v
    /\ \A w \in Workers : worker[w].pc = "steal" => worker[w].i < N

Holds(q, x, t) == x \in 1 .. Len(queue[q].log) /\ queue[q].log[x] = t

\* A task is with one submit at most, and then at one place at most.
TasksApart ==
    /\ \A s \in Submitters : sub[s].pc # "idle" => sub[s].task \in Tasks /\ outcome[sub[s].task] = "pending"
    /\ \A s, z \in Submitters :
          sub[s].pc # "idle" /\ sub[z].pc # "idle" /\ sub[s].task = sub[z].task => s = z
    /\ \A s \in Submitters : sub[s].pc = "push" =>
          \A q \in Queues : \A x \in Nat : ~Holds(q, x, sub[s].task)
    /\ \A t \in Tasks : outcome[t] = "none" => \A q \in Queues : \A x \in Nat : ~Holds(q, x, t)
    /\ \A t \in Tasks : \A q, r \in Queues : \A x, y \in Nat :
          Holds(q, x, t) /\ Holds(r, y, t) => q = r /\ x = y

\* A task runs when its position is released, and never elsewhere.
RunsCounted ==
    /\ \A t \in Tasks : \A q \in Queues : \A x \in Nat :
          Holds(q, x, t) =>
             runs[t] = IF x - 1 < queue[q].taken /\ x - 1 \notin queue[q].reading THEN 1 ELSE 0
    /\ \A t \in Tasks : (\A q \in Queues : \A x \in Nat : ~Holds(q, x, t)) => runs[t] = 0

\* Worker w has found its own queue empty in the drain.
PastOwn(w) ==
    \/ worker[w].pc \in {"drain_global", "exited"}
    \/ worker[w].pc = "run" /\ worker[w].back = "drain_global"

OwnLeftovers(w) ==
    \A x \in queue[w].taken + 1 .. Len(queue[w].log) : \E y \in 1 .. x : queue[w].log[y] \in overlap

GlobalLeftovers == queue[Global].taken < Len(queue[Global].log) => overlap # {}

\* The order of the shutdown.
Stopping ==
    /\ manager = "idle" <=> ~stop
    /\ manager = "done" => \A w \in Workers : worker[w].pc = "exited"
    /\ stop => \A s \in Submitters : sub[s].pc # "idle" => sub[s].task \in overlap
    /\ \A w \in Workers :
          /\ worker[w].pc \in {"drain_own", "drain_global", "exited"} => stop
          /\ worker[w].pc = "run" /\ worker[w].back # "top" => stop
          /\ PastOwn(w) => OwnLeftovers(w)
          /\ worker[w].pc = "exited" => GlobalLeftovers

IInv ==
    /\ Shapes
    /\ Lanes
    /\ Submitted
    /\ Publishers
    /\ Readers
    /\ TasksApart
    /\ RunsCounted
    /\ Stopping

-----------------------------------------------------------------------------
(* Facts about the constants and the queues.                               *)

LEMMA Constants ==
  /\ N \in Nat /\ N >= 1
  /\ MaxTasks \in Nat
  /\ Global \in Queues /\ Global \notin Workers
  /\ 0 \in Workers
  /\ Workers \subseteq Queues
  /\ \A q \in Queues : q \in Workers \/ q = Global
  /\ NoTask \notin Tasks
  BY PoolAssumption DEF Global, Queues, Workers, NoTask, Tasks

LEMMA Capacities == \A q \in Queues : Capacity(q) \in Nat /\ Capacity(q) >= 2
  BY PoolAssumption DEF Capacity

LEMMA QueueFacts ==
  ASSUME queue \in [Queues -> QueueShape], NEW q \in Queues
  PROVE  /\ queue[q].log \in Seq(Tasks \cup {NoTask})
         /\ Len(queue[q].log) \in Nat
         /\ queue[q].taken \in Nat
         /\ queue[q].writing \subseteq Nat
         /\ queue[q].reading \subseteq Nat
<1>1. queue[q] \in QueueShape
  OBVIOUS
<1>. QED
  BY <1>1 DEF QueueShape

(* A step that leaves the logs alone leaves every task where it is. *)
LEMMA HoldsKept ==
  ASSUME \A q \in Queues : queue'[q].log = queue[q].log
  PROVE  \A q \in Queues, x \in Nat, t \in Tasks : Holds(q, x, t)' <=> Holds(q, x, t)
  BY DEF Holds

LEMMA InitIInv == Init => IInv
<1> SUFFICES ASSUME Init PROVE IInv
  OBVIOUS
<1> USE Constants
<1>q. /\ queue = [q \in Queues |-> [log |-> << >>, taken |-> 0, writing |-> {}, reading |-> {}]]
      /\ sub = [s \in Submitters |-> [pc |-> "idle", task |-> NoTask, q |-> 0, pos |-> 0]]
      /\ worker = [w \in Workers |-> [pc |-> "top", back |-> "top", i |-> 1, q |-> w, pos |-> 0]]
  BY DEF Init
<1>h. \A q \in Queues, x \in Nat, t \in Tasks : ~Holds(q, x, t)
  BY <1>q DEF Holds
<1>1. Shapes
  <2>1. queue \in [Queues -> QueueShape]
    BY <1>q DEF QueueShape
  <2>2. sub \in [Submitters -> SubShape]
    BY <1>q DEF SubShape
  <2>3. worker \in [Workers -> WorkerShape]
    BY <1>q DEF WorkerShape
  <2>. QED
    BY <2>1, <2>2, <2>3 DEF Init, Shapes
<1>2. Lanes
  <2> SUFFICES ASSUME NEW q \in Queues PROVE LaneOK(queue[q], Capacity(q))
    BY DEF Lanes
  <2>1. queue[q] = [log |-> << >>, taken |-> 0, writing |-> {}, reading |-> {}]
    BY <1>q
  <2>. QED
    BY <2>1, Capacities DEF LaneOK
<1>3. Submitted
  <2>1. \A t \in Tasks : ~(t <= 0)
    BY DEF Tasks
  <2>. QED
    BY <2>1 DEF Init, Submitted
<1>4. Publishers
  BY <1>q DEF Publishers, Publishing
<1>5. Readers
  BY <1>q DEF Readers, Reading
<1>6. TasksApart
  BY <1>q, <1>h DEF TasksApart
<1>7. RunsCounted
  BY <1>q, <1>h DEF RunsCounted, Init
<1>8. Stopping
  BY <1>q DEF Stopping, Init, PastOwn
<1>. QED
  BY <1>1, <1>2, <1>3, <1>4, <1>5, <1>6, <1>7, <1>8 DEF IInv

-----------------------------------------------------------------------------
(* submit                                                                  *)

Claims(s, q, f) ==
    \/ sub[s].pc = "push" /\ q = sub[s].q /\ f = sub[s].task
    \/ sub[s].pc = "overflow" /\ q = Global /\ f = NoTask

LEMMA ClaimFacts ==
  ASSUME IInv, NEW s \in Submitters, NEW q, NEW f, Claims(s, q, f), HasRoom(q), ClaimPosition(s, q, f)
  PROVE  /\ q \in Queues /\ f \in Tasks \cup {NoTask}
         /\ Len(queue[q].log) \in Nat
         /\ queue' \in [Queues -> QueueShape]
         /\ \A p \in Queues : p # q => queue'[p] = queue[p]
         /\ queue'[q].log = Append(queue[q].log, f)
         /\ Len(queue'[q].log) = Len(queue[q].log) + 1
         /\ \A x \in 1 .. Len(queue[q].log) : queue'[q].log[x] = queue[q].log[x]
         /\ queue'[q].log[Len(queue[q].log) + 1] = f
         /\ queue'[q].taken = queue[q].taken
         /\ queue'[q].reading = queue[q].reading
         /\ queue'[q].writing = queue[q].writing \cup {Len(queue[q].log)}
         /\ sub' \in [Submitters -> SubShape]
         /\ \A z \in Submitters : z # s => sub'[z] = sub[z]
         /\ sub'[s].pc = "publish" /\ sub'[s].q = q /\ sub'[s].pos = Len(queue[q].log)
         /\ sub'[s].task = sub[s].task
<1>0. /\ queue \in [Queues -> QueueShape] /\ sub \in [Submitters -> SubShape]
  BY DEF IInv, Shapes
<1>1. sub[s] \in SubShape
  BY <1>0
<1>2. q \in Queues /\ f \in Tasks \cup {NoTask}
  BY <1>1, Constants DEF Claims, SubShape
<1>3. queue[q] \in QueueShape
  BY <1>0, <1>2
<1>4. queue' = [queue EXCEPT ![q] = [queue[q] EXCEPT !.log = Append(@, f), !.writing = @ \cup {Len(queue[q].log)}]]
  BY DEF ClaimPosition
<1>5. sub' = [sub EXCEPT ![s] = [sub[s] EXCEPT !.pc = "publish", !.q = q, !.pos = Len(queue[q].log)]]
  BY DEF ClaimPosition
<1>6. queue'[q] = [queue[q] EXCEPT !.log = Append(@, f), !.writing = @ \cup {Len(queue[q].log)}]
  BY <1>0, <1>2, <1>4
<1>7. sub'[s] = [sub[s] EXCEPT !.pc = "publish", !.q = q, !.pos = Len(queue[q].log)]
  BY <1>0, <1>5
<1>8. /\ queue[q].log \in Seq(Tasks \cup {NoTask}) /\ Len(queue[q].log) \in Nat /\ queue[q].writing \subseteq Nat
      /\ queue[q].taken \in Nat /\ queue[q].reading \subseteq Nat
  BY <1>3 DEF QueueShape
<1>9. /\ queue'[q].log = Append(queue[q].log, f)
      /\ queue'[q].taken = queue[q].taken
      /\ queue'[q].reading = queue[q].reading
      /\ queue'[q].writing = queue[q].writing \cup {Len(queue[q].log)}
  BY <1>6, <1>3 DEF QueueShape
<1>10. /\ Append(queue[q].log, f) \in Seq(Tasks \cup {NoTask})
       /\ Len(queue'[q].log) = Len(queue[q].log) + 1
       /\ \A x \in 1 .. Len(queue[q].log) : queue'[q].log[x] = queue[q].log[x]
       /\ queue'[q].log[Len(queue[q].log) + 1] = f
  BY <1>8, <1>9, <1>2
<1>11. queue'[q] \in QueueShape
  <2>1. queue[q].writing \cup {Len(queue[q].log)} \in SUBSET Nat
    BY <1>8
  <2>2. queue'[q] = [log |-> Append(queue[q].log, f), taken |-> queue[q].taken,
                     writing |-> queue[q].writing \cup {Len(queue[q].log)}, reading |-> queue[q].reading]
    BY <1>6, <1>3 DEF QueueShape
  <2>. QED
    BY <2>1, <2>2, <1>8, <1>10 DEF QueueShape
<1>12. sub'[s] \in SubShape
  BY <1>7, <1>1, <1>8, <1>2 DEF SubShape
<1>13. \A p \in Queues : p # q => queue'[p] = queue[p]
  BY <1>0, <1>4
<1>14. \A z \in Submitters : z # s => sub'[z] = sub[z]
  BY <1>0, <1>5
<1>15. queue' \in [Queues -> QueueShape]
  BY <1>0, <1>2, <1>4, <1>6, <1>11
<1>16. sub' \in [Submitters -> SubShape]
  BY <1>0, <1>5, <1>7, <1>12
<1>17. /\ sub'[s].pc = "publish" /\ sub'[s].q = q /\ sub'[s].pos = Len(queue[q].log)
       /\ sub'[s].task = sub[s].task
  BY <1>7, <1>1 DEF SubShape
<1>. QED
  BY <1>2, <1>8, <1>9, <1>10, <1>13, <1>14, <1>15, <1>16, <1>17

(* A claim gives the task its one place. *)
LEMMA ClaimHolds ==
  ASSUME IInv, NEW s \in Submitters, NEW q, NEW f, Claims(s, q, f), HasRoom(q), ClaimPosition(s, q, f)
  PROVE  \A p \in Queues, x \in Nat, t \in Tasks :
            Holds(p, x, t)' <=> Holds(p, x, t) \/ (p = q /\ x = Len(queue[q].log) + 1 /\ t = f)
<1> SUFFICES ASSUME NEW p \in Queues, NEW x \in Nat, NEW t \in Tasks
             PROVE Holds(p, x, t)' <=> Holds(p, x, t) \/ (p = q /\ x = Len(queue[q].log) + 1 /\ t = f)
  OBVIOUS
<1>1. CASE p = q
  <2>1. /\ Len(queue[q].log) \in Nat
        /\ Len(queue'[q].log) = Len(queue[q].log) + 1
        /\ \A y \in 1 .. Len(queue[q].log) : queue'[q].log[y] = queue[q].log[y]
        /\ queue'[q].log[Len(queue[q].log) + 1] = f
    BY ClaimFacts
  <2> DEFINE L  == Len(queue[q].log)
             g  == queue[q].log
             g1 == queue'[q].log
  <2>2. Holds(p, x, t) <=> x \in 1 .. L /\ g[x] = t
    BY <1>1 DEF Holds
  <2>3. Holds(p, x, t)' <=> x \in 1 .. L + 1 /\ g1[x] = t
    BY <1>1, <2>1 DEF Holds
  <2>4. L \in Nat /\ (\A y \in 1 .. L : g1[y] = g[y]) /\ g1[L + 1] = f
    BY <2>1
  <2> HIDE DEF L, g, g1
  <2>5. Holds(p, x, t)' <=> Holds(p, x, t) \/ (x = L + 1 /\ t = f)
    BY <2>2, <2>3, <2>4
  <2>. QED
    BY <1>1, <2>5 DEF L
<1>2. CASE p # q
  <2>1. queue'[p] = queue[p]
    BY <1>2, ClaimFacts
  <2>. QED
    BY <1>2, <2>1 DEF Holds
<1>. QED
  BY <1>1, <1>2

LEMMA ClaimInv ==
  ASSUME IInv, NEW s \in Submitters, NEW q, NEW f, Claims(s, q, f), HasRoom(q), ClaimPosition(s, q, f),
         UNCHANGED <<stop, next_worker, worker, manager, histVars>>
  PROVE  IInv'
<1>0. PICK L : L = Len(queue[q].log)
  OBVIOUS
<1>f. /\ q \in Queues /\ f \in Tasks \cup {NoTask}
      /\ L \in Nat
      /\ queue' \in [Queues -> QueueShape]
      /\ \A p \in Queues : p # q => queue'[p] = queue[p]
      /\ Len(queue'[q].log) = L + 1
      /\ \A x \in 1 .. L : queue'[q].log[x] = queue[q].log[x]
      /\ queue'[q].log[L + 1] = f
      /\ queue'[q].taken = queue[q].taken
      /\ queue'[q].reading = queue[q].reading
      /\ queue'[q].writing = queue[q].writing \cup {L}
  BY <1>0, ClaimFacts
<1>s. /\ sub' \in [Submitters -> SubShape]
      /\ \A z \in Submitters : z # s => sub'[z] = sub[z]
      /\ sub'[s].pc = "publish" /\ sub'[s].q = q /\ sub'[s].pos = L
      /\ sub'[s].task = sub[s].task
  BY <1>0, ClaimFacts
<1>h. \A p \in Queues, x \in Nat, t \in Tasks :
            Holds(p, x, t)' <=> Holds(p, x, t) \/ (p = q /\ x = L + 1 /\ t = f)
  BY <1>0, ClaimHolds
<1>u. /\ stop' = stop /\ next_worker' = next_worker /\ worker' = worker /\ manager' = manager
      /\ outcome' = outcome /\ runs' = runs /\ overlap' = overlap
  BY DEF histVars
<1>p. \/ sub[s].pc = "push" /\ q = sub[s].q /\ f = sub[s].task /\ q \in Workers
      \/ sub[s].pc = "overflow" /\ q = Global /\ f = NoTask
  BY DEF Claims, IInv, Publishers
<1>q. /\ queue[q].log \in Seq(Tasks \cup {NoTask}) /\ queue[q].taken \in Nat
      /\ queue[q].writing \subseteq Nat /\ queue[q].reading \subseteq Nat
  BY <1>f, QueueFacts DEF IInv, Shapes
<1>l. LaneOK(queue[q], Capacity(q))
  BY <1>f DEF IInv, Lanes
<1>n. L \notin queue[q].writing
  BY <1>0, <1>q, <1>l, <1>f DEF LaneOK
<1>1. Shapes'
  BY <1>f, <1>s, <1>u DEF IInv, Shapes
<1>2. Lanes'
  <2> SUFFICES ASSUME NEW p \in Queues PROVE LaneOK(queue'[p], Capacity(p))
    BY DEF Lanes
  <2>1. CASE p # q
    BY <2>1, <1>f DEF IInv, Lanes
  <2>2. CASE p = q
    <3>1. L < queue[q].taken + Capacity(q) /\ L - Capacity(q) \notin queue[q].reading
      BY <1>0 DEF HasRoom, Room
    <3>2. Capacity(q) \in Nat /\ Capacity(q) >= 2
      BY Capacities, <1>f
    <3>3. /\ queue[q].taken <= L /\ L <= queue[q].taken + Capacity(q)
          /\ queue[q].writing \subseteq queue[q].taken .. L - 1
          /\ queue[q].reading \subseteq L - Capacity(q) .. queue[q].taken - 1
      BY <1>0, <1>l DEF LaneOK
    <3>4. queue[q].reading \subseteq L + 1 - Capacity(q) .. queue[q].taken - 1
      <4>1. PICK R, k, c : R = queue[q].reading /\ k = queue[q].taken /\ c = Capacity(q)
        OBVIOUS
      <4>2. /\ R \subseteq L - c .. k - 1 /\ L - c \notin R
            /\ L \in Nat /\ k \in Nat /\ c \in Nat
        BY <4>1, <3>1, <3>2, <3>3, <1>q, <1>f
      <4>3. R \subseteq L + 1 - c .. k - 1
        BY <4>2
      <4>. QED
        BY <4>1, <4>3
    <3>5. queue[q].writing \cup {L} \subseteq queue[q].taken .. L + 1 - 1
      BY <3>3, <1>q, <1>f
    <3>6. queue[q].taken <= L + 1 /\ L + 1 <= queue[q].taken + Capacity(q)
      BY <3>1, <3>2, <3>3, <1>q, <1>f
    <3>. QED
      <4>1. /\ Len(queue'[q].log) = L + 1 /\ queue'[q].taken = queue[q].taken
            /\ queue'[q].reading = queue[q].reading /\ queue'[q].writing = queue[q].writing \cup {L}
        BY <1>f
      <4>2. LaneOK(queue'[q], Capacity(q))
        <5>1. queue'[q].taken <= Len(queue'[q].log) /\ Len(queue'[q].log) <= queue'[q].taken + Capacity(q)
          BY <3>6, <4>1
        <5>2. queue'[q].writing \subseteq queue'[q].taken .. Len(queue'[q].log) - 1
          BY <3>5, <4>1, <1>q, <1>f, <3>2
        <5>3. queue'[q].reading \subseteq Len(queue'[q].log) - Capacity(q) .. queue'[q].taken - 1
          BY <3>4, <4>1, <1>q, <1>f, <3>2
        <5>. QED
          BY <5>1, <5>2, <5>3 DEF LaneOK
      <4>. QED
        BY <4>2, <2>2
  <2>. QED
    BY <2>1, <2>2
<1>3. Submitted'
  BY <1>u DEF IInv, Submitted
<1>4. Publishers'
  <2>0. Publishers
    BY DEF IInv
  <2>1. \A z \in Submitters : sub'[z].pc = "push" => sub'[z].q \in Workers
    BY <2>0, <1>s DEF Publishers
  <2>2. ASSUME NEW z \in Submitters, sub'[z].pc = "publish"
        PROVE  /\ sub'[z].pos \in queue'[sub'[z].q].writing
               /\ sub'[z].q # Global => queue'[sub'[z].q].log[sub'[z].pos + 1] = sub'[z].task
    <3>1. CASE z = s
      BY <3>1, <1>s, <1>f, <1>p
    <3>2. CASE z # s
      <4>1. sub'[z] = sub[z] /\ sub[z].q \in Queues /\ sub[z].pos \in Nat
        BY <3>2, <1>s DEF SubShape
      <4>2. /\ sub[z].pos \in queue[sub[z].q].writing
            /\ sub[z].q # Global => queue[sub[z].q].log[sub[z].pos + 1] = sub[z].task
        BY <2>0, <2>2, <4>1 DEF Publishers
      <4>3. CASE sub[z].q # q
        BY <4>1, <4>2, <4>3, <1>f
      <4>4. CASE sub[z].q = q
        <5>1. sub[z].pos + 1 \in 1 .. L
          BY <1>0, <4>1, <4>2, <4>4, <1>l, <1>q, <1>f DEF LaneOK
        <5>. QED
          BY <4>1, <4>2, <4>4, <5>1, <1>f
      <4>. QED
        BY <4>3, <4>4
    <3>. QED
      BY <3>1, <3>2
  <2>3. ASSUME NEW p \in Queues, NEW x \in queue'[p].writing
        PROVE  \E z \in Submitters : Publishing(z, p, x)'
    <3>1. CASE p = q /\ x = L
      BY <3>1, <1>s DEF Publishing
    <3>2. CASE ~(p = q /\ x = L)
      <4>1. x \in queue[p].writing
        BY <3>2, <2>3, <1>f
      <4>2. PICK z \in Submitters : Publishing(z, p, x)
        BY <4>1, <2>0 DEF Publishers
      <4>3. z # s
        BY <4>2, <1>p DEF Publishing
      <4>. QED
        BY <4>2, <4>3, <1>s DEF Publishing
    <3>. QED
      BY <3>1, <3>2
  <2>4. ASSUME NEW a \in Submitters, NEW z \in Submitters, NEW p \in Queues, NEW x \in Nat,
               Publishing(a, p, x)', Publishing(z, p, x)'
        PROVE  a = z
    <3>1. \A y \in Submitters : y # s => ~(Publishing(y, q, L)')
      <4>1. \A y \in Submitters : ~Publishing(y, q, L)
        BY <2>0, <1>n DEF Publishing, Publishers
      <4>. QED
        BY <4>1, <1>s DEF Publishing
    <3>2. \A y \in Submitters : y # s => (Publishing(y, p, x)' <=> Publishing(y, p, x))
      BY <1>s DEF Publishing
    <3>3. CASE a = s \/ z = s
      <4>1. p = q /\ x = L
        BY <3>3, <2>4, <1>s DEF Publishing
      <4>2. Publishing(a, q, L)' /\ Publishing(z, q, L)'
        BY <4>1, <2>4 DEF Publishing
      <4>. QED
        BY <4>2, <3>1, <3>3
    <3>4. CASE a # s /\ z # s
      BY <3>4, <3>2, <2>4, <2>0 DEF Publishers
    <3>. QED
      BY <3>3, <3>4
  <2>. QED
    BY <2>1, <2>2, <2>3, <2>4 DEF Publishers
<1>5. Readers'
  <2>1. \A p \in Queues : queue'[p].reading = queue[p].reading
    BY <1>f
  <2>2. \A w \in Workers : worker[w].q \in Queues
    BY DEF IInv, Shapes, WorkerShape
  <2>. QED
    BY <2>1, <2>2, <1>u DEF IInv, Readers, Reading
<1>6. TasksApart'
  <2>0. TasksApart
    BY DEF IInv
  <2>1. /\ \A z \in Submitters : sub'[z].pc # "idle" => sub[z].pc # "idle"
        /\ \A z \in Submitters : sub'[z].task = sub[z].task
        /\ \A z \in Submitters : sub'[z].pc = "push" => sub[z].pc = "push" /\ z # s
    BY <1>s, <1>p
  <2>2. \A z \in Submitters : sub'[z].pc # "idle" => sub'[z].task \in Tasks /\ outcome'[sub'[z].task] = "pending"
    BY <2>0, <2>1, <1>u DEF TasksApart
  <2>3. \A a, z \in Submitters :
          sub'[a].pc # "idle" /\ sub'[z].pc # "idle" /\ sub'[a].task = sub'[z].task => a = z
    BY <2>0, <2>1 DEF TasksApart
  <2>4. ASSUME NEW z \in Submitters, sub'[z].pc = "push", NEW p \in Queues, NEW x \in Nat
        PROVE  ~(Holds(p, x, sub[z].task)')
    <3>1. sub[z].pc = "push" /\ z # s /\ sub[z].task \in Tasks /\ sub'[z].task = sub[z].task
      BY <2>1, <2>4, <2>0 DEF TasksApart
    <3>2. sub[z].task # f
      BY <3>1, <2>0, <1>p, Constants DEF TasksApart
    <3>3. ~Holds(p, x, sub[z].task)
      BY <3>1, <2>0 DEF TasksApart
    <3>4. \A t \in Tasks : t = sub[z].task => ~(Holds(p, x, t)')
      BY <3>1, <3>2, <3>3, <1>h
    <3>. QED
      BY <3>1, <3>4 DEF Holds
  <2>5. ASSUME NEW t \in Tasks, outcome'[t] = "none", NEW p \in Queues, NEW x \in Nat
        PROVE  ~(Holds(p, x, t)')
    <3>1. t # f
      BY <2>5, <2>0, <1>p, <1>u, Constants DEF TasksApart
    <3>. QED
      BY <3>1, <2>5, <2>0, <1>h, <1>u DEF TasksApart
  <2>6. ASSUME NEW t \in Tasks, NEW p \in Queues, NEW r \in Queues, NEW x \in Nat, NEW y \in Nat,
               Holds(p, x, t)', Holds(r, y, t)'
        PROVE  p = r /\ x = y
    <3>1. CASE t = f
      <4>1. \A pp \in Queues, xx \in Nat : ~Holds(pp, xx, t)
        BY <3>1, <2>0, <1>p, Constants DEF TasksApart
      <4>. QED
        BY <4>1, <2>6, <1>h
    <3>2. CASE t # f
      BY <3>2, <2>6, <1>h, <2>0 DEF TasksApart
    <3>. QED
      BY <3>1, <3>2
  <2>. QED
    BY <2>2, <2>3, <2>4, <2>5, <2>6 DEF TasksApart
<1>7. RunsCounted'
  <2>0. RunsCounted
    BY DEF IInv
  <2>1. \A p \in Queues : queue'[p].reading = queue[p].reading /\ queue'[p].taken = queue[p].taken
    BY <1>f
  <2>2. ASSUME NEW t \in Tasks, NEW p \in Queues, NEW x \in Nat, Holds(p, x, t)'
        PROVE  runs'[t] = IF x - 1 < queue'[p].taken /\ x - 1 \notin queue'[p].reading THEN 1 ELSE 0
    <3>1. CASE Holds(p, x, t)
      BY <3>1, <2>0, <2>1, <1>u DEF RunsCounted
    <3>2. CASE ~Holds(p, x, t)
      <4>1. p = q /\ x = L + 1 /\ t = f
        BY <3>2, <2>2, <1>h
      <4>2. \A pp \in Queues, xx \in Nat : ~Holds(pp, xx, t)
        <5>1. TasksApart
          BY DEF IInv
        <5>2. sub[s].pc = "push" /\ t = sub[s].task
          BY <4>1, <1>p, Constants
        <5>. QED
          BY <5>1, <5>2 DEF TasksApart
      <4>3. runs[t] = 0
        BY <4>2, <2>0 DEF RunsCounted
      <4>4. ~(x - 1 < queue[p].taken)
        BY <1>0, <4>1, <1>l, <1>f, <1>q DEF LaneOK
      <4>. QED
        BY <4>3, <4>4, <2>1, <1>u
    <3>. QED
      BY <3>1, <3>2
  <2>3. ASSUME NEW t \in Tasks, \A p \in Queues, x \in Nat : ~(Holds(p, x, t)')
        PROVE  runs'[t] = 0
    BY <2>3, <2>0, <1>h, <1>u DEF RunsCounted
  <2>. QED
    BY <2>2, <2>3 DEF RunsCounted
<1>8. Stopping'
  <2>0. Stopping
    BY DEF IInv
  <2>1. stop => sub[s].task \in overlap
    BY <2>0, <1>p DEF Stopping
  <2>2. stop' => \A z \in Submitters : sub'[z].pc # "idle" => sub'[z].task \in overlap'
    BY <2>0, <2>1, <1>s, <1>u DEF Stopping
  <2>3. ASSUME NEW w \in Workers, PastOwn(w)'
        PROVE  OwnLeftovers(w)'
    <3>1. PastOwn(w) /\ OwnLeftovers(w)
      BY <2>3, <2>0, <1>u DEF PastOwn, Stopping
    <3>2. stop
      BY <3>1, <2>0 DEF PastOwn, Stopping
    <3>3. w \in Queues /\ w # Global
      BY Constants
    <3>4. CASE w # q
      BY <3>1, <3>4, <3>3, <1>f, <1>u DEF OwnLeftovers
    <3>5. CASE w = q
      <4> SUFFICES ASSUME NEW x \in queue[q].taken + 1 .. L + 1
                   PROVE  \E y \in 1 .. x : queue'[q].log[y] \in overlap
        BY <3>5, <1>f, <1>u DEF OwnLeftovers
      <4>1. CASE x = L + 1
        <5>1. f \in overlap
          BY <1>p, <3>2, <3>3, <3>5, <2>1
        <5>. QED
          BY <4>1, <5>1, <1>f
      <4>2. CASE x # L + 1
        <5>0. x \in queue[q].taken + 1 .. L
          BY <4>2, <1>f, <1>q
        <5>1. PICK y \in 1 .. x : queue[q].log[y] \in overlap
          BY <1>0, <5>0, <3>1, <3>5 DEF OwnLeftovers
        <5>2. y \in 1 .. L
          BY <5>1, <5>0, <1>f, <1>q
        <5>. QED
          BY <5>1, <5>2, <1>f
      <4>. QED
        BY <4>1, <4>2
    <3>. QED
      BY <3>4, <3>5
  <2>4. ASSUME NEW w \in Workers, worker'[w].pc = "exited"
        PROVE  GlobalLeftovers'
    <3>1. GlobalLeftovers /\ stop
      BY <2>4, <2>0, <1>u DEF Stopping
    <3>2. CASE q = Global
      BY <3>1, <2>1, <1>u DEF GlobalLeftovers
    <3>3. CASE q # Global
      BY <3>1, <3>3, <1>f, <1>u, Constants DEF GlobalLeftovers
    <3>. QED
      BY <3>2, <3>3
  <2>. QED
    BY <2>0, <2>2, <2>3, <2>4, <1>u DEF Stopping
<1>. QED
  BY <1>1, <1>2, <1>3, <1>4, <1>5, <1>6, <1>7, <1>8 DEF IInv

(* A submitter that has no position and gets none leaves the queues, the    *)
(* workers and what they rely on alone.                                     *)
LEMMA SubmitterMoves ==
  ASSUME IInv, NEW s \in Submitters, NEW l \in SubShape,
         sub' = [sub EXCEPT ![s] = l], sub[s].pc # "publish", l.pc # "publish",
         l.pc = "push" => l.q \in Workers,
         UNCHANGED <<stop, queue, worker, manager, runs, overlap>>
  PROVE  /\ sub' \in [Submitters -> SubShape] /\ sub'[s] = l
         /\ \A z \in Submitters : z # s => sub'[z] = sub[z]
         /\ Lanes' /\ Publishers' /\ Readers' /\ RunsCounted'
         /\ (stop /\ l.pc # "idle" => l.task \in overlap) => Stopping'
<1>u. /\ stop' = stop /\ queue' = queue /\ worker' = worker /\ manager' = manager
      /\ runs' = runs /\ overlap' = overlap
  OBVIOUS
<1>s. sub' \in [Submitters -> SubShape] /\ sub'[s] = l /\ \A z \in Submitters : z # s => sub'[z] = sub[z]
  BY DEF IInv, Shapes
<1>1. Lanes'
  BY <1>u DEF IInv, Lanes
<1>2. Publishers'
  <2>0. Publishers
    BY DEF IInv
  <2>1. \A z \in Submitters, q \in Queues, x \in Nat : Publishing(z, q, x)' <=> Publishing(z, q, x)
    BY <1>s DEF Publishing
  <2>2. \A z \in Submitters : sub'[z].pc = "push" => sub'[z].q \in Workers
    BY <2>0, <1>s DEF Publishers
  <2>3. \A z \in Submitters : sub'[z].pc = "publish" =>
          /\ sub'[z].pos \in queue'[sub'[z].q].writing
          /\ sub'[z].q # Global => queue'[sub'[z].q].log[sub'[z].pos + 1] = sub'[z].task
    BY <2>0, <1>s, <1>u DEF Publishers
  <2>4. \A q \in Queues : queue[q].writing \subseteq Nat
    BY QueueFacts DEF IInv, Shapes
  <2>5. \A q \in Queues : \A x \in queue'[q].writing : \E z \in Submitters : Publishing(z, q, x)'
    BY <2>0, <2>1, <2>4, <1>u DEF Publishers
  <2>6. \A a, z \in Submitters : \A q \in Queues : \A x \in Nat :
          Publishing(a, q, x)' /\ Publishing(z, q, x)' => a = z
    BY <2>0, <2>1 DEF Publishers
  <2>. QED
    BY <2>2, <2>3, <2>5, <2>6 DEF Publishers
<1>3. Readers'
  BY <1>u DEF IInv, Readers, Reading
<1>4. RunsCounted'
  BY <1>u DEF IInv, RunsCounted, Holds
<1>5. ASSUME stop /\ l.pc # "idle" => l.task \in overlap PROVE Stopping'
  <2>0. Stopping
    BY DEF IInv
  <2>1. stop' => \A z \in Submitters : sub'[z].pc # "idle" => sub'[z].task \in overlap'
    BY <1>5, <2>0, <1>s, <1>u DEF Stopping
  <2>. QED
    BY <2>0, <2>1, <1>u DEF Stopping, PastOwn, OwnLeftovers, GlobalLeftovers
<1>. QED
  BY <1>s, <1>1, <1>2, <1>3, <1>4, <1>5

(* The task that is submitted is the next one. *)
LEMMA NextSubmitted ==
  ASSUME IInv, NEW t \in Tasks, NEW v, v # "none", outcome[t] = "none",
         \A u \in 1 .. t - 1 : outcome[u] # "none",
         outcome' = [outcome EXCEPT ![t] = v], next_worker' \in {next_worker, next_worker + 1}
  PROVE  Submitted'
<1>1. PICK k \in 0 .. MaxTasks : next_worker <= k /\ \A u \in Tasks : outcome[u] # "none" <=> u <= k
  BY DEF IInv, Submitted
<1>2. t \in 1 .. MaxTasks /\ MaxTasks \in Nat /\ k \in Nat /\ next_worker \in Nat
  BY <1>1, Constants DEF Tasks, IInv, Shapes
<1>3. t = k + 1
  <2>1. ~(t <= k)
    BY <1>1
  <2>2. CASE t > k + 1
    <3>1. k + 1 \in 1 .. t - 1 /\ k + 1 \in Tasks
      BY <1>2, <2>2 DEF Tasks
    <3>. QED
      BY <3>1, <1>1, <1>2
  <2>. QED
    BY <2>1, <2>2, <1>2
<1>4. \A u \in Tasks : outcome'[u] # "none" <=> u <= k + 1
  <2> SUFFICES ASSUME NEW u \in Tasks PROVE outcome'[u] # "none" <=> u <= k + 1
    OBVIOUS
  <2>1. outcome' [u] = IF u = t THEN v ELSE outcome[u]
    BY DEF IInv, Shapes
  <2>2. u \in Nat
    BY <1>2 DEF Tasks
  <2>. QED
    BY <2>1, <2>2, <1>1, <1>2, <1>3
<1>5. k + 1 \in 0 .. MaxTasks /\ next_worker' <= k + 1
  BY <1>1, <1>2, <1>3
<1>. QED
  BY <1>4, <1>5 DEF Submitted

LEMMA BeginInv ==
  ASSUME IInv, NEW s \in Submitters, NEW t \in Tasks, SubmitBegin(s, t)
  PROVE  IInv'
<1>0. /\ sub[s].pc = "idle" /\ outcome[t] = "none" /\ \A u \in 1 .. t - 1 : outcome[u] # "none"
      /\ UNCHANGED <<stop, queue, worker, manager, runs, overlap>>
      /\ stop \in BOOLEAN /\ sub \in [Submitters -> SubShape] /\ next_worker \in Nat
      /\ outcome \in [Tasks -> {"none", "pending", "queued", "dropped", "rejected"}]
  BY DEF SubmitBegin, IInv, Shapes
<1>a. TasksApart
  BY DEF IInv
<1>b. \A z \in Submitters : sub[z].pc # "idle" => sub[z].task # t
  BY <1>0, <1>a DEF TasksApart
<1>1. CASE stop
  <2>1. /\ outcome' = [outcome EXCEPT ![t] = "rejected"] /\ sub' = sub /\ next_worker' = next_worker
    BY <1>1 DEF SubmitBegin
  <2>2. Submitted'
    BY <1>0, <2>1, NextSubmitted
  <2>3. Shapes'
    BY <1>0, <2>1 DEF IInv, Shapes
  <2>4. \A u \in Tasks : u # t => outcome'[u] = outcome[u]
    BY <1>0, <2>1
  <2>5. outcome'[t] # "none"
    BY <1>0, <2>1
  <2>6. TasksApart'
    <3>1. \A z \in Submitters : sub'[z].pc # "idle" => sub'[z].task \in Tasks /\ outcome'[sub'[z].task] = "pending"
      BY <1>a, <1>b, <2>1, <2>4 DEF TasksApart
    <3>2. \A u \in Tasks : outcome'[u] = "none" => outcome[u] = "none"
      BY <2>4, <2>5
    <3>3. \A q \in Queues, x \in Nat, u \in Tasks : Holds(q, x, u)' <=> Holds(q, x, u)
      BY <1>0, HoldsKept
    <3>4. \A z \in Submitters : sub'[z].pc = "push" => \A q \in Queues : \A x \in Nat : ~(Holds(q, x, sub[z].task)')
      BY <1>0, <1>a, <2>1 DEF TasksApart, Holds
    <3>. QED
      BY <3>1, <3>2, <3>3, <3>4, <1>a, <2>1 DEF TasksApart
  <2>7. Lanes' /\ Publishers' /\ Readers' /\ RunsCounted' /\ Stopping'
    BY <1>0, <2>1 DEF IInv, Lanes, Publishers, Publishing, Readers, Reading, RunsCounted, Holds, Stopping,
                      PastOwn, OwnLeftovers, GlobalLeftovers
  <2>. QED
    BY <2>2, <2>3, <2>6, <2>7 DEF IInv
<1>2. CASE ~stop
  <2> DEFINE l == [pc |-> "push", task |-> t, q |-> next_worker % N, pos |-> 0]
  <2>1. /\ outcome' = [outcome EXCEPT ![t] = "pending"] /\ next_worker' = next_worker + 1
        /\ sub' = [sub EXCEPT ![s] = l]
    BY <1>2 DEF SubmitBegin
  <2>2. next_worker % N \in Workers
    BY <1>0, Constants, ModRange DEF Workers
  <2>3. l \in SubShape /\ l.pc = "push" /\ l.q \in Workers /\ l.task = t
    BY <2>2, Constants DEF SubShape
  <2> HIDE DEF l
  <2>4. /\ sub' \in [Submitters -> SubShape] /\ sub'[s] = l
        /\ \A z \in Submitters : z # s => sub'[z] = sub[z]
        /\ Lanes' /\ Publishers' /\ Readers' /\ RunsCounted' /\ Stopping'
    BY <1>0, <1>2, <2>1, <2>3, SubmitterMoves
  <2>5. Submitted'
    BY <1>0, <2>1, NextSubmitted
  <2>6. outcome' \in [Tasks -> {"none", "pending", "queued", "dropped", "rejected"}] /\ next_worker' \in Nat
    BY <1>0, <2>1
  <2>7. Shapes'
    BY <1>0, <2>4, <2>6 DEF IInv, Shapes
  <2>8. outcome'[t] = "pending" /\ \A u \in Tasks : u # t => outcome'[u] = outcome[u]
    BY <1>0, <2>1
  <2>9. TasksApart'
    <3>1. \A z \in Submitters : sub'[z].pc # "idle" => sub'[z].task \in Tasks /\ outcome'[sub'[z].task] = "pending"
      BY <1>a, <1>b, <2>3, <2>4, <2>8 DEF TasksApart
    <3>2. \A a, z \in Submitters :
             sub'[a].pc # "idle" /\ sub'[z].pc # "idle" /\ sub'[a].task = sub'[z].task => a = z
      BY <1>a, <1>b, <2>3, <2>4 DEF TasksApart
    <3>3. \A q \in Queues, x \in Nat, u \in Tasks : Holds(q, x, u)' <=> Holds(q, x, u)
      BY <1>0, HoldsKept
    <3>4. ASSUME NEW z \in Submitters, sub'[z].pc = "push", NEW q \in Queues, NEW x \in Nat
          PROVE  ~(Holds(q, x, sub[z].task)')
      <4>1. \A u \in Tasks : u = sub'[z].task => ~Holds(q, x, u)
        <5>1. CASE z = s
          BY <5>1, <2>3, <2>4, <1>0, <1>a DEF TasksApart
        <5>2. CASE z # s
          BY <5>2, <3>4, <2>4, <1>a DEF TasksApart
        <5>. QED
          BY <5>1, <5>2
      <4>. QED
        BY <3>1, <3>4, <4>1, <1>0 DEF Holds
    <3>5. \A u \in Tasks : outcome'[u] = "none" => outcome[u] = "none"
      BY <2>8
    <3>. QED
      BY <3>1, <3>2, <3>3, <3>4, <3>5, <1>a DEF TasksApart
  <2>. QED
    BY <2>4, <2>5, <2>7, <2>9 DEF IInv
<1>. QED
  BY <1>0, <1>1, <1>2

(* The worker's queue is full, or the overflow queue is full as well. *)
LEMMA RefusedInv ==
  ASSUME IInv, NEW s \in Submitters,
         \/ /\ sub[s].pc = "push"
            /\ sub' = [sub EXCEPT ![s].pc = "overflow"]
            /\ outcome' = outcome
         \/ /\ sub[s].pc = "overflow"
            /\ sub' = [sub EXCEPT ![s].pc = "idle"]
            /\ outcome' = [outcome EXCEPT ![sub[s].task] = "dropped"],
         UNCHANGED <<stop, next_worker, queue, worker, manager, runs, overlap>>
  PROVE  IInv'
<1>0. /\ sub \in [Submitters -> SubShape]
      /\ outcome \in [Tasks -> {"none", "pending", "queued", "dropped", "rejected"}]
  BY DEF IInv, Shapes
<1>a. TasksApart /\ Stopping
  BY DEF IInv
<1>1. PICK l \in SubShape :
         /\ sub' = [sub EXCEPT ![s] = l]
         /\ l.task = sub[s].task
         /\ \/ sub[s].pc = "push" /\ l.pc = "overflow" /\ outcome' = outcome
            \/ sub[s].pc = "overflow" /\ l.pc = "idle" /\ outcome' = [outcome EXCEPT ![sub[s].task] = "dropped"]
  <2>1. sub[s] \in SubShape
    BY <1>0
  <2>2. CASE sub[s].pc = "push"
    <3>1. [sub[s] EXCEPT !.pc = "overflow"] \in SubShape
      BY <2>1 DEF SubShape
    <3>. QED
      BY <2>1, <2>2, <3>1 DEF SubShape
  <2>3. CASE sub[s].pc = "overflow"
    <3>1. [sub[s] EXCEPT !.pc = "idle"] \in SubShape
      BY <2>1 DEF SubShape
    <3>. QED
      BY <2>1, <2>3, <3>1 DEF SubShape
  <2>. QED
    BY <2>2, <2>3
<1>2. /\ sub' \in [Submitters -> SubShape] /\ sub'[s] = l
      /\ \A z \in Submitters : z # s => sub'[z] = sub[z]
      /\ Lanes' /\ Publishers' /\ Readers' /\ RunsCounted' /\ Stopping'
  <2>1. stop /\ l.pc # "idle" => l.task \in overlap
    BY <1>1, <1>a DEF Stopping
  <2>. QED
    BY <1>1, <2>1, SubmitterMoves
<1>3. sub[s].task \in Tasks /\ outcome[sub[s].task] = "pending"
  BY <1>1, <1>a DEF TasksApart
<1>4. outcome' \in [Tasks -> {"none", "pending", "queued", "dropped", "rejected"}]
  BY <1>0, <1>1
<1>5. \A u \in Tasks : u # sub[s].task => outcome'[u] = outcome[u]
  BY <1>0, <1>1, <1>3
<1>6. \A u \in Tasks : outcome'[u] = "none" <=> outcome[u] = "none"
  BY <1>0, <1>1, <1>3
<1>7. Shapes'
  BY <1>2, <1>4 DEF IInv, Shapes
<1>8. Submitted'
  BY <1>6 DEF IInv, Submitted
<1>9. TasksApart'
  <2>1. \A z \in Submitters : sub'[z].pc # "idle" => sub'[z].task \in Tasks /\ outcome'[sub'[z].task] = "pending"
    <3> SUFFICES ASSUME NEW z \in Submitters, sub'[z].pc # "idle"
                 PROVE  sub'[z].task \in Tasks /\ outcome'[sub'[z].task] = "pending"
      OBVIOUS
    <3>1. CASE z = s
      BY <3>1, <1>1, <1>2, <1>3
    <3>2. CASE z # s
      <4>1. sub'[z] = sub[z] /\ sub[z].task \in Tasks /\ outcome[sub[z].task] = "pending"
        BY <3>2, <1>2, <1>a DEF TasksApart
      <4>2. sub[z].task # sub[s].task
        BY <3>2, <4>1, <1>1, <1>a DEF TasksApart
      <4>. QED
        BY <4>1, <4>2, <1>5
    <3>. QED
      BY <3>1, <3>2
  <2>2. \A b, z \in Submitters :
           sub'[b].pc # "idle" /\ sub'[z].pc # "idle" /\ sub'[b].task = sub'[z].task => b = z
    BY <1>a, <1>1, <1>2 DEF TasksApart
  <2>3. \A z \in Submitters : sub'[z].pc = "push" => \A q \in Queues : \A x \in Nat : ~(Holds(q, x, sub[z].task)')
    BY <1>a, <1>1, <1>2 DEF TasksApart, Holds
  <2>4. \A q \in Queues, x \in Nat, u \in Tasks : Holds(q, x, u)' <=> Holds(q, x, u)
    BY HoldsKept
  <2>. QED
    BY <2>1, <2>2, <2>3, <2>4, <1>6, <1>a DEF TasksApart
<1>. QED
  BY <1>2, <1>7, <1>8, <1>9 DEF IInv

LEMMA PublishInv ==
  ASSUME IInv, NEW s \in Submitters, SubmitPublish(s)
  PROVE  IInv'
<1>0. /\ sub \in [Submitters -> SubShape] /\ queue \in [Queues -> QueueShape]
      /\ outcome \in [Tasks -> {"none", "pending", "queued", "dropped", "rejected"}]
  BY DEF IInv, Shapes
<1>1. PICK q \in Queues, i \in Nat : q = sub[s].q /\ i = sub[s].pos
  BY <1>0 DEF SubShape
<1>a. TasksApart /\ Stopping /\ Publishers
  BY DEF IInv
<1>2. /\ sub[s].pc = "publish" /\ i \in queue[q].writing
      /\ sub[s].task \in Tasks /\ outcome[sub[s].task] = "pending"
  BY <1>1, <1>a DEF SubmitPublish, TasksApart, Publishers
<1>u. /\ stop' = stop /\ next_worker' = next_worker /\ worker' = worker /\ manager' = manager
      /\ runs' = runs /\ overlap' = overlap /\ outcome' = [outcome EXCEPT ![sub[s].task] = "queued"]
  BY DEF SubmitPublish
<1>q. /\ queue' \in [Queues -> QueueShape]
      /\ \A p \in Queues : p # q => queue'[p] = queue[p]
      /\ queue'[q].log = queue[q].log /\ queue'[q].taken = queue[q].taken
      /\ queue'[q].reading = queue[q].reading /\ queue'[q].writing = queue[q].writing \ {i}
  <2>1. queue' = [queue EXCEPT ![q] = [queue[q] EXCEPT !.writing = @ \ {i}]]
    BY <1>1 DEF SubmitPublish
  <2>2. queue[q] \in QueueShape
    BY <1>0, <1>1
  <2>3. queue'[q] = [queue[q] EXCEPT !.writing = @ \ {i}]
    BY <2>1, <1>0, <1>1
  <2>4. queue'[q] \in QueueShape
    BY <2>2, <2>3 DEF QueueShape
  <2>5. \A p \in Queues : p # q => queue'[p] = queue[p]
    BY <2>1, <1>0
  <2>6. queue' \in [Queues -> QueueShape]
    BY <2>1, <2>3, <2>4, <1>0
  <2>. QED
    BY <2>2, <2>3, <2>5, <2>6 DEF QueueShape
<1>s. /\ sub' \in [Submitters -> SubShape] /\ sub'[s].pc = "idle"
      /\ \A z \in Submitters : z # s => sub'[z] = sub[z]
  <2>1. sub' = [sub EXCEPT ![s] = [sub[s] EXCEPT !.pc = "idle"]]
    BY DEF SubmitPublish
  <2>2. [sub[s] EXCEPT !.pc = "idle"] \in SubShape /\ [sub[s] EXCEPT !.pc = "idle"].pc = "idle"
    BY <1>0 DEF SubShape
  <2>. QED
    BY <1>0, <2>1, <2>2
<1>l. \A p \in Queues : /\ queue'[p].log = queue[p].log /\ queue'[p].taken = queue[p].taken
                        /\ queue'[p].reading = queue[p].reading
                        /\ queue'[p].writing \subseteq queue[p].writing
  BY <1>q
<1>3. outcome' \in [Tasks -> {"none", "pending", "queued", "dropped", "rejected"}]
  BY <1>0, <1>u
<1>4. \A u \in Tasks : u # sub[s].task => outcome'[u] = outcome[u]
  BY <1>0, <1>u, <1>2
<1>5. \A u \in Tasks : outcome'[u] = "none" <=> outcome[u] = "none"
  BY <1>0, <1>u, <1>2
<1>h. \A p \in Queues, x \in Nat, u \in Tasks : Holds(p, x, u)' <=> Holds(p, x, u)
  BY <1>l, HoldsKept
<1>6. Shapes'
  BY <1>q, <1>s, <1>u, <1>3 DEF IInv, Shapes
<1>7. Lanes'
  <2> SUFFICES ASSUME NEW p \in Queues PROVE LaneOK(queue'[p], Capacity(p))
    BY DEF Lanes
  <2>1. LaneOK(queue[p], Capacity(p))
    BY DEF IInv, Lanes
  <2>2. /\ queue'[p].log = queue[p].log /\ queue'[p].taken = queue[p].taken
        /\ queue'[p].reading = queue[p].reading /\ queue'[p].writing \subseteq queue[p].writing
    BY <1>l
  <2>. QED
    BY <2>1, <2>2 DEF LaneOK
<1>8. Submitted'
  BY <1>5, <1>u DEF IInv, Submitted
<1>9. Publishers'
  <2>1. \A z \in Submitters : sub'[z].pc = "push" => sub'[z].q \in Workers
    BY <1>a, <1>s DEF Publishers
  <2>2. ASSUME NEW z \in Submitters, sub'[z].pc = "publish"
        PROVE  /\ sub'[z].pos \in queue'[sub'[z].q].writing
               /\ sub'[z].q # Global => queue'[sub'[z].q].log[sub'[z].pos + 1] = sub'[z].task
    <3>1. z # s /\ sub'[z] = sub[z] /\ sub[z].q \in Queues /\ sub[z].pos \in Nat
      BY <2>2, <1>s DEF SubShape
    <3>2. /\ sub[z].pos \in queue[sub[z].q].writing
          /\ sub[z].q # Global => queue[sub[z].q].log[sub[z].pos + 1] = sub[z].task
      BY <3>1, <2>2, <1>a DEF Publishers
    <3>3. ~(sub[z].q = q /\ sub[z].pos = i)
      BY <3>1, <2>2, <1>1, <1>2, <1>a DEF Publishers, Publishing
    <3>4. sub[z].pos \in queue'[sub[z].q].writing
      BY <3>1, <3>2, <3>3, <1>q
    <3>. QED
      BY <3>1, <3>2, <3>4, <1>l
  <2>3. ASSUME NEW p \in Queues, NEW x \in queue'[p].writing
        PROVE  \E z \in Submitters : Publishing(z, p, x)'
    <3>1. x \in queue[p].writing /\ ~(p = q /\ x = i)
      BY <2>3, <1>l, <1>q
    <3>2. PICK z \in Submitters : Publishing(z, p, x)
      BY <3>1, <1>a DEF Publishers
    <3>3. z # s
      BY <3>1, <3>2, <1>1 DEF Publishing
    <3>. QED
      BY <3>2, <3>3, <1>s DEF Publishing
  <2>4. ASSUME NEW a \in Submitters, NEW z \in Submitters, NEW p \in Queues, NEW x \in Nat,
               Publishing(a, p, x)', Publishing(z, p, x)'
        PROVE  a = z
    <3>1. a # s /\ z # s
      BY <2>4, <1>s DEF Publishing
    <3>2. Publishing(a, p, x) /\ Publishing(z, p, x)
      BY <2>4, <3>1, <1>s DEF Publishing
    <3>. QED
      BY <3>2, <1>a DEF Publishers
  <2>. QED
    BY <2>1, <2>2, <2>3, <2>4 DEF Publishers
<1>10. Readers'
  <2>1. \A w \in Workers : worker[w].q \in Queues
    BY DEF IInv, Shapes, WorkerShape
  <2>. QED
    BY <2>1, <1>l, <1>u DEF IInv, Readers, Reading
<1>11. TasksApart'
  <2>1. \A z \in Submitters : sub'[z].pc # "idle" => z # s /\ sub'[z] = sub[z]
    BY <1>s
  <2>2. \A z \in Submitters : sub'[z].pc # "idle" => sub'[z].task \in Tasks /\ outcome'[sub'[z].task] = "pending"
    <3> SUFFICES ASSUME NEW z \in Submitters, sub'[z].pc # "idle"
                 PROVE  sub'[z].task \in Tasks /\ outcome'[sub'[z].task] = "pending"
      OBVIOUS
    <3>1. z # s /\ sub'[z] = sub[z] /\ sub[z].task \in Tasks /\ outcome[sub[z].task] = "pending"
      BY <2>1, <1>a DEF TasksApart
    <3>2. sub[z].task # sub[s].task
      BY <3>1, <1>2, <1>a DEF TasksApart
    <3>. QED
      BY <3>1, <3>2, <1>4
  <2>3. \A b, z \in Submitters :
           sub'[b].pc # "idle" /\ sub'[z].pc # "idle" /\ sub'[b].task = sub'[z].task => b = z
    BY <1>a, <2>1 DEF TasksApart
  <2>4. ASSUME NEW z \in Submitters, sub'[z].pc = "push", NEW p \in Queues, NEW x \in Nat
        PROVE  ~(Holds(p, x, sub[z].task)')
    <3>1. sub'[z] = sub[z] /\ ~Holds(p, x, sub[z].task)
      BY <2>1, <2>4, <1>a DEF TasksApart
    <3>. QED
      BY <3>1, <1>l DEF Holds
  <2>. QED
    BY <2>2, <2>3, <2>4, <1>h, <1>5, <1>a DEF TasksApart
<1>12. RunsCounted'
  BY <1>h, <1>l, <1>u DEF IInv, RunsCounted
<1>13. Stopping'
  <2>1. stop' => \A z \in Submitters : sub'[z].pc # "idle" => sub'[z].task \in overlap'
    BY <1>a, <1>s, <1>u DEF Stopping
  <2>2. \A w \in Workers : /\ PastOwn(w)' <=> PastOwn(w)
                           /\ OwnLeftovers(w)' <=> OwnLeftovers(w)
    BY <1>l, <1>u, Constants DEF PastOwn, OwnLeftovers
  <2>3. GlobalLeftovers' <=> GlobalLeftovers
    BY <1>l, <1>u, Constants DEF GlobalLeftovers
  <2>. QED
    BY <2>1, <2>2, <2>3, <1>a, <1>u DEF Stopping
<1>. QED
  BY <1>6, <1>7, <1>8, <1>9, <1>10, <1>11, <1>12, <1>13 DEF IInv

-----------------------------------------------------------------------------
(* worker_loop                                                             *)

(* A worker that has no task and gets none. *)
LEMMA WorkerMoves ==
  ASSUME IInv, NEW w \in Workers, NEW l \in WorkerShape,
         worker' = [worker EXCEPT ![w] = l],
         worker[w].pc \notin {"run", "exited"}, l.pc # "run",
         l.pc = "steal" => l.i < N,
         l.pc \in {"drain_own", "drain_global", "exited"} => stop,
         l.pc \in {"drain_global", "exited"} => OwnLeftovers(w),
         l.pc = "exited" => GlobalLeftovers,
         UNCHANGED <<poolVars, sub, manager, histVars>>
  PROVE  IInv'
<1>u. /\ stop' = stop /\ next_worker' = next_worker /\ queue' = queue /\ sub' = sub /\ manager' = manager
      /\ outcome' = outcome /\ runs' = runs /\ overlap' = overlap
  BY DEF poolVars, histVars
<1>w. worker' \in [Workers -> WorkerShape] /\ worker'[w] = l /\ \A v \in Workers : v # w => worker'[v] = worker[v]
  BY DEF IInv, Shapes
<1>1. Shapes'
  BY <1>u, <1>w DEF IInv, Shapes
<1>2. Lanes' /\ Submitted' /\ Publishers' /\ TasksApart' /\ RunsCounted'
  BY <1>u DEF IInv, Lanes, Submitted, Publishers, Publishing, TasksApart, RunsCounted, Holds
<1>3. Readers'
  <2>0. Readers
    BY DEF IInv
  <2>1. \A v \in Workers, q \in Queues, x \in Nat : Reading(v, q, x)' <=> Reading(v, q, x)
    BY <1>w DEF Reading
  <2>2. \A v \in Workers : worker'[v].pc = "run" => worker'[v].pos \in queue'[worker'[v].q].reading
    BY <2>0, <1>w, <1>u DEF Readers
  <2>3. \A v \in Workers : worker'[v].pc = "steal" => worker'[v].i < N
    BY <2>0, <1>w DEF Readers
  <2>4. \A q \in Queues : queue[q].reading \subseteq Nat
    BY QueueFacts DEF IInv, Shapes
  <2>5. \A q \in Queues : \A x \in queue'[q].reading : \E v \in Workers : Reading(v, q, x)'
    BY <2>0, <2>1, <2>4, <1>u DEF Readers
  <2>6. \A a, v \in Workers : \A q \in Queues : \A x \in Nat :
           Reading(a, q, x)' /\ Reading(v, q, x)' => a = v
    BY <2>0, <2>1 DEF Readers
  <2>. QED
    BY <2>2, <2>3, <2>5, <2>6 DEF Readers
<1>4. Stopping'
  <2>0. Stopping
    BY DEF IInv
  <2>1. \A v \in Workers : OwnLeftovers(v)' <=> OwnLeftovers(v)
    BY <1>u DEF OwnLeftovers
  <2>2. GlobalLeftovers' <=> GlobalLeftovers
    BY <1>u DEF GlobalLeftovers
  <2>3. manager # "done"
    BY <2>0 DEF Stopping
  <2>4. ASSUME NEW v \in Workers
        PROVE  /\ worker'[v].pc \in {"drain_own", "drain_global", "exited"} => stop'
               /\ worker'[v].pc = "run" /\ worker'[v].back # "top" => stop'
               /\ PastOwn(v)' => OwnLeftovers(v)'
               /\ worker'[v].pc = "exited" => GlobalLeftovers'
    <3>1. CASE v = w
      BY <3>1, <1>w, <1>u, <2>1, <2>2 DEF PastOwn
    <3>2. CASE v # w
      BY <3>2, <1>w, <1>u, <2>0, <2>1, <2>2 DEF PastOwn, Stopping
    <3>. QED
      BY <3>1, <3>2
  <2>. QED
    BY <2>0, <2>3, <2>4, <1>u DEF Stopping
<1>. QED
  BY <1>1, <1>2, <1>3, <1>4 DEF IInv

LEMMA PopInv ==
  ASSUME IInv, NEW w \in Workers, NEW q \in Queues, NEW back \in {"top", "drain_own", "drain_global"},
         Pop(w, q, back),
         worker[w].pc \notin {"run", "exited"},
         back # "top" => stop,
         back = "drain_global" => OwnLeftovers(w),
         UNCHANGED <<stop, next_worker, sub, manager, histVars>>
  PROVE  IInv'
<1>0. /\ worker \in [Workers -> WorkerShape] /\ queue \in [Queues -> QueueShape]
  BY DEF IInv, Shapes
<1>t. PICK T \in Nat : T = queue[q].taken
  BY <1>0, QueueFacts
<1>u. /\ stop' = stop /\ next_worker' = next_worker /\ sub' = sub /\ manager' = manager
      /\ outcome' = outcome /\ runs' = runs /\ overlap' = overlap
  BY DEF histVars
<1>r. T < Len(queue[q].log) /\ T \notin queue[q].writing
  BY <1>t DEF Pop, HasTask, Ready
<1>f. /\ queue[q].log \in Seq(Tasks \cup {NoTask}) /\ Len(queue[q].log) \in Nat
      /\ queue[q].writing \subseteq Nat /\ queue[q].reading \subseteq Nat
  BY <1>0, QueueFacts
<1>q. /\ queue' \in [Queues -> QueueShape]
      /\ \A p \in Queues : p # q => queue'[p] = queue[p]
      /\ queue'[q].log = queue[q].log /\ queue'[q].taken = T + 1
      /\ queue'[q].reading = queue[q].reading \cup {T} /\ queue'[q].writing = queue[q].writing
  <2>1. queue' = [queue EXCEPT ![q] = [queue[q] EXCEPT !.taken = @ + 1, !.reading = @ \cup {queue[q].taken}]]
    BY DEF Pop
  <2>2. queue[q] \in QueueShape
    BY <1>0
  <2>3. queue'[q] = [queue[q] EXCEPT !.taken = @ + 1, !.reading = @ \cup {queue[q].taken}]
    BY <2>1, <1>0
  <2>4. queue'[q] = [log |-> queue[q].log, taken |-> T + 1, writing |-> queue[q].writing,
                     reading |-> queue[q].reading \cup {T}]
    BY <2>2, <2>3, <1>t DEF QueueShape
  <2>5. queue[q].reading \cup {T} \in SUBSET Nat
    BY <1>f
  <2>6. queue'[q] \in QueueShape
    BY <2>4, <2>5, <1>f DEF QueueShape
  <2>7. \A p \in Queues : p # q => queue'[p] = queue[p]
    BY <2>1, <1>0
  <2>8. queue' \in [Queues -> QueueShape]
    BY <2>1, <2>3, <2>6, <1>0
  <2>. QED
    BY <2>4, <2>7, <2>8
<1>w. /\ worker' \in [Workers -> WorkerShape]
      /\ worker'[w].pc = "run" /\ worker'[w].back = back /\ worker'[w].q = q /\ worker'[w].pos = T
      /\ \A v \in Workers : v # w => worker'[v] = worker[v]
  <2> DEFINE l == [pc |-> "run", back |-> back, i |-> 1, q |-> q, pos |-> T]
  <2>1. worker' = [worker EXCEPT ![w] = l]
    BY <1>t DEF Pop
  <2>2. l \in WorkerShape /\ l.pc = "run" /\ l.back = back /\ l.q = q /\ l.pos = T
    BY Constants DEF WorkerShape
  <2> HIDE DEF l
  <2>. QED
    BY <1>0, <2>1, <2>2
<1>l. \A p \in Queues : queue'[p].log = queue[p].log /\ queue'[p].writing = queue[p].writing
  BY <1>q
<1>h. \A p \in Queues, x \in Nat, u \in Tasks : Holds(p, x, u)' <=> Holds(p, x, u)
  BY <1>l, HoldsKept
<1>k. LaneOK(queue[q], Capacity(q)) /\ Capacity(q) \in Nat
  BY Capacities DEF IInv, Lanes
<1>n. T \notin queue[q].reading
  BY <1>k, <1>f, <1>t DEF LaneOK
<1>1. Shapes'
  BY <1>q, <1>w, <1>u DEF IInv, Shapes
<1>2. Lanes'
  <2> SUFFICES ASSUME NEW p \in Queues PROVE LaneOK(queue'[p], Capacity(p))
    BY DEF Lanes
  <2>1. CASE p # q
    BY <2>1, <1>q DEF IInv, Lanes
  <2>2. CASE p = q
    <3>1. PICK L \in Nat : L = Len(queue[q].log)
      BY <1>f
    <3>2. /\ T <= L /\ L <= T + Capacity(q)
          /\ queue[q].writing \subseteq T .. L - 1
          /\ queue[q].reading \subseteq L - Capacity(q) .. T - 1
      BY <1>k, <1>t, <3>1 DEF LaneOK
    <3>3. /\ Len(queue'[q].log) = L /\ queue'[q].taken = T + 1
          /\ queue'[q].reading = queue[q].reading \cup {T} /\ queue'[q].writing = queue[q].writing
      BY <1>q, <3>1
    <3>4. T < L
      BY <1>r, <3>1
    <3>5. queue[q].writing \subseteq T + 1 .. L - 1
      BY <3>2, <3>4, <1>r, <1>f
    <3>6. queue[q].reading \cup {T} \subseteq L - Capacity(q) .. T + 1 - 1
      BY <3>2, <3>4, <1>k, <1>f
    <3>7. T + 1 <= L /\ L <= T + 1 + Capacity(q)
      BY <3>2, <3>4, <1>k
    <3>8. queue'[q].taken <= Len(queue'[q].log) /\ Len(queue'[q].log) <= queue'[q].taken + Capacity(q)
      BY <3>3, <3>7
    <3>9. queue'[q].writing \subseteq queue'[q].taken .. Len(queue'[q].log) - 1
      BY <3>3, <3>5
    <3>10. queue'[q].reading \subseteq Len(queue'[q].log) - Capacity(q) .. queue'[q].taken - 1
      BY <3>3, <3>6
    <3>. QED
      BY <3>8, <3>9, <3>10, <2>2 DEF LaneOK
  <2>. QED
    BY <2>1, <2>2
<1>3. Submitted'
  BY <1>u DEF IInv, Submitted
<1>4. Publishers'
  <2>1. \A z \in Submitters : sub[z].q \in Queues
    BY DEF IInv, Shapes, SubShape
  <2>. QED
    BY <2>1, <1>l, <1>u DEF IInv, Publishers, Publishing
<1>5. Readers'
  <2>0. Readers
    BY DEF IInv
  <2>1. \A v \in Workers : worker'[v].pc = "steal" => worker'[v].i < N
    BY <2>0, <1>w DEF Readers
  <2>2. ASSUME NEW v \in Workers, worker'[v].pc = "run"
        PROVE  worker'[v].pos \in queue'[worker'[v].q].reading
    <3>1. CASE v = w
      BY <3>1, <1>w, <1>q
    <3>2. CASE v # w
      <4>1. worker'[v] = worker[v] /\ worker[v].q \in Queues
        BY <3>2, <1>w, <1>0 DEF WorkerShape
      <4>2. worker[v].pos \in queue[worker[v].q].reading
        BY <4>1, <2>2, <2>0 DEF Readers
      <4>. QED
        BY <4>1, <4>2, <1>q
    <3>. QED
      BY <3>1, <3>2
  <2>3. ASSUME NEW p \in Queues, NEW x \in queue'[p].reading
        PROVE  \E v \in Workers : Reading(v, p, x)'
    <3>1. CASE p = q /\ x = T
      BY <3>1, <1>w DEF Reading
    <3>2. CASE ~(p = q /\ x = T)
      <4>1. x \in queue[p].reading
        BY <3>2, <2>3, <1>q
      <4>2. PICK v \in Workers : Reading(v, p, x)
        BY <4>1, <2>0 DEF Readers
      <4>3. v # w
        BY <4>2 DEF Reading
      <4>. QED
        BY <4>2, <4>3, <1>w DEF Reading
    <3>. QED
      BY <3>1, <3>2
  <2>4. ASSUME NEW a \in Workers, NEW v \in Workers, NEW p \in Queues, NEW x \in Nat,
               Reading(a, p, x)', Reading(v, p, x)'
        PROVE  a = v
    <3>1. \A y \in Workers : y # w => ~(Reading(y, q, T)')
      <4>1. \A y \in Workers : ~Reading(y, q, T)
        BY <2>0, <1>n DEF Reading, Readers
      <4>. QED
        BY <4>1, <1>w DEF Reading
    <3>2. \A y \in Workers : y # w => (Reading(y, p, x)' <=> Reading(y, p, x))
      BY <1>w DEF Reading
    <3>3. CASE a = w \/ v = w
      <4>1. p = q /\ x = T
        BY <3>3, <2>4, <1>w DEF Reading
      <4>2. Reading(a, q, T)' /\ Reading(v, q, T)'
        BY <4>1, <2>4 DEF Reading
      <4>. QED
        BY <4>2, <3>1, <3>3
    <3>4. CASE a # w /\ v # w
      BY <3>4, <3>2, <2>4, <2>0 DEF Readers
    <3>. QED
      BY <3>3, <3>4
  <2>. QED
    BY <2>1, <2>2, <2>3, <2>4 DEF Readers
<1>6. TasksApart'
  <2>0. TasksApart
    BY DEF IInv
  <2>1. \A z \in Submitters : sub'[z].pc = "push" => \A p \in Queues : \A x \in Nat : ~(Holds(p, x, sub[z].task)')
    BY <2>0, <1>l, <1>u DEF TasksApart, Holds
  <2>. QED
    BY <2>0, <2>1, <1>h, <1>u DEF TasksApart
<1>7. RunsCounted'
  <2>0. RunsCounted
    BY DEF IInv
  <2>1. ASSUME NEW t \in Tasks, NEW p \in Queues, NEW x \in Nat, Holds(p, x, t)'
        PROVE  runs'[t] = IF x - 1 < queue'[p].taken /\ x - 1 \notin queue'[p].reading THEN 1 ELSE 0
    <3>1. runs[t] = IF x - 1 < queue[p].taken /\ x - 1 \notin queue[p].reading THEN 1 ELSE 0
      BY <2>0, <2>1, <1>h DEF RunsCounted
    <3>2. CASE p # q
      BY <3>1, <3>2, <1>q, <1>u
    <3>3. CASE p = q
      <4>1. (x - 1 < T + 1 /\ x - 1 \notin queue[q].reading \cup {T}) <=> (x - 1 < T /\ x - 1 \notin queue[q].reading)
        BY <1>t
      <4>2. queue'[p].taken = T + 1 /\ queue'[p].reading = queue[q].reading \cup {T}
        BY <3>3, <1>q
      <4>. QED
        BY <3>1, <3>3, <4>1, <4>2, <1>t, <1>u
    <3>. QED
      BY <3>2, <3>3
  <2>2. ASSUME NEW t \in Tasks, \A p \in Queues, x \in Nat : ~(Holds(p, x, t)')
        PROVE  runs'[t] = 0
    BY <2>2, <2>0, <1>h, <1>u DEF RunsCounted
  <2>. QED
    BY <2>1, <2>2 DEF RunsCounted
<1>8. Stopping'
  <2>0. Stopping
    BY DEF IInv
  <2>1. manager # "done"
    BY <2>0 DEF Stopping
  <2>2. \A v \in Workers : OwnLeftovers(v) => OwnLeftovers(v)'
    <3> SUFFICES ASSUME NEW v \in Workers, OwnLeftovers(v) PROVE OwnLeftovers(v)'
      OBVIOUS
    <3>1. CASE v # q
      BY <3>1, <1>q, <1>u, Constants DEF OwnLeftovers
    <3>2. CASE v = q
      <4>1. queue'[v].taken + 1 .. Len(queue'[v].log) \subseteq queue[v].taken + 1 .. Len(queue[v].log)
        BY <3>2, <1>q, <1>t, <1>f
      <4>2. queue'[v].log = queue[v].log
        BY <3>2, <1>q
      <4>. QED
        BY <4>1, <4>2, <1>u DEF OwnLeftovers
    <3>. QED
      BY <3>1, <3>2
  <2>3. GlobalLeftovers => GlobalLeftovers'
    <3>1. CASE q # Global
      BY <3>1, <1>q, <1>u, Constants DEF GlobalLeftovers
    <3>2. CASE q = Global
      BY <3>2, <1>q, <1>u, <1>r, <1>t DEF GlobalLeftovers
    <3>. QED
      BY <3>1, <3>2
  <2>4. ASSUME NEW v \in Workers
        PROVE  /\ worker'[v].pc \in {"drain_own", "drain_global", "exited"} => stop'
               /\ worker'[v].pc = "run" /\ worker'[v].back # "top" => stop'
               /\ PastOwn(v)' => OwnLeftovers(v)'
               /\ worker'[v].pc = "exited" => GlobalLeftovers'
    <3>1. CASE v = w
      BY <3>1, <1>w, <1>u, <2>2, <2>3 DEF PastOwn
    <3>2. CASE v # w
      BY <3>2, <1>w, <1>u, <2>0, <2>2, <2>3 DEF PastOwn, Stopping
    <3>. QED
      BY <3>1, <3>2
  <2>. QED
    BY <2>0, <2>1, <2>4, <1>u DEF Stopping
<1>. QED
  BY <1>1, <1>2, <1>3, <1>4, <1>5, <1>6, <1>7, <1>8 DEF IInv

LEMMA ExecuteInv ==
  ASSUME IInv, NEW w \in Workers, Execute(w)
  PROVE  IInv'
<1>0. /\ worker \in [Workers -> WorkerShape] /\ queue \in [Queues -> QueueShape] /\ runs \in [Tasks -> Nat]
  BY DEF IInv, Shapes
<1>p. PICK q \in Queues, i \in Nat : q = worker[w].q /\ i = worker[w].pos
  BY <1>0 DEF WorkerShape
<1>a. Readers /\ TasksApart /\ RunsCounted /\ Stopping
  BY DEF IInv
<1>f. /\ queue[q].log \in Seq(Tasks \cup {NoTask}) /\ Len(queue[q].log) \in Nat
      /\ queue[q].writing \subseteq Nat /\ queue[q].reading \subseteq Nat /\ queue[q].taken \in Nat
  BY <1>0, QueueFacts
<1>b. worker[w].pc = "run" /\ i \in queue[q].reading
  BY <1>p, <1>a DEF Execute, Readers
<1>c. i < queue[q].taken /\ i + 1 \in 1 .. Len(queue[q].log)
  BY <1>b, <1>f DEF IInv, Lanes, LaneOK
<1>d. PICK f \in Tasks \cup {NoTask} : f = queue[q].log[i + 1]
  BY <1>c, <1>f
<1>u. /\ stop' = stop /\ next_worker' = next_worker /\ sub' = sub /\ manager' = manager
      /\ outcome' = outcome /\ overlap' = overlap
      /\ runs' = IF f = NoTask THEN runs ELSE [runs EXCEPT ![f] = @ + 1]
  BY <1>p, <1>d DEF Execute
<1>q. /\ queue' \in [Queues -> QueueShape]
      /\ \A p \in Queues : p # q => queue'[p] = queue[p]
      /\ queue'[q].log = queue[q].log /\ queue'[q].taken = queue[q].taken
      /\ queue'[q].writing = queue[q].writing /\ queue'[q].reading = queue[q].reading \ {i}
  <2>1. queue' = [queue EXCEPT ![q] = [queue[q] EXCEPT !.reading = @ \ {i}]]
    BY <1>p DEF Execute
  <2>2. queue[q] \in QueueShape
    BY <1>0
  <2>3. queue'[q] = [queue[q] EXCEPT !.reading = @ \ {i}]
    BY <2>1, <1>0
  <2>4. queue'[q] \in QueueShape
    BY <2>2, <2>3 DEF QueueShape
  <2>5. \A p \in Queues : p # q => queue'[p] = queue[p]
    BY <2>1, <1>0
  <2>6. queue' \in [Queues -> QueueShape]
    BY <2>1, <2>3, <2>4, <1>0
  <2>. QED
    BY <2>2, <2>3, <2>5, <2>6 DEF QueueShape
<1>w. /\ worker' \in [Workers -> WorkerShape]
      /\ worker'[w].pc = worker[w].back /\ worker'[w].back = worker[w].back
      /\ worker[w].back \in {"top", "drain_own", "drain_global"}
      /\ \A v \in Workers : v # w => worker'[v] = worker[v]
  <2>1. worker' = [worker EXCEPT ![w] = [worker[w] EXCEPT !.pc = worker[w].back]]
    BY DEF Execute, Goto
  <2>2. worker[w] \in WorkerShape
    BY <1>0
  <2>3. /\ [worker[w] EXCEPT !.pc = worker[w].back] \in WorkerShape
        /\ [worker[w] EXCEPT !.pc = worker[w].back].pc = worker[w].back
        /\ [worker[w] EXCEPT !.pc = worker[w].back].back = worker[w].back
        /\ worker[w].back \in {"top", "drain_own", "drain_global"}
    BY <2>2 DEF WorkerShape
  <2>. QED
    BY <1>0, <2>1, <2>3
<1>l. \A p \in Queues : /\ queue'[p].log = queue[p].log /\ queue'[p].taken = queue[p].taken
                        /\ queue'[p].writing = queue[p].writing
                        /\ queue'[p].reading \subseteq queue[p].reading
  BY <1>q
<1>h. \A p \in Queues, x \in Nat, u \in Tasks : Holds(p, x, u)' <=> Holds(p, x, u)
  BY <1>l, HoldsKept
<1>r. runs' \in [Tasks -> Nat]
  BY <1>0, <1>u, Constants
<1>1. Shapes'
  BY <1>q, <1>w, <1>u, <1>r DEF IInv, Shapes
<1>2. Lanes'
  <2> SUFFICES ASSUME NEW p \in Queues PROVE LaneOK(queue'[p], Capacity(p))
    BY DEF Lanes
  <2>1. LaneOK(queue[p], Capacity(p))
    BY DEF IInv, Lanes
  <2>2. /\ queue'[p].log = queue[p].log /\ queue'[p].taken = queue[p].taken
        /\ queue'[p].writing = queue[p].writing /\ queue'[p].reading \subseteq queue[p].reading
    BY <1>l
  <2>. QED
    BY <2>1, <2>2 DEF LaneOK
<1>3. Submitted'
  BY <1>u DEF IInv, Submitted
<1>4. Publishers'
  <2>1. \A z \in Submitters : sub[z].q \in Queues
    BY DEF IInv, Shapes, SubShape
  <2>. QED
    BY <2>1, <1>l, <1>u DEF IInv, Publishers, Publishing
<1>5. Readers'
  <2>1. \A v \in Workers : worker'[v].pc = "steal" => worker'[v].i < N
    BY <1>a, <1>w DEF Readers
  <2>2. ASSUME NEW v \in Workers, worker'[v].pc = "run"
        PROVE  worker'[v].pos \in queue'[worker'[v].q].reading
    <3>1. v # w /\ worker'[v] = worker[v] /\ worker[v].q \in Queues /\ worker[v].pos \in Nat
      BY <2>2, <1>w DEF WorkerShape
    <3>2. worker[v].pos \in queue[worker[v].q].reading
      BY <3>1, <2>2, <1>a DEF Readers
    <3>3. ~(worker[v].q = q /\ worker[v].pos = i)
      BY <3>1, <2>2, <1>p, <1>b, <1>a DEF Readers, Reading
    <3>. QED
      BY <3>1, <3>2, <3>3, <1>q
  <2>3. ASSUME NEW p \in Queues, NEW x \in queue'[p].reading
        PROVE  \E v \in Workers : Reading(v, p, x)'
    <3>1. x \in queue[p].reading /\ ~(p = q /\ x = i)
      BY <2>3, <1>l, <1>q
    <3>2. PICK v \in Workers : Reading(v, p, x)
      BY <3>1, <1>a DEF Readers
    <3>3. v # w
      BY <3>1, <3>2, <1>p DEF Reading
    <3>. QED
      BY <3>2, <3>3, <1>w DEF Reading
  <2>4. ASSUME NEW a \in Workers, NEW v \in Workers, NEW p \in Queues, NEW x \in Nat,
               Reading(a, p, x)', Reading(v, p, x)'
        PROVE  a = v
    <3>1. a # w /\ v # w
      BY <2>4, <1>w DEF Reading
    <3>2. Reading(a, p, x) /\ Reading(v, p, x)
      BY <2>4, <3>1, <1>w DEF Reading
    <3>. QED
      BY <3>2, <1>a DEF Readers
  <2>. QED
    BY <2>1, <2>2, <2>3, <2>4 DEF Readers
<1>6. TasksApart'
  <2>1. \A z \in Submitters : sub'[z].pc = "push" => \A p \in Queues : \A x \in Nat : ~(Holds(p, x, sub[z].task)')
    BY <1>a, <1>l, <1>u DEF TasksApart, Holds
  <2>. QED
    BY <1>a, <2>1, <1>h, <1>u DEF TasksApart
<1>7. RunsCounted'
  <2>1. ASSUME NEW t \in Tasks, NEW p \in Queues, NEW x \in Nat, Holds(p, x, t)'
        PROVE  runs'[t] = IF x - 1 < queue'[p].taken /\ x - 1 \notin queue'[p].reading THEN 1 ELSE 0
    <3>0. Holds(p, x, t)
      BY <2>1, <1>h
    <3>1. runs[t] = IF x - 1 < queue[p].taken /\ x - 1 \notin queue[p].reading THEN 1 ELSE 0
      BY <3>0, <1>a DEF RunsCounted
    <3>2. CASE t = f
      <4>1. Holds(q, i + 1, t) /\ i + 1 \in Nat
        BY <3>2, <1>c, <1>d DEF Holds
      <4>2. p = q /\ x = i + 1
        BY <4>1, <3>0, <1>a DEF TasksApart
      <4>3. runs[t] = 0
        BY <3>1, <4>2, <1>b
      <4>4. runs'[t] = 1
        BY <4>3, <3>2, <1>u, <1>0, Constants
      <4>. QED
        BY <4>2, <4>4, <1>q, <1>c
    <3>3. CASE t # f
      <4>1. ~(p = q /\ x = i + 1)
        BY <3>3, <3>0, <1>d DEF Holds
      <4>2. runs'[t] = runs[t]
        BY <3>3, <1>u, <1>0, Constants
      <4>3. queue'[p].taken = queue[p].taken
        BY <1>l
      <4>4. x - 1 \in queue'[p].reading <=> x - 1 \in queue[p].reading
        BY <4>1, <1>q
      <4>. QED
        BY <3>1, <4>2, <4>3, <4>4
    <3>. QED
      BY <3>2, <3>3
  <2>2. ASSUME NEW t \in Tasks, \A p \in Queues, x \in Nat : ~(Holds(p, x, t)')
        PROVE  runs'[t] = 0
    <3>1. \A p \in Queues, x \in Nat : ~Holds(p, x, t)
      BY <2>2, <1>h
    <3>2. t # f
      BY <3>1, <1>c, <1>d DEF Holds
    <3>. QED
      BY <3>1, <3>2, <1>a, <1>u, <1>0 DEF RunsCounted
  <2>. QED
    BY <2>1, <2>2 DEF RunsCounted
<1>8. Stopping'
  <2>1. manager # "done"
    BY <1>a, <1>b DEF Stopping
  <2>2. \A v \in Workers : OwnLeftovers(v) => OwnLeftovers(v)'
    BY <1>l, <1>u, Constants DEF OwnLeftovers
  <2>3. GlobalLeftovers => GlobalLeftovers'
    BY <1>l, <1>u, Constants DEF GlobalLeftovers
  <2>4. ASSUME NEW v \in Workers
        PROVE  /\ worker'[v].pc \in {"drain_own", "drain_global", "exited"} => stop'
               /\ worker'[v].pc = "run" /\ worker'[v].back # "top" => stop'
               /\ PastOwn(v)' => OwnLeftovers(v)'
               /\ worker'[v].pc = "exited" => GlobalLeftovers'
    <3>1. CASE v = w
      <4>1. worker[w].back # "top" => stop
        BY <1>a, <1>b DEF Stopping
      <4>2. worker[w].back = "drain_global" => OwnLeftovers(w)
        BY <1>a, <1>b DEF Stopping, PastOwn
      <4>. QED
        BY <3>1, <4>1, <4>2, <1>w, <1>u, <2>2, <2>3 DEF PastOwn
    <3>2. CASE v # w
      BY <3>2, <1>w, <1>u, <1>a, <2>2, <2>3 DEF PastOwn, Stopping
    <3>. QED
      BY <3>1, <3>2
  <2>. QED
    BY <1>a, <2>1, <2>4, <1>u DEF Stopping
<1>. QED
  BY <1>1, <1>2, <1>3, <1>4, <1>5, <1>6, <1>7, <1>8 DEF IInv

(* Every position a worker cannot take from its own queue, once the pool is *)
(* stopped, is behind a task whose submit overlaps the shutdown.            *)
LEMMA OwnDrained ==
  ASSUME IInv, NEW w \in Workers, stop, ~HasTask(w)
  PROVE  OwnLeftovers(w)
<1>1. w \in Queues /\ w # Global
  BY Constants
<1>2. /\ queue[w].taken \in Nat /\ Len(queue[w].log) \in Nat
  BY <1>1, QueueFacts DEF IInv, Shapes
<1> SUFFICES ASSUME NEW x \in queue[w].taken + 1 .. Len(queue[w].log)
             PROVE  \E y \in 1 .. x : queue[w].log[y] \in overlap
  BY DEF OwnLeftovers
<1>3. queue[w].taken \in queue[w].writing
  BY <1>2 DEF HasTask, Ready
<1>4. PICK s \in Submitters : Publishing(s, w, queue[w].taken)
  BY <1>1, <1>3 DEF IInv, Publishers
<1>5. queue[w].log[queue[w].taken + 1] = sub[s].task
  BY <1>1, <1>4 DEF IInv, Publishers, Publishing
<1>6. sub[s].task \in overlap
  BY <1>4 DEF IInv, Stopping, Publishing
<1>7. queue[w].taken + 1 \in 1 .. x
  BY <1>2
<1>. QED
  BY <1>5, <1>6, <1>7

LEMMA GlobalDrained ==
  ASSUME IInv, stop, ~HasTask(Global)
  PROVE  GlobalLeftovers
<1> SUFFICES ASSUME queue[Global].taken < Len(queue[Global].log) PROVE overlap # {}
  BY DEF GlobalLeftovers
<1>1. queue[Global].taken \in queue[Global].writing
  BY DEF HasTask, Ready
<1>2. PICK s \in Submitters : Publishing(s, Global, queue[Global].taken)
  BY <1>1, Constants DEF IInv, Publishers
<1>. QED
  BY <1>2 DEF IInv, Stopping, Publishing

(* A worker goes from pc a to pc b, where it does not run a task. *)
LEMMA GotoInv ==
  ASSUME IInv, NEW w \in Workers, NEW b,
         b \in {"top", "own", "global", "sleep", "blocking", "blocked", "drain_own", "drain_global", "exited"},
         Goto(w, b), worker[w].pc \notin {"run", "exited"},
         b \in {"drain_own", "drain_global", "exited"} => stop,
         b \in {"drain_global", "exited"} => OwnLeftovers(w),
         b = "exited" => GlobalLeftovers,
         UNCHANGED <<poolVars, sub, manager, histVars>>
  PROVE  IInv'
<1> DEFINE l == [worker[w] EXCEPT !.pc = b]
<1>1. worker[w] \in WorkerShape
  BY DEF IInv, Shapes
<1>2. l \in WorkerShape /\ l.pc = b
  BY <1>1 DEF WorkerShape
<1>3. worker' = [worker EXCEPT ![w] = l]
  BY DEF Goto
<1> HIDE DEF l
<1>. QED
  BY <1>2, <1>3, WorkerMoves

(* A worker that found a queue empty goes on to the next victim, or to the *)
(* overflow queue.                                                         *)
LEMMA ScanInv ==
  ASSUME IInv, NEW w \in Workers, NEW b \in {"steal", "global"}, NEW n \in 1 .. N,
         worker' = [worker EXCEPT ![w].pc = b, ![w].i = n],
         worker[w].pc \notin {"run", "exited"}, b = "steal" => n < N,
         UNCHANGED <<poolVars, sub, manager, histVars>>
  PROVE  IInv'
<1>0. worker[w] \in WorkerShape /\ worker \in [Workers -> WorkerShape]
  BY DEF IInv, Shapes
<1>1. PICK r : r = [worker[w] EXCEPT !.pc = b]
  OBVIOUS
<1>2. r \in WorkerShape /\ r.pc = b
  BY <1>0, <1>1 DEF WorkerShape
<1>3. PICK l : l = [r EXCEPT !.i = n]
  OBVIOUS
<1>4. l \in WorkerShape /\ l.pc = b /\ l.i = n
  BY <1>2, <1>3 DEF WorkerShape
<1>5. worker' = [worker EXCEPT ![w] = l]
  BY <1>0, <1>1, <1>3
<1>. QED
  BY <1>4, <1>5, WorkerMoves

LEMMA WorkerInv ==
  ASSUME IInv, NEW w \in Workers, WorkerStep(w)
  PROVE  IInv'
<1>0. worker[w] \in WorkerShape /\ worker \in [Workers -> WorkerShape] /\ stop \in BOOLEAN
  BY DEF IInv, Shapes
<1>c. N \in Nat /\ N >= 1 /\ w \in Queues /\ Global \in Queues /\ w \in 0 .. N - 1
  BY Constants DEF Workers
<1>s. Stopping
  BY DEF IInv
<1>1. CASE CheckStop(w)
  BY <1>1, <1>0, GotoInv DEF CheckStop
<1>2. CASE TryOwn(w)
  <2>1. CASE Pop(w, w, "top")
    BY <2>1, <1>2, <1>c, PopInv DEF TryOwn
  <2>2. CASE PopFails(w) /\ worker' = [worker EXCEPT ![w].pc = IF N > 1 THEN "steal" ELSE "global", ![w].i = 1]
    <3>1. PICK b \in {"steal", "global"} : b = IF N > 1 THEN "steal" ELSE "global"
      OBVIOUS
    <3>2. PICK m \in 1 .. N : m = 1
      BY <1>c
    <3>3. worker' = [worker EXCEPT ![w].pc = b, ![w].i = m]
      BY <2>2, <3>1, <3>2
    <3>4. UNCHANGED <<poolVars, sub, manager, histVars>> /\ worker[w].pc \notin {"run", "exited"}
      BY <1>2, <2>2 DEF TryOwn, PopFails, poolVars
    <3>. QED
      BY <3>1, <3>2, <3>3, <3>4, ScanInv
  <2>. QED
    BY <1>2, <2>1, <2>2 DEF TryOwn
<1>3. CASE TrySteal(w)
  <2>0. PICK n \in 1 .. N : n = worker[w].i
    BY <1>0 DEF WorkerShape
  <2>1. n < N /\ worker[w].pc = "steal"
    BY <1>3, <2>0 DEF TrySteal, IInv, Readers
  <2>2. PICK victim \in Queues : victim = (w + n) % N
    BY <1>c, <2>0, ModRange DEF Queues
  <2>3. CASE Pop(w, victim, "top")
    BY <2>1, <2>3, <1>3, PopInv DEF TrySteal
  <2>4. CASE /\ PopFails(victim)
             /\ worker' = [worker EXCEPT ![w].pc = IF n + 1 < N THEN "steal" ELSE "global", ![w].i = @ + 1]
    <3>1. PICK b \in {"steal", "global"} : b = IF n + 1 < N THEN "steal" ELSE "global"
      OBVIOUS
    <3>2. PICK m \in 1 .. N : m = n + 1
      BY <1>c, <2>1
    <3>3. worker' = [worker EXCEPT ![w].pc = b, ![w].i = m]
      BY <2>4, <3>1, <3>2, <2>0
    <3>4. UNCHANGED <<poolVars, sub, manager, histVars>> /\ worker[w].pc \notin {"run", "exited"}
      BY <1>3, <2>4 DEF TrySteal, PopFails, poolVars
    <3>. QED
      BY <3>1, <3>2, <3>3, <3>4, ScanInv
  <2>. QED
    BY <1>3, <2>0, <2>2, <2>3, <2>4 DEF TrySteal
<1>4. CASE TryGlobal(w)
  <2>1. CASE Pop(w, Global, "top")
    BY <2>1, <1>4, <1>c, PopInv DEF TryGlobal
  <2>2. CASE PopFails(Global) /\ Goto(w, "sleep")
    <3>1. UNCHANGED <<poolVars, sub, manager, histVars>> /\ worker[w].pc = "global"
      BY <1>4, <2>2 DEF TryGlobal, PopFails, poolVars
    <3>. QED
      BY <2>2, <3>1, GotoInv
  <2>. QED
    BY <1>4, <2>1, <2>2 DEF TryGlobal
<1>5. CASE Sleep(w)
  BY <1>5, <1>0, GotoInv DEF Sleep
<1>6. CASE Timeout(w)
  BY <1>6, GotoInv DEF Timeout
<1>7. CASE Execute(w)
  BY <1>7, ExecuteInv
<1>8. CASE DrainOwn(w)
  <2>0. worker[w].pc = "drain_own" /\ stop
    BY <1>8, <1>s DEF DrainOwn, Stopping
  <2>1. CASE Pop(w, w, "drain_own")
    BY <2>0, <2>1, <1>8, <1>c, PopInv DEF DrainOwn
  <2>2. CASE PopFails(w) /\ Goto(w, "drain_global")
    <3>1. UNCHANGED <<poolVars, sub, manager, histVars>> /\ ~HasTask(w)
      BY <1>8, <2>2 DEF DrainOwn, PopFails, poolVars
    <3>2. OwnLeftovers(w)
      BY <2>0, <3>1, OwnDrained
    <3>. QED
      BY <2>0, <2>2, <3>1, <3>2, GotoInv
  <2>. QED
    BY <1>8, <2>1, <2>2 DEF DrainOwn
<1>9. CASE DrainGlobal(w)
  <2>0. worker[w].pc = "drain_global" /\ stop /\ OwnLeftovers(w)
    BY <1>9, <1>s DEF DrainGlobal, Stopping, PastOwn
  <2>1. CASE Pop(w, Global, "drain_global")
    BY <2>0, <2>1, <1>9, <1>c, PopInv DEF DrainGlobal
  <2>2. CASE PopFails(Global) /\ Goto(w, "exited")
    <3>1. UNCHANGED <<poolVars, sub, manager, histVars>> /\ ~HasTask(Global)
      BY <1>9, <2>2 DEF DrainGlobal, PopFails, poolVars
    <3>2. GlobalLeftovers
      BY <2>0, <3>1, GlobalDrained
    <3>. QED
      BY <2>0, <2>2, <3>1, <3>2, GotoInv
  <2>. QED
    BY <1>9, <2>1, <2>2 DEF DrainGlobal
<1>. QED
  BY <1>1, <1>2, <1>3, <1>4, <1>5, <1>6, <1>7, <1>8, <1>9 DEF WorkerStep

LEMMA SubmitInv ==
  ASSUME IInv, NEW s \in Submitters, SubmitStep(s)
  PROVE  IInv'
<1>1. CASE SubmitPush(s)
  <2>1. CASE HasRoom(sub[s].q) /\ ClaimPosition(s, sub[s].q, sub[s].task)
    <3>1. Claims(s, sub[s].q, sub[s].task)
      BY <1>1 DEF SubmitPush, Claims
    <3>2. PICK q, f : q = sub[s].q /\ f = sub[s].task
      OBVIOUS
    <3>3. Claims(s, q, f) /\ HasRoom(q) /\ ClaimPosition(s, q, f)
      BY <2>1, <3>1, <3>2
    <3>4. UNCHANGED <<stop, next_worker, worker, manager, histVars>>
      BY <1>1 DEF SubmitPush
    <3>. QED
      BY <3>3, <3>4, ClaimInv
  <2>2. CASE ~HasRoom(sub[s].q) /\ sub' = [sub EXCEPT ![s].pc = "overflow"] /\ UNCHANGED queue
    BY <1>1, <2>2, RefusedInv DEF SubmitPush, histVars
  <2>. QED
    BY <1>1, <2>1, <2>2 DEF SubmitPush
<1>2. CASE SubmitOverflow(s)
  <2>1. CASE HasRoom(Global) /\ ClaimPosition(s, Global, NoTask) /\ UNCHANGED outcome
    <3>1. Claims(s, Global, NoTask)
      BY <1>2 DEF SubmitOverflow, Claims
    <3>2. UNCHANGED <<stop, next_worker, worker, manager, histVars>>
      BY <1>2, <2>1 DEF SubmitOverflow, histVars
    <3>. QED
      BY <2>1, <3>1, <3>2, ClaimInv
  <2>2. CASE /\ ~HasRoom(Global)
             /\ sub' = [sub EXCEPT ![s].pc = "idle"]
             /\ outcome' = [outcome EXCEPT ![sub[s].task] = "dropped"]
             /\ UNCHANGED queue
    BY <1>2, <2>2, RefusedInv DEF SubmitOverflow
  <2>. QED
    BY <1>2, <2>1, <2>2 DEF SubmitOverflow
<1>3. CASE SubmitPublish(s)
  BY <1>3, PublishInv
<1>. QED
  BY <1>1, <1>2, <1>3 DEF SubmitStep

-----------------------------------------------------------------------------
(* shutdown                                                                *)

LEMMA StopInv == ASSUME IInv, Stop PROVE IInv'
<1>0. /\ manager = "idle" /\ stop' = TRUE /\ overlap' = InSubmit /\ manager' = "notify"
      /\ UNCHANGED <<next_worker, queue, sub, worker, outcome, runs>>
  BY DEF Stop
<1>a. Stopping /\ TasksApart
  BY DEF IInv
<1>b. ~stop
  BY <1>0, <1>a DEF Stopping
<1>1. InSubmit \subseteq Tasks
  BY <1>a DEF InSubmit, TasksApart
<1>2. Shapes'
  BY <1>0, <1>1 DEF IInv, Shapes
<1>3. Lanes' /\ Submitted' /\ Publishers' /\ Readers' /\ TasksApart' /\ RunsCounted'
  BY <1>0 DEF IInv, Lanes, Submitted, Publishers, Publishing, Readers, Reading, TasksApart, RunsCounted, Holds
<1>4. Stopping'
  <2>1. \A s \in Submitters : sub'[s].pc # "idle" => sub'[s].task \in overlap'
    BY <1>0 DEF InSubmit
  <2>2. \A w \in Workers :
          /\ worker[w].pc \notin {"drain_own", "drain_global", "exited"}
          /\ ~(worker[w].pc = "run" /\ worker[w].back # "top")
    BY <1>a, <1>b DEF Stopping
  <2>3. \A w \in Workers : ~(PastOwn(w)')
    BY <1>0, <2>2 DEF PastOwn
  <2>. QED
    BY <1>0, <2>1, <2>2, <2>3 DEF Stopping
<1>. QED
  BY <1>2, <1>3, <1>4 DEF IInv

LEMMA NotifyInv == ASSUME IInv, NotifyAll PROVE IInv'
<1>u. /\ stop' = stop /\ next_worker' = next_worker /\ queue' = queue /\ sub' = sub
      /\ outcome' = outcome /\ runs' = runs /\ overlap' = overlap
      /\ manager = "notify" /\ manager' = "join"
  BY DEF NotifyAll, poolVars, histVars
<1>a. Stopping /\ Readers /\ worker \in [Workers -> WorkerShape]
  BY DEF IInv, Shapes
<1>w. \A w \in Workers : worker'[w] = IF worker[w].pc = "blocked" THEN [worker[w] EXCEPT !.pc = "sleep"] ELSE worker[w]
  BY DEF NotifyAll
<1>1. \A w \in Workers :
        /\ worker'[w] \in WorkerShape
        /\ worker[w].pc # "blocked" => worker'[w] = worker[w]
        /\ worker[w].pc = "blocked" => worker'[w].pc = "sleep"
  <2> SUFFICES ASSUME NEW w \in Workers
               PROVE  /\ worker'[w] \in WorkerShape
                      /\ worker[w].pc # "blocked" => worker'[w] = worker[w]
                      /\ worker[w].pc = "blocked" => worker'[w].pc = "sleep"
    OBVIOUS
  <2>1. worker[w] \in WorkerShape
    BY <1>a
  <2>2. [worker[w] EXCEPT !.pc = "sleep"] \in WorkerShape /\ [worker[w] EXCEPT !.pc = "sleep"].pc = "sleep"
    BY <2>1 DEF WorkerShape
  <2>. QED
    BY <2>1, <2>2, <1>w
<1>2. worker' \in [Workers -> WorkerShape]
  BY <1>1 DEF NotifyAll
<1>3. Shapes'
  BY <1>u, <1>2 DEF IInv, Shapes
<1>4. Lanes' /\ Submitted' /\ Publishers' /\ TasksApart' /\ RunsCounted'
  BY <1>u DEF IInv, Lanes, Submitted, Publishers, Publishing, TasksApart, RunsCounted, Holds
<1>5. Readers'
  <2>1. \A v \in Workers, q \in Queues, x \in Nat : Reading(v, q, x)' <=> Reading(v, q, x)
    BY <1>1 DEF Reading
  <2>2. \A v \in Workers : worker'[v].pc = "run" => worker'[v].pos \in queue'[worker'[v].q].reading
    BY <1>a, <1>1, <1>u DEF Readers
  <2>3. \A v \in Workers : worker'[v].pc = "steal" => worker'[v].i < N
    BY <1>a, <1>1 DEF Readers
  <2>4. \A q \in Queues : queue[q].reading \subseteq Nat
    BY QueueFacts DEF IInv, Shapes
  <2>5. \A q \in Queues : \A x \in queue'[q].reading : \E v \in Workers : Reading(v, q, x)'
    BY <1>a, <2>1, <2>4, <1>u DEF Readers
  <2>6. \A a, v \in Workers : \A q \in Queues : \A x \in Nat :
           Reading(a, q, x)' /\ Reading(v, q, x)' => a = v
    BY <1>a, <2>1 DEF Readers
  <2>. QED
    BY <2>2, <2>3, <2>5, <2>6 DEF Readers
<1>6. Stopping'
  <2>1. \A v \in Workers : OwnLeftovers(v)' <=> OwnLeftovers(v)
    BY <1>u DEF OwnLeftovers
  <2>2. GlobalLeftovers' <=> GlobalLeftovers
    BY <1>u DEF GlobalLeftovers
  <2>3. \A v \in Workers : PastOwn(v)' => PastOwn(v)
    BY <1>1 DEF PastOwn
  <2>. QED
    BY <1>a, <1>1, <1>u, <2>1, <2>2, <2>3 DEF Stopping
<1>. QED
  BY <1>3, <1>4, <1>5, <1>6 DEF IInv

LEMMA JoinInv == ASSUME IInv, Join PROVE IInv'
<1>0. /\ manager' = "done" /\ manager = "join" /\ \A w \in Workers : worker[w].pc = "exited"
      /\ stop' = stop /\ next_worker' = next_worker /\ queue' = queue /\ sub' = sub /\ worker' = worker
      /\ outcome' = outcome /\ runs' = runs /\ overlap' = overlap
  BY DEF Join, poolVars, histVars
<1>1. Shapes'
  BY <1>0 DEF IInv, Shapes
<1>2. Lanes' /\ Submitted' /\ Publishers' /\ Readers' /\ TasksApart' /\ RunsCounted'
  BY <1>0 DEF IInv, Lanes, Submitted, Publishers, Publishing, Readers, Reading, TasksApart, RunsCounted, Holds
<1>3. Stopping'
  BY <1>0 DEF IInv, Stopping, PastOwn, OwnLeftovers, GlobalLeftovers
<1>. QED
  BY <1>1, <1>2, <1>3 DEF IInv

LEMMA NextInv == IInv /\ [Next]_vars => IInv'
<1> SUFFICES ASSUME IInv, [Next]_vars PROVE IInv'
  OBVIOUS
<1>1. CASE \E s \in Submitters : (\E t \in Tasks : SubmitBegin(s, t)) \/ SubmitStep(s)
  BY <1>1, BeginInv, SubmitInv
<1>2. CASE \E w \in Workers : WorkerStep(w)
  BY <1>2, WorkerInv
<1>3. CASE Stop
  BY <1>3, StopInv
<1>4. CASE NotifyAll
  BY <1>4, NotifyInv
<1>5. CASE Join
  BY <1>5, JoinInv
<1>6. CASE UNCHANGED vars
  BY <1>6 DEF vars, poolVars, histVars, IInv, Shapes, Lanes, Submitted, Publishers, Publishing, Readers, Reading,
              TasksApart, RunsCounted, Holds, Stopping, PastOwn, OwnLeftovers, GlobalLeftovers
<1>. QED
  BY <1>1, <1>2, <1>3, <1>4, <1>5, <1>6 DEF Next

-----------------------------------------------------------------------------
(* The theorems.                                                           *)

LEMMA Types == IInv => TypeOK
<1> SUFFICES ASSUME IInv PROVE TypeOK
  OBVIOUS
<1>0. Shapes /\ Lanes /\ Publishers /\ Readers /\ Submitted
  BY DEF IInv
<1>1. next_worker \in 0 .. MaxTasks
  <2>1. PICK k \in 0 .. MaxTasks : next_worker <= k
    BY <1>0 DEF Submitted
  <2>. QED
    BY <2>1, <1>0, Constants DEF Shapes
<1>2. ASSUME NEW q \in Queues
      PROVE  /\ queue[q].log \in Seq(Tasks \cup {NoTask})
             /\ queue[q].taken \in 0 .. Len(queue[q].log)
             /\ queue[q].writing \subseteq queue[q].taken .. Len(queue[q].log) - 1
             /\ queue[q].reading \subseteq Len(queue[q].log) - Capacity(q) .. queue[q].taken - 1
  <2>1. LaneOK(queue[q], Capacity(q))
    BY <1>0 DEF Lanes
  <2>2. queue[q].log \in Seq(Tasks \cup {NoTask}) /\ Len(queue[q].log) \in Nat /\ queue[q].taken \in Nat
    BY <1>0, QueueFacts DEF Shapes
  <2>. QED
    BY <2>1, <2>2 DEF LaneOK
<1>3. \A s \in Submitters :
         /\ sub[s].pc \in {"idle", "push", "overflow", "publish"}
         /\ sub[s].task \in Tasks \cup {NoTask}
         /\ sub[s].q \in Queues
         /\ sub[s].pc = "publish" => sub[s].pos \in queue[sub[s].q].writing
  BY <1>0 DEF Shapes, SubShape, Publishers
<1>4. \A w \in Workers :
         /\ worker[w].pc \in {"top", "own", "steal", "global", "sleep", "blocking", "blocked", "run",
                              "drain_own", "drain_global", "exited"}
         /\ worker[w].back \in {"top", "drain_own", "drain_global"}
         /\ worker[w].i \in 1 .. N
         /\ worker[w].q \in Queues
         /\ worker[w].pc = "run" => worker[w].pos \in queue[worker[w].q].reading
  BY <1>0 DEF Shapes, WorkerShape, Readers
<1>. QED
  BY <1>0, <1>1, <1>2, <1>3, <1>4 DEF TypeOK, Shapes

LEMMA Once == IInv => ExactlyOnce
<1> SUFFICES ASSUME IInv, NEW q \in Queues, NEW i \in 0 .. Len(queue[q].log) - 1,
                    queue[q].log[i + 1] # NoTask
             PROVE  runs[queue[q].log[i + 1]]
                       + Cardinality({w \in Workers : worker[w].pc = "run" /\ worker[w].q = q /\ worker[w].pos = i})
                       = IF i < queue[q].taken THEN 1 ELSE 0
  BY DEF ExactlyOnce
<1> DEFINE inHand == {w \in Workers : worker[w].pc = "run" /\ worker[w].q = q /\ worker[w].pos = i}
<1>0. Readers /\ RunsCounted /\ runs \in [Tasks -> Nat]
  BY DEF IInv, Shapes
<1>f. /\ queue[q].log \in Seq(Tasks \cup {NoTask}) /\ Len(queue[q].log) \in Nat
      /\ queue[q].taken \in Nat /\ queue[q].reading \subseteq Nat
  BY QueueFacts DEF IInv, Shapes
<1>1. PICK t \in Tasks : t = queue[q].log[i + 1]
  BY <1>f
<1>2. Holds(q, i + 1, t) /\ i + 1 \in Nat /\ i \in Nat
  BY <1>1, <1>f DEF Holds
<1>3. runs[t] = IF i < queue[q].taken /\ i \notin queue[q].reading THEN 1 ELSE 0
  BY <1>0, <1>2 DEF RunsCounted
<1>4. i \in queue[q].reading => i < queue[q].taken
  BY <1>f DEF IInv, Lanes, LaneOK
<1>5. CASE i \in queue[q].reading
  <2>1. PICK w \in Workers : Reading(w, q, i)
    BY <1>0, <1>5 DEF Readers
  <2>2. inHand = {w}
    BY <2>1, <1>0, <1>2 DEF Readers, Reading
  <2>3. Cardinality(inHand) = 1
    BY <2>2, FS_Singleton
  <2>. QED
    BY <2>3, <1>1, <1>3, <1>4, <1>5
<1>6. CASE i \notin queue[q].reading
  <2>1. inHand = {}
    BY <1>0, <1>6 DEF Readers
  <2>2. Cardinality(inHand) = 0
    BY <2>1, FS_EmptySet
  <2>. QED
    BY <2>2, <1>1, <1>3, <1>6
<1>. QED
  BY <1>5, <1>6

LEMMA Drained == IInv => DrainedAtShutdown
<1> SUFFICES ASSUME IInv, manager = "done" PROVE DrainedAtShutdown
  BY DEF DrainedAtShutdown
<1>1. \A w \in Workers : worker[w].pc = "exited"
  BY DEF IInv, Stopping
<1>2. \A w \in Workers : OwnLeftovers(w)
  BY <1>1 DEF IInv, Stopping, PastOwn
<1>3. GlobalLeftovers
  BY <1>1, Constants DEF IInv, Stopping
<1>. QED
  BY <1>2, <1>3 DEF DrainedAtShutdown, OwnLeftovers, GlobalLeftovers

(* The tickets of every queue, the threads that hold them, the tasks and the *)
(* phases of shutdown fit together as the invariant above says, in every    *)
(* state of ThreadPoolExecutor.cpp, for any workers, submitters and sizes.  *)
THEOREM PoolInvariant == Spec => []IInv
<1>. QED
  BY InitIInv, NextInv, PTL DEF Spec

(* Every variable keeps its type, and in each of the pool's queues the     *)
(* positions that producers write and consumers read stay within one lap   *)
(* of the ring: next_worker_ counts no call that was not made.              *)
THEOREM PoolTypes == Spec => []TypeOK
<1>. QED
  BY PoolInvariant, Types, PTL

(* submit, worker_loop and try_steal: a task that a queue accepted is run   *)
(* by exactly one worker, the owner of the queue or a thief, in the loop or *)
(* in the drain, and it is run once.                                        *)
THEOREM TasksRunOnce == Spec => []ExactlyOnce
<1>. QED
  BY PoolInvariant, Once, PTL

(* shutdown: when it has returned, the worker queues and the overflow queue *)
(* hold nothing but tasks whose submit overlapped the shutdown, or what was *)
(* accepted behind such a task.                                             *)
THEOREM ShutdownDrains == Spec => []DrainedAtShutdown
<1>. QED
  BY PoolInvariant, Drained, PTL
=============================================================================
