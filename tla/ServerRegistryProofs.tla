-------------------------- MODULE ServerRegistryProofs --------------------------
(***************************************************************************)
(* Proofs about ServerRegistry: a branch that is served exists and has its *)
(* lease, the restore list agrees with the registry, and nothing is served *)
(* once the server has been drained, for any databases and any number of   *)
(* operations.                                                             *)
(***************************************************************************)
EXTENDS ServerRegistry, SequenceTheorems, TLAPS

-----------------------------------------------------------------------------
(***************************************************************************)
(* The inductive invariant.                                                *)
(***************************************************************************)
One(scope) == \E p \in Projects : scope = {p}

\* What each operation is about and how far it may have come.
Shaped(w) ==
  LET t == task[w] IN
  \/ t = Idle
  \/ t.op = "start" /\ One(t.scope) /\ t.busy = {}
       /\ t.stage \in {"accepted", "queued", "admitted", "reserved", "leased",
                       "loaded", "recorded", "failed"}
  \/ w \in Tasks /\ t.op = "stop" /\ One(t.scope) /\ t.busy \subseteq t.scope
       /\ t.stage \in {"accepted", "queued", "admitted", "stopping", "stopped"}
  \/ w \in Tasks /\ t.op = "remove" /\ t.busy \subseteq t.scope
       /\ t.stage \in {"accepted", "queued", "admitted", "removing", "stopping",
                       "stopped", "locking"}
  \/ w \in Tasks /\ t.op = "delete" /\ t.busy = {}
       /\ t.stage \in {"accepted", "queued", "admitted", "locking"}
  \/ w = Main /\ t.op = "shutdown" /\ t.stage \in {"queued", "admitted", "stopping"}
  \/ w \in Tasks /\ t.op = "cli delete" /\ t.stage = "locking" /\ t.busy = {}
  \/ w \in Tasks /\ t.op = "cli remove" /\ t.stage \in {"locking", "rewriting"} /\ t.busy = {}

WorkShaped == \A w \in Workers : Shaped(w)

\* The line for the operations lock: those that are queued, each once.
QueueKept ==
  \A i, j \in DOMAIN queue :
    /\ task[queue[i]].stage = "queued"
    /\ queue[i] = queue[j] => i = j

\* The operations lock.
LockKept == \A v, w \in Inside : task[w].op \in Excluding => v = w

\* The operation that has reserved a slot.
Starting(w, p) ==
  /\ task[w].op = "start" /\ p \in task[w].scope
  /\ task[w].stage \in {"reserved", "leased", "loaded", "recorded", "failed"}

Stopping(w, p) ==
  /\ task[w].op \in {"stop", "remove"} /\ p \in task[w].busy
  /\ task[w].stage \in {"stopping", "stopped"}

Owner(w, p) == Starting(w, p) \/ Stopping(w, p)

SlotsOwned == \A p \in Projects :
  /\ slot[p] = "reserved" <=> \E w \in Workers : Owner(w, p)
  /\ \A v, w \in Workers : Owner(v, p) /\ Owner(w, p) => v = w

\* The lease of a cache belongs to the service that is being opened, is open,
\* or is still held by a request.
Opened(w, p) == Starting(w, p) /\ task[w].stage \in {"leased", "loaded", "recorded"}

LeasesHeld == \A p \in Projects :
  /\ slot[p] = "open" => lease[p] = "service" /\ p \in exists
  /\ p \in borrowed => lease[p] = "service"
  /\ \A w \in Workers : Opened(w, p) =>
       /\ lease[p] = "service" /\ p \notin borrowed
       /\ task[w].stage # "leased" => p \in exists

\* Each phase of the server.
PhasesKept ==
  /\ phase \in {"down", "offline"} =>
       /\ \A w \in Workers : task[w] = Idle \/ task[w].op \in Foreign
       /\ \A p \in Projects : slot[p] = "absent"
       /\ borrowed = {} /\ queue = <<>>
  /\ phase = "restoring" =>
       /\ \A t \in Tasks : task[t] = Idle \/ task[t].op \in Foreign
       /\ task[Main] = Idle \/ task[Main].op = "start"
  /\ phase = "up" => task[Main] = Idle /\ todo = {}
  /\ phase = "closing" <=> task[Main].op = "shutdown"
  /\ phase = "drained" =>
       /\ task[Main] = Idle
       /\ \A w \in Inside : task[w].stage = "admitted"
  /\ phase = "drained" \/ At(Main, "shutdown", "stopping") =>
       \A p \in Projects : slot[p] = "absent"
  /\ \A v, w \in Workers : task[v].op = "cli remove" =>
       /\ phase = "offline"
       /\ task[w].op = "cli remove" => v = w

\* The two copies of the restore list, and why a branch is in it.
Expected(p) ==
  \/ slot[p] = "open" \/ p \in todo \/ p \in unrestored
  \/ task[Main].op = "start" /\ p \in task[Main].scope
  \/ \E w \in Workers : Starting(w, p) /\ task[w].stage = "recorded"

ListKept == foreground =>
  /\ phase \notin {"down", "offline"} =>
       /\ remembered = file
       /\ \A p \in Projects : slot[p] = "open" => p \in file
       /\ \A p \in Projects, w \in Workers :
            Starting(w, p) /\ task[w].stage = "recorded" => p \in file
  /\ phase \in {"restoring", "up"} => \A p \in file : Expected(p)

Inductive ==
  /\ TypeOK /\ WorkShaped /\ QueueKept /\ LockKept
  /\ SlotsOwned /\ LeasesHeld /\ PhasesKept /\ ListKept

-----------------------------------------------------------------------------
(***************************************************************************)
(* Types, and steps of one worker.                                         *)
(***************************************************************************)
Types ==
  /\ phase \in {"down", "offline", "restoring", "up", "closing", "drained"}
  /\ foreground \in BOOLEAN
  /\ todo \in SUBSET Projects
  /\ slot \in [Projects -> {"absent", "reserved", "open"}]
  /\ lease \in [Projects -> {"free", "service"} \cup Workers]
  /\ borrowed \in SUBSET Projects
  /\ remembered \in SUBSET Projects
  /\ file \in SUBSET Projects
  /\ exists \in SUBSET Projects
  /\ unrestored \in SUBSET Projects
  /\ task \in [Workers -> Work]
  /\ queue \in Seq(Workers)

LEMMA IdleFields ==
  /\ Idle \in Work
  /\ Idle.op = "none" /\ Idle.scope = {} /\ Idle.stage = "idle" /\ Idle.busy = {}
BY DEF Idle, Work, Ops, Stages

LEMMA TypesOf == TypeOK => Types
BY DEF TypeOK, Types

\* An operation that has reserved a slot holds the operations lock.
LEMMA OwnersInside ==
  ASSUME WorkShaped, NEW w \in Workers, NEW p \in Projects, Owner(w, p)
  PROVE  w \in Inside /\ p \in task[w].scope
<1>1. Shaped(w)
  BY DEF WorkShaped
<1>2. task[w] # Idle
  BY IdleFields DEF Owner, Starting, Stopping
<1>3. p \in task[w].scope
  BY <1>1, <1>2 DEF Shaped, Owner, Starting, Stopping
<1>4. QED
  BY <1>3 DEF Owner, Starting, Stopping, Inside, Foreign

LEMMA TypesSuffice == Types /\ WorkShaped /\ SlotsOwned => TypeOK
<1> SUFFICES ASSUME Types, WorkShaped, SlotsOwned, NEW p \in Projects, slot[p] = "reserved"
             PROVE  Touched(p)
  BY DEF Types, TypeOK
<1>1. PICK w \in Workers : Owner(w, p)
  BY DEF SlotsOwned
<1>2. QED
  BY <1>1, OwnersInside DEF Touched

LEMMA TypesSufficeNext == (Types /\ WorkShaped /\ SlotsOwned)' => TypeOK'
<1> SUFFICES ASSUME Types', WorkShaped', SlotsOwned', NEW p \in Projects, slot'[p] = "reserved"
             PROVE  Touched(p)'
  BY DEF Types, TypeOK
<1>1. PICK w \in Workers : Owner(w, p)'
  BY DEF SlotsOwned
<1>2. Shaped(w)' /\ task'[w] # Idle
  BY <1>1, IdleFields DEF WorkShaped, Owner, Starting, Stopping
<1>3. p \in task'[w].scope
  BY <1>1, <1>2 DEF Shaped, Owner, Starting, Stopping
<1>4. w \in Inside'
  BY <1>1 DEF Owner, Starting, Stopping, Inside, Foreign
<1>5. QED
  BY <1>3, <1>4 DEF Touched

Rest == WorkShaped /\ QueueKept /\ LockKept /\ SlotsOwned /\ LeasesHeld /\ PhasesKept /\ ListKept

LEMMA InductiveParts == Inductive => Types /\ Rest
BY TypesOf DEF Inductive, Rest

LEMMA PartsInductive == Types' /\ Rest' => Inductive'
BY TypesSufficeNext DEF Inductive, Rest

\* The worker w goes on to another stage of its operation.
LEMMA Moved ==
  ASSUME Types, NEW w \in Workers, NEW stage \in Stages, Goto(w, stage)
  PROVE  /\ task' \in [Workers -> Work]
         /\ task'[w].op = task[w].op /\ task'[w].scope = task[w].scope
         /\ task'[w].stage = stage /\ task'[w].busy = task[w].busy
         /\ \A v \in Workers : v # w => task'[v] = task[v]
<1>1. task[w] \in Work
  BY DEF Types
<1> DEFINE new == [task[w] EXCEPT !.stage = stage]
<1>2. /\ new \in Work /\ new.op = task[w].op /\ new.scope = task[w].scope
      /\ new.stage = stage /\ new.busy = task[w].busy
  BY <1>1 DEF Work
<1>3. task' = [task EXCEPT ![w] = new]
  BY DEF Goto
<1> HIDE DEF new
<1>4. task'[w] = new /\ task' \in [Workers -> Work] /\ \A v \in Workers : v # w => task'[v] = task[v]
  BY <1>2, <1>3 DEF Types
<1>5. QED
  BY <1>2, <1>4

LEMMA Replaced ==
  ASSUME Types, NEW w \in Workers, NEW new \in Work, task' = [task EXCEPT ![w] = new]
  PROVE  /\ task' \in [Workers -> Work] /\ task'[w] = new
         /\ \A v \in Workers : v # w => task'[v] = task[v]
BY DEF Types

\* The worker w returns; no lease of a service is touched.
LEMMA Returned ==
  ASSUME Types, NEW w \in Workers, Return(w)
  PROVE  /\ task' \in [Workers -> Work] /\ task'[w] = Idle
         /\ \A v \in Workers : v # w => task'[v] = task[v]
         /\ lease' \in [Projects -> {"free", "service"} \cup Workers]
         /\ \A p \in Projects : lease'[p] = "service" <=> lease[p] = "service"
         /\ phase' = IF task[w].op = "cli remove" THEN "down" ELSE phase
<1>1. "service" \notin Workers /\ "free" \notin Workers
  BY RegistryAssumption
<1>2. /\ task' = [task EXCEPT ![w] = Idle]
      /\ lease' = [p \in Projects |-> IF lease[p] = w THEN "free" ELSE lease[p]]
      /\ phase' = IF task[w].op = "cli remove" THEN "down" ELSE phase
  BY DEF Return
<1>3. /\ task' \in [Workers -> Work] /\ task'[w] = Idle
      /\ \A v \in Workers : v # w => task'[v] = task[v]
  BY <1>2, IdleFields, Replaced
<1>4. lease' \in [Projects -> {"free", "service"} \cup Workers]
  BY <1>2 DEF Types
<1>5. \A p \in Projects : lease'[p] = "service" <=> lease[p] = "service"
  BY <1>1, <1>2 DEF Types
<1>6. QED
  BY <1>2, <1>3, <1>4, <1>5

LEMMA SameWork ==
  ASSUME Inductive, UNCHANGED <<task, queue>>
  PROVE  WorkShaped' /\ QueueKept' /\ LockKept'
<1>1. WorkShaped'
  <2> SUFFICES ASSUME NEW w \in Workers PROVE Shaped(w)'
    BY DEF WorkShaped
  <2>1. Shaped(w)
    BY DEF Inductive, WorkShaped
  <2>2. task'[w] = task[w]
    OBVIOUS
  <2>3. QED
    BY <2>1, <2>2 DEF Shaped
<1>2. QueueKept'
  BY DEF Inductive, QueueKept
<1>3. LockKept'
  <2>1. Inside' = Inside
    BY DEF Inside
  <2>2. QED
    BY <2>1 DEF Inductive, LockKept
<1>4. QED
  BY <1>1, <1>2, <1>3

\* The worker w alone takes a step, which does not begin inside the lock.
LEMMA OneStep ==
  ASSUME Inductive, NEW w \in Workers,
         \A v \in Workers : v # w => task'[v] = task[v],
         Shaped(w)',
         w \in Inside' => w \in Inside /\ task'[w].op = task[w].op
  PROVE  WorkShaped' /\ LockKept' /\ Inside' \subseteq Inside
<1>1. WorkShaped'
  <2> SUFFICES ASSUME NEW v \in Workers, v # w PROVE Shaped(v)'
    BY DEF WorkShaped
  <2>1. Shaped(v) /\ task'[v] = task[v]
    BY DEF Inductive, WorkShaped
  <2>2. QED
    BY <2>1 DEF Shaped
<1>2. Inside' \subseteq Inside
  BY DEF Inside
<1>3. \A v \in Inside' : v \in Inside /\ v \in Workers /\ task'[v].op = task[v].op
  BY <1>2 DEF Inside
<1>4. LockKept'
  BY <1>3 DEF Inductive, LockKept
<1>5. QED
  BY <1>1, <1>2, <1>4

\* The queue stays and so does whoever waits in it.
LEMMA QueueStays ==
  ASSUME Inductive, NEW w \in Workers, UNCHANGED queue, task[w].stage # "queued",
         \A v \in Workers : v # w => task'[v] = task[v]
  PROVE  QueueKept'
<1>1. \A i \in DOMAIN queue : queue[i] \in Workers
  BY InductiveParts DEF Types
<1>2. QED
  BY <1>1 DEF Inductive, QueueKept

\* The worker w is appended to the queue.
LEMMA QueueGrows ==
  ASSUME Inductive, NEW w \in Workers, queue' = Append(queue, w), task[w].stage # "queued",
         task'[w].stage = "queued",
         \A v \in Workers : v # w => task'[v] = task[v]
  PROVE  QueueKept' /\ queue' \in Seq(Workers)
<1>1. queue \in Seq(Workers)
  BY InductiveParts DEF Types
<1>2. /\ queue' \in Seq(Workers) /\ Len(queue) \in Nat
      /\ DOMAIN queue = 1 .. Len(queue) /\ DOMAIN queue' = 1 .. Len(queue) + 1
      /\ \A i \in 1 .. Len(queue) : queue'[i] = queue[i] /\ queue[i] \in Workers
      /\ queue'[Len(queue) + 1] = w
  BY <1>1, AppendProperties
<1>3. \A i \in 1 .. Len(queue) : task[queue[i]].stage = "queued" /\ queue[i] # w
  BY <1>2 DEF Inductive, QueueKept
<1>4. \A i \in 1 .. Len(queue) + 1 : task'[queue'[i]].stage = "queued"
  <2> TAKE i \in 1 .. Len(queue) + 1
  <2>1. CASE i = Len(queue) + 1
    BY <2>1, <1>2
  <2>2. CASE i \in 1 .. Len(queue)
    BY <2>2, <1>2, <1>3
  <2>3. QED
    BY <2>1, <2>2, <1>2
<1>5. ASSUME NEW i \in 1 .. Len(queue) + 1, NEW j \in 1 .. Len(queue) + 1, queue'[i] = queue'[j]
      PROVE  i = j
  <2>1. CASE i \in 1 .. Len(queue) /\ j \in 1 .. Len(queue)
    BY <2>1, <1>2, <1>5 DEF Inductive, QueueKept
  <2>2. CASE i = Len(queue) + 1 \/ j = Len(queue) + 1
    BY <2>2, <1>2, <1>3, <1>5
  <2>3. QED
    BY <2>1, <2>2, <1>2
<1>6. QED
  BY <1>2, <1>4, <1>5 DEF QueueKept

LEMMA SlotsStay ==
  ASSUME Inductive, UNCHANGED slot,
         \A v \in Workers, p \in Projects : Owner(v, p)' <=> Owner(v, p)
  PROVE  SlotsOwned'
BY DEF Inductive, SlotsOwned

LEMMA InitInductive == Init => Inductive
<1> SUFFICES ASSUME Init PROVE Inductive
  OBVIOUS
<1>1. Types
  <2>1. task \in [Workers -> Work]
    BY IdleFields DEF Init
  <2>2. queue \in Seq(Workers)
    BY EmptySeq DEF Init
  <2>3. foreground \in BOOLEAN /\ exists \in SUBSET Projects
    BY DEF Init
  <2>4. QED
    BY <2>1, <2>2, <2>3 DEF Init, Types
<1>2. WorkShaped /\ QueueKept /\ LockKept
  <2>1. WorkShaped
    BY DEF Init, WorkShaped, Shaped
  <2>2. QueueKept
    BY EmptySeq DEF Init, QueueKept
  <2>3. LockKept
    BY IdleFields DEF Init, LockKept, Inside
  <2>4. QED
    BY <2>1, <2>2, <2>3
<1>3. SlotsOwned /\ LeasesHeld /\ ListKept
  <2>1. \A w \in Workers, p \in Projects : ~ Owner(w, p) /\ ~ Opened(w, p)
    BY IdleFields DEF Init, Owner, Starting, Stopping, Opened
  <2>2. QED
    BY <2>1 DEF Init, SlotsOwned, LeasesHeld, ListKept
<1>4. PhasesKept
  BY IdleFields DEF Init, PhasesKept, At, Workers
<1>5. QED
  BY <1>1, <1>2, <1>3, <1>4, TypesSuffice DEF Inductive

-----------------------------------------------------------------------------
(***************************************************************************)
(* The life of the server.                                                 *)
(***************************************************************************)
LEMMA ServeInductive ==
  ASSUME Inductive, NEW fg \in BOOLEAN, Serve(fg)
  PROVE  Inductive'
<1> USE InductiveParts, IdleFields DEF Rest
<1>1. Types'
  <2>1. foreground' \in BOOLEAN
    BY DEF Serve
  <2>2. todo' \in SUBSET Projects /\ remembered' \in SUBSET Projects
    BY DEF Serve, Types
  <2>3. QED
    BY <2>1, <2>2 DEF Serve, Types
<1>2. WorkShaped' /\ QueueKept' /\ LockKept'
  BY SameWork DEF Serve
<1>3. SlotsOwned' /\ LeasesHeld'
  BY DEF Serve, SlotsOwned, LeasesHeld, Owner, Starting, Stopping, Opened
<1>4. PhasesKept'
  BY RegistryAssumption DEF Serve, PhasesKept, At, Workers, Foreign, WorkShaped, Shaped
<1>5. ListKept'
  BY DEF Serve, ListKept, Expected, PhasesKept, Starting, Workers, Foreign
<1>6. QED
  BY <1>1, <1>2, <1>3, <1>4, <1>5, PartsInductive

LEMMA RestoreNextInductive == Inductive /\ RestoreNext => Inductive'
<1> SUFFICES ASSUME Inductive, RestoreNext PROVE Inductive'
  OBVIOUS
<1> USE InductiveParts, IdleFields DEF Rest
<1>1. /\ phase = "restoring" /\ task[Main] = Idle /\ queue' = Append(queue, Main)
      /\ UNCHANGED <<phase, foreground, slot, lease, borrowed, remembered, file,
                     exists, unrestored>>
      /\ Main \in Workers
  BY DEF RestoreNext, Workers
<1>2. PICK p \in todo : todo' = todo \ {p} /\ task' = [task EXCEPT ![Main] =
            [op |-> "start", scope |-> {p}, stage |-> "queued", busy |-> {}]]
  BY DEF RestoreNext
<1>3. p \in Projects
  BY DEF Types
<1> DEFINE new == [op |-> "start", scope |-> {p}, stage |-> "queued", busy |-> {}]
<1>4. /\ new \in Work /\ new.op = "start" /\ new.scope = {p} /\ new.stage = "queued"
      /\ new.busy = {}
  BY <1>3 DEF Work, Ops, Stages
<1>5. task' = [task EXCEPT ![Main] = new]
  BY <1>2
<1> HIDE DEF new
<1>6. /\ task' \in [Workers -> Work] /\ task'[Main] = new
      /\ \A v \in Workers : v # Main => task'[v] = task[v]
  BY <1>1, <1>4, <1>5, Replaced
<1>7. Shaped(Main)'
  BY <1>3, <1>4, <1>6 DEF Shaped, One
<1>8. Main \notin Inside'
  BY <1>4, <1>6 DEF Inside
<1>9. WorkShaped' /\ LockKept' /\ Inside' \subseteq Inside
  BY <1>1, <1>6, <1>7, <1>8, OneStep
<1>10. QueueKept' /\ queue' \in Seq(Workers)
  BY <1>1, <1>4, <1>6, QueueGrows
<1>11. \A v \in Workers, q \in Projects : Owner(v, q)' <=> Owner(v, q)
  BY <1>1, <1>4, <1>6 DEF Owner, Starting, Stopping
<1>12. SlotsOwned'
  BY <1>1, <1>11, SlotsStay
<1>13. LeasesHeld'
  BY <1>1, <1>4, <1>6 DEF LeasesHeld, Opened, Starting
<1>14. PhasesKept'
  <2>1. \A t \in Tasks : t \in Workers /\ task'[t] = task[t]
    BY <1>6, RegistryAssumption DEF Workers
  <2>2. \A v \in Workers : task'[v].op = "cli remove" <=> task[v].op = "cli remove"
    BY <1>1, <1>4, <1>6
  <2>3. task'[Main].op = "start" /\ ~ At(Main, "shutdown", "stopping")'
    BY <1>4, <1>6 DEF At
  <2>4. QED
    BY <1>1, <2>1, <2>2, <2>3 DEF PhasesKept
<1>15. ListKept'
  <2>1. \A v \in Workers, q \in Projects :
          Starting(v, q)' /\ task'[v].stage = "recorded" <=> Starting(v, q) /\ task[v].stage = "recorded"
    BY <1>1, <1>4, <1>6 DEF Starting
  <2>2. ASSUME NEW q \in file, foreground PROVE Expected(q)'
    <3>1. Expected(q) /\ q \in Projects
      BY <1>1, <2>2 DEF ListKept, Types
    <3>2. q # p => Expected(q)'
      BY <1>1, <1>2, <1>4, <1>6, <2>1, <3>1 DEF Expected
    <3>3. q = p => Expected(q)'
      BY <1>4, <1>6 DEF Expected
    <3>4. QED
      BY <3>2, <3>3
  <2>3. QED
    BY <1>1, <2>1, <2>2 DEF ListKept
<1>16. Types'
  BY <1>1, <1>2, <1>6, <1>10 DEF Types
<1>17. QED
  BY <1>9, <1>10, <1>12, <1>13, <1>14, <1>15, <1>16, PartsInductive

LEMMA ReadyInductive == Inductive /\ Ready => Inductive'
<1> SUFFICES ASSUME Inductive, Ready PROVE Inductive'
  OBVIOUS
<1> USE InductiveParts, IdleFields DEF Rest
<1>1. /\ phase = "restoring" /\ task[Main] = Idle /\ todo = {} /\ phase' = "up"
      /\ UNCHANGED <<foreground, todo, slot, lease, borrowed, remembered, file,
                     exists, unrestored, task, queue>>
  BY DEF Ready
<1>2. WorkShaped' /\ QueueKept' /\ LockKept'
  BY <1>1, SameWork
<1>3. SlotsOwned' /\ LeasesHeld'
  BY <1>1 DEF SlotsOwned, LeasesHeld, Owner, Starting, Stopping, Opened
<1>4. PhasesKept'
  BY <1>1 DEF PhasesKept, At
<1>5. ListKept'
  BY <1>1 DEF ListKept, Expected, Starting
<1>6. Types'
  BY <1>1 DEF Types
<1>7. QED
  BY <1>2, <1>3, <1>4, <1>5, <1>6, PartsInductive

LEMMA CloseInductive == Inductive /\ Close => Inductive'
<1> SUFFICES ASSUME Inductive, Close PROVE Inductive'
  OBVIOUS
<1> USE InductiveParts, IdleFields DEF Rest
<1> DEFINE new == [op |-> "shutdown", scope |-> {}, stage |-> "queued", busy |-> {}]
<1>1. /\ phase = "up" /\ task[Main] = Idle /\ phase' = "closing"
      /\ task' = [task EXCEPT ![Main] = new] /\ queue' = Append(queue, Main)
      /\ UNCHANGED <<foreground, todo, slot, lease, borrowed, remembered, file,
                     exists, unrestored>>
      /\ Main \in Workers
  BY DEF Close, Workers, PhasesKept
<1>2. /\ new \in Work /\ new.op = "shutdown" /\ new.stage = "queued" /\ new.busy = {}
  BY DEF Work, Ops, Stages
<1> HIDE DEF new
<1>3. /\ task' \in [Workers -> Work] /\ task'[Main] = new
      /\ \A v \in Workers : v # Main => task'[v] = task[v]
  BY <1>1, <1>2, Replaced
<1>4. Shaped(Main)'
  BY <1>2, <1>3 DEF Shaped
<1>5. Main \notin Inside'
  BY <1>2, <1>3 DEF Inside
<1>6. WorkShaped' /\ LockKept' /\ Inside' \subseteq Inside
  BY <1>1, <1>3, <1>4, <1>5, OneStep
<1>7. QueueKept' /\ queue' \in Seq(Workers)
  BY <1>1, <1>2, <1>3, QueueGrows
<1>8. \A v \in Workers, q \in Projects : Owner(v, q)' <=> Owner(v, q)
  BY <1>1, <1>2, <1>3 DEF Owner, Starting, Stopping
<1>9. SlotsOwned'
  BY <1>1, <1>8, SlotsStay
<1>10. LeasesHeld'
  BY <1>1, <1>2, <1>3 DEF LeasesHeld, Opened, Starting
<1>11. PhasesKept'
  BY <1>1, <1>2, <1>3, RegistryAssumption DEF PhasesKept, At, Workers, Foreign
<1>12. ListKept'
  BY <1>1, <1>2, <1>3 DEF ListKept, Starting
<1>13. Types'
  BY <1>1, <1>3, <1>7 DEF Types
<1>14. QED
  BY <1>6, <1>7, <1>9, <1>10, <1>11, <1>12, <1>13, PartsInductive

LEMMA TakeAllInductive == Inductive /\ TakeAll => Inductive'
<1> SUFFICES ASSUME Inductive, TakeAll PROVE Inductive'
  OBVIOUS
<1> USE InductiveParts, IdleFields DEF Rest
<1> DEFINE open == {p \in Projects : slot[p] = "open"}
           new == [task[Main] EXCEPT !.stage = "stopping", !.busy = open]
<1>1. /\ task[Main].op = "shutdown" /\ task[Main].stage = "admitted"
      /\ task' = [task EXCEPT ![Main] = new]
      /\ slot' = [p \in Projects |-> "absent"]
      /\ UNCHANGED <<phase, foreground, todo, lease, borrowed, remembered, file,
                     exists, unrestored, queue>>
      /\ Main \in Workers
  BY DEF TakeAll, At, Workers
<1>2. new \in Work /\ new.op = "shutdown" /\ new.stage = "stopping"
  <2>1. task[Main] \in Work /\ open \subseteq Projects
    BY <1>1 DEF Types
  <2> HIDE DEF open
  <2>2. QED
    BY <1>1, <2>1 DEF Work, Stages
<1> HIDE DEF new
<1>3. /\ task' \in [Workers -> Work] /\ task'[Main] = new
      /\ \A v \in Workers : v # Main => task'[v] = task[v]
  BY <1>1, <1>2, Replaced
<1>4. Main \in Inside
  BY <1>1 DEF Inside, Foreign
<1>5. Shaped(Main)'
  BY <1>2, <1>3 DEF Shaped
<1>6. WorkShaped' /\ LockKept' /\ Inside' \subseteq Inside
  BY <1>1, <1>2, <1>3, <1>4, <1>5, OneStep
<1>7. QueueKept'
  BY <1>1, <1>3, QueueStays
\* Nobody else is inside.
<1>8. \A v \in Workers, p \in Projects : ~ Owner(v, p)
  <2>1. \A v \in Inside : v = Main
    BY <1>1, <1>4 DEF LockKept, Excluding
  <2>2. QED
    BY <1>1, <2>1, OwnersInside DEF Owner, Starting, Stopping
<1>9. \A v \in Workers, p \in Projects : ~ Owner(v, p)' /\ ~ Starting(v, p)' /\ ~ Opened(v, p)'
  BY <1>2, <1>3, <1>8 DEF Owner, Starting, Stopping, Opened
<1>10. SlotsOwned'
  BY <1>1, <1>9 DEF SlotsOwned
<1>11. LeasesHeld'
  BY <1>1, <1>9 DEF LeasesHeld
<1>12. phase = "closing"
  BY <1>1 DEF PhasesKept
<1>13. PhasesKept'
  <2>1. \A v \in Workers : task'[v].op = task[v].op
    BY <1>1, <1>2, <1>3
  <2>2. QED
    BY <1>1, <1>12, <2>1 DEF PhasesKept
<1>14. ListKept'
  BY <1>1, <1>9, <1>12 DEF ListKept
<1>15. Types'
  BY <1>1, <1>3 DEF Types
<1>16. QED
  BY <1>6, <1>7, <1>10, <1>11, <1>13, <1>14, <1>15, PartsInductive

LEMMA ShutAllInductive == Inductive /\ ShutAll => Inductive'
<1> SUFFICES ASSUME Inductive, ShutAll PROVE Inductive'
  OBVIOUS
<1> USE InductiveParts, IdleFields DEF Rest
<1>1. /\ task[Main].op = "shutdown" /\ task[Main].stage = "stopping"
      /\ task' = [task EXCEPT ![Main] = Idle]
      /\ lease' = [p \in Projects |->
                     IF p \in task[Main].busy \ borrowed THEN "free" ELSE lease[p]]
      /\ phase' = "drained"
      /\ UNCHANGED <<foreground, todo, slot, borrowed, remembered, file, exists,
                     unrestored, queue>>
      /\ Main \in Workers
  BY DEF ShutAll, At, Workers
<1>2. /\ task' \in [Workers -> Work] /\ task'[Main] = Idle
      /\ \A v \in Workers : v # Main => task'[v] = task[v]
  BY <1>1, Replaced
<1>3. Main \in Inside
  BY <1>1 DEF Inside, Foreign
<1>4. Shaped(Main)' /\ Main \notin Inside'
  BY <1>2 DEF Shaped, Inside
<1>5. WorkShaped' /\ LockKept' /\ Inside' \subseteq Inside
  BY <1>1, <1>2, <1>4, OneStep
<1>6. QueueKept'
  BY <1>1, <1>2, QueueStays
<1>7. \A v \in Inside : v = Main
  BY <1>1, <1>3 DEF LockKept, Excluding
<1>8. Inside' = {}
  BY <1>4, <1>5, <1>7
<1>9. \A v \in Workers, p \in Projects : ~ Owner(v, p)
  BY <1>1, <1>7, OwnersInside DEF Owner, Starting, Stopping
<1>10. \A v \in Workers, p \in Projects : ~ Owner(v, p)' /\ ~ Starting(v, p)' /\ ~ Opened(v, p)'
  BY <1>2, <1>9 DEF Owner, Starting, Stopping, Opened
<1>11. \A p \in Projects : slot[p] = "absent"
  BY <1>1 DEF PhasesKept, At
<1>12. SlotsOwned'
  BY <1>1, <1>10, <1>11 DEF SlotsOwned
<1>13. LeasesHeld'
  BY <1>1, <1>10, <1>11 DEF LeasesHeld, Types
<1>14. phase = "closing"
  BY <1>1 DEF PhasesKept
<1>15. PhasesKept'
  <2>1. \A v \in Workers : task'[v].op = "cli remove" <=> task[v].op = "cli remove"
    BY <1>1, <1>2
  <2>2. QED
    BY <1>1, <1>2, <1>8, <1>11, <1>14, <2>1 DEF PhasesKept, At
<1>16. ListKept'
  BY <1>1, <1>10, <1>14 DEF ListKept
<1>17. Types'
  BY <1>1, <1>2 DEF Types
<1>18. QED
  BY <1>5, <1>6, <1>12, <1>13, <1>15, <1>16, <1>17, PartsInductive

\* The server's process goes, with all it held; others stay.
LEMMA DieInductive ==
  ASSUME Inductive, Die, phase \notin {"down", "offline"}
  PROVE  Inductive'
<1> USE InductiveParts, IdleFields DEF Rest
<1>1. /\ phase' = "down" /\ todo' = {} /\ remembered' = {} /\ borrowed' = {} /\ unrestored' = {}
      /\ slot' = [p \in Projects |-> "absent"]
      /\ lease' = [p \in Projects |->
                     IF lease[p] \in Workers /\ task[lease[p]].op \in Foreign
                     THEN lease[p] ELSE "free"]
      /\ task' = [w \in Workers |-> IF task[w].op \in Foreign THEN task[w] ELSE Idle]
      /\ queue' = <<>>
      /\ UNCHANGED <<foreground, file, exists>>
  BY DEF Die
<1>2. \A w \in Workers : task'[w] = Idle \/ (task'[w] = task[w] /\ task[w].op \in Foreign)
  BY <1>1
<1>3. WorkShaped'
  <2> SUFFICES ASSUME NEW w \in Workers PROVE Shaped(w)'
    BY DEF WorkShaped
  <2>1. CASE task'[w] = Idle
    BY <2>1 DEF Shaped
  <2>2. CASE task'[w] = task[w]
    <3>1. Shaped(w)
      BY DEF WorkShaped
    <3>2. QED
      BY <2>2, <3>1 DEF Shaped
  <2>3. QED
    BY <1>2, <2>1, <2>2
<1>4. Inside' = {} /\ LockKept'
  BY <1>2 DEF Inside, LockKept, Foreign
<1>5. QueueKept' /\ queue' \in Seq(Workers)
  BY <1>1, EmptySeq DEF QueueKept
<1>6. \A v \in Workers, p \in Projects : ~ Owner(v, p)' /\ ~ Starting(v, p)' /\ ~ Opened(v, p)'
  BY <1>2 DEF Owner, Starting, Stopping, Opened, Foreign
<1>7. SlotsOwned' /\ LeasesHeld'
  BY <1>1, <1>6 DEF SlotsOwned, LeasesHeld
<1>8. PhasesKept'
  <2>1. Main \in Workers /\ task[Main].op \notin Foreign
    BY RegistryAssumption DEF Workers, WorkShaped, Shaped, Foreign
  <2>2. task'[Main] = Idle
    BY <1>2, <2>1
  <2>3. \A v \in Workers : task'[v].op # "cli remove"
    BY <1>2 DEF PhasesKept, Foreign
  <2>4. QED
    BY <1>1, <1>2, <2>2, <2>3 DEF PhasesKept, At
<1>9. ListKept'
  BY <1>1 DEF ListKept
<1>10. task' \in [Workers -> Work]
  BY <1>1 DEF Types
<1>11. Types'
  BY <1>1, <1>5, <1>10 DEF Types
<1>12. QED
  BY <1>3, <1>4, <1>5, <1>7, <1>8, <1>9, <1>11, PartsInductive

LEMMA ExitInductive == Inductive /\ (Exit \/ Crash) => Inductive'
BY DieInductive DEF Exit, Crash

-----------------------------------------------------------------------------
(***************************************************************************)
(* Requests and the operations lock.                                       *)
(***************************************************************************)
LEMMA AcceptInductive ==
  ASSUME Inductive, NEW t \in Tasks, NEW op \in Ops, NEW scope \in SUBSET Projects,
         Accept(t, op, scope)
  PROVE  Inductive'
<1> USE InductiveParts, IdleFields DEF Rest
<1> DEFINE new == [op |-> op, scope |-> scope, stage |-> "accepted", busy |-> {}]
<1>1. /\ task[t] = Idle /\ phase = "up"
      /\ task' = [task EXCEPT ![t] = new]
      /\ UNCHANGED <<phase, foreground, todo, slot, lease, borrowed, remembered,
                     file, exists, unrestored, queue>>
      /\ t \in Workers /\ t # Main
  BY RegistryAssumption DEF Accept, Workers
<1>2. /\ new \in Work /\ new.op = op /\ new.scope = scope /\ new.stage = "accepted"
      /\ new.busy = {}
  BY DEF Work, Stages
<1>3. \/ op \in {"start", "stop", "delete"} /\ One(scope)
      \/ op = "remove"
  BY DEF Accept, One
<1> HIDE DEF new
<1>4. /\ task' \in [Workers -> Work] /\ task'[t] = new
      /\ \A v \in Workers : v # t => task'[v] = task[v]
  BY <1>1, <1>2, Replaced
<1>5. Shaped(t)'
  BY <1>2, <1>3, <1>4 DEF Shaped
<1>6. t \notin Inside'
  BY <1>2, <1>4 DEF Inside
<1>7. WorkShaped' /\ LockKept' /\ Inside' \subseteq Inside
  BY <1>1, <1>4, <1>5, <1>6, OneStep
<1>8. QueueKept'
  BY <1>1, <1>4, QueueStays
<1>9. \A v \in Workers, q \in Projects : Owner(v, q)' <=> Owner(v, q)
  BY <1>1, <1>2, <1>4 DEF Owner, Starting, Stopping
<1>10. SlotsOwned'
  BY <1>1, <1>9, SlotsStay
<1>11. LeasesHeld'
  BY <1>1, <1>2, <1>4 DEF LeasesHeld, Opened, Starting
<1>12. PhasesKept'
  <2>1. \A v \in Workers : task'[v].op = "cli remove" <=> task[v].op = "cli remove"
    BY <1>1, <1>2, <1>3, <1>4
  <2>2. task'[Main] = task[Main] /\ ~ At(Main, "shutdown", "stopping")'
    BY <1>1, <1>4, IdleFields DEF At, PhasesKept, Workers
  <2>3. QED
    BY <1>1, <2>1, <2>2 DEF PhasesKept
<1>13. ListKept'
  <2>1. \A v \in Workers, q \in Projects :
          Starting(v, q)' /\ task'[v].stage = "recorded" <=> Starting(v, q) /\ task[v].stage = "recorded"
    BY <1>1, <1>2, <1>4 DEF Starting
  <2>2. task'[Main] = task[Main]
    BY <1>1, <1>4 DEF Workers
  <2>3. \A q \in Projects : Expected(q) => Expected(q)'
    BY <1>1, <2>1, <2>2 DEF Expected
  <2>4. QED
    BY <1>1, <2>1, <2>3 DEF ListKept, Types
<1>14. Types'
  BY <1>1, <1>4 DEF Types
<1>15. QED
  BY <1>7, <1>8, <1>10, <1>11, <1>12, <1>13, <1>14, PartsInductive

\* What follows when no operation has been inside before or is so after.
LEMMA StageStep ==
  ASSUME Inductive, NEW w \in Workers,
         UNCHANGED <<phase, foreground, todo, slot, lease, borrowed, remembered, file,
                     exists, unrestored>>,
         task' \in [Workers -> Work],
         task'[w].op = task[w].op, task'[w].scope = task[w].scope,
         task'[w].busy = task[w].busy,
         task[w].op \notin Foreign, task[w] # Idle,
         {task[w].stage, task'[w].stage} \cap
           {"reserved", "leased", "loaded", "recorded", "failed", "stopping", "stopped"} = {},
         phase = "drained" => \A v \in Inside' : task'[v].stage = "admitted",
         \A v \in Workers : v # w => task'[v] = task[v]
  PROVE  SlotsOwned' /\ LeasesHeld' /\ PhasesKept' /\ ListKept'
<1> USE InductiveParts, IdleFields DEF Rest
<1>1. \A v \in Workers, q \in Projects : Owner(v, q)' <=> Owner(v, q)
  BY DEF Owner, Starting, Stopping
<1>2. SlotsOwned'
  BY <1>1, SlotsStay
<1>3. LeasesHeld'
  BY DEF LeasesHeld, Opened, Starting
<1>4. \A v \in Workers : /\ task'[v].op = task[v].op /\ task'[v].scope = task[v].scope
                         /\ task[v] = Idle => task'[v] = Idle
  OBVIOUS
<1>5. Main \in Workers /\ \A t \in Tasks : t \in Workers
  BY DEF Workers
<1>6. At(Main, "shutdown", "stopping")' => At(Main, "shutdown", "stopping")
  BY <1>5 DEF At
<1>7. phase \notin {"down", "offline"}
  BY DEF PhasesKept
<1>8. PhasesKept'
  BY <1>4, <1>5, <1>6, <1>7 DEF PhasesKept
<1>9. ListKept'
  <2>1. \A v \in Workers, q \in Projects :
          Starting(v, q)' /\ task'[v].stage = "recorded" <=> Starting(v, q) /\ task[v].stage = "recorded"
    BY DEF Starting
  <2>2. \A q \in Projects : Expected(q) => Expected(q)'
    BY <1>4, <1>5, <2>1 DEF Expected
  <2>3. QED
    BY <2>1, <2>2 DEF ListKept, Types
<1>10. QED
  BY <1>2, <1>3, <1>8, <1>9

LEMMA EnqueueInductive ==
  ASSUME Inductive, NEW t \in Tasks, Enqueue(t)
  PROVE  Inductive'
<1> USE InductiveParts, IdleFields DEF Rest
<1>1. /\ task[t].stage = "accepted" /\ Goto(t, "queued") /\ queue' = Append(queue, t)
      /\ UNCHANGED <<phase, foreground, todo, slot, lease, borrowed, remembered,
                     file, exists, unrestored>>
      /\ t \in Workers
  BY DEF Enqueue, Workers
<1>2. /\ task' \in [Workers -> Work]
      /\ task'[t].op = task[t].op /\ task'[t].scope = task[t].scope
      /\ task'[t].stage = "queued" /\ task'[t].busy = task[t].busy
      /\ \A v \in Workers : v # t => task'[v] = task[v]
  BY <1>1, Moved DEF Stages
<1>3. Shaped(t) /\ task[t] # Idle /\ task[t].op \notin Foreign
  BY <1>1 DEF WorkShaped, Shaped, Foreign
<1>4. Shaped(t)'
  BY <1>1, <1>2, <1>3 DEF Shaped
<1>5. t \notin Inside'
  BY <1>2 DEF Inside
<1>6. WorkShaped' /\ LockKept' /\ Inside' \subseteq Inside
  BY <1>1, <1>2, <1>4, <1>5, OneStep
<1>7. QueueKept' /\ queue' \in Seq(Workers)
  BY <1>1, <1>2, QueueGrows
<1>8. phase = "drained" => \A v \in Inside' : task'[v].stage = "admitted"
  <2>1. \A v \in Inside' : v \in Inside /\ task'[v] = task[v]
    BY <1>2, <1>5, <1>6 DEF Inside
  <2>2. QED
    BY <2>1 DEF PhasesKept
<1>9. SlotsOwned' /\ LeasesHeld' /\ PhasesKept' /\ ListKept'
  BY <1>1, <1>2, <1>3, <1>8, StageStep
<1>10. Types'
  BY <1>1, <1>2, <1>7 DEF Types
<1>11. QED
  BY <1>6, <1>7, <1>9, <1>10, PartsInductive

LEMMA AdmitInductive == Inductive /\ Admit => Inductive'
<1> SUFFICES ASSUME Inductive, Admit PROVE Inductive'
  OBVIOUS
<1> USE InductiveParts, IdleFields DEF Rest
<1>0. PICK w : w = Head(queue)
  OBVIOUS
<1>1. /\ queue # <<>> /\ queue' = Tail(queue)
      /\ \A v \in Inside : task[v].op \notin Excluding
      /\ task[w].op \in Excluding => Inside = {}
      /\ Goto(w, "admitted")
      /\ UNCHANGED <<phase, foreground, todo, slot, lease, borrowed, remembered,
                     file, exists, unrestored>>
  BY <1>0 DEF Admit
<1>2. /\ w \in Workers /\ w = queue[1] /\ queue' \in Seq(Workers) /\ Len(queue) \in Nat \ {0}
      /\ DOMAIN queue = 1 .. Len(queue) /\ DOMAIN queue' = 1 .. Len(queue) - 1
      /\ \A i \in 1 .. Len(queue) - 1 : queue'[i] = queue[i + 1] /\ queue[i + 1] \in Workers
  BY <1>0, <1>1, HeadTailProperties DEF Types
<1>3. task[w].stage = "queued" /\ \A i \in 1 .. Len(queue) - 1 : queue[i + 1] # w
  BY <1>2 DEF QueueKept
<1>4. /\ task' \in [Workers -> Work]
      /\ task'[w].op = task[w].op /\ task'[w].scope = task[w].scope
      /\ task'[w].stage = "admitted" /\ task'[w].busy = task[w].busy
      /\ \A v \in Workers : v # w => task'[v] = task[v]
  BY <1>1, <1>2, Moved DEF Stages
<1>5. Shaped(w) /\ task[w] # Idle /\ task[w].op \notin Foreign
  BY <1>2, <1>3 DEF WorkShaped, Shaped, Foreign
<1>6. Shaped(w)'
  BY <1>3, <1>4, <1>5 DEF Shaped
<1>7. WorkShaped'
  <2> SUFFICES ASSUME NEW v \in Workers, v # w PROVE Shaped(v)'
    BY <1>6 DEF WorkShaped
  <2>1. Shaped(v) /\ task'[v] = task[v]
    BY <1>4 DEF WorkShaped
  <2>2. QED
    BY <2>1 DEF Shaped
<1>8. Inside' \subseteq Inside \cup {w}
  BY <1>4 DEF Inside
<1>9. LockKept'
  <2> SUFFICES ASSUME NEW u \in Inside', NEW v \in Inside', task'[u].op \in Excluding
               PROVE  u = v
    BY DEF LockKept
  <2>1. task'[u].op = task[u].op
    BY <1>4, <1>8 DEF Inside
  <2>2. u = w /\ Inside = {}
    BY <1>1, <1>8, <2>1
  <2>3. QED
    BY <1>8, <2>2
<1>10. QueueKept'
  <2>1. \A i \in 1 .. Len(queue) - 1 : task'[queue'[i]].stage = "queued"
    BY <1>2, <1>3, <1>4 DEF QueueKept
  <2>2. \A i, j \in 1 .. Len(queue) - 1 : queue'[i] = queue'[j] => i = j
    <3> SUFFICES ASSUME NEW i \in 1 .. Len(queue) - 1, NEW j \in 1 .. Len(queue) - 1,
                        queue'[i] = queue'[j]
                 PROVE  i = j
      OBVIOUS
    <3>1. queue[i + 1] = queue[j + 1] /\ i + 1 \in DOMAIN queue /\ j + 1 \in DOMAIN queue
      BY <1>2
    <3>2. i + 1 = j + 1
      BY <3>1 DEF QueueKept
    <3>3. QED
      BY <3>2
  <2>3. QED
    BY <1>2, <2>1, <2>2 DEF QueueKept
<1>11. phase = "drained" => \A v \in Inside' : task'[v].stage = "admitted"
  BY <1>4, <1>8 DEF PhasesKept, Inside
<1>12. SlotsOwned' /\ LeasesHeld' /\ PhasesKept' /\ ListKept'
  BY <1>1, <1>2, <1>3, <1>4, <1>5, <1>11, StageStep
<1>13. Types'
  BY <1>1, <1>2, <1>4 DEF Types
<1>14. QED
  BY <1>7, <1>9, <1>10, <1>12, <1>13, PartsInductive

\* Services in use, and new branches.
LEMMA BorrowInductive ==
  ASSUME Inductive, NEW p \in Projects, Borrow(p) \/ GiveBack(p) \/ Create(p)
  PROVE  Inductive'
<1> USE InductiveParts, IdleFields DEF Rest
<1>1. UNCHANGED <<phase, foreground, todo, slot, remembered, file, unrestored, task, queue>>
  BY DEF Borrow, GiveBack, Create
<1>2. /\ borrowed' \subseteq borrowed \cup {p} /\ exists \subseteq exists'
      /\ exists' \subseteq Projects
      /\ lease' = lease \/ lease' = [lease EXCEPT ![p] = "free"]
  BY DEF Borrow, GiveBack, Create, Types
<1>3. WorkShaped' /\ QueueKept' /\ LockKept'
  BY <1>1, SameWork
<1>4. SlotsOwned'
  BY <1>1 DEF SlotsOwned, Owner, Starting, Stopping
<1>5. phase \notin {"down", "offline"} \/ borrowed' = {}
  BY DEF Borrow, GiveBack, Create, PhasesKept
<1>6. PhasesKept'
  <2>1. Inside' = Inside
    BY <1>1 DEF Inside
  <2>2. QED
    BY <1>1, <1>5, <2>1 DEF PhasesKept, At
<1>7. ListKept'
  BY <1>1 DEF ListKept, Expected, Starting
<1>8. LeasesHeld'
  <2>1. \A v \in Workers, q \in Projects : Opened(v, q)' <=> Opened(v, q)
    BY <1>1 DEF Opened, Starting
  <2>2. CASE Borrow(p)
    <3>1. slot[p] = "open" /\ borrowed' = borrowed \cup {p} /\ UNCHANGED <<lease, exists>>
      BY <2>2 DEF Borrow
    <3>2. \A v \in Workers : ~ Opened(v, p)
      BY <3>1 DEF SlotsOwned, Owner, Opened
    <3>3. QED
      BY <1>1, <2>1, <3>1, <3>2 DEF LeasesHeld
  <2>3. CASE Create(p)
    <3>1. UNCHANGED <<lease, borrowed>>
      BY <2>3 DEF Create
    <3>2. QED
      BY <1>1, <1>2, <2>1, <3>1 DEF LeasesHeld
  <2>4. CASE GiveBack(p)
    <3>1. /\ p \in borrowed /\ borrowed' = borrowed \ {p} /\ exists' = exists
          /\ slot[p] = "open" => lease' = lease
      BY <2>4 DEF GiveBack
    <3>2. \A v \in Workers : ~ Opened(v, p)
      BY <3>1 DEF LeasesHeld
    <3>3. \A q \in Projects : q # p => lease'[q] = lease[q]
      BY <1>2 DEF Types
    <3>4. QED
      BY <1>1, <2>1, <3>1, <3>2, <3>3 DEF LeasesHeld
  <2>5. QED
    BY <2>2, <2>3, <2>4
<1>9. Types'
  BY <1>1, <1>2 DEF Types
<1>10. QED
  BY <1>3, <1>4, <1>6, <1>7, <1>8, <1>9, PartsInductive

-----------------------------------------------------------------------------
(***************************************************************************)
(* Operations that hold the lock: what all their steps have in common.     *)
(***************************************************************************)
LEMMA InsideFacts ==
  ASSUME Inductive, NEW w \in Inside
  PROVE  /\ w \in Workers /\ Shaped(w) /\ task[w] # Idle /\ task[w].op \notin Foreign
         /\ phase \notin {"down", "offline"}
         /\ phase = "drained" => task[w].stage = "admitted" /\ w # Main
         /\ phase = "restoring" => w = Main
         /\ w = Main /\ task[w].op # "shutdown" => phase = "restoring" /\ task[w].op = "start"
<1> USE InductiveParts, IdleFields DEF Rest
<1>1. w \in Workers /\ task[w] # Idle /\ task[w].op \notin Foreign
  BY DEF Inside
<1>2. Shaped(w)
  BY <1>1 DEF WorkShaped
<1>3. phase \notin {"down", "offline"}
  BY <1>1 DEF PhasesKept
<1>4. phase = "drained" => task[w].stage = "admitted" /\ w # Main
  BY <1>1 DEF PhasesKept
<1>5. phase = "restoring" => w = Main
  BY <1>1 DEF PhasesKept, Workers
<1>6. w = Main /\ task[w].op # "shutdown" => phase = "restoring"
  BY <1>1, <1>3, <1>4 DEF PhasesKept, Types
<1>7. w = Main /\ task[w].op # "shutdown" => task[w].op = "start"
  BY <1>1, <1>6 DEF PhasesKept
<1>8. QED
  BY <1>1, <1>2, <1>3, <1>4, <1>5, <1>6, <1>7

\* An operation other than the shutdown goes on, or returns.
LEMMA InsidePhases ==
  ASSUME Inductive, NEW w \in Inside, task[w].op # "shutdown",
         \A v \in Workers : v # w => task'[v] = task[v],
         task'[w] = Idle \/ task'[w].op = task[w].op,
         Inside' \subseteq Inside,
         phase = "drained" => task'[w] = Idle /\ UNCHANGED slot,
         UNCHANGED <<phase, todo>>
  PROVE  PhasesKept'
<1> USE InductiveParts, IdleFields DEF Rest
<1>1. /\ w \in Workers /\ task[w] # Idle /\ task[w].op \notin Foreign
      /\ phase \notin {"down", "offline"}
      /\ phase = "restoring" => w = Main
      /\ w = Main => phase = "restoring" /\ task[w].op = "start"
      /\ phase = "drained" => w # Main
  BY InsideFacts
<1>2. Main \in Workers /\ \A t \in Tasks : t \in Workers
  BY DEF Workers
<1>3. \A t \in Tasks : t # Main
  BY RegistryAssumption
<1>4. phase = "restoring" =>
        /\ \A t \in Tasks : task'[t] = Idle \/ task'[t].op \in Foreign
        /\ task'[Main] = Idle \/ task'[Main].op = "start"
  BY <1>1, <1>2, <1>3 DEF PhasesKept
<1>5. phase = "up" => task'[Main] = Idle /\ todo' = {}
  BY <1>1, <1>2 DEF PhasesKept
<1>6. phase = "closing" <=> task'[Main].op = "shutdown"
  BY <1>1, <1>2 DEF PhasesKept
<1>7. phase = "drained" =>
        /\ task'[Main] = Idle
        /\ \A v \in Inside' : task'[v].stage = "admitted"
  <2>1. \A v \in Inside' : v \in Inside /\ v \in Workers
    BY DEF Inside
  <2>2. w \in Inside' => task'[w] # Idle
    BY DEF Inside
  <2>3. QED
    BY <1>1, <1>2, <2>1, <2>2 DEF PhasesKept
<1>8. ~ At(Main, "shutdown", "stopping")'
  <2> SUFFICES ASSUME task'[Main].op = "shutdown", task'[Main].stage = "stopping"
               PROVE  FALSE
    BY DEF At
  <2>1. w # Main /\ task[Main] = task'[Main]
    BY <1>1, <1>2
  <2>2. Main \in Inside /\ task[Main].op \in Excluding
    BY <1>2, <2>1 DEF Inside, Foreign, Excluding
  <2>3. QED
    BY <2>1, <2>2 DEF LockKept
<1>9. phase = "drained" => \A p \in Projects : slot'[p] = "absent"
  BY DEF PhasesKept
<1>10. \A v \in Workers : task'[v].op # "cli remove"
  <2> SUFFICES ASSUME NEW v \in Workers, task'[v].op = "cli remove" PROVE FALSE
    OBVIOUS
  <2>1. v # w
    BY <1>1 DEF Foreign
  <2>2. QED
    BY <1>1, <2>1 DEF PhasesKept
<1>11. QED
  BY <1>1, <1>4, <1>5, <1>6, <1>7, <1>8, <1>9, <1>10 DEF PhasesKept

\* A step of w by which it may come to own slots or give them up.
LEMMA SlotsStep ==
  ASSUME Inductive, NEW w \in Workers,
         \A v \in Workers : v # w => task'[v] = task[v],
         \A p \in Projects : Owner(w, p)' =>
           slot'[p] = "reserved" /\ (slot[p] = "reserved" => Owner(w, p)),
         \A p \in Projects : ~ Owner(w, p)' =>
           IF Owner(w, p) THEN slot'[p] # "reserved"
                          ELSE slot'[p] = "reserved" <=> slot[p] = "reserved"
  PROVE  SlotsOwned'
<1> USE InductiveParts DEF Rest
<1>1. \A v \in Workers, p \in Projects : v # w => (Owner(v, p)' <=> Owner(v, p))
  BY DEF Owner, Starting, Stopping
<1> SUFFICES ASSUME NEW p \in Projects
             PROVE  /\ slot'[p] = "reserved" <=> \E v \in Workers : Owner(v, p)'
                    /\ \A u, v \in Workers : Owner(u, p)' /\ Owner(v, p)' => u = v
  BY DEF SlotsOwned
<1>2. /\ slot[p] = "reserved" <=> \E v \in Workers : Owner(v, p)
      /\ \A u, v \in Workers : Owner(u, p) /\ Owner(v, p) => u = v
  BY DEF SlotsOwned
<1>3. CASE Owner(w, p)'
  <2>1. \A v \in Workers : v # w => ~ Owner(v, p)
    BY <1>2, <1>3
  <2>2. QED
    BY <1>1, <1>3, <2>1
<1>4. CASE ~ Owner(w, p)'
  BY <1>1, <1>2, <1>4
<1>5. QED
  BY <1>3, <1>4

\* An operation inside the lock goes on.
LEMMA Proceeds ==
  ASSUME Inductive, NEW w \in Inside, task[w].op # "shutdown", phase # "drained",
         \A v \in Workers : v # w => task'[v] = task[v],
         task'[w].op = task[w].op, Shaped(w)',
         UNCHANGED <<phase, todo, queue>>
  PROVE  WorkShaped' /\ QueueKept' /\ LockKept' /\ PhasesKept'
<1>1. w \in Workers /\ task[w].stage # "queued"
  BY DEF Inside
<1>2. WorkShaped' /\ LockKept' /\ Inside' \subseteq Inside
  BY <1>1, OneStep
<1>3. QueueKept'
  BY <1>1, QueueStays
<1>4. PhasesKept'
  BY <1>2, InsidePhases
<1>5. QED
  BY <1>2, <1>3, <1>4

\* An operation inside the lock returns.
LEMMA Leaves ==
  ASSUME Inductive, NEW w \in Inside, task[w].op # "shutdown", Return(w),
         phase = "drained" => UNCHANGED slot,
         UNCHANGED <<todo, queue>>
  PROVE  /\ WorkShaped' /\ QueueKept' /\ LockKept' /\ PhasesKept'
         /\ task' \in [Workers -> Work] /\ task'[w] = Idle /\ phase' = phase
         /\ \A v \in Workers : v # w => task'[v] = task[v]
         /\ lease' \in [Projects -> {"free", "service"} \cup Workers]
         /\ \A p \in Projects : lease'[p] = "service" <=> lease[p] = "service"
         /\ \A p \in Projects : ~ Owner(w, p)' /\ ~ Starting(w, p)' /\ ~ Opened(w, p)'
<1> USE InductiveParts, IdleFields DEF Rest
<1>1. w \in Workers /\ task[w].stage # "queued" /\ task[w].op \notin Foreign
  BY DEF Inside
<1>2. /\ task' \in [Workers -> Work] /\ task'[w] = Idle
      /\ \A v \in Workers : v # w => task'[v] = task[v]
      /\ lease' \in [Projects -> {"free", "service"} \cup Workers]
      /\ \A p \in Projects : lease'[p] = "service" <=> lease[p] = "service"
      /\ phase' = IF task[w].op = "cli remove" THEN "down" ELSE phase
  BY <1>1, Returned
<1>3. phase' = phase
  BY <1>1, <1>2 DEF Foreign
<1>4. Shaped(w)' /\ w \notin Inside'
  BY <1>2 DEF Shaped, Inside
<1>5. WorkShaped' /\ LockKept' /\ Inside' \subseteq Inside
  BY <1>1, <1>2, <1>4, OneStep
<1>6. QueueKept'
  BY <1>1, <1>2, QueueStays
<1>7. PhasesKept'
  BY <1>2, <1>3, <1>5, InsidePhases
<1>8. \A p \in Projects : ~ Owner(w, p)' /\ ~ Starting(w, p)' /\ ~ Opened(w, p)'
  BY <1>2 DEF Owner, Starting, Stopping, Opened
<1>9. QED
  BY <1>2, <1>3, <1>5, <1>6, <1>7, <1>8

\* It returns without having held a slot; what it deleted was not served.
LEMMA GoneInductive ==
  ASSUME Inductive, NEW w \in Inside, task[w].op # "shutdown", Return(w),
         \A p \in Projects : ~ Owner(w, p),
         w = Main => \A p \in task[w].scope : slot[p] = "open",
         UNCHANGED <<foreground, todo, slot, borrowed, remembered, file,
                     unrestored, queue>>,
         exists' \in SUBSET Projects,
         \A p \in Projects : p \in exists /\ lease[p] = "service" => p \in exists'
  PROVE  Inductive'
<1> USE InductiveParts, IdleFields DEF Rest
<1>1. /\ WorkShaped' /\ QueueKept' /\ LockKept' /\ PhasesKept'
      /\ task' \in [Workers -> Work] /\ task'[w] = Idle /\ phase' = phase
      /\ \A v \in Workers : v # w => task'[v] = task[v]
      /\ lease' \in [Projects -> {"free", "service"} \cup Workers]
      /\ \A p \in Projects : lease'[p] = "service" <=> lease[p] = "service"
      /\ \A p \in Projects : ~ Owner(w, p)' /\ ~ Starting(w, p)' /\ ~ Opened(w, p)'
  BY Leaves
<1>2. w \in Workers /\ Main \in Workers
  BY DEF Inside, Workers
<1>3. SlotsOwned'
  BY <1>1, <1>2, SlotsStep
<1>4. LeasesHeld'
  <2>1. \A v \in Workers, p \in Projects : Opened(v, p)' => Opened(v, p) /\ task'[v] = task[v]
    BY <1>1, <1>2 DEF Opened, Starting
  <2>2. QED
    BY <1>1, <2>1 DEF LeasesHeld
<1>5. ListKept'
  <2>1. \A v \in Workers, p \in Projects :
          Starting(v, p)' /\ task'[v].stage = "recorded" <=> Starting(v, p) /\ task[v].stage = "recorded"
    <3>1. \A p \in Projects : ~ Starting(w, p)
      BY DEF Owner
    <3>2. QED
      BY <1>1, <3>1 DEF Starting
  <2>2. \A p \in Projects : Expected(p) => Expected(p)'
    BY <1>1, <1>2, <2>1 DEF Expected
  <2>3. QED
    BY <1>1, <2>1, <2>2 DEF ListKept, Types
<1>6. Types'
  BY <1>1 DEF Types
<1>7. QED
  BY <1>1, <1>3, <1>4, <1>5, <1>6, PartsInductive

-----------------------------------------------------------------------------
(***************************************************************************)
(* start_branch.                                                           *)
(***************************************************************************)
\* A start that is under way inside the lock.
LEMMA StartFacts ==
  ASSUME Inductive, NEW w \in Workers, task[w].op = "start",
         task[w].stage \in {"admitted", "reserved", "leased", "loaded", "recorded", "failed"}
  PROVE  /\ w \in Inside /\ One(task[w].scope) /\ task[w].busy = {}
         /\ phase \notin {"down", "offline"}
         /\ w = Main => phase = "restoring"
         /\ phase = "drained" => task[w].stage = "admitted"
         /\ \A p \in Projects : ~ Stopping(w, p)
<1>1. w \in Inside
  BY DEF Inside, Foreign
<1>2. QED
  BY <1>1, InsideFacts, IdleFields DEF Shaped, Stopping

\* It goes on to another stage in which it owns the slot.
LEMMA StartGoes ==
  ASSUME Inductive, NEW w \in Workers, task[w].op = "start",
         task[w].stage \in {"admitted", "reserved", "leased", "loaded", "recorded", "failed"},
         NEW stage \in {"reserved", "leased", "loaded", "recorded", "failed"},
         Goto(w, stage), phase # "drained",
         UNCHANGED <<phase, todo, queue>>
  PROVE  /\ task' \in [Workers -> Work]
         /\ task'[w].op = "start" /\ task'[w].scope = task[w].scope
         /\ task'[w].stage = stage /\ task'[w].busy = {}
         /\ \A v \in Workers : v # w => task'[v] = task[v]
         /\ WorkShaped' /\ QueueKept' /\ LockKept' /\ PhasesKept'
<1>1. /\ w \in Inside /\ One(task[w].scope) /\ task[w].busy = {}
  BY StartFacts
<1>2. stage \in Stages /\ Types
  BY InductiveParts DEF Stages
<1>3. /\ task' \in [Workers -> Work]
      /\ task'[w].op = task[w].op /\ task'[w].scope = task[w].scope
      /\ task'[w].stage = stage /\ task'[w].busy = task[w].busy
      /\ \A v \in Workers : v # w => task'[v] = task[v]
  BY <1>2, Moved
<1>4. Shaped(w)'
  BY <1>1, <1>3 DEF Shaped, One
<1>5. WorkShaped' /\ QueueKept' /\ LockKept' /\ PhasesKept'
  BY <1>1, <1>3, <1>4, Proceeds
<1>6. QED
  BY <1>1, <1>3, <1>5

LEMMA ReserveInductive ==
  ASSUME Inductive, NEW w \in Workers, Reserve(w)
  PROVE  Inductive'
<1> USE InductiveParts, IdleFields DEF Rest
<1>1. /\ task[w].op = "start" /\ task[w].stage = "admitted"
      /\ UNCHANGED <<foreground, todo, borrowed, remembered, file, exists,
                     unrestored, queue>>
  BY DEF Reserve, At
<1>2. /\ w \in Inside /\ One(task[w].scope) /\ task[w].busy = {}
      /\ w = Main => phase = "restoring"
      /\ \A p \in Projects : ~ Stopping(w, p)
  BY <1>1, StartFacts
<1>3. PICK p \in Projects : task[w].scope = {p}
  BY <1>2 DEF One
<1>4. \A q \in Projects : ~ Owner(w, q)
  BY <1>1, <1>2 DEF Owner, Starting
<1>5. CASE Closing \/ slot[p] # "absent"
  <2>1. Return(w) /\ UNCHANGED slot
    BY <1>3, <1>5 DEF Reserve
  \* While branches are restored nobody else has a slot.
  <2>2. w = Main => slot[p] = "open"
    <3> SUFFICES ASSUME w = Main PROVE slot[p] = "open"
      OBVIOUS
    <3>1. phase = "restoring"
      BY <1>2
    <3>2. \A v \in Workers : ~ Owner(v, p)
      <4> SUFFICES ASSUME NEW v \in Workers, Owner(v, p) PROVE FALSE
        OBVIOUS
      <4>1. v \in Inside
        BY OwnersInside
      <4>2. v = w
        BY <3>1, <4>1, InsideFacts
      <4>3. QED
        BY <1>4, <4>2
    <3>3. slot[p] # "reserved"
      BY <3>2 DEF SlotsOwned
    <3>4. QED
      BY <1>5, <3>1, <3>3 DEF Closing, Types
  <2>3. \A q \in Projects : q \in exists /\ lease[q] = "service" => q \in exists'
    BY <1>1
  <2>4. exists' \in SUBSET Projects
    BY <1>1 DEF Types
  <2>5. w = Main => \A q \in task[w].scope : slot[q] = "open"
    BY <1>3, <2>2
  <2>6. task[w].op # "shutdown"
    BY <1>1
  <2>7. QED
    BY <1>1, <1>2, <1>4, <2>1, <2>3, <2>4, <2>5, <2>6, GoneInductive
<1>6. CASE ~ Closing /\ slot[p] = "absent"
  <2>1. /\ slot' = [slot EXCEPT ![p] = "reserved"]
        /\ Goto(w, "reserved") /\ UNCHANGED <<phase, lease>>
    BY <1>3, <1>6 DEF Reserve
  <2>2. phase # "drained"
    BY <1>6 DEF Closing
  <2>3. /\ task' \in [Workers -> Work]
        /\ task'[w].op = "start" /\ task'[w].scope = task[w].scope
        /\ task'[w].stage = "reserved" /\ task'[w].busy = {}
        /\ \A v \in Workers : v # w => task'[v] = task[v]
        /\ WorkShaped' /\ QueueKept' /\ LockKept' /\ PhasesKept'
    BY <1>1, <2>1, <2>2, StartGoes
  <2>4. \A q \in Projects : Owner(w, q)' <=> q = p
    BY <1>3, <2>3 DEF Owner, Starting, Stopping
  <2>5. slot'[p] = "reserved" /\ \A q \in Projects : q # p => slot'[q] = slot[q]
    BY <2>1 DEF Types
  <2>6. SlotsOwned'
    BY <1>4, <1>6, <2>3, <2>4, <2>5, SlotsStep
  <2>7. \A v \in Workers, q \in Projects : Opened(v, q)' => Opened(v, q) /\ task'[v] = task[v]
    BY <2>3 DEF Opened, Starting
  <2>8. LeasesHeld'
    BY <1>1, <2>1, <2>5, <2>7 DEF LeasesHeld
  <2>9. ListKept'
    <3>1. \A v \in Workers, q \in Projects :
            Starting(v, q)' /\ task'[v].stage = "recorded" <=> Starting(v, q) /\ task[v].stage = "recorded"
      BY <1>1, <2>3 DEF Starting
    <3>2. Main \in Workers /\ task'[Main].op = task[Main].op /\ task'[Main].scope = task[Main].scope
      BY <1>1, <2>3 DEF Workers
    <3>3. \A q \in Projects : Expected(q) => Expected(q)'
      BY <1>1, <1>6, <2>5, <3>1, <3>2 DEF Expected
    <3>4. QED
      BY <1>1, <1>6, <2>1, <2>5, <3>1, <3>3 DEF ListKept, Types
  <2>10. slot' \in [Projects -> {"absent", "reserved", "open"}]
    BY <2>1 DEF Types
  <2>11. Types'
    BY <1>1, <2>1, <2>3, <2>10 DEF Types
  <2>12. QED
    BY <2>3, <2>6, <2>8, <2>9, <2>11, PartsInductive
<1>7. QED
  BY <1>5, <1>6

\* The steps between reserving the slot and publishing the branch.
LEMMA StartStep ==
  ASSUME Inductive, NEW w \in Workers, task[w].op = "start",
         task[w].stage \in {"reserved", "leased", "loaded"},
         NEW p \in Projects, task[w].scope = {p},
         NEW stage \in {"leased", "loaded", "recorded", "failed"}, Goto(w, stage),
         UNCHANGED <<phase, foreground, todo, slot, borrowed, exists, unrestored, queue>>,
         lease' \in [Projects -> {"free", "service"} \cup Workers],
         \A q \in Projects : q # p => lease'[q] = lease[q],
         remembered' \in SUBSET Projects, file' \in SUBSET Projects,
         stage # "failed" => lease'[p] = "service" /\ p \notin borrowed,
         lease[p] = "service" /\ stage = "failed" =>
           p \notin borrowed \/ UNCHANGED lease,
         stage \in {"loaded", "recorded"} => p \in exists,
         foreground => (remembered = file => remembered' = file'),
         file \subseteq file', file' \subseteq file \cup {p},
         foreground /\ stage = "recorded" => p \in file',
         stage # "recorded" => UNCHANGED file
  PROVE  Inductive'
<1> USE InductiveParts, IdleFields DEF Rest
<1>1. /\ w \in Inside /\ One(task[w].scope) /\ task[w].busy = {}
      /\ phase \notin {"down", "offline"} /\ phase # "drained"
      /\ w = Main => phase = "restoring"
      /\ \A q \in Projects : ~ Stopping(w, q)
  BY StartFacts
<1>2. /\ task' \in [Workers -> Work]
      /\ task'[w].op = "start" /\ task'[w].scope = task[w].scope
      /\ task'[w].stage = stage /\ task'[w].busy = {}
      /\ \A v \in Workers : v # w => task'[v] = task[v]
      /\ WorkShaped' /\ QueueKept' /\ LockKept' /\ PhasesKept'
  BY <1>1, StartGoes
<1>3. \A v \in Workers, q \in Projects : Owner(v, q)' <=> Owner(v, q)
  BY <1>1, <1>2 DEF Owner, Starting, Stopping
<1>4. SlotsOwned'
  BY <1>3, SlotsStay
<1>5. Owner(w, p) /\ slot[p] = "reserved" /\ \A v \in Workers : v # w => ~ Owner(v, p)
  <2>1. Owner(w, p)
    BY DEF Owner, Starting
  <2>2. QED
    BY <2>1 DEF SlotsOwned
<1>6. LeasesHeld'
  <2> SUFFICES ASSUME NEW q \in Projects
               PROVE  /\ slot'[q] = "open" => lease'[q] = "service" /\ q \in exists'
                      /\ q \in borrowed' => lease'[q] = "service"
                      /\ \A v \in Workers : Opened(v, q)' =>
                           /\ lease'[q] = "service" /\ q \notin borrowed'
                           /\ task'[v].stage # "leased" => q \in exists'
    BY DEF LeasesHeld
  <2>1. CASE q # p
    <3>1. \A v \in Workers : Opened(v, q)' => Opened(v, q) /\ task'[v] = task[v]
      BY <1>2, <2>1 DEF Opened, Starting
    <3>2. QED
      BY <2>1, <3>1 DEF LeasesHeld
  <2>2. CASE q = p
    <3>1. \A v \in Workers : Opened(v, q)' => v = w /\ stage # "failed"
      BY <1>2, <1>3, <1>5, <2>2 DEF Opened, Owner
    <3>2. p \in borrowed => lease[p] = "service"
      BY DEF LeasesHeld
    <3>3. QED
      BY <1>2, <1>5, <2>2, <3>1, <3>2
  <2>3. QED
    BY <2>1, <2>2
<1>7. ListKept'
  <2>1. \A v \in Workers, q \in Projects :
          Starting(v, q)' /\ task'[v].stage = "recorded" =>
            \/ Starting(v, q) /\ task[v].stage = "recorded"
            \/ q = p /\ stage = "recorded"
    BY <1>2 DEF Starting
  <2>2. \A v \in Workers, q \in Projects :
          Starting(v, q) /\ task[v].stage = "recorded" => Starting(v, q)' /\ task'[v].stage = "recorded"
    BY <1>2 DEF Starting
  <2>3. Main \in Workers /\ task'[Main].op = task[Main].op /\ task'[Main].scope = task[Main].scope
    BY <1>2 DEF Workers
  <2>4. \A q \in Projects : Expected(q) => Expected(q)'
    BY <2>2, <2>3 DEF Expected
  <2>5. stage = "recorded" => Expected(p)'
    BY <1>2 DEF Expected, Starting
  <2>6. foreground /\ phase \in {"restoring", "up"} => \A q \in file' : Expected(q)'
    <3> SUFFICES ASSUME foreground, phase \in {"restoring", "up"}, NEW q \in file' PROVE Expected(q)'
      OBVIOUS
    <3>1. CASE q \in file
      BY <2>4, <3>1 DEF ListKept, Types
    <3>2. CASE q = p /\ stage = "recorded"
      BY <2>5, <3>2
    <3>3. QED
      BY <3>1, <3>2
  <2>7. foreground => remembered' = file'
    BY <1>1 DEF ListKept
  <2>8. foreground => \A q \in Projects : slot'[q] = "open" => q \in file'
    BY <1>1 DEF ListKept
  <2>9. foreground => \A q \in Projects, v \in Workers :
          Starting(v, q)' /\ task'[v].stage = "recorded" => q \in file'
    BY <1>1, <2>1 DEF ListKept
  <2>10. QED
    BY <2>6, <2>7, <2>8, <2>9 DEF ListKept
<1>8. Types'
  BY <1>2 DEF Types
<1>9. QED
  BY <1>2, <1>4, <1>6, <1>7, <1>8, PartsInductive

LEMMA LeaseInductive ==
  ASSUME Inductive, NEW w \in Workers, Lease(w)
  PROVE  Inductive'
<1> USE InductiveParts, IdleFields DEF Rest
<1>1. /\ task[w].op = "start" /\ task[w].stage = "reserved"
      /\ UNCHANGED <<phase, foreground, todo, slot, borrowed, remembered, file,
                     exists, unrestored, queue>>
  BY DEF Lease, At
<1>2. PICK p \in Projects : task[w].scope = {p}
  BY <1>1, StartFacts DEF One
<1>3. remembered' \in SUBSET Projects /\ file' \in SUBSET Projects
  BY <1>1 DEF Types
<1>4. CASE lease[p] = "free"
  <2>1. lease' = [lease EXCEPT ![p] = "service"] /\ Goto(w, "leased")
    BY <1>2, <1>4 DEF Lease
  <2>2. p \notin borrowed
    BY <1>4 DEF LeasesHeld
  <2>3. /\ lease' \in [Projects -> {"free", "service"} \cup Workers]
        /\ \A q \in Projects : q # p => lease'[q] = lease[q]
        /\ lease'[p] = "service"
    BY <2>1 DEF Types
  <2>4. QED
    BY <1>1, <1>2, <1>3, <2>1, <2>2, <2>3, StartStep
<1>5. CASE lease[p] # "free"
  <2>1. lease' = lease /\ Goto(w, "failed")
    BY <1>2, <1>5 DEF Lease
  <2>2. lease' \in [Projects -> {"free", "service"} \cup Workers]
    BY <2>1 DEF Types
  <2>3. QED
    BY <1>1, <1>2, <1>3, <2>1, <2>2, StartStep
<1>6. QED
  BY <1>4, <1>5

LEMMA LoadInductive ==
  ASSUME Inductive, NEW w \in Workers, Load(w)
  PROVE  Inductive'
<1> USE InductiveParts, IdleFields DEF Rest
<1>1. /\ task[w].op = "start" /\ task[w].stage = "leased"
      /\ UNCHANGED <<phase, foreground, todo, slot, borrowed, remembered, file,
                     exists, unrestored, queue>>
  BY DEF Load, At
<1>2. PICK p \in Projects : task[w].scope = {p}
  BY <1>1, StartFacts DEF One
<1>3. remembered' \in SUBSET Projects /\ file' \in SUBSET Projects
  BY <1>1 DEF Types
<1>4. lease[p] = "service" /\ p \notin borrowed
  BY <1>1, <1>2 DEF LeasesHeld, Opened, Starting
<1>5. CASE p \in exists /\ Goto(w, "loaded") /\ UNCHANGED lease
  <2>1. lease' \in [Projects -> {"free", "service"} \cup Workers]
    BY <1>5 DEF Types
  <2>2. QED
    BY <1>1, <1>2, <1>3, <1>4, <1>5, <2>1, StartStep
<1>6. CASE Goto(w, "failed") /\ lease' = [lease EXCEPT ![p] = "free"]
  <2>1. /\ lease' \in [Projects -> {"free", "service"} \cup Workers]
        /\ \A q \in Projects : q # p => lease'[q] = lease[q]
    BY <1>6 DEF Types
  <2>2. QED
    BY <1>1, <1>2, <1>3, <1>4, <1>6, <2>1, StartStep
<1>7. QED
  BY <1>2, <1>5, <1>6 DEF Load

LEMMA RecordInductive ==
  ASSUME Inductive, NEW w \in Workers, Record(w)
  PROVE  Inductive'
<1> USE InductiveParts, IdleFields DEF Rest
<1>1. /\ task[w].op = "start" /\ task[w].stage = "loaded"
      /\ UNCHANGED <<phase, foreground, todo, slot, borrowed, exists, unrestored, queue>>
  BY DEF Record, At
<1>2. PICK p \in Projects : task[w].scope = {p}
  BY <1>1, StartFacts DEF One
<1>3. lease[p] = "service" /\ p \notin borrowed /\ p \in exists
  BY <1>1, <1>2 DEF LeasesHeld, Opened, Starting
<1>4. phase \notin {"down", "offline"}
  BY <1>1, StartFacts
<1>5. foreground => remembered = file
  BY <1>4 DEF ListKept
<1>6. CASE Remember(remembered \cup {p}) /\ Goto(w, "recorded") /\ UNCHANGED lease
  <2>1. /\ remembered' \in SUBSET Projects /\ file' \in SUBSET Projects
        /\ foreground => remembered' = file' /\ p \in file'
        /\ file \subseteq file' /\ file' \subseteq file \cup {p}
    BY <1>5, <1>6 DEF Remember, Types
  <2>2. lease' \in [Projects -> {"free", "service"} \cup Workers]
    BY <1>6 DEF Types
  <2>3. QED
    BY <1>1, <1>2, <1>3, <1>6, <2>1, <2>2, StartStep
<1>7. CASE RememberFails /\ Goto(w, "failed") /\ lease' = [lease EXCEPT ![p] = "free"]
  <2>1. /\ lease' \in [Projects -> {"free", "service"} \cup Workers]
        /\ \A q \in Projects : q # p => lease'[q] = lease[q]
    BY <1>7 DEF Types
  <2>2. UNCHANGED <<remembered, file>>
    BY <1>7 DEF RememberFails
  <2>3. remembered' \in SUBSET Projects /\ file' \in SUBSET Projects
    BY <2>2 DEF Types
  <2>4. QED
    BY <1>1, <1>2, <1>3, <1>7, <2>1, <2>2, <2>3, StartStep
<1>8. QED
  BY <1>2, <1>6, <1>7 DEF Record

LEMMA PublishInductive ==
  ASSUME Inductive, NEW w \in Workers, Publish(w)
  PROVE  Inductive'
<1> USE InductiveParts, IdleFields DEF Rest
<1>1. /\ task[w].op = "start" /\ task[w].stage = "recorded" /\ Return(w)
      /\ slot' = [p \in Projects |-> IF p \in task[w].scope THEN "open" ELSE slot[p]]
      /\ UNCHANGED <<foreground, todo, borrowed, remembered, file, exists,
                     unrestored, queue>>
  BY DEF Publish, At
<1>2. /\ w \in Inside /\ One(task[w].scope) /\ phase # "drained"
      /\ phase \notin {"down", "offline"}
      /\ \A p \in Projects : ~ Stopping(w, p)
  BY <1>1, StartFacts
<1>3. PICK p \in Projects : task[w].scope = {p}
  BY <1>2 DEF One
<1>4. /\ WorkShaped' /\ QueueKept' /\ LockKept' /\ PhasesKept'
      /\ task' \in [Workers -> Work] /\ task'[w] = Idle /\ phase' = phase
      /\ \A v \in Workers : v # w => task'[v] = task[v]
      /\ lease' \in [Projects -> {"free", "service"} \cup Workers]
      /\ \A q \in Projects : lease'[q] = "service" <=> lease[q] = "service"
      /\ \A q \in Projects : ~ Owner(w, q)' /\ ~ Starting(w, q)' /\ ~ Opened(w, q)'
  BY <1>1, <1>2, Leaves
<1>5. slot'[p] = "open" /\ \A q \in Projects : q # p => slot'[q] = slot[q]
  BY <1>1, <1>3
<1>6. \A q \in Projects : Owner(w, q) <=> q = p
  BY <1>1, <1>2, <1>3 DEF Owner, Starting
<1>7. SlotsOwned'
  BY <1>4, <1>5, <1>6, SlotsStep
<1>8. lease[p] = "service" /\ p \notin borrowed /\ p \in exists
  BY <1>1, <1>3 DEF LeasesHeld, Opened, Starting
<1>9. LeasesHeld'
  <2>1. \A v \in Workers, q \in Projects : Opened(v, q)' => Opened(v, q) /\ task'[v] = task[v]
    BY <1>4 DEF Opened, Starting
  <2>2. QED
    BY <1>1, <1>4, <1>5, <1>8, <2>1 DEF LeasesHeld
<1>10. ListKept'
  <2>1. \A v \in Workers, q \in Projects : q # p /\ Starting(v, q) => Starting(v, q)' /\ task'[v] = task[v]
    BY <1>3, <1>4 DEF Starting
  <2>2. \A v \in Workers, q \in Projects : Starting(v, q)' => Starting(v, q) /\ task'[v] = task[v]
    BY <1>4 DEF Starting
  <2>3. Main \in Workers
    BY DEF Workers
  <2>4. \A q \in Projects : Expected(q) => Expected(q)'
    BY <1>1, <1>3, <1>4, <1>5, <2>1, <2>3 DEF Expected
  <2>5. foreground => p \in file
    BY <1>1, <1>2, <1>3 DEF ListKept, Starting
  <2>6. QED
    BY <1>1, <1>4, <1>5, <2>2, <2>4, <2>5 DEF ListKept, Types
<1>11. slot' \in [Projects -> {"absent", "reserved", "open"}]
  BY <1>1 DEF Types
<1>12. Types'
  BY <1>1, <1>4, <1>11 DEF Types
<1>13. QED
  BY <1>4, <1>7, <1>9, <1>10, <1>12, PartsInductive

LEMMA UnreserveInductive ==
  ASSUME Inductive, NEW w \in Workers, Unreserve(w)
  PROVE  Inductive'
<1> USE InductiveParts, IdleFields DEF Rest
<1>1. /\ task[w].op = "start" /\ task[w].stage = "failed" /\ Return(w)
      /\ slot' = [p \in Projects |-> IF p \in task[w].scope THEN "absent" ELSE slot[p]]
      /\ unrestored' = IF w = Main THEN unrestored \cup task[w].scope ELSE unrestored
      /\ UNCHANGED <<foreground, todo, borrowed, remembered, file, exists, queue>>
  BY DEF Unreserve, At
<1>2. /\ w \in Inside /\ One(task[w].scope) /\ phase # "drained"
      /\ phase \notin {"down", "offline"}
      /\ \A p \in Projects : ~ Stopping(w, p)
  BY <1>1, StartFacts
<1>3. PICK p \in Projects : task[w].scope = {p}
  BY <1>2 DEF One
<1>4. /\ WorkShaped' /\ QueueKept' /\ LockKept' /\ PhasesKept'
      /\ task' \in [Workers -> Work] /\ task'[w] = Idle /\ phase' = phase
      /\ \A v \in Workers : v # w => task'[v] = task[v]
      /\ lease' \in [Projects -> {"free", "service"} \cup Workers]
      /\ \A q \in Projects : lease'[q] = "service" <=> lease[q] = "service"
      /\ \A q \in Projects : ~ Owner(w, q)' /\ ~ Starting(w, q)' /\ ~ Opened(w, q)'
  BY <1>1, <1>2, Leaves
<1>5. slot'[p] = "absent" /\ \A q \in Projects : q # p => slot'[q] = slot[q]
  BY <1>1, <1>3
<1>6. \A q \in Projects : Owner(w, q) <=> q = p
  BY <1>1, <1>2, <1>3 DEF Owner, Starting
<1>7. SlotsOwned'
  BY <1>4, <1>5, <1>6, SlotsStep
<1>8. LeasesHeld'
  <2>1. \A v \in Workers, q \in Projects : Opened(v, q)' => Opened(v, q) /\ task'[v] = task[v]
    BY <1>4 DEF Opened, Starting
  <2>2. QED
    BY <1>1, <1>4, <1>5, <2>1 DEF LeasesHeld
\* A branch that could not be restored stays in the list, for that reason.
<1>9. ListKept'
  <2>1. \A v \in Workers, q \in Projects :
          Starting(v, q)' /\ task'[v].stage = "recorded" <=> Starting(v, q) /\ task[v].stage = "recorded"
    BY <1>1, <1>4 DEF Starting
  <2>2. Main \in Workers /\ slot[p] = "reserved"
    BY <1>6 DEF Workers, SlotsOwned
  <2>3. \A q \in Projects : Expected(q) => Expected(q)'
    <3> SUFFICES ASSUME NEW q \in Projects, Expected(q) PROVE Expected(q)'
      OBVIOUS
    <3>1. slot[q] = "open" => slot'[q] = "open"
      BY <1>5, <2>2
    <3>2. q \in unrestored => q \in unrestored'
      BY <1>1
    <3>3. CASE w = Main
      BY <1>1, <2>1, <3>1, <3>2, <3>3 DEF Expected
    <3>4. CASE w # Main
      BY <1>1, <1>4, <2>1, <2>2, <3>1, <3>2, <3>4 DEF Expected
    <3>5. QED
      BY <3>3, <3>4
  <2>4. \A q \in Projects : slot'[q] = "open" => slot[q] = "open"
    BY <1>5
  <2>5. QED
    BY <1>1, <1>4, <2>1, <2>3, <2>4 DEF ListKept, Types
<1>10. slot' \in [Projects -> {"absent", "reserved", "open"}] /\ unrestored' \in SUBSET Projects
  BY <1>1, <1>3 DEF Types
<1>11. Types'
  BY <1>1, <1>4, <1>10 DEF Types
<1>12. QED
  BY <1>4, <1>7, <1>8, <1>9, <1>11, PartsInductive

-----------------------------------------------------------------------------
(***************************************************************************)
(* stop_branch, and the stops of a removal.                                *)
(***************************************************************************)
\* A stop or a removal inside the lock; it owns the slots it is stopping.
LEMMA StopFacts ==
  ASSUME Inductive, NEW w \in Inside, task[w].op \in {"stop", "remove", "delete"}
  PROVE  /\ w \in Workers /\ w \in Tasks /\ w # Main /\ Shaped(w) /\ task[w] # Idle
         /\ phase \notin {"down", "offline"}
         /\ phase = "drained" => task[w].stage = "admitted"
         /\ task[w].busy \subseteq task[w].scope /\ task[w].scope \subseteq Projects
         /\ \A p \in Projects : ~ Starting(w, p) /\ ~ Opened(w, p)
         /\ \A p \in Projects :
              Owner(w, p) <=> p \in task[w].busy /\ task[w].stage \in {"stopping", "stopped"}
         /\ \A p \in Projects : Owner(w, p) =>
              slot[p] = "reserved" /\ \A v \in Workers : v # w => ~ Owner(v, p)
<1> USE InductiveParts, IdleFields DEF Rest
<1>1. /\ w \in Workers /\ Shaped(w) /\ task[w] # Idle
      /\ phase \notin {"down", "offline"}
      /\ phase = "drained" => task[w].stage = "admitted"
  BY InsideFacts
<1>2. w \in Tasks /\ task[w].busy \subseteq task[w].scope
  BY <1>1 DEF Shaped
<1>3. w # Main
  BY <1>2, RegistryAssumption
<1>4. task[w].scope \subseteq Projects
  BY <1>1 DEF Types, Work
<1>5. \A p \in Projects : ~ Starting(w, p) /\ ~ Opened(w, p)
  BY DEF Starting, Opened
<1>6. \A p \in Projects :
        Owner(w, p) <=> p \in task[w].busy /\ task[w].stage \in {"stopping", "stopped"}
  BY <1>1, <1>5 DEF Owner, Stopping, Shaped
<1>7. \A p \in Projects : Owner(w, p) =>
        slot[p] = "reserved" /\ \A v \in Workers : v # w => ~ Owner(v, p)
  BY <1>1 DEF SlotsOwned
<1>8. QED
  BY <1>1, <1>2, <1>3, <1>4, <1>5, <1>6, <1>7

\* Branches may leave the list when they are not running and nobody starts
\* them; the step is one of a stop or a removal.
LEMMA ListShrinks ==
  ASSUME Inductive, NEW w \in Workers, w # Main,
         \A p \in Projects : ~ Starting(w, p), \A p \in Projects : ~ Starting(w, p)',
         \A v \in Workers : v # w => task'[v] = task[v],
         UNCHANGED <<phase, foreground, todo, unrestored>>,
         phase \notin {"down", "offline"},
         \A p \in Projects : slot'[p] = "open" => slot[p] = "open",
         foreground => remembered' = file',
         foreground => file' \subseteq file,
         foreground => \A p \in file' : slot[p] = "open" => slot'[p] = "open",
         foreground => \A p \in file \ file' :
           slot'[p] # "open" /\ \A v \in Workers : ~ Starting(v, p)
  PROVE  ListKept'
<1> USE InductiveParts, IdleFields DEF Rest
<1>1. \A v \in Workers, p \in Projects : Starting(v, p)' <=> Starting(v, p)
  BY DEF Starting
<1>2. \A v \in Workers, p \in Projects : Starting(v, p) => task'[v] = task[v]
  OBVIOUS
<1>3. Main \in Workers /\ task'[Main] = task[Main]
  BY DEF Workers
<1>4. foreground => \A p \in file' : p \in Projects /\ (Expected(p) => Expected(p)')
  BY <1>1, <1>2, <1>3 DEF Expected, Types
<1>5. foreground => /\ \A p \in Projects : slot'[p] = "open" => p \in file'
                    /\ \A p \in Projects, v \in Workers :
                         Starting(v, p)' /\ task'[v].stage = "recorded" => p \in file'
  BY <1>1, <1>2 DEF ListKept
<1>6. QED
  BY <1>4, <1>5 DEF ListKept

LEMMA TakeDownInductive ==
  ASSUME Inductive, NEW w \in Inside, NEW p \in task[w].scope, slot[p] = "open",
         \/ task[w].op = "stop" /\ task[w].stage = "admitted"
         \/ task[w].op = "remove" /\ task[w].stage = "removing",
         TakeDown(w, p),
         UNCHANGED <<foreground, todo, borrowed, exists, unrestored, queue>>
  PROVE  Inductive'
<1> USE InductiveParts, IdleFields DEF Rest
<1>1. /\ w \in Workers /\ w \in Tasks /\ w # Main /\ Shaped(w) /\ task[w] # Idle
      /\ phase \notin {"down", "offline"} /\ task[w].scope \subseteq Projects
      /\ \A q \in Projects : ~ Starting(w, q) /\ ~ Opened(w, q)
      /\ \A q \in Projects : ~ Owner(w, q)
  BY StopFacts
<1>2. p \in Projects /\ phase # "drained"
  BY <1>1 DEF PhasesKept
<1> DEFINE new == [task[w] EXCEPT !.stage = "stopping", !.busy = {p}]
<1>3. /\ task' = [task EXCEPT ![w] = new]
      /\ slot' = [slot EXCEPT ![p] = "reserved"]
      /\ UNCHANGED <<phase, lease>>
      /\ Remember(remembered \ {p})
  BY DEF TakeDown
<1>4. /\ new \in Work /\ new.op = task[w].op /\ new.scope = task[w].scope
      /\ new.stage = "stopping" /\ new.busy = {p}
  <2>1. task[w] \in Work
    BY <1>1 DEF Types
  <2>2. QED
    BY <1>2, <2>1 DEF Work, Stages
<1> HIDE DEF new
<1>5. /\ task' \in [Workers -> Work] /\ task'[w] = new
      /\ \A v \in Workers : v # w => task'[v] = task[v]
  BY <1>1, <1>3, <1>4, Replaced
<1>6. Shaped(w)'
  BY <1>1, <1>4, <1>5 DEF Shaped
<1>7. WorkShaped' /\ QueueKept' /\ LockKept' /\ PhasesKept'
  BY <1>1, <1>2, <1>3, <1>4, <1>5, <1>6, Proceeds
<1>8. \A q \in Projects : /\ ~ Starting(w, q)' /\ ~ Opened(w, q)'
                          /\ Owner(w, q)' <=> q = p
  BY <1>4, <1>5 DEF Owner, Starting, Stopping, Opened
<1>9. slot'[p] = "reserved" /\ \A q \in Projects : q # p => slot'[q] = slot[q]
  BY <1>2, <1>3 DEF Types
<1>10. SlotsOwned'
  BY <1>1, <1>5, <1>8, <1>9, SlotsStep
<1>11. LeasesHeld'
  <2>1. \A v \in Workers, q \in Projects : Opened(v, q)' => Opened(v, q) /\ task'[v] = task[v]
    BY <1>5, <1>8 DEF Opened, Starting
  <2>2. QED
    BY <1>3, <1>9, <2>1 DEF LeasesHeld
<1>12. /\ remembered' \in SUBSET Projects /\ file' \in SUBSET Projects
       /\ foreground => remembered' = file' /\ file' = file \ {p}
  BY <1>1, <1>3 DEF Remember, ListKept, Types
<1>13. \A v \in Workers : ~ Starting(v, p)
  BY <1>2 DEF SlotsOwned, Owner
<1>14. ListKept'
  <2>1. foreground => remembered' = file' /\ file' \subseteq file
    BY <1>12
  <2>2. \A q \in Projects : slot'[q] = "open" => slot[q] = "open"
    BY <1>2, <1>9
  <2>3. foreground => \A q \in file' : slot[q] = "open" => slot'[q] = "open"
    BY <1>9, <1>12
  <2>4. foreground => \A q \in file \ file' :
          slot'[q] # "open" /\ \A v \in Workers : ~ Starting(v, q)
    BY <1>9, <1>12, <1>13
  <2>5. UNCHANGED <<phase, foreground, todo, unrestored>>
    BY <1>3
  <2>6. QED
    BY <1>1, <1>5, <1>8, <2>1, <2>2, <2>3, <2>4, <2>5, ListShrinks
<1>15. slot' \in [Projects -> {"absent", "reserved", "open"}]
  BY <1>3 DEF Types
<1>16. Types'
  BY <1>3, <1>5, <1>12, <1>15 DEF Types
<1>17. QED
  BY <1>7, <1>10, <1>11, <1>14, <1>16, PartsInductive

\* It could not be written, or there was nothing to do.
LEMMA StopReturns ==
  ASSUME Inductive, NEW w \in Inside, task[w].op \in {"stop", "remove", "delete"},
         task[w].stage \notin {"stopping", "stopped"}, Return(w),
         UNCHANGED <<foreground, todo, slot, borrowed, remembered, file, exists,
                     unrestored, queue>>
  PROVE  Inductive'
<1>1. w # Main /\ \A p \in Projects : ~ Owner(w, p)
  BY StopFacts
<1>2. exists' \in SUBSET Projects
  BY InductiveParts DEF Types
<1>3. task[w].op # "shutdown"
  OBVIOUS
<1>4. \A p \in Projects : p \in exists /\ lease[p] = "service" => p \in exists'
  OBVIOUS
<1>5. QED
  BY <1>1, <1>2, <1>3, <1>4, GoneInductive

LEMMA StopInductive ==
  ASSUME Inductive, NEW w \in Workers, Stop(w)
  PROVE  Inductive'
<1>1. /\ task[w].op = "stop" /\ task[w].stage = "admitted"
      /\ UNCHANGED <<foreground, todo, borrowed, exists, unrestored, queue>>
  BY DEF Stop, At
<1>2. w \in Inside
  BY <1>1 DEF Inside, Foreign
<1>3. PICK p \in task[w].scope :
        \/ slot[p] = "open" /\ TakeDown(w, p)
        \/ slot[p] = "open" /\ RememberFails /\ Return(w) /\ UNCHANGED slot
        \/ slot[p] # "open" /\ Return(w) /\ UNCHANGED <<slot, remembered, file>>
  BY DEF Stop
<1>4. CASE slot[p] = "open" /\ TakeDown(w, p)
  BY <1>1, <1>2, <1>4, TakeDownInductive
<1>5. CASE Return(w) /\ UNCHANGED <<slot, remembered, file>>
  BY <1>1, <1>2, <1>5, StopReturns
<1>6. QED
  BY <1>3, <1>4, <1>5 DEF RememberFails

LEMMA DropInductive ==
  ASSUME Inductive, NEW w \in Workers, Drop(w)
  PROVE  Inductive'
<1> USE InductiveParts, IdleFields DEF Rest
<1>1. /\ task[w].op \in {"stop", "remove"} /\ task[w].stage = "stopping"
      /\ lease' = [p \in Projects |->
                     IF p \in task[w].busy \ borrowed THEN "free" ELSE lease[p]]
      /\ Goto(w, "stopped")
      /\ UNCHANGED <<phase, foreground, todo, slot, borrowed, remembered, file,
                     exists, unrestored, queue>>
  BY DEF Drop, Goto
<1>2. w \in Inside
  BY <1>1 DEF Inside, Foreign
<1>3. /\ w \in Tasks /\ w # Main /\ Shaped(w) /\ task[w] # Idle
      /\ phase \notin {"down", "offline"} /\ phase # "drained"
      /\ \A p \in Projects : ~ Starting(w, p) /\ ~ Opened(w, p)
      /\ \A p \in Projects : Owner(w, p) <=> p \in task[w].busy
      /\ \A p \in Projects : Owner(w, p) =>
           slot[p] = "reserved" /\ \A v \in Workers : v # w => ~ Owner(v, p)
  BY <1>1, <1>2, StopFacts
<1>4. /\ task' \in [Workers -> Work]
      /\ task'[w].op = task[w].op /\ task'[w].scope = task[w].scope
      /\ task'[w].stage = "stopped" /\ task'[w].busy = task[w].busy
      /\ \A v \in Workers : v # w => task'[v] = task[v]
  BY <1>1, Moved DEF Stages
<1>5. Shaped(w)'
  BY <1>1, <1>3, <1>4 DEF Shaped
<1>6. WorkShaped' /\ QueueKept' /\ LockKept' /\ PhasesKept'
  BY <1>1, <1>2, <1>3, <1>4, <1>5, Proceeds
<1>7. \A v \in Workers, p \in Projects : Owner(v, p)' <=> Owner(v, p)
  BY <1>1, <1>4 DEF Owner, Starting, Stopping
<1>8. SlotsOwned'
  BY <1>1, <1>7, SlotsStay
<1>9. LeasesHeld'
  <2>1. \A v \in Workers, p \in Projects : Opened(v, p)' => Opened(v, p) /\ task'[v] = task[v]
    BY <1>1, <1>4 DEF Opened, Starting
  <2>2. \A p \in Projects, v \in Workers : p \in task[w].busy => slot[p] # "open" /\ ~ Opened(v, p)
    BY <1>3 DEF Opened, Owner
  <2>3. \A p \in Projects : lease'[p] = lease[p] \/ (p \in task[w].busy /\ p \notin borrowed)
    BY <1>1
  <2>4. QED
    BY <1>1, <2>1, <2>2, <2>3 DEF LeasesHeld
<1>10. ListKept'
  <2>1. foreground => remembered' = file'
    BY <1>1, <1>3 DEF ListKept
  <2>2. \A p \in Projects : ~ Starting(w, p)'
    BY <1>1, <1>4 DEF Starting
  <2>3. QED
    BY <1>1, <1>3, <1>4, <2>1, <2>2, ListShrinks
<1>11. lease' \in [Projects -> {"free", "service"} \cup Workers]
  BY <1>1 DEF Types
<1>12. Types'
  BY <1>1, <1>4, <1>11 DEF Types
<1>13. QED
  BY <1>6, <1>8, <1>9, <1>10, <1>12, PartsInductive

LEMMA VacateInductive ==
  ASSUME Inductive, NEW w \in Workers, Vacate(w)
  PROVE  Inductive'
<1> USE InductiveParts, IdleFields DEF Rest
<1>1. /\ task[w].stage = "stopped"
      /\ slot' = [p \in Projects |-> IF p \in task[w].busy THEN "absent" ELSE slot[p]]
      /\ UNCHANGED <<foreground, todo, borrowed, remembered, file, exists,
                     unrestored, queue>>
  BY DEF Vacate
<1>2. task[w].op \in {"stop", "remove"}
  BY <1>1 DEF WorkShaped, Shaped
<1>3. w \in Inside
  BY <1>1, <1>2 DEF Inside, Foreign
<1>4. /\ w \in Tasks /\ w # Main /\ Shaped(w) /\ task[w] # Idle
      /\ phase \notin {"down", "offline"} /\ phase # "drained"
      /\ \A p \in Projects : ~ Starting(w, p) /\ ~ Opened(w, p)
      /\ \A p \in Projects : Owner(w, p) <=> p \in task[w].busy
      /\ \A p \in Projects : Owner(w, p) =>
           slot[p] = "reserved" /\ \A v \in Workers : v # w => ~ Owner(v, p)
  BY <1>1, <1>2, <1>3, StopFacts
\* Its operation ends, or it looks for the next branch.
<1>5. /\ WorkShaped' /\ QueueKept' /\ LockKept' /\ PhasesKept'
      /\ task' \in [Workers -> Work] /\ phase' = phase
      /\ \A v \in Workers : v # w => task'[v] = task[v]
      /\ lease' \in [Projects -> {"free", "service"} \cup Workers]
      /\ \A p \in Projects : lease'[p] = "service" <=> lease[p] = "service"
      /\ \A p \in Projects : ~ Owner(w, p)' /\ ~ Starting(w, p)' /\ ~ Opened(w, p)'
  <2>1. CASE task[w].op = "stop"
    <3>1. Return(w)
      BY <2>1 DEF Vacate
    <3>2. QED
      BY <1>1, <1>3, <1>4, <2>1, <3>1, Leaves
  <2>2. CASE task[w].op = "remove"
    <3> DEFINE new == [task[w] EXCEPT !.stage = "removing", !.busy = {}]
    <3>1. task' = [task EXCEPT ![w] = new] /\ UNCHANGED <<phase, lease>>
      BY <2>2 DEF Vacate
    <3>2. /\ new \in Work /\ new.op = "remove" /\ new.scope = task[w].scope
          /\ new.stage = "removing" /\ new.busy = {}
      <4>1. task[w] \in Work
        BY DEF Types
      <4>2. QED
        BY <2>2, <4>1 DEF Work, Stages
    <3> HIDE DEF new
    <3>3. /\ task' \in [Workers -> Work] /\ task'[w] = new
          /\ \A v \in Workers : v # w => task'[v] = task[v]
      BY <3>1, <3>2, Replaced
    <3>4. Shaped(w)'
      BY <1>4, <3>2, <3>3 DEF Shaped
    <3>5. WorkShaped' /\ QueueKept' /\ LockKept' /\ PhasesKept'
      BY <1>1, <1>3, <1>4, <2>2, <3>1, <3>2, <3>3, <3>4, Proceeds
    <3>6. \A p \in Projects : ~ Owner(w, p)' /\ ~ Starting(w, p)' /\ ~ Opened(w, p)'
      BY <3>2, <3>3 DEF Owner, Starting, Stopping, Opened
    <3>7. QED
      BY <3>1, <3>3, <3>5, <3>6 DEF Types
  <2>3. QED
    BY <1>2, <2>1, <2>2
<1>6. \A p \in Projects : slot'[p] = IF p \in task[w].busy THEN "absent" ELSE slot[p]
  BY <1>1
<1>7. SlotsOwned'
  BY <1>4, <1>5, <1>6, SlotsStep
<1>8. LeasesHeld'
  <2>1. \A v \in Workers, q \in Projects : Opened(v, q)' => Opened(v, q) /\ task'[v] = task[v]
    BY <1>5 DEF Opened, Starting
  <2>2. QED
    BY <1>1, <1>5, <1>6, <2>1 DEF LeasesHeld
<1>9. ListKept'
  <2>1. foreground => remembered' = file' /\ file' \subseteq file
    BY <1>1, <1>4 DEF ListKept
  <2>2. \A q \in Projects : slot'[q] = "open" <=> slot[q] = "open"
    BY <1>4, <1>6
  <2>3. UNCHANGED <<phase, foreground, todo, unrestored>> /\ file \ file' = {}
    BY <1>1, <1>5
  <2>4. foreground => \A q \in file' : slot[q] = "open" => slot'[q] = "open"
    BY <1>1, <2>2 DEF Types
  <2>5. QED
    BY <1>4, <1>5, <2>1, <2>2, <2>3, <2>4, ListShrinks
<1>10. slot' \in [Projects -> {"absent", "reserved", "open"}]
  BY <1>1 DEF Types
<1>11. Types'
  BY <1>1, <1>5, <1>10 DEF Types
<1>12. QED
  BY <1>5, <1>7, <1>8, <1>9, <1>11, PartsInductive

-----------------------------------------------------------------------------
(***************************************************************************)
(* Removals and deletions by the server.                                   *)
(***************************************************************************)
LEMMA RemoveInductive ==
  ASSUME Inductive, NEW w \in Workers, Remove(w) \/ Delete(w) \/ RemoveNow(w)
  PROVE  Inductive'
<1> USE InductiveParts, IdleFields DEF Rest
<1>1. /\ \/ task[w].op = "remove" /\ task[w].stage = "admitted"
         \/ task[w].op = "delete" /\ task[w].stage = "admitted"
         \/ task[w].op = "remove" /\ task[w].stage = "removing"
      /\ UNCHANGED <<foreground, todo, slot, borrowed, remembered, file, exists,
                     unrestored, queue>>
  BY DEF Remove, Delete, RemoveNow, At
<1>2. w \in Inside
  BY <1>1 DEF Inside, Foreign
<1>3. /\ w \in Tasks /\ Shaped(w) /\ task[w] # Idle
      /\ phase = "drained" => task[w].stage = "admitted"
  BY <1>1, <1>2, StopFacts
<1>4. CASE Return(w)
  BY <1>1, <1>2, <1>4, StopReturns
<1>5. ASSUME NEW stage \in {"removing", "locking"}, Goto(w, stage), UNCHANGED <<phase, lease>>,
             phase # "drained",
             task[w].op = "delete" => stage = "locking"
      PROVE  Inductive'
  <2>1. stage \in Stages
    BY DEF Stages
  <2>2. /\ task' \in [Workers -> Work]
        /\ task'[w].op = task[w].op /\ task'[w].scope = task[w].scope
        /\ task'[w].stage = stage /\ task'[w].busy = task[w].busy
        /\ \A v \in Workers : v # w => task'[v] = task[v]
    BY <1>5, <2>1, Moved
  <2>3. Shaped(w)'
    BY <1>1, <1>3, <1>5, <2>2 DEF Shaped
  <2>4. task[w].op # "shutdown" /\ UNCHANGED <<phase, todo, queue>>
    BY <1>1, <1>5
  <2>5. WorkShaped' /\ QueueKept' /\ LockKept' /\ PhasesKept'
    BY <1>2, <1>5, <2>2, <2>3, <2>4, Proceeds
  <2>6. task[w].op \notin Foreign
    BY <1>1 DEF Foreign
  <2>7. {task[w].stage, task'[w].stage} \cap
          {"reserved", "leased", "loaded", "recorded", "failed", "stopping", "stopped"} = {}
    BY <1>1, <2>2
  <2>8. SlotsOwned' /\ LeasesHeld' /\ ListKept'
    BY <1>1, <1>3, <1>5, <2>2, <2>6, <2>7, StageStep
  <2>9. Types'
    BY <1>1, <1>5, <2>2 DEF Types
  <2>10. QED
    BY <2>5, <2>8, <2>9, PartsInductive
<1>6. CASE Remove(w)
  <2>1. Return(w) \/ (~ Closing /\ Goto(w, "removing") /\ UNCHANGED <<phase, lease>>)
    BY <1>6 DEF Remove
  <2>2. task[w].op # "delete"
    BY <1>6 DEF Remove, At
  <2>3. QED
    BY <1>4, <1>5, <2>1, <2>2 DEF Closing
<1>7. CASE Delete(w)
  <2>1. Return(w) \/ (~ Closing /\ Goto(w, "locking") /\ UNCHANGED <<phase, lease>>)
    BY <1>7 DEF Delete
  <2>2. QED
    BY <1>4, <1>5, <2>1 DEF Closing
<1>8. CASE RemoveNow(w)
  <2>1. Goto(w, "locking") /\ UNCHANGED <<phase, lease>> /\ task[w].stage = "removing"
    BY <1>8 DEF RemoveNow, At
  <2>2. QED
    BY <1>3, <1>5, <2>1
<1>9. QED
  BY <1>6, <1>7, <1>8

LEMMA RemoveStopInductive ==
  ASSUME Inductive, NEW w \in Workers, RemoveStop(w)
  PROVE  Inductive'
<1>1. /\ task[w].op = "remove" /\ task[w].stage = "removing"
      /\ UNCHANGED <<foreground, todo, borrowed, exists, unrestored, queue>>
  BY DEF RemoveStop, At
<1>2. w \in Inside
  BY <1>1 DEF Inside, Foreign
<1>3. PICK p \in Open(task[w].scope) :
        \/ TakeDown(w, p)
        \/ RememberFails /\ Return(w) /\ UNCHANGED slot
  BY DEF RemoveStop
<1>4. p \in task[w].scope /\ slot[p] = "open"
  BY DEF Open
<1>5. CASE TakeDown(w, p)
  BY <1>1, <1>2, <1>4, <1>5, TakeDownInductive
<1>6. CASE Return(w) /\ UNCHANGED <<slot, remembered, file>>
  BY <1>1, <1>2, <1>6, StopReturns
<1>7. QED
  BY <1>3, <1>5, <1>6 DEF RememberFails

\* Nobody else is inside: a branch that is forgotten is not being started.
LEMMA RemoveForgetInductive ==
  ASSUME Inductive, NEW w \in Workers, RemoveForget(w)
  PROVE  Inductive'
<1> USE InductiveParts, IdleFields DEF Rest
<1>1. /\ task[w].op = "remove" /\ task[w].stage = "removing"
      /\ Open(task[w].scope) = {}
      /\ UNCHANGED <<foreground, todo, slot, borrowed, exists, unrestored, queue>>
  BY DEF RemoveForget, At
<1>2. w \in Inside
  BY <1>1 DEF Inside, Foreign
<1>3. /\ w # Main /\ phase \notin {"down", "offline"}
      /\ \A q \in Projects : ~ Starting(w, q)
  BY <1>1, <1>2, StopFacts
<1>4. PICK p \in remembered \cap task[w].scope :
        \/ Remember(remembered \ {p}) /\ UNCHANGED <<phase, task, lease>>
        \/ RememberFails /\ Return(w)
  BY DEF RemoveForget
<1>5. p \in Projects /\ slot[p] # "open"
  BY <1>1 DEF Open, Types
<1>6. CASE Remember(remembered \ {p}) /\ UNCHANGED <<phase, task, lease>>
  <2>1. WorkShaped' /\ QueueKept' /\ LockKept'
    BY <1>1, <1>6, SameWork
  <2>2. \A v \in Workers, q \in Projects : (Owner(v, q)' <=> Owner(v, q)) /\ (Opened(v, q)' <=> Opened(v, q))
    BY <1>6 DEF Owner, Opened, Starting, Stopping
  <2>3. SlotsOwned'
    BY <1>1, <2>2, SlotsStay
  <2>4. LeasesHeld'
    BY <1>1, <1>6, <2>2 DEF LeasesHeld
  <2>5. PhasesKept'
    <3>1. Inside' = Inside
      BY <1>6 DEF Inside
    <3>2. QED
      BY <1>1, <1>6, <3>1 DEF PhasesKept, At
  <2>6. /\ remembered' \in SUBSET Projects /\ file' \in SUBSET Projects
        /\ foreground => remembered' = file' /\ file' = file \ {p}
    BY <1>3, <1>6 DEF Remember, ListKept, Types
  <2>7. \A v \in Workers : ~ Starting(v, p)
    <3> SUFFICES ASSUME NEW v \in Workers, Starting(v, p) PROVE FALSE
      OBVIOUS
    <3>1. v \in Inside
      BY <1>5, OwnersInside DEF Owner
    <3>2. v = w
      BY <1>1, <1>2, <3>1 DEF LockKept, Excluding
    <3>3. QED
      BY <1>3, <1>5, <3>2
  <2>8. ListKept'
    <3>1. foreground => remembered' = file' /\ file' \subseteq file
      BY <2>6
    <3>2. foreground => \A q \in file \ file' :
            slot'[q] # "open" /\ \A v \in Workers : ~ Starting(v, q)
      BY <1>1, <1>5, <2>6, <2>7
    <3>3. foreground => \A q \in file' : slot[q] = "open" => slot'[q] = "open"
      BY <1>1
    <3>4. \A q \in Projects : ~ Starting(w, q)'
      BY <1>3, <1>6 DEF Starting
    <3>5. UNCHANGED <<phase, foreground, todo, unrestored>> /\ task' = task /\ slot' = slot
      BY <1>1, <1>6
    <3>6. QED
      BY <1>3, <3>1, <3>2, <3>3, <3>4, <3>5, ListShrinks
  <2>9. Types'
    BY <1>1, <1>6, <2>6 DEF Types
  <2>10. QED
    BY <2>1, <2>3, <2>4, <2>5, <2>8, <2>9, PartsInductive
<1>7. CASE RememberFails /\ Return(w)
  BY <1>1, <1>2, <1>7, StopReturns DEF RememberFails
<1>8. QED
  BY <1>4, <1>6, <1>7

-----------------------------------------------------------------------------
(***************************************************************************)
(* Operations outside the lock: the deletions of the command line.         *)
(***************************************************************************)
LEMMA ForeignFacts ==
  ASSUME Inductive, NEW w \in Workers, task[w].op \in Foreign
  PROVE  /\ w \in Tasks /\ w # Main /\ Shaped(w) /\ task[w] # Idle /\ w \notin Inside
         /\ task[w].stage \in {"locking", "rewriting"}
         /\ task[w].op = "cli remove" => phase = "offline"
         /\ \A p \in Projects : ~ Owner(w, p) /\ ~ Starting(w, p) /\ ~ Opened(w, p)
<1> USE InductiveParts, IdleFields DEF Rest
<1>1. Shaped(w) /\ task[w] # Idle
  BY DEF WorkShaped, Foreign
<1>2. w \in Tasks /\ task[w].stage \in {"locking", "rewriting"}
  BY <1>1 DEF Shaped, Foreign
<1>3. w # Main
  BY <1>2, RegistryAssumption
<1>4. task[w].op = "cli remove" => phase = "offline"
  BY DEF PhasesKept
<1>5. \A p \in Projects : ~ Owner(w, p) /\ ~ Starting(w, p) /\ ~ Opened(w, p)
  BY <1>2 DEF Owner, Starting, Stopping, Opened
<1>6. w \notin Inside
  BY DEF Inside
<1>7. QED
  BY <1>1, <1>2, <1>3, <1>4, <1>5, <1>6

\* Such a process goes on, or is gone; with a removal goes the server's lease.
LEMMA ForeignStep ==
  ASSUME Inductive, NEW w \in Workers, task[w].op \in Foreign,
         \A v \in Workers : v # w => task'[v] = task[v],
         task' \in [Workers -> Work],
         \/ task'[w] = Idle /\ phase' = (IF task[w].op = "cli remove" THEN "down" ELSE phase)
         \/ task'[w].op = task[w].op /\ task'[w].stage \in {"locking", "rewriting"} /\ phase' = phase,
         Shaped(w)',
         UNCHANGED <<foreground, todo, slot, borrowed, remembered, unrestored, queue>>,
         task[w].op = "cli remove" \/ UNCHANGED file, file' \in SUBSET Projects,
         lease' \in [Projects -> {"free", "service"} \cup Workers],
         \A p \in Projects : lease'[p] = "service" <=> lease[p] = "service",
         exists' \in SUBSET Projects,
         \A p \in Projects : p \in exists /\ lease[p] = "service" => p \in exists'
  PROVE  Inductive'
<1> USE InductiveParts, IdleFields DEF Rest
<1>1. /\ w \in Tasks /\ w # Main /\ task[w] # Idle /\ w \notin Inside
      /\ task[w].stage \in {"locking", "rewriting"}
      /\ task[w].op = "cli remove" => phase = "offline"
      /\ \A p \in Projects : ~ Owner(w, p) /\ ~ Starting(w, p) /\ ~ Opened(w, p)
  BY ForeignFacts
<1>2. w \notin Inside'
  BY DEF Inside
<1>3. WorkShaped' /\ LockKept' /\ Inside' \subseteq Inside
  BY <1>2, OneStep
<1>4. QueueKept'
  BY <1>1, QueueStays
<1>5. \A p \in Projects : ~ Owner(w, p)' /\ ~ Starting(w, p)' /\ ~ Opened(w, p)'
  BY DEF Owner, Starting, Stopping, Opened, Foreign
<1>6. SlotsOwned'
  BY <1>1, <1>5, SlotsStep
<1>7. LeasesHeld'
  <2>1. \A v \in Workers, p \in Projects : Opened(v, p)' => Opened(v, p) /\ task'[v] = task[v]
    BY <1>5 DEF Opened, Starting
  <2>2. QED
    BY <2>1 DEF LeasesHeld
<1>8. Main \in Workers /\ task'[Main] = task[Main]
  BY <1>1 DEF Workers
<1>9. \A v \in Workers : /\ task'[v].op = "cli remove" => task[v].op = "cli remove"
                         /\ task[v] = Idle \/ task[v].op \in Foreign =>
                              task'[v] = Idle \/ task'[v].op \in Foreign
  OBVIOUS
<1>10. \A t \in Tasks : t \in Workers
  BY DEF Workers
<1>11. PhasesKept'
  <2>1. CASE phase' = phase
    <3>1. \A v \in Inside' : v \in Inside /\ task'[v] = task[v]
      BY <1>2, <1>3 DEF Inside
    <3>2. At(Main, "shutdown", "stopping")' <=> At(Main, "shutdown", "stopping")
      BY <1>8 DEF At
    <3>3. phase = "drained" => \A v \in Inside' : task'[v].stage = "admitted"
      <4>1. phase = "drained" => \A v \in Inside : task[v].stage = "admitted"
        BY DEF PhasesKept
      <4>2. QED
        BY <3>1, <4>1, Zenon
    <3>4. phase \in {"down", "offline"} => \A v \in Workers : task'[v] = Idle \/ task'[v].op \in Foreign
      BY <1>9 DEF PhasesKept
    <3>5. phase = "restoring" => \A t \in Tasks : task'[t] = Idle \/ task'[t].op \in Foreign
      BY <1>9, <1>10 DEF PhasesKept
    <3>6. \A u, v \in Workers : task'[v].op = "cli remove" =>
            /\ phase = "offline"
            /\ task'[u].op = "cli remove" => v = u
      BY <1>9 DEF PhasesKept
    <3>7. QED
      BY <1>8, <2>1, <3>2, <3>3, <3>4, <3>5, <3>6 DEF PhasesKept
  <2>2. CASE phase' = "down" /\ task[w].op = "cli remove" /\ task'[w] = Idle
    <3>1. phase = "offline"
      BY <1>1, <2>2
    <3>2. \A v \in Workers : task'[v].op # "cli remove"
      BY <2>2 DEF PhasesKept
    <3>3. task'[Main].op # "shutdown"
      BY <1>8, <3>1 DEF PhasesKept
    <3>4. QED
      BY <1>8, <1>9, <2>2, <3>1, <3>2, <3>3 DEF PhasesKept, At
  <2>3. QED
    BY <2>1, <2>2
<1>12. ListKept'
  <2>1. CASE task[w].op = "cli remove"
    BY <1>1, <2>1 DEF ListKept
  <2>2. CASE task[w].op # "cli remove"
    <3>1. phase' = phase /\ file' = file
      BY <2>2
    <3>2. \A v \in Workers, p \in Projects :
            Starting(v, p)' /\ task'[v].stage = "recorded" <=> Starting(v, p) /\ task[v].stage = "recorded"
      BY <1>1, <1>5 DEF Starting
    <3>3. \A p \in Projects : Expected(p) => Expected(p)'
      BY <1>8, <3>2 DEF Expected
    <3>4. QED
      BY <3>1, <3>2, <3>3 DEF ListKept, Types
  <2>3. QED
    BY <2>1, <2>2
<1>13. Types'
  <2>1. phase' \in {"down", "offline", "restoring", "up", "closing", "drained"}
    BY DEF Types
  <2>2. QED
    BY <2>1 DEF Types
<1>14. QED
  BY <1>3, <1>4, <1>6, <1>7, <1>11, <1>12, <1>13, PartsInductive

LEMMA ForeignReturns ==
  ASSUME Inductive, NEW w \in Workers, task[w].op \in Foreign, Return(w),
         UNCHANGED <<foreground, todo, slot, borrowed, remembered, unrestored, queue>>,
         task[w].op = "cli remove" \/ UNCHANGED file, file' \in SUBSET Projects,
         exists' \in SUBSET Projects,
         \A p \in Projects : p \in exists /\ lease[p] = "service" => p \in exists'
  PROVE  Inductive'
<1>1. /\ task' \in [Workers -> Work] /\ task'[w] = Idle
      /\ \A v \in Workers : v # w => task'[v] = task[v]
      /\ lease' \in [Projects -> {"free", "service"} \cup Workers]
      /\ \A p \in Projects : lease'[p] = "service" <=> lease[p] = "service"
      /\ phase' = IF task[w].op = "cli remove" THEN "down" ELSE phase
  BY InductiveParts, Returned
<1>2. Shaped(w)'
  BY <1>1 DEF Shaped
<1>3. QED
  BY <1>1, <1>2, ForeignStep

\* A branch that a process has locked has no service.
LEMMA LockedUnserved ==
  ASSUME Types, NEW w \in Workers, Locked(w), NEW p \in task[w].scope
  PROVE  lease[p] # "service"
BY RegistryAssumption DEF Locked

LEMMA QuitInductive ==
  ASSUME Inductive, NEW t \in Tasks, Quit(t)
  PROVE  Inductive'
<1>1. /\ task[t].op \in Foreign /\ Return(t) /\ t \in Workers
      /\ UNCHANGED <<foreground, todo, slot, borrowed, remembered, file, exists,
                     unrestored, queue>>
  BY DEF Quit, Workers
<1>2. exists' \in SUBSET Projects /\ file' \in SUBSET Projects
  BY <1>1, InductiveParts DEF Types
<1>3. QED
  BY <1>1, <1>2, ForeignReturns

LEMMA RewriteInductive ==
  ASSUME Inductive, NEW w \in Workers, Rewrite(w)
  PROVE  Inductive'
<1>1. /\ task[w].op = "cli remove" /\ Return(w) /\ file' = file \ task[w].scope
      /\ UNCHANGED <<foreground, todo, slot, borrowed, remembered, exists,
                     unrestored, queue>>
  BY DEF Rewrite, At
<1>2. exists' \in SUBSET Projects /\ file' \in SUBSET Projects
  BY <1>1, InductiveParts DEF Types
<1>3. QED
  BY <1>1, <1>2, ForeignReturns DEF Foreign

\* An operation at its deletion: of the server, inside the lock, or foreign.
LEMMA LockingFacts ==
  ASSUME Inductive, NEW w \in Workers, task[w].stage = "locking"
  PROVE  \/ w \in Inside /\ task[w].op \in {"remove", "delete"}
         \/ task[w].op \in Foreign
<1>1. Shaped(w) /\ task[w] # Idle
  BY InductiveParts, IdleFields DEF Rest, WorkShaped
<1>2. QED
  BY <1>1 DEF Shaped, Inside, Foreign

\* It returns, having deleted nothing that is served.
LEMMA LockingReturns ==
  ASSUME Inductive, NEW w \in Workers, task[w].stage = "locking", Return(w),
         UNCHANGED <<foreground, todo, slot, borrowed, remembered, file, unrestored, queue>>,
         exists' \in SUBSET Projects,
         \A p \in Projects : p \in exists /\ lease[p] = "service" => p \in exists'
  PROVE  Inductive'
<1>1. file' \in SUBSET Projects
  BY InductiveParts DEF Types
<1>2. CASE w \in Inside /\ task[w].op \in {"remove", "delete"}
  <2>1. w # Main /\ \A p \in Projects : ~ Owner(w, p)
    BY <1>2, StopFacts
  <2>2. task[w].op # "shutdown"
    BY <1>2
  <2>3. QED
    BY <1>2, <2>1, <2>2, GoneInductive
<1>3. CASE task[w].op \in Foreign
  BY <1>1, <1>3, ForeignReturns
<1>4. QED
  BY <1>2, <1>3, LockingFacts

LEMMA LockInductive ==
  ASSUME Inductive, NEW w \in Workers, Lock(w)
  PROVE  Inductive'
<1> USE InductiveParts, IdleFields DEF Rest
<1>1. /\ task[w].stage = "locking"
      /\ UNCHANGED <<foreground, todo, slot, borrowed, remembered, file, exists,
                     unrestored, queue>>
  BY DEF Lock
<1>2. PICK p \in task[w].scope :
        /\ lease[p] # w
        /\ IF lease[p] = "free"
           THEN lease' = [lease EXCEPT ![p] = w] /\ UNCHANGED <<phase, task>>
           ELSE Return(w)
  BY DEF Lock
<1>3. CASE Return(w)
  <2>1. exists' \in SUBSET Projects /\ \A q \in Projects : q \in exists => q \in exists'
    BY <1>1 DEF Types
  <2>2. QED
    BY <1>1, <1>3, <2>1, LockingReturns
<1>4. CASE lease[p] = "free" /\ lease' = [lease EXCEPT ![p] = w] /\ UNCHANGED <<phase, task>>
  <2>1. WorkShaped' /\ QueueKept' /\ LockKept'
    BY <1>1, <1>4, SameWork
  <2>2. \A v \in Workers, q \in Projects : (Owner(v, q)' <=> Owner(v, q)) /\ (Opened(v, q)' <=> Opened(v, q))
    BY <1>4 DEF Owner, Opened, Starting, Stopping
  <2>3. SlotsOwned'
    BY <1>1, <2>2, SlotsStay
  <2>4. \A q \in Projects : lease[q] = "service" => lease'[q] = "service"
    BY <1>4 DEF Types
  <2>5. LeasesHeld'
    BY <1>1, <1>4, <2>2, <2>4 DEF LeasesHeld
  <2>6. PhasesKept'
    <3>1. Inside' = Inside
      BY <1>4 DEF Inside
    <3>2. QED
      BY <1>1, <1>4, <3>1 DEF PhasesKept, At
  <2>7. ListKept'
    BY <1>1, <1>4 DEF ListKept, Expected, Starting
  <2>8. lease' \in [Projects -> {"free", "service"} \cup Workers]
    BY <1>4 DEF Types
  <2>9. Types'
    BY <1>1, <1>4, <2>8 DEF Types
  <2>10. QED
    BY <2>1, <2>3, <2>5, <2>6, <2>7, <2>9, PartsInductive
<1>5. QED
  BY <1>2, <1>3, <1>4

LEMMA EraseInductive ==
  ASSUME Inductive, NEW w \in Workers, Erase(w)
  PROVE  Inductive'
<1> USE InductiveParts, IdleFields DEF Rest
<1>1. /\ task[w].stage = "locking" /\ Locked(w)
      /\ exists' = exists \ task[w].scope \/ exists' = exists
      /\ UNCHANGED <<foreground, todo, slot, borrowed, remembered, file,
                     unrestored, queue>>
  BY DEF Erase
<1>2. exists' \in SUBSET Projects
  BY <1>1 DEF Types
<1>3. \A p \in Projects : p \in exists /\ lease[p] = "service" => p \in exists'
  BY <1>1, LockedUnserved
<1>4. CASE Return(w)
  BY <1>1, <1>2, <1>3, <1>4, LockingReturns
<1>5. CASE task[w].op = "cli remove" /\ Goto(w, "rewriting") /\ UNCHANGED <<phase, lease>>
  <2>1. /\ task' \in [Workers -> Work]
        /\ task'[w].op = task[w].op /\ task'[w].scope = task[w].scope
        /\ task'[w].stage = "rewriting" /\ task'[w].busy = task[w].busy
        /\ \A v \in Workers : v # w => task'[v] = task[v]
    BY <1>5, Moved DEF Stages
  <2>2. task[w].op \in Foreign
    BY <1>5 DEF Foreign
  <2>3. Shaped(w) /\ task[w] # Idle
    BY <2>2, ForeignFacts
  <2>4. Shaped(w)'
    BY <1>5, <2>1, <2>3 DEF Shaped
  <2>5. /\ lease' \in [Projects -> {"free", "service"} \cup Workers]
        /\ \A p \in Projects : lease'[p] = "service" <=> lease[p] = "service"
        /\ file' \in SUBSET Projects /\ phase' = phase
    BY <1>1, <1>5 DEF Types
  <2>6. task'[w].stage \in {"locking", "rewriting"}
    BY <2>1
  <2>7. QED
    BY <1>1, <1>2, <1>3, <2>1, <2>2, <2>4, <2>5, <2>6, ForeignStep
<1>6. QED
  BY <1>4, <1>5 DEF Erase

\* A deletion is started from the command line.
LEMMA ForeignStarts ==
  ASSUME Inductive, NEW t \in Tasks, NEW op \in Foreign, NEW scope \in SUBSET Projects,
         task[t] = Idle,
         task' = [task EXCEPT ![t] =
           [op |-> op, scope |-> scope, stage |-> "locking", busy |-> {}]],
         IF op = "cli remove" THEN phase = "down" /\ phase' = "offline" ELSE phase' = phase,
         UNCHANGED <<foreground, todo, slot, lease, borrowed, remembered, file,
                     exists, unrestored, queue>>
  PROVE  Inductive'
<1> USE InductiveParts, IdleFields DEF Rest
<1> DEFINE new == [op |-> op, scope |-> scope, stage |-> "locking", busy |-> {}]
<1>1. t \in Workers /\ t # Main /\ Main \in Workers
  BY RegistryAssumption DEF Workers
<1>2. /\ new \in Work /\ new.op = op /\ new.scope = scope /\ new.stage = "locking"
      /\ new.busy = {}
  BY DEF Work, Ops, Stages, Foreign
<1>3. task' = [task EXCEPT ![t] = new]
  OBVIOUS
<1> HIDE DEF new
<1>4. /\ task' \in [Workers -> Work] /\ task'[t] = new
      /\ \A v \in Workers : v # t => task'[v] = task[v]
  BY <1>1, <1>2, <1>3, Replaced
<1>5. Shaped(t)'
  BY <1>2, <1>4 DEF Shaped, Foreign
<1>6. t \notin Inside'
  BY <1>2, <1>4 DEF Inside
<1>7. WorkShaped' /\ LockKept' /\ Inside' \subseteq Inside
  BY <1>1, <1>4, <1>5, <1>6, OneStep
<1>8. QueueKept'
  BY <1>1, <1>4, QueueStays
<1>9. \A v \in Workers, q \in Projects : Owner(v, q)' <=> Owner(v, q)
  BY <1>2, <1>4 DEF Owner, Starting, Stopping, Foreign
<1>10. SlotsOwned'
  BY <1>9, SlotsStay
<1>11. LeasesHeld'
  BY <1>2, <1>4 DEF LeasesHeld, Opened, Starting, Foreign
<1>12. task'[Main] = task[Main]
  BY <1>1, <1>4
<1>13. \A v \in Workers : task[v] = Idle \/ task[v].op \in Foreign =>
                            task'[v] = Idle \/ task'[v].op \in Foreign
  BY <1>2, <1>4
<1>14. \A v \in Workers : v # t /\ task'[v].op = "cli remove" => task[v].op = "cli remove"
  BY <1>4
<1>15. \A v \in Tasks : v \in Workers
  BY DEF Workers
<1>16. ~ At(Main, "shutdown", "stopping")' \/ At(Main, "shutdown", "stopping")
  BY <1>12 DEF At
<1>17. PhasesKept'
  <2>1. CASE op = "cli remove"
    <3>1. \A v \in Workers : task[v].op # "cli remove"
      BY <2>1 DEF PhasesKept
    <3>2. task'[Main].op # "shutdown"
      BY <1>12, <2>1 DEF PhasesKept
    <3>3. \A v \in Workers : task'[v].op = "cli remove" => v = t
      BY <1>14, <3>1
    <3>4. QED
      BY <1>13, <2>1, <3>2, <3>3 DEF PhasesKept, At
  <2>2. CASE op # "cli remove"
    <3>1. phase' = phase
      BY <2>2
    <3>2. phase \in {"down", "offline"} => \A v \in Workers : task'[v] = Idle \/ task'[v].op \in Foreign
      BY <1>13 DEF PhasesKept
    <3>3. phase = "restoring" => \A v \in Tasks : task'[v] = Idle \/ task'[v].op \in Foreign
      BY <1>13, <1>15 DEF PhasesKept
    <3>4. \A v \in Workers : task'[v].op = "cli remove" => task[v].op = "cli remove"
      BY <1>2, <1>4, <2>2
    <3>5. \A u, v \in Workers : task'[v].op = "cli remove" =>
            /\ phase = "offline"
            /\ task'[u].op = "cli remove" => v = u
      BY <3>4 DEF PhasesKept
    <3>6. \A v \in Inside' : v \in Inside /\ task'[v] = task[v]
      BY <1>4, <1>6, <1>7 DEF Inside
    <3>7. phase = "drained" => \A v \in Inside' : task'[v].stage = "admitted"
      BY <3>6 DEF PhasesKept
    <3>8. QED
      BY <1>12, <1>16, <3>1, <3>2, <3>3, <3>5, <3>7 DEF PhasesKept
  <2>3. QED
    BY <2>1, <2>2
<1>18. ListKept'
  <2>1. CASE op = "cli remove"
    BY <2>1 DEF ListKept
  <2>2. CASE op # "cli remove"
    <3>1. \A v \in Workers, q \in Projects :
            Starting(v, q)' /\ task'[v].stage = "recorded" <=> Starting(v, q) /\ task[v].stage = "recorded"
      BY <1>2, <1>4 DEF Starting
    <3>2. \A q \in Projects : Expected(q) => Expected(q)'
      BY <1>12, <3>1 DEF Expected
    <3>3. QED
      BY <2>2, <3>1, <3>2 DEF ListKept, Types
  <2>3. QED
    BY <2>1, <2>2
<1>19. Types'
  <2>1. phase' \in {"down", "offline", "restoring", "up", "closing", "drained"}
    BY DEF Types
  <2>2. QED
    BY <1>4, <2>1 DEF Types
<1>20. QED
  BY <1>7, <1>8, <1>10, <1>11, <1>17, <1>18, <1>19, PartsInductive

LEMMA CommandInductive ==
  ASSUME Inductive, NEW t \in Tasks, Command(t)
  PROVE  Inductive'
<1>1. \A p \in Projects : {p} \in SUBSET Projects
  OBVIOUS
<1>2. \A d \in Databases : d \in SUBSET Projects
  BY DEF Projects
<1>3. CASE \E op \in Ops : \/ \E p \in Projects : Accept(t, op, {p})
                           \/ \E d \in Databases : Accept(t, op, d)
  BY <1>1, <1>2, <1>3, AcceptInductive
<1>4. CASE \E d \in Databases : RemoveOffline(t, d)
  <2>1. PICK d \in Databases : RemoveOffline(t, d)
    BY <1>4
  <2>2. d \in SUBSET Projects /\ "cli remove" \in Foreign
    BY <1>2 DEF Foreign
  <2>3. QED
    BY <2>1, <2>2, ForeignStarts DEF RemoveOffline
<1>5. CASE \E p \in Projects : DeleteByCli(t, p)
  <2>1. PICK p \in Projects : DeleteByCli(t, p)
    BY <1>5
  <2>2. {p} \in SUBSET Projects /\ "cli delete" \in Foreign /\ "cli delete" # "cli remove"
    BY DEF Foreign
  <2>3. QED
    BY <2>1, <2>2, ForeignStarts DEF DeleteByCli
<1>6. QED
  BY <1>3, <1>4, <1>5 DEF Command

-----------------------------------------------------------------------------
(***************************************************************************)
(* All steps, and the theorems.                                            *)
(***************************************************************************)
LEMMA WorkingInductive ==
  ASSUME Inductive, NEW w \in Workers, Working(w)
  PROVE  Inductive'
BY ReserveInductive, LeaseInductive, LoadInductive, RecordInductive,
   PublishInductive, UnreserveInductive, StopInductive, DropInductive,
   VacateInductive, RemoveInductive, RemoveStopInductive,
   RemoveForgetInductive, LockInductive, EraseInductive, RewriteInductive
   DEF Working

LEMMA NextInductive == Inductive /\ [Next]_vars => Inductive'
<1> SUFFICES ASSUME Inductive, [Next]_vars PROVE Inductive'
  OBVIOUS
<1>1. CASE \E fg \in BOOLEAN : Serve(fg)
  BY <1>1, ServeInductive
<1>2. CASE RestoreNext
  BY <1>2, RestoreNextInductive
<1>3. CASE Ready
  BY <1>3, ReadyInductive
<1>4. CASE Close
  BY <1>4, CloseInductive
<1>5. CASE TakeAll
  BY <1>5, TakeAllInductive
<1>6. CASE ShutAll
  BY <1>6, ShutAllInductive
<1>7. CASE Exit \/ Crash
  BY <1>7, ExitInductive
<1>8. CASE \E t \in Tasks : Command(t) \/ Enqueue(t) \/ Quit(t)
  BY <1>8, CommandInductive, EnqueueInductive, QuitInductive
<1>9. CASE Admit
  BY <1>9, AdmitInductive
<1>10. CASE \E p \in Projects : Borrow(p) \/ GiveBack(p) \/ Create(p)
  BY <1>10, BorrowInductive
<1>11. CASE \E w \in Workers : Working(w)
  BY <1>11, WorkingInductive
<1>12. CASE UNCHANGED vars
  <2> USE InductiveParts DEF Rest
  <2>1. UNCHANGED <<phase, foreground, todo, slot, lease, borrowed, remembered, file,
                    exists, unrestored, task, queue>>
    BY <1>12 DEF vars
  <2>2. WorkShaped' /\ QueueKept' /\ LockKept'
    BY <2>1, SameWork
  <2>3. SlotsOwned' /\ LeasesHeld'
    BY <2>1 DEF SlotsOwned, LeasesHeld, Owner, Starting, Stopping, Opened
  <2>4. PhasesKept'
    <3>1. Inside' = Inside
      BY <2>1 DEF Inside
    <3>2. QED
      BY <2>1, <3>1 DEF PhasesKept, At
  <2>5. ListKept'
    BY <2>1 DEF ListKept, Expected, Starting
  <2>6. Types'
    BY <2>1 DEF Types
  <2>7. QED
    BY <2>2, <2>3, <2>4, <2>5, <2>6, PartsInductive
<1>13. QED
  BY <1>1, <1>2, <1>3, <1>4, <1>5, <1>6, <1>7, <1>8, <1>9, <1>10, <1>11,
     <1>12 DEF Next

\* In every reachable state each slot that is being changed has one operation
\* that is at it, each lease the holder the operations say, and the two copies
\* of the restore list agree with both.
THEOREM InductiveInvariant == Spec => []Inductive
BY InitInductive, NextInductive, PTL DEF Spec

\* The state is of its types; a slot that is "changing state" belongs to an
\* operation that is under way (Server::branches).
THEOREM TypeCorrect == Spec => []TypeOK
<1>1. Inductive => TypeOK
  BY DEF Inductive
<1>2. QED
  BY <1>1, InductiveInvariant, PTL

\* A branch in the registry exists and has its own lease: no deletion, of the
\* server or of a command line, takes it away from under its service.
THEOREM ServedBranchesExist == Spec => []ServedExists
<1>1. Inductive => ServedExists
  BY DEF Inductive, LeasesHeld, ServedExists
<1>2. QED
  BY <1>1, InductiveInvariant, PTL

\* The memory and the file of the restore list agree and contain every branch
\* that is open: whenever the server crashes, it starts those again.
THEOREM OpenAreRemembered == Spec => []OpenRemembered
<1>1. Inductive => OpenRemembered
  <2> SUFFICES ASSUME Inductive, foreground, phase # "down"
               PROVE  /\ remembered = file \/ phase = "offline"
                      /\ \A p \in Projects : slot[p] = "open" => p \in file
    BY DEF OpenRemembered
  <2>1. CASE phase = "offline"
    BY <2>1 DEF Inductive, PhasesKept
  <2>2. CASE phase # "offline"
    BY <2>2 DEF Inductive, ListKept
  <2>3. QED
    BY <2>1, <2>2
<1>2. QED
  BY <1>1, InductiveInvariant, PTL

\* A branch of the restore list runs, is being worked on, or could not be
\* restored: no other is started again after a crash.
THEOREM ListIsExact == Spec => []RestoreListExact
<1>1. Inductive => RestoreListExact
  <2> SUFFICES ASSUME Inductive, foreground, phase = "up", NEW p \in file
               PROVE  slot[p] = "open" \/ Touched(p) \/ p \in unrestored
    BY DEF RestoreListExact
  <2>1. Expected(p) /\ p \in Projects
    BY InductiveParts DEF Inductive, ListKept, Types
  <2>2. todo = {} /\ task[Main].op # "start"
    BY IdleFields DEF Inductive, PhasesKept
  <2>3. \A w \in Workers : Starting(w, p) => Touched(p)
    <3> TAKE w \in Workers
    <3> HAVE Starting(w, p)
    <3>1. Owner(w, p) /\ WorkShaped
      BY DEF Inductive, Owner
    <3>2. w \in Inside /\ p \in task[w].scope
      BY <2>1, <3>1, OwnersInside
    <3>3. QED
      BY <3>2 DEF Touched
  <2>4. QED
    BY <2>1, <2>2, <2>3 DEF Expected
<1>2. QED
  BY <1>1, InductiveInvariant, PTL

\* Once the shutdown has returned nothing is served or being opened, although
\* starts that had waited for the lock go on after it.
THEOREM DrainedIsEmpty == Spec => []DrainedEmpty
<1>1. Inductive => DrainedEmpty
  BY DEF Inductive, PhasesKept, DrainedEmpty
<1>2. QED
  BY <1>1, InductiveInvariant, PTL

=============================================================================
