--------------------------- MODULE ServerRegistry ---------------------------
(***************************************************************************)
(* The entry server's registry of branches (src/server.rs,                 *)
(* src/server/projects.rs; deletions in src/service.rs).                   *)
(*                                                                         *)
(* Management operations run as tasks of one process.  Most hold a shared  *)
(* lock for their whole duration, a removal and the shutdown an exclusive  *)
(* one.  A start reserves the branch's slot, loads the branch without any  *)
(* registry lock, records it in the restore list and publishes it; a stop  *)
(* takes the steps back.  Command-line deletions are processes of their    *)
(* own that know nothing of the slots and meet the server at the branch's  *)
(* cache lease alone.  The server may crash at any point; only the         *)
(* database and the restore file survive.                                  *)
(***************************************************************************)
EXTENDS Naturals, Sequences, FiniteSets

CONSTANTS
  Databases,   \* each database, as the set of its branches
  Mains,       \* the branch main of each database
  Tasks,       \* bound: management tasks and command-line processes at once
  Main,        \* the server's own thread: restores branches, shuts down
  None         \* no process

Projects == UNION Databases
Workers == Tasks \cup {Main}

ASSUME RegistryAssumption ==
  /\ Main \notin Tasks
  /\ None \notin Workers
  /\ "free" \notin Workers /\ "service" \notin Workers
  /\ \A d, e \in Databases : d # e => d \cap e = {}
  /\ \A d \in Databases : Cardinality(d \cap Mains) = 1

VARIABLES
  phase,        \* of the entry server; "offline": a removal holds its lease
  foreground,   \* the server keeps a restore list
  todo,         \* remembered branches still to be restored
  slot,         \* per branch: Server::branches
  lease,        \* per branch: who holds the lease of its cache
  borrowed,     \* branches whose service a request or a status poll holds
  remembered,   \* Server::remembered
  file,         \* active-projects.json
  exists,       \* branches in the database
  unrestored,   \* history: branches this server failed to restore
  task,         \* per worker: its operation and how far it has come
  queue         \* workers waiting for the operations lock, in order

vars == <<phase, foreground, todo, slot, lease, borrowed, remembered, file,
          exists, unrestored, task, queue>>

Ops == {"none", "start", "stop", "remove", "delete", "shutdown",
        "cli delete", "cli remove"}

Stages == {"idle", "accepted", "queued", "admitted",
           "reserved", "leased", "loaded", "recorded", "failed",
           "stopping", "stopped", "removing", "locking", "rewriting"}

\* scope: the branches the operation is about; busy: those it is stopping.
Work == [op : Ops, scope : SUBSET Projects, stage : Stages,
         busy : SUBSET Projects]

Excluding == {"remove", "shutdown"}

Foreign == {"cli delete", "cli remove"}

\* Operations that hold the operations lock.
Inside == {w \in Workers : /\ task[w].stage \notin {"idle", "accepted", "queued"}
                           /\ task[w].op \notin Foreign}

Touched(p) == \E w \in Inside : p \in task[w].scope

\* A reservation belongs to an operation that is under way.
TypeOK ==
  /\ phase \in {"down", "offline", "restoring", "up", "closing", "drained"}
  /\ foreground \in BOOLEAN
  /\ todo \in SUBSET Projects
  /\ slot \in [Projects -> {"absent", "reserved", "open"}]
  /\ lease \in [Projects -> {"free", "service"} \cup Workers]
  /\ borrowed \in SUBSET Projects
  /\ remembered \in SUBSET Projects
  /\ file \in SUBSET Projects
  /\ exists \in SUBSET Projects
  /\ unrestored \in SUBSET Projects
  /\ task \in [Workers -> Work]
  /\ queue \in Seq(Workers)
  /\ \A p \in Projects : slot[p] = "reserved" => Touched(p)

Idle == [op |-> "none", scope |-> {}, stage |-> "idle", busy |-> {}]

Init ==
  /\ phase = "down" /\ foreground = FALSE
  /\ todo = {} /\ remembered = {} /\ unrestored = {}
  /\ slot = [p \in Projects |-> "absent"]
  /\ lease = [p \in Projects |-> "free"]
  /\ borrowed = {}
  /\ file = {}
  /\ exists \in {{}, Projects}
  /\ task = [w \in Workers |-> Idle]
  /\ queue = <<>>

-----------------------------------------------------------------------------
Closing == phase \in {"closing", "drained"}

At(w, op, stage) == task[w].op = op /\ task[w].stage = stage

Goto(w, stage) == task' = [task EXCEPT ![w].stage = stage]

\* The operation has returned and dropped its leases; an offline removal also
\* drops the lease of the entry server.
Return(w) ==
  /\ task' = [task EXCEPT ![w] = Idle]
  /\ lease' = [p \in Projects |-> IF lease[p] = w THEN "free" ELSE lease[p]]
  /\ phase' = IF task[w].op = "cli remove" THEN "down" ELSE phase

\* Everything the server process held goes with it; other processes stay.
Die ==
  /\ phase' = "down"
  /\ todo' = {} /\ remembered' = {} /\ borrowed' = {} /\ unrestored' = {}
  /\ slot' = [p \in Projects |-> "absent"]
  /\ lease' = [p \in Projects |->
                 IF lease[p] \in Workers /\ task[lease[p]].op \in Foreign
                 THEN lease[p] ELSE "free"]
  /\ task' = [w \in Workers |-> IF task[w].op \in Foreign THEN task[w] ELSE Idle]
  /\ queue' = <<>>
  /\ UNCHANGED <<foreground, file, exists>>

-----------------------------------------------------------------------------
(***************************************************************************)
(* serve: restore the remembered branches, one after the other, then       *)
(* accept requests.                                                        *)
(***************************************************************************)
Serve(fg) ==
  /\ phase = "down"
  /\ phase' = "restoring"
  /\ foreground' = fg
  /\ remembered' = IF fg THEN file ELSE {}
  /\ todo' = IF fg THEN file ELSE {}
  /\ UNCHANGED <<slot, lease, borrowed, file, exists, unrestored, task, queue>>

RestoreNext ==
  /\ phase = "restoring" /\ task[Main] = Idle
  /\ \E p \in todo :
       /\ todo' = todo \ {p}
       /\ task' = [task EXCEPT ![Main] =
            [op |-> "start", scope |-> {p}, stage |-> "queued", busy |-> {}]]
  /\ queue' = Append(queue, Main)
  /\ UNCHANGED <<phase, foreground, slot, lease, borrowed, remembered, file,
                 exists, unrestored>>

Ready ==
  /\ phase = "restoring" /\ task[Main] = Idle /\ todo = {}
  /\ phase' = "up"
  /\ UNCHANGED <<foreground, todo, slot, lease, borrowed, remembered, file,
                 exists, unrestored, task, queue>>

(***************************************************************************)
(* Server::shutdown: closing is set before the exclusive lock is awaited.  *)
(***************************************************************************)
Close ==
  /\ phase = "up"
  /\ phase' = "closing"
  /\ task' = [task EXCEPT ![Main] =
       [op |-> "shutdown", scope |-> {}, stage |-> "queued", busy |-> {}]]
  /\ queue' = Append(queue, Main)
  /\ UNCHANGED <<foreground, todo, slot, lease, borrowed, remembered, file,
                 exists, unrestored>>

TakeAll ==
  /\ At(Main, "shutdown", "admitted")
  /\ task' = [task EXCEPT ![Main].stage = "stopping",
                          ![Main].busy = {p \in Projects : slot[p] = "open"}]
  /\ slot' = [p \in Projects |-> "absent"]
  /\ UNCHANGED <<phase, foreground, todo, lease, borrowed, remembered, file,
                 exists, unrestored, queue>>

\* Mutant: the shutdown waits until no request holds a service any more.
ShutAllWaiting ==
  /\ At(Main, "shutdown", "stopping")
  /\ task[Main].busy \cap borrowed = {}
  /\ task' = [task EXCEPT ![Main] = Idle]
  /\ lease' = [p \in Projects |->
                 IF p \in task[Main].busy THEN "free" ELSE lease[p]]
  /\ phase' = "drained"
  /\ UNCHANGED <<foreground, todo, slot, borrowed, remembered, file, exists,
                 unrestored, queue>>

\* Every service is shut down and dropped; a service that a request still
\* holds keeps its lease.
ShutAll ==
  /\ At(Main, "shutdown", "stopping")
  /\ task' = [task EXCEPT ![Main] = Idle]
  /\ lease' = [p \in Projects |->
                 IF p \in task[Main].busy \ borrowed THEN "free" ELSE lease[p]]
  /\ phase' = "drained"
  /\ UNCHANGED <<foreground, todo, slot, borrowed, remembered, file, exists,
                 unrestored, queue>>

\* The process exits; tasks that came too late end with it.
Exit == phase = "drained" /\ Die

Crash == phase \in {"restoring", "up", "closing"} /\ Die

-----------------------------------------------------------------------------
(***************************************************************************)
(* Requests.  check_origin refuses them once the server is closing, but a  *)
(* request that has passed it asks for the operations lock later.          *)
(***************************************************************************)
Accept(t, op, scope) ==
  /\ task[t] = Idle
  /\ \/ op \in {"start", "stop", "delete"} /\ \E p \in scope : scope = {p}
     \/ op = "remove" /\ scope \in Databases
  /\ phase = "up"
  /\ task' = [task EXCEPT ![t] =
       [op |-> op, scope |-> scope, stage |-> "accepted", busy |-> {}]]
  /\ UNCHANGED <<phase, foreground, todo, slot, lease, borrowed, remembered,
                 file, exists, unrestored, queue>>

Enqueue(t) ==
  /\ task[t].stage = "accepted"
  /\ Goto(t, "queued")
  /\ queue' = Append(queue, t)
  /\ UNCHANGED <<phase, foreground, todo, slot, lease, borrowed, remembered,
                 file, exists, unrestored>>

\* tokio's RwLock is fair: whoever waits longest is next.
Admit ==
  /\ queue # <<>>
  /\ LET w == Head(queue) IN
       /\ \A v \in Inside : task[v].op \notin Excluding
       /\ task[w].op \in Excluding => Inside = {}
       /\ Goto(w, "admitted")
  /\ queue' = Tail(queue)
  /\ UNCHANGED <<phase, foreground, todo, slot, lease, borrowed, remembered,
                 file, exists, unrestored>>

\* A request or a status poll takes a clone of an open service, and drops it.
Borrow(p) ==
  /\ slot[p] = "open" /\ phase \in {"up", "closing"}
  /\ borrowed' = borrowed \cup {p}
  /\ UNCHANGED <<phase, foreground, todo, slot, lease, remembered, file,
                 exists, unrestored, task, queue>>

GiveBack(p) ==
  /\ p \in borrowed
  /\ borrowed' = borrowed \ {p}
  /\ lease' = IF \/ slot[p] = "open"
                 \/ \E w \in Workers : task[w].stage = "stopping" /\ p \in task[w].busy
              THEN lease ELSE [lease EXCEPT ![p] = "free"]
  /\ UNCHANGED <<phase, foreground, todo, slot, remembered, file, exists,
                 unrestored, task, queue>>

-----------------------------------------------------------------------------
\* Mutant: the write of the list is not waited for.
RememberLater(set) ==
  IF foreground THEN remembered' = set /\ file' \in {file, set}
                ELSE UNCHANGED <<remembered, file>>

(***************************************************************************)
(* Server::remember: the new list is written to a file beside the old one, *)
(* which it then replaces; only then does the memory follow.               *)
(***************************************************************************)
Remember(set) ==
  IF foreground THEN remembered' = set /\ file' = set
                ELSE UNCHANGED <<remembered, file>>

\* The write of the new list fails and leaves both copies alone.
RememberFails == foreground /\ UNCHANGED <<remembered, file>>

(***************************************************************************)
(* Server::start_branch.                                                   *)
(***************************************************************************)
\* Mutant: closing is not checked under the lock.
ReserveWhileClosing(w) ==
  /\ At(w, "start", "admitted")
  /\ \E p \in task[w].scope :
       IF slot[p] # "absent"
       THEN Return(w) /\ UNCHANGED slot
       ELSE /\ slot' = [slot EXCEPT ![p] = "reserved"]
            /\ Goto(w, "reserved") /\ UNCHANGED <<phase, lease>>
  /\ UNCHANGED <<foreground, todo, borrowed, remembered, file, exists,
                 unrestored, queue>>

Reserve(w) ==
  /\ At(w, "start", "admitted")
  /\ \E p \in task[w].scope :
       IF Closing \/ slot[p] # "absent"
       THEN Return(w) /\ UNCHANGED slot
       ELSE /\ slot' = [slot EXCEPT ![p] = "reserved"]
            /\ Goto(w, "reserved") /\ UNCHANGED <<phase, lease>>
  /\ UNCHANGED <<foreground, todo, borrowed, remembered, file, exists,
                 unrestored, queue>>

\* Service::open takes the lease of the branch's cache before it loads.
Lease(w) ==
  /\ At(w, "start", "reserved")
  /\ \E p \in task[w].scope :
       IF lease[p] = "free"
       THEN lease' = [lease EXCEPT ![p] = "service"] /\ Goto(w, "leased")
       ELSE Goto(w, "failed") /\ UNCHANGED lease
  /\ UNCHANGED <<phase, foreground, todo, slot, borrowed, remembered, file,
                 exists, unrestored, queue>>

\* Mutant: the branch is published although it could not be loaded.
LoadUnchecked(w) ==
  /\ At(w, "start", "leased")
  /\ Goto(w, "loaded")
  /\ UNCHANGED <<phase, foreground, todo, slot, lease, borrowed, remembered,
                 file, exists, unrestored, queue>>

\* The database answers, or fails.
Load(w) ==
  /\ At(w, "start", "leased")
  /\ \E p \in task[w].scope :
       \/ p \in exists /\ Goto(w, "loaded") /\ UNCHANGED lease
       \/ Goto(w, "failed") /\ lease' = [lease EXCEPT ![p] = "free"]
  /\ UNCHANGED <<phase, foreground, todo, slot, borrowed, remembered, file,
                 exists, unrestored, queue>>

Record(w) ==
  /\ At(w, "start", "loaded")
  /\ \E p \in task[w].scope :
       \/ /\ Remember(remembered \cup {p})
          /\ Goto(w, "recorded") /\ UNCHANGED lease
       \/ /\ RememberFails
          /\ Goto(w, "failed") /\ lease' = [lease EXCEPT ![p] = "free"]
  /\ UNCHANGED <<phase, foreground, todo, slot, borrowed, exists, unrestored,
                 queue>>

Publish(w) ==
  /\ At(w, "start", "recorded")
  /\ slot' = [p \in Projects |-> IF p \in task[w].scope THEN "open" ELSE slot[p]]
  /\ Return(w)
  /\ UNCHANGED <<foreground, todo, borrowed, remembered, file, exists,
                 unrestored, queue>>

\* Mutant: an error leaves the reservation behind.
UnreserveNot(w) ==
  /\ At(w, "start", "failed")
  /\ unrestored' = IF w = Main THEN unrestored \cup task[w].scope ELSE unrestored
  /\ Return(w)
  /\ UNCHANGED <<foreground, todo, slot, borrowed, remembered, file, exists,
                 queue>>

Unreserve(w) ==
  /\ At(w, "start", "failed")
  /\ slot' = [p \in Projects |-> IF p \in task[w].scope THEN "absent" ELSE slot[p]]
  /\ unrestored' = IF w = Main THEN unrestored \cup task[w].scope ELSE unrestored
  /\ Return(w)
  /\ UNCHANGED <<foreground, todo, borrowed, remembered, file, exists, queue>>

-----------------------------------------------------------------------------
(***************************************************************************)
(* Server::stop_branch and stop_branch_locked.                             *)
(***************************************************************************)
\* Mutant: a stopped branch stays in the list.
TakeDownKept(w, p) ==
  /\ UNCHANGED <<remembered, file>>
  /\ slot' = [slot EXCEPT ![p] = "reserved"]
  /\ task' = [task EXCEPT ![w].stage = "stopping", ![w].busy = {p}]
  /\ UNCHANGED <<phase, lease>>

\* The branch is forgotten while the map is locked, then its slot is reserved.
TakeDown(w, p) ==
  /\ Remember(remembered \ {p})
  /\ slot' = [slot EXCEPT ![p] = "reserved"]
  /\ task' = [task EXCEPT ![w].stage = "stopping", ![w].busy = {p}]
  /\ UNCHANGED <<phase, lease>>

Stop(w) ==
  /\ At(w, "stop", "admitted")
  /\ \E p \in task[w].scope :
       \/ slot[p] = "open" /\ TakeDown(w, p)
       \/ slot[p] = "open" /\ RememberFails /\ Return(w) /\ UNCHANGED slot
       \/ slot[p] # "open" /\ Return(w) /\ UNCHANGED <<slot, remembered, file>>
  /\ UNCHANGED <<foreground, todo, borrowed, exists, unrestored, queue>>

\* Service::shutdown has ended and the branch is dropped.
Drop(w) ==
  /\ task[w].op \in {"stop", "remove"} /\ task[w].stage = "stopping"
  /\ lease' = [p \in Projects |->
                 IF p \in task[w].busy \ borrowed THEN "free" ELSE lease[p]]
  /\ task' = [task EXCEPT ![w].stage = "stopped"]
  /\ UNCHANGED <<phase, foreground, todo, slot, borrowed, remembered, file,
                 exists, unrestored, queue>>

Vacate(w) ==
  /\ task[w].stage = "stopped"
  /\ slot' = [p \in Projects |-> IF p \in task[w].busy THEN "absent" ELSE slot[p]]
  /\ IF task[w].op = "stop"
     THEN Return(w)
     ELSE /\ task' = [task EXCEPT ![w].stage = "removing", ![w].busy = {}]
          /\ UNCHANGED <<phase, lease>>
  /\ UNCHANGED <<foreground, todo, borrowed, remembered, file, exists,
                 unrestored, queue>>

-----------------------------------------------------------------------------
(***************************************************************************)
(* Server::remove_database, and remove without a server.                   *)
(***************************************************************************)
Remove(w) ==
  /\ At(w, "remove", "admitted")
  /\ IF Closing \/ task[w].scope \cap Mains \cap exists = {}
     THEN Return(w)
     ELSE Goto(w, "removing") /\ UNCHANGED <<phase, lease>>
  /\ UNCHANGED <<foreground, todo, slot, borrowed, remembered, file, exists,
                 unrestored, queue>>

Open(scope) == {p \in scope : slot[p] = "open"}

RemoveStop(w) ==
  /\ At(w, "remove", "removing")
  /\ \E p \in Open(task[w].scope) :
       \/ TakeDown(w, p)
       \/ RememberFails /\ Return(w) /\ UNCHANGED slot
  /\ UNCHANGED <<foreground, todo, borrowed, exists, unrestored, queue>>

\* Branches whose restore failed are forgotten too.
RemoveForget(w) ==
  /\ At(w, "remove", "removing") /\ Open(task[w].scope) = {}
  /\ \E p \in remembered \cap task[w].scope :
       \/ Remember(remembered \ {p}) /\ UNCHANGED <<phase, task, lease>>
       \/ RememberFails /\ Return(w)
  /\ UNCHANGED <<foreground, todo, slot, borrowed, exists, unrestored, queue>>

RemoveNow(w) ==
  /\ At(w, "remove", "removing") /\ Open(task[w].scope) = {}
  /\ remembered \cap task[w].scope = {}
  /\ Goto(w, "locking")
  /\ UNCHANGED <<phase, foreground, todo, slot, lease, borrowed, remembered,
                 file, exists, unrestored, queue>>

\* "Prevent an entry server from starting halfway through offline removal."
RemoveOffline(t, d) ==
  /\ phase = "down" /\ task[t] = Idle
  /\ d \cap Mains \subseteq exists
  /\ phase' = "offline"
  /\ task' = [task EXCEPT ![t] =
       [op |-> "cli remove", scope |-> d, stage |-> "locking", busy |-> {}]]
  /\ UNCHANGED <<foreground, todo, slot, lease, borrowed, remembered, file,
                 exists, unrestored, queue>>

\* The restore list was read before the deletion; nobody else writes it.
Rewrite(t) ==
  /\ At(t, "cli remove", "rewriting")
  /\ file' = file \ task[t].scope
  /\ Return(t)
  /\ UNCHANGED <<foreground, todo, slot, borrowed, remembered, exists,
                 unrestored, queue>>

-----------------------------------------------------------------------------
(***************************************************************************)
(* delete_branch, as a management operation or from the command line, and  *)
(* delete_database.                                                        *)
(***************************************************************************)
Delete(w) ==
  /\ At(w, "delete", "admitted")
  /\ IF Closing \/ ~ task[w].scope \subseteq exists \ Mains
     THEN Return(w)
     ELSE Goto(w, "locking") /\ UNCHANGED <<phase, lease>>
  /\ UNCHANGED <<foreground, todo, slot, borrowed, remembered, file, exists,
                 unrestored, queue>>

DeleteByCli(t, p) ==
  /\ task[t] = Idle
  /\ p \in exists \ Mains
  /\ task' = [task EXCEPT ![t] =
       [op |-> "cli delete", scope |-> {p}, stage |-> "locking", busy |-> {}]]
  /\ UNCHANGED <<phase, foreground, todo, slot, lease, borrowed, remembered,
                 file, exists, unrestored, queue>>

Locked(w) == \A p \in task[w].scope : lease[p] = w

\* One lease per cache of the scope; one that is taken ends the operation.
Lock(w) ==
  /\ task[w].stage = "locking"
  /\ \E p \in task[w].scope :
       /\ lease[p] # w
       /\ IF lease[p] = "free"
          THEN lease' = [lease EXCEPT ![p] = w] /\ UNCHANGED <<phase, task>>
          ELSE Return(w)
  /\ UNCHANGED <<foreground, todo, slot, borrowed, remembered, file, exists,
                 unrestored, queue>>

\* Mutant: the database is asked first and the cache is locked for its
\* cleanup only.
EraseUnlocked(w) ==
  /\ task[w].stage = "locking"
  /\ exists' = exists \ task[w].scope
  /\ IF task[w].op = "cli remove"
     THEN Goto(w, "rewriting") /\ UNCHANGED <<phase, lease>>
     ELSE Return(w)
  /\ UNCHANGED <<foreground, todo, slot, borrowed, remembered, file,
                 unrestored, queue>>

\* A branch that went away meanwhile, or a database error, ends it as well.
Erase(w) ==
  /\ task[w].stage = "locking" /\ Locked(w)
  /\ \/ /\ exists' = exists \ task[w].scope
        /\ IF task[w].op = "cli remove"
           THEN Goto(w, "rewriting") /\ UNCHANGED <<phase, lease>>
           ELSE Return(w)
     \/ Return(w) /\ UNCHANGED exists
  /\ UNCHANGED <<foreground, todo, slot, borrowed, remembered, file,
                 unrestored, queue>>

\* The terminal closes or the process is killed.
Quit(t) ==
  /\ task[t].op \in Foreign
  /\ Return(t)
  /\ UNCHANGED <<foreground, todo, slot, borrowed, remembered, file, exists,
                 unrestored, queue>>

\* init and branch new need no lease; a fork needs the main branch.
Create(p) ==
  /\ p \notin exists
  /\ \E d \in Databases : p \in d /\ (p \in Mains \/ d \cap Mains \subseteq exists)
  /\ exists' = exists \cup {p}
  /\ UNCHANGED <<phase, foreground, todo, slot, lease, borrowed, remembered,
                 file, unrestored, task, queue>>

-----------------------------------------------------------------------------
Working(w) ==
  \/ Reserve(w) \/ Lease(w) \/ Load(w) \/ Record(w) \/ Publish(w)
  \/ Unreserve(w) \/ Stop(w) \/ Drop(w) \/ Vacate(w) \/ Remove(w)
  \/ RemoveStop(w) \/ RemoveForget(w) \/ RemoveNow(w) \/ Delete(w)
  \/ Lock(w) \/ Erase(w) \/ Rewrite(w)

Command(t) ==
  \/ \E op \in Ops : \/ \E p \in Projects : Accept(t, op, {p})
                     \/ \E d \in Databases : Accept(t, op, d)
  \/ \E d \in Databases : RemoveOffline(t, d)
  \/ \E p \in Projects : DeleteByCli(t, p)

Next ==
  \/ \E fg \in BOOLEAN : Serve(fg)
  \/ RestoreNext \/ Ready \/ Close \/ TakeAll \/ ShutAll \/ Exit \/ Crash
  \/ \E t \in Tasks : Command(t) \/ Enqueue(t) \/ Quit(t)
  \/ Admit
  \/ \E p \in Projects : Borrow(p) \/ GiveBack(p) \/ Create(p)
  \/ \E w \in Workers : Working(w)

\* Spawned tasks run to their end whatever the client does, and what they
\* wait for ends: database requests and native shutdowns have timeouts, and
\* tokio hands the lock on.  Nobody has to send requests or drop a service.
Fairness ==
  /\ WF_vars(RestoreNext) /\ WF_vars(Ready)
  /\ WF_vars(TakeAll) /\ WF_vars(ShutAll) /\ WF_vars(Admit)
  /\ \A t \in Tasks : WF_vars(Enqueue(t))
  /\ \A w \in Workers : WF_vars(Working(w))

Spec == Init /\ [][Next]_vars

FairSpec == Spec /\ Fairness

-----------------------------------------------------------------------------
(***************************************************************************)
(* Properties.                                                             *)
(***************************************************************************)

\* A branch in the registry exists and has its own lease: no deletion, of the
\* branch or of its database, by the server or by another process, takes a
\* branch away from under its service.
ServedExists ==
  \A p \in Projects : slot[p] = "open" => p \in exists /\ lease[p] = "service"

\* At all times a crash would restore the branches in the registry.
OpenRemembered ==
  foreground /\ phase # "down" =>
    /\ remembered = file \/ phase = "offline"
    /\ \A p \in Projects : slot[p] = "open" => p \in file

\* "Stopping an individual branch removes it from that set": a branch that is
\* neither running nor being worked on is not started again, unless it was
\* already to be restored and could not be.
RestoreListExact ==
  foreground /\ phase = "up" =>
    \A p \in file : slot[p] = "open" \/ Touched(p) \/ p \in unrestored

\* Once shutdown has returned, nothing is served or being opened, although
\* starts that were waiting for the lock go on after it.
DrainedEmpty ==
  phase = "drained" =>
    \A p \in Projects : slot[p] = "absent"

\* "It also removes this project's foreground restore entries": the server has
\* done so when it has removed the database.
RemovalForgets ==
  [][\A w \in Tasks :
       At(w, "remove", "locking") /\ exists' # exists /\ task'[w] = Idle
         => file' \cap task[w].scope = {}]_vars

\* A branch is never stuck in "changing state": its start or stop ends.
ReservationsEnd ==
  \A p \in Projects : slot[p] = "reserved" ~> slot[p] # "reserved"

\* A stop of the server ends, whatever operations are under way or arrive.
ShutdownEnds == phase = "closing" ~> phase # "closing"
=============================================================================
