----------------------------- MODULE CacheLease -----------------------------
(***************************************************************************)
(* The lease on one cache directory (src/file_lock.rs; acquire_lease,      *)
(* running_service and delete_branch in src/service.rs).                   *)
(*                                                                         *)
(* Keepers are the processes that take the lease: a server opening the     *)
(* branch, or a deletion of the branch.  A keeper opens service.lock,      *)
(* flocks that inode, and only then compares it with the path, because a   *)
(* deletion may have renamed the directory away in between.  A service     *)
(* writes its address into the file and leaves it there when it ends.      *)
(* Probers look the address up: an address counts only while some process  *)
(* holds the lock.  Any process may end at any point, and its locks with   *)
(* it.                                                                     *)
(***************************************************************************)
EXTENDS Naturals, FiniteSets

CONSTANTS
  Keepers,   \* processes that take the lease, one attempt at a time
  Probers,   \* processes that look for a running service
  Inodes,    \* bound: lock files that exist at once, open or linked
  Tokens,    \* bound: services ever started, each with a token of its own
  NoFile,    \* the path does not exist
  Blank      \* an empty file, and no token

ASSUME CacheLeaseAssumption ==
  /\ NoFile \notin Inodes
  /\ Blank \notin Tokens

VARIABLES
  path,      \* the inode that service.lock names
  record,    \* per inode: the service address it holds
  keeper,    \* per keeper: how far its attempt has come, on which inode
  prober,    \* per prober: the same, with what it saw on the way
  used       \* tokens of services that were ever started

vars == <<path, record, keeper, prober, used>>

KeeperStages ==
  {"out", "opened", "refused", "locked", "current", "empty", "serving",
   "retired"}

\* gone: services that had ended when the probe began; steady: the service
\* that has been serving since.
ProberStages == {"out", "opened", "sharing", "blocked", "read", "found", "none"}

\* A process has the lock file open exactly while an attempt or probe lasts.
TypeOK ==
  /\ path \in Inodes \cup {NoFile}
  /\ record \in [Inodes -> Tokens \cup {Blank}]
  /\ keeper \in [Keepers -> [stage : KeeperStages, inode : Inodes \cup {NoFile},
                             token : Tokens \cup {Blank}]]
  /\ prober \in [Probers -> [stage : ProberStages, inode : Inodes \cup {NoFile},
                             token : Tokens \cup {Blank}, gone : SUBSET Tokens,
                             steady : Tokens \cup {Blank}]]
  /\ used \in SUBSET Tokens
  /\ \A k \in Keepers : keeper[k].stage = "out" <=> keeper[k].inode = NoFile
  /\ \A r \in Probers : prober[r].stage = "out" <=> prober[r].inode = NoFile

Out == [stage |-> "out", inode |-> NoFile, token |-> Blank]
Away == [stage |-> "out", inode |-> NoFile, token |-> Blank, gone |-> {},
         steady |-> Blank]

Init ==
  /\ path = NoFile
  /\ record = [i \in Inodes |-> Blank]
  /\ keeper = [k \in Keepers |-> Out]
  /\ prober = [r \in Probers |-> Away]
  /\ used = {}

-----------------------------------------------------------------------------
Locking == {"locked", "current", "empty", "serving", "retired"}

Holds(k, i) == keeper[k].stage \in Locking /\ keeper[k].inode = i

Shares(r, i) == prober[r].stage = "sharing" /\ prober[r].inode = i

Serving(t) == \E k \in Keepers : keeper[k].stage = "serving" /\ keeper[k].token = t

\* An inode number is free once neither the path nor an open file refers to it.
Free == {i \in Inodes : /\ path # i
                        /\ \A k \in Keepers : keeper[k].inode # i
                        /\ \A r \in Probers : prober[r].inode # i}

At(k, stage) == keeper' = [keeper EXCEPT ![k].stage = stage]

-----------------------------------------------------------------------------
(***************************************************************************)
(* file_lock::acquire and acquire_lease.                                   *)
(***************************************************************************)
\* Mutant: opening the lock file truncates it.
OpenTruncating(k) ==
  /\ keeper[k].stage = "out"
  /\ \E i \in IF path = NoFile THEN Free ELSE {path} :
       /\ path' = i
       /\ record' = [record EXCEPT ![i] = Blank]
       /\ keeper' = [keeper EXCEPT ![k] =
            [stage |-> "opened", inode |-> i, token |-> Blank]]
  /\ UNCHANGED <<prober, used>>

\* create_dir_all and an open that creates the file without truncating it.
Open(k) ==
  /\ keeper[k].stage = "out"
  /\ \E i \in IF path = NoFile THEN Free ELSE {path} :
       /\ path' = i
       /\ record' = IF path = NoFile THEN [record EXCEPT ![i] = Blank] ELSE record
       /\ keeper' = [keeper EXCEPT ![k] =
            [stage |-> "opened", inode |-> i, token |-> Blank]]
  /\ UNCHANGED <<prober, used>>

\* flock(LOCK_EX | LOCK_NB)
Lock(k) ==
  /\ keeper[k].stage = "opened"
  /\ \A q \in Keepers : ~ Holds(q, keeper[k].inode)
  /\ \A r \in Probers : ~ Shares(r, keeper[k].inode)
  /\ At(k, "locked")
  /\ UNCHANGED <<path, record, prober, used>>

\* "this service cache is already owned by another service"
Refuse(k) ==
  /\ keeper[k].stage = "opened"
  /\ \/ \E q \in Keepers : Holds(q, keeper[k].inode)
     \/ \E r \in Probers : Shares(r, keeper[k].inode)
  /\ At(k, "refused")
  /\ UNCHANGED <<path, record, prober, used>>

\* Mutant: the locked inode is not compared with the path.
ConfirmAny(k) ==
  /\ keeper[k].stage = "locked"
  /\ At(k, "current")
  /\ UNCHANGED <<path, record, prober, used>>

\* is_current; if the path names another file the attempt ends (Leave).
Confirm(k) ==
  /\ keeper[k].stage = "locked"
  /\ path = keeper[k].inode
  /\ At(k, "current")
  /\ UNCHANGED <<path, record, prober, used>>

\* lease.set_len(0)
Clear(k) ==
  /\ keeper[k].stage = "current"
  /\ record' = [record EXCEPT ![keeper[k].inode] = Blank]
  /\ At(k, "empty")
  /\ UNCHANGED <<path, prober, used>>

\* The service has loaded the branch and writes its address, by path.
Serve(k) ==
  /\ keeper[k].stage = "empty"
  /\ \E t \in Tokens \ used, i \in IF path = NoFile THEN Free ELSE {path} :
       /\ path' = i
       /\ record' = [record EXCEPT ![i] = t]
       /\ keeper' = [keeper EXCEPT ![k].stage = "serving", ![k].token = t]
       /\ used' = used \cup {t}
  /\ UNCHANGED prober

\* Mutant: a refused deletion renames the directory all the same.
RetireUnlocked(k) ==
  /\ keeper[k].stage \in {"empty", "refused"}
  /\ path' = NoFile
  /\ At(k, "retired")
  /\ UNCHANGED <<record, prober, used>>

\* remove_cache: a deletion renames the directory away with its locks held.  Not
\* modelled: a branch's directory that appears after delete_database listed them
\* goes unlocked.  The entry server, which deletes with no start under way or
\* does not run, adds none; the deletion of another branch may.
Retire(k) ==
  /\ keeper[k].stage = "empty"
  /\ path' = NoFile
  /\ At(k, "retired")
  /\ UNCHANGED <<record, prober, used>>

\* Mutant: the lease is unlocked and its file kept open.
LeaveOpen(k) ==
  /\ keeper[k].stage # "out"
  /\ At(k, "out")
  /\ UNCHANGED <<path, record, prober, used>>

\* The attempt, service or deletion ends: it returns, fails or is killed.
\* Its address stays in the file.
Leave(k) ==
  /\ keeper[k].stage # "out"
  /\ keeper' = [keeper EXCEPT ![k] = Out]
  /\ prober' = [r \in Probers |->
                  IF keeper[k].stage = "serving" /\ prober[r].steady = keeper[k].token
                  THEN [prober[r] EXCEPT !.steady = Blank] ELSE prober[r]]
  /\ UNCHANGED <<path, record, used>>

-----------------------------------------------------------------------------
(***************************************************************************)
(* running_service.                                                        *)
(***************************************************************************)
Step(r, stage) ==
  /\ prober' = [prober EXCEPT ![r].stage = stage]
  /\ UNCHANGED <<path, record, keeper, used>>

\* A missing file needs no step: nothing is running.
Probe(r) ==
  /\ prober[r].stage = "out"
  /\ path # NoFile
  /\ \E s \in {t \in Tokens : Serving(t)} \cup {Blank} :
       /\ s = Blank => \A t \in Tokens : ~ Serving(t)
       /\ prober' = [prober EXCEPT ![r] =
            [stage |-> "opened", inode |-> path, token |-> Blank,
             gone |-> {t \in used : ~ Serving(t)}, steady |-> s]]
  /\ UNCHANGED <<path, record, keeper, used>>

\* flock(LOCK_SH | LOCK_NB) succeeds only if nobody holds the lease.
TryShared(r) ==
  /\ prober[r].stage = "opened"
  /\ IF \E k \in Keepers : Holds(k, prober[r].inode) THEN Step(r, "blocked")
                                                     ELSE Step(r, "sharing")

ReadRecord(r) ==
  /\ prober[r].stage = "blocked"
  /\ prober' = [prober EXCEPT ![r].stage = "read",
                              ![r].token = record[prober[r].inode]]
  /\ UNCHANGED <<path, record, keeper, used>>

Decide(r) ==
  /\ prober[r].stage \in {"sharing", "read"}
  /\ IF /\ prober[r].stage = "read"
        /\ prober[r].token # Blank
        /\ prober[r].inode = path
     THEN Step(r, "found") ELSE Step(r, "none")

\* The answer has been used, or the prober was killed.
Forget(r) ==
  /\ prober[r].stage # "out"
  /\ prober' = [prober EXCEPT ![r] = Away]
  /\ UNCHANGED <<path, record, keeper, used>>

KeeperStep(k) ==
  \/ Open(k) \/ Lock(k) \/ Refuse(k) \/ Confirm(k) \/ Clear(k)
  \/ Serve(k) \/ Retire(k) \/ Leave(k)

ProberStep(r) ==
  Probe(r) \/ TryShared(r) \/ ReadRecord(r) \/ Decide(r) \/ Forget(r)

Next ==
  \/ \E k \in Keepers : KeeperStep(k)
  \/ \E r \in Probers : ProberStep(r)

Spec == Init /\ [][Next]_vars

-----------------------------------------------------------------------------
(***************************************************************************)
(* Properties.                                                             *)
(***************************************************************************)
Owning == {"current", "empty", "serving"}

\* Two processes never both act as the owner of the cache, although a
\* deletion replaces the directory under processes that have opened its lock:
\* "Owning that old inode must never authorize access to a recreated cache".
OneOwner ==
  \A k, q \in Keepers :
    keeper[k].stage \in Owning /\ keeper[q].stage \in Owning => k = q

\* The address of a running service is in the file the path names, so nothing
\* that other processes do to the lock can hide it or replace it.
RecordNamesService ==
  \A k \in Keepers : keeper[k].stage = "serving" =>
    path = keeper[k].inode /\ record[path] = keeper[k].token

\* A probe never misses a service that served throughout it: mdc start would
\* launch a second server, and mdc stop would report one stopped too early.
ProbeFindsService ==
  \A r \in Probers :
    /\ prober[r].stage = "none" => prober[r].steady = Blank
    /\ prober[r].stage = "found" /\ prober[r].steady # Blank =>
         prober[r].token = prober[r].steady

\* "A leftover address alone is not evidence of a live service": no probe
\* returns a service that had ended before the probe began.
LeftoverIsNoEvidence ==
  \A r \in Probers :
    prober[r].stage = "found" => prober[r].token \notin prober[r].gone

(***************************************************************************)
(* The inductive invariant behind OneOwner, RecordNamesService and         *)
(* ProbeFindsService.                                                      *)
(***************************************************************************)
LockExcludes ==
  \A k, q \in Keepers :
    /\ keeper[k].stage \in Locking
    /\ keeper[q].stage \in Locking
    /\ keeper[k].inode = keeper[q].inode
    => k = q

OwnersCurrent ==
  \A k \in Keepers : keeper[k].stage \in Owning =>
    path = keeper[k].inode /\ path \in Inodes

\* The probe holds the file of the service that has been running since it
\* began, was not given the lock, and read nobody else's address.
ProbeOnService ==
  \A r \in Probers : prober[r].steady # Blank =>
    /\ \E k \in Keepers : /\ keeper[k].stage = "serving"
                          /\ keeper[k].token = prober[r].steady
                          /\ keeper[k].inode = prober[r].inode
    /\ prober[r].stage \notin {"sharing", "none"}
    /\ prober[r].stage \in {"read", "found"} =>
         prober[r].token = prober[r].steady

Inductive ==
  /\ TypeOK
  /\ LockExcludes
  /\ OwnersCurrent
  /\ RecordNamesService
  /\ ProbeOnService
=============================================================================
