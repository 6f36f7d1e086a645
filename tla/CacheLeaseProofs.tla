-------------------------- MODULE CacheLeaseProofs --------------------------
(***************************************************************************)
(* Proofs about CacheLease for every set of processes, lock files and      *)
(* services.                                                               *)
(***************************************************************************)
EXTENDS CacheLease, TLAPS

USE CacheLeaseAssumption

\* At most one process owns the cache: owners hold the lock of the inode that
\* the path names, and only one process holds it.
LEMMA OwnersUnique ==
  ASSUME LockExcludes, OwnersCurrent
  PROVE  OneOwner
BY DEF OneOwner, LockExcludes, OwnersCurrent, Owning, Locking

\* What a step that changes one keeper's stage alone leaves in place.
LEMMA StageChange ==
  ASSUME TypeOK, NEW k \in Keepers, NEW stage \in KeeperStages \ {"out"},
         keeper[k].stage # "out", At(k, stage)
  PROVE  /\ keeper' \in [Keepers -> [stage : KeeperStages,
                                     inode : Inodes \cup {NoFile},
                                     token : Tokens \cup {Blank}]]
         /\ keeper'[k].stage = stage
         /\ keeper'[k].inode = keeper[k].inode
         /\ keeper'[k].token = keeper[k].token
         /\ \A q \in Keepers \ {k} : keeper'[q] = keeper[q]
         /\ \A q \in Keepers : keeper'[q].stage = "out" <=> keeper'[q].inode = NoFile
<1>1. keeper[k] \in [stage : KeeperStages, inode : Inodes \cup {NoFile},
                     token : Tokens \cup {Blank}]
  BY DEF TypeOK
<1>2. /\ keeper'[k] = [keeper[k] EXCEPT !.stage = stage]
      /\ \A q \in Keepers \ {k} : keeper'[q] = keeper[q]
      /\ keeper' = [q \in Keepers |-> IF q = k THEN [keeper[k] EXCEPT !.stage = stage]
                                      ELSE keeper[q]]
  BY DEF At, TypeOK
<1>3. /\ keeper'[k].stage = stage
      /\ keeper'[k].inode = keeper[k].inode
      /\ keeper'[k].token = keeper[k].token
      /\ keeper'[k] \in [stage : KeeperStages, inode : Inodes \cup {NoFile},
                         token : Tokens \cup {Blank}]
  BY <1>1, <1>2
<1>4. \A q \in Keepers : keeper'[q].stage = "out" <=> keeper'[q].inode = NoFile
  BY <1>2, <1>3 DEF TypeOK
<1>5. QED
  BY <1>2, <1>3, <1>4 DEF TypeOK

\* A new attempt holds no lock and owns nothing; it gives a path that named no
\* file a fresh one, which no process has open.
LEMMA OpenInductive ==
  ASSUME Inductive, NEW k \in Keepers, Open(k)
  PROVE  Inductive'
<1> USE DEF Inductive
<1>1. PICK i \in IF path = NoFile THEN Free ELSE {path} :
        /\ path' = i
        /\ record' = IF path = NoFile THEN [record EXCEPT ![i] = Blank] ELSE record
        /\ keeper' = [keeper EXCEPT ![k] =
             [stage |-> "opened", inode |-> i, token |-> Blank]]
  BY DEF Open
<1>2. i \in Inodes
  BY <1>1 DEF TypeOK, Free
<1>3. /\ keeper'[k] = [stage |-> "opened", inode |-> i, token |-> Blank]
      /\ \A q \in Keepers \ {k} : keeper'[q] = keeper[q]
  BY <1>1 DEF TypeOK
<1>4. TypeOK'
  <2>1. keeper'[k] \in [stage : KeeperStages, inode : Inodes \cup {NoFile},
                        token : Tokens \cup {Blank}]
    BY <1>2, <1>3 DEF KeeperStages
  <2>2. QED
    BY <1>1, <1>2, <1>3, <2>1 DEF TypeOK, Open
<1>5. LockExcludes'
  BY <1>3 DEF LockExcludes, Locking
<1>6. \A q \in Keepers : keeper'[q].stage \in Owning =>
        q # k /\ keeper[q].stage \in Owning /\ path' = path /\ record' = record
  BY <1>1, <1>3 DEF Owning, OwnersCurrent
<1>7. OwnersCurrent' /\ RecordNamesService'
  BY <1>3, <1>6 DEF OwnersCurrent, RecordNamesService, Owning
<1>8. ProbeOnService'
  <2>1. \A q \in Keepers : keeper[q].stage = "serving" => q # k
    BY DEF Open
  <2>2. QED
    BY <1>3, <2>1 DEF ProbeOnService, Open
<1>9. QED
  BY <1>4, <1>5, <1>7, <1>8

\* flock excludes the other holders; a process that is refused holds nothing.
LEMMA LockInductive ==
  ASSUME Inductive, NEW k \in Keepers, Lock(k) \/ Refuse(k) \/ Confirm(k)
  PROVE  Inductive'
<1> USE DEF Inductive
<1>1. PICK stage \in {"locked", "refused", "current"} : At(k, stage)
  BY DEF Lock, Refuse, Confirm
<1>2. /\ keeper[k].stage \notin {"out", "serving"}
      /\ UNCHANGED <<path, record, prober, used>>
  BY DEF Lock, Refuse, Confirm
<1>3. stage \in KeeperStages \ {"out"}
  BY <1>1 DEF KeeperStages
<1>4. /\ TypeOK'
      /\ keeper'[k].stage = stage
      /\ keeper'[k].inode = keeper[k].inode
      /\ \A q \in Keepers \ {k} : keeper'[q] = keeper[q]
  BY <1>1, <1>2, <1>3, StageChange DEF TypeOK
<1>5. LockExcludes'
  <2>1. CASE Lock(k)
    BY <1>4, <2>1 DEF Lock, Holds, LockExcludes
  <2>2. CASE Refuse(k)
    <3>1. keeper'[k].stage = "refused"
      BY <2>2, <1>4, StageChange DEF Refuse, KeeperStages
    <3>2. QED
      BY <1>4, <3>1 DEF LockExcludes, Locking
  <2>3. CASE Confirm(k)
    <3>1. keeper[k].stage \in Locking
      BY <2>3 DEF Confirm, Locking
    <3>2. QED
      BY <1>4, <3>1 DEF LockExcludes
  <2>4. QED
    BY <2>1, <2>2, <2>3
<1>6. OwnersCurrent'
  <2>1. keeper'[k].stage \in Owning => Confirm(k)
    <3>1. CASE Lock(k) \/ Refuse(k)
      <4>1. keeper'[k].stage \in {"locked", "refused"}
        BY <3>1, StageChange DEF Lock, Refuse, KeeperStages
      <4>2. QED
        BY <4>1 DEF Owning
    <3>2. QED
      BY <3>1
  <2>2. Confirm(k) => path = keeper[k].inode /\ path \in Inodes
    BY DEF Confirm, TypeOK
  <2>3. QED
    BY <1>2, <1>4, <2>1, <2>2 DEF OwnersCurrent
<1>7. RecordNamesService'
  BY <1>2, <1>4 DEF RecordNamesService
<1>8. ProbeOnService'
  BY <1>2, <1>4 DEF ProbeOnService
<1>9. QED
  BY <1>4, <1>5, <1>6, <1>7, <1>8

\* An owner that empties its record, or retires the directory, is the only
\* owner, so no service's record is lost.
LEMMA OwnerInductive ==
  ASSUME Inductive, NEW k \in Keepers, Clear(k) \/ Retire(k)
  PROVE  Inductive'
<1> USE DEF Inductive
<1>1. PICK stage \in {"empty", "retired"} : At(k, stage)
  BY DEF Clear, Retire
<1>2. /\ keeper[k].stage \in {"current", "empty"}
      /\ UNCHANGED <<prober, used>>
  BY DEF Clear, Retire
<1>3. stage \in KeeperStages \ {"out"}
  BY <1>1 DEF KeeperStages
<1>4. /\ keeper' \in [Keepers -> [stage : KeeperStages,
                                  inode : Inodes \cup {NoFile},
                                  token : Tokens \cup {Blank}]]
      /\ keeper'[k].stage = stage
      /\ keeper'[k].inode = keeper[k].inode
      /\ \A q \in Keepers \ {k} : keeper'[q] = keeper[q]
      /\ \A q \in Keepers : keeper'[q].stage = "out" <=> keeper'[q].inode = NoFile
  BY <1>1, <1>2, <1>3, StageChange
<1>5. \A q \in Keepers : keeper[q].stage \in Owning => q = k
  BY <1>2, OwnersUnique DEF OneOwner, Owning
<1>6. TypeOK'
  BY <1>2, <1>4 DEF TypeOK, Clear, Retire
<1>7. LockExcludes'
  BY <1>2, <1>4 DEF LockExcludes, Locking
<1>8. OwnersCurrent'
  <2>1. CASE Clear(k)
    <3>1. path' = path /\ keeper[k].stage \in Owning
      BY <2>1 DEF Clear, Owning
    <3>2. QED
      BY <1>4, <1>5, <3>1 DEF OwnersCurrent
  <2>2. CASE Retire(k)
    <3>1. keeper'[k].stage = "retired"
      BY <2>2, <1>2, StageChange DEF Retire, KeeperStages
    <3>2. QED
      BY <1>4, <1>5, <3>1 DEF OwnersCurrent, Owning
  <2>3. QED
    BY <2>1, <2>2
<1>9. \A q \in Keepers : keeper'[q].stage # "serving"
  BY <1>1, <1>4, <1>5 DEF Owning
<1>10. RecordNamesService'
  BY <1>9 DEF RecordNamesService
<1>11. ProbeOnService'
  <2>1. \A q \in Keepers : keeper[q].stage # "serving"
    BY <1>2, <1>5 DEF Owning
  <2>2. QED
    BY <1>2, <2>1 DEF ProbeOnService
<1>12. QED
  BY <1>6, <1>7, <1>8, <1>10, <1>11

\* A service publishes its address with the lease held, where the path names
\* the locked file.
LEMMA ServeInductive ==
  ASSUME Inductive, NEW k \in Keepers, Serve(k)
  PROVE  Inductive'
<1> USE DEF Inductive
<1>1. PICK t \in Tokens \ used, i \in IF path = NoFile THEN Free ELSE {path} :
        /\ path' = i
        /\ record' = [record EXCEPT ![i] = t]
        /\ keeper' = [keeper EXCEPT ![k].stage = "serving", ![k].token = t]
        /\ used' = used \cup {t}
  BY DEF Serve
<1>2. keeper[k].stage = "empty" /\ prober' = prober
  BY DEF Serve
<1>3. path = keeper[k].inode /\ path \in Inodes /\ i = path
  BY <1>1, <1>2 DEF OwnersCurrent, Owning
<1>4. keeper[k] \in [stage : KeeperStages, inode : Inodes \cup {NoFile},
                     token : Tokens \cup {Blank}]
  BY DEF TypeOK
<1>5. /\ keeper'[k] = [[keeper[k] EXCEPT !.stage = "serving"] EXCEPT !.token = t]
      /\ \A q \in Keepers \ {k} : keeper'[q] = keeper[q]
      /\ keeper' = [q \in Keepers |-> IF q = k THEN keeper'[k] ELSE keeper[q]]
  BY <1>1 DEF TypeOK
<1>6. /\ keeper'[k].stage = "serving"
      /\ keeper'[k].inode = keeper[k].inode
      /\ keeper'[k].token = t
      /\ keeper'[k] \in [stage : KeeperStages, inode : Inodes \cup {NoFile},
                         token : Tokens \cup {Blank}]
  BY <1>4, <1>5 DEF KeeperStages
<1>7. \A q \in Keepers : keeper[q].stage \in Owning => q = k
  BY <1>2, OwnersUnique DEF OneOwner, Owning
<1>8. TypeOK'
  <2>1. keeper' \in [Keepers -> [stage : KeeperStages, inode : Inodes \cup {NoFile},
                                 token : Tokens \cup {Blank}]]
    <3>1. \A q \in Keepers \ {k} : keeper[q] \in
            [stage : KeeperStages, inode : Inodes \cup {NoFile},
             token : Tokens \cup {Blank}]
      BY DEF TypeOK
    <3>2. QED
      BY <1>5, <1>6, <3>1
  <2>2. record' \in [Inodes -> Tokens \cup {Blank}] /\ path' \in Inodes \cup {NoFile}
    BY <1>1, <1>3 DEF TypeOK
  <2>3. \A q \in Keepers : keeper'[q].stage = "out" <=> keeper'[q].inode = NoFile
    <3>1. keeper'[k].stage # "out" /\ keeper'[k].inode # NoFile
      BY <1>3, <1>6
    <3>2. \A q \in Keepers \ {k} : keeper'[q].stage = "out" <=> keeper'[q].inode = NoFile
      BY <1>5 DEF TypeOK
    <3>3. QED
      BY <3>1, <3>2
  <2>4. used' \in SUBSET Tokens
    BY <1>1 DEF TypeOK
  <2>5. QED
    BY <1>2, <2>1, <2>2, <2>3, <2>4 DEF TypeOK
<1>9. LockExcludes'
  <2>1. keeper[k].stage \in Locking
    BY <1>2 DEF Locking
  <2>2. \A q \in Keepers : /\ keeper'[q].inode = keeper[q].inode
                           /\ keeper'[q].stage \in Locking => keeper[q].stage \in Locking
    BY <1>5, <1>6, <2>1
  <2>3. QED
    BY <2>2 DEF LockExcludes
<1>10. OwnersCurrent'
  BY <1>1, <1>3, <1>5, <1>6, <1>7 DEF OwnersCurrent, Owning
<1>11. RecordNamesService'
  <2>1. record'[path'] = t /\ path' = keeper'[k].inode
    BY <1>1, <1>3, <1>6 DEF TypeOK
  <2>2. QED
    BY <1>5, <1>6, <1>7, <2>1 DEF RecordNamesService, Owning
<1>12. ProbeOnService'
  <2>1. \A q \in Keepers : keeper[q].stage # "serving"
    BY <1>2, <1>7 DEF Owning
  <2>2. QED
    BY <1>2, <2>1 DEF ProbeOnService
<1>13. QED
  BY <1>8, <1>9, <1>10, <1>11, <1>12

\* Whoever ends, its lock goes with it, and the probes that were looking for
\* its service no longer have to find it.
LEMMA LeaveInductive ==
  ASSUME Inductive, NEW k \in Keepers, Leave(k)
  PROVE  Inductive'
<1> USE DEF Inductive
<1>1. /\ keeper'[k] = Out
      /\ \A q \in Keepers \ {k} : keeper'[q] = keeper[q]
      /\ UNCHANGED <<path, record, used>>
  BY DEF Leave, TypeOK
<1>2. Out.stage = "out" /\ Out.inode = NoFile
  BY DEF Out
<1>3. \A r \in Probers :
        /\ prober'[r].stage = prober[r].stage
        /\ prober'[r].inode = prober[r].inode
        /\ prober'[r].token = prober[r].token
        /\ prober'[r].steady # Blank =>
             /\ prober'[r].steady = prober[r].steady
             /\ ~ (keeper[k].stage = "serving" /\ prober[r].steady = keeper[k].token)
        /\ prober'[r] \in [stage : ProberStages, inode : Inodes \cup {NoFile},
                           token : Tokens \cup {Blank}, gone : SUBSET Tokens,
                           steady : Tokens \cup {Blank}]
  <2> SUFFICES ASSUME NEW r \in Probers
      PROVE  /\ prober'[r].stage = prober[r].stage
             /\ prober'[r].inode = prober[r].inode
             /\ prober'[r].token = prober[r].token
             /\ prober'[r].steady # Blank =>
                  /\ prober'[r].steady = prober[r].steady
                  /\ ~ (keeper[k].stage = "serving" /\ prober[r].steady = keeper[k].token)
             /\ prober'[r] \in [stage : ProberStages, inode : Inodes \cup {NoFile},
                                token : Tokens \cup {Blank}, gone : SUBSET Tokens,
                                steady : Tokens \cup {Blank}]
    OBVIOUS
  <2>1. prober[r] \in [stage : ProberStages, inode : Inodes \cup {NoFile},
                       token : Tokens \cup {Blank}, gone : SUBSET Tokens,
                       steady : Tokens \cup {Blank}]
    BY DEF TypeOK
  <2>2. CASE keeper[k].stage = "serving" /\ prober[r].steady = keeper[k].token
    <3>1. prober'[r] = [prober[r] EXCEPT !.steady = Blank]
      BY <2>2 DEF Leave
    <3>2. /\ prober'[r].steady = Blank
          /\ prober'[r].stage = prober[r].stage
          /\ prober'[r].inode = prober[r].inode
          /\ prober'[r].token = prober[r].token
      BY <2>1, <3>1
    <3>3. prober'[r] \in [stage : ProberStages, inode : Inodes \cup {NoFile},
                          token : Tokens \cup {Blank}, gone : SUBSET Tokens,
                          steady : Tokens \cup {Blank}]
      BY <2>1, <3>1
    <3>4. QED
      BY <3>2, <3>3
  <2>3. CASE ~ (keeper[k].stage = "serving" /\ prober[r].steady = keeper[k].token)
    <3>1. prober'[r] = prober[r]
      BY <2>3 DEF Leave
    <3>2. QED
      BY <2>1, <2>3, <3>1
  <2>4. QED
    BY <2>2, <2>3
<1>4. TypeOK'
  <2>1. keeper' \in [Keepers -> [stage : KeeperStages, inode : Inodes \cup {NoFile},
                                 token : Tokens \cup {Blank}]]
    BY DEF TypeOK, Leave, Out, KeeperStages
  <2>2. prober' \in [Probers -> [stage : ProberStages, inode : Inodes \cup {NoFile},
                                 token : Tokens \cup {Blank}, gone : SUBSET Tokens,
                                 steady : Tokens \cup {Blank}]]
    BY <1>3 DEF Leave
  <2>3. QED
    BY <1>1, <1>2, <1>3, <2>1, <2>2 DEF TypeOK
<1>5. LockExcludes' /\ OwnersCurrent' /\ RecordNamesService'
  BY <1>1, <1>2 DEF LockExcludes, OwnersCurrent, RecordNamesService, Owning, Locking
<1>6. ProbeOnService'
  <2> SUFFICES ASSUME NEW r \in Probers, prober'[r].steady # Blank
      PROVE  /\ \E q \in Keepers : /\ keeper'[q].stage = "serving"
                                   /\ keeper'[q].token = prober'[r].steady
                                   /\ keeper'[q].inode = prober'[r].inode
             /\ prober'[r].stage \notin {"sharing", "none"}
             /\ prober'[r].stage \in {"read", "found"} =>
                  prober'[r].token = prober'[r].steady
    BY DEF ProbeOnService
  <2>1. prober[r].steady # Blank /\ prober'[r].steady = prober[r].steady
    BY <1>3
  <2>2. PICK q \in Keepers : /\ keeper[q].stage = "serving"
                             /\ keeper[q].token = prober[r].steady
                             /\ keeper[q].inode = prober[r].inode
    BY <2>1 DEF ProbeOnService
  <2>3. q # k
    BY <1>3, <2>2
  <2>4. QED
    BY <1>1, <1>3, <2>1, <2>2, <2>3 DEF ProbeOnService
<1>7. QED
  BY <1>4, <1>5, <1>6

\* A probe changes nothing but its own state.
LEMMA ProberInductive ==
  ASSUME Inductive, NEW r \in Probers, ProberStep(r)
  PROVE  Inductive'
<1> USE DEF Inductive
<1> DEFINE Probing == [stage : ProberStages, inode : Inodes \cup {NoFile},
                       token : Tokens \cup {Blank}, gone : SUBSET Tokens,
                       steady : Tokens \cup {Blank}]
<1>1. UNCHANGED <<path, record, keeper, used>>
  BY DEF ProberStep, Probe, TryShared, ReadRecord, Decide, Forget, Step
<1>2. /\ \A q \in Probers \ {r} : prober'[q] = prober[q]
      /\ prober' = [q \in Probers |-> IF q = r THEN prober'[r] ELSE prober[q]]
  BY DEF ProberStep, Probe, TryShared, ReadRecord, Decide, Forget, Step, TypeOK
<1>3. prober[r] \in Probing
  BY DEF TypeOK
<1> DEFINE Sound(p) ==
      /\ p \in Probing
      /\ p.stage = "out" <=> p.inode = NoFile
      /\ p.steady # Blank =>
           /\ \E k \in Keepers : /\ keeper[k].stage = "serving"
                                 /\ keeper[k].token = p.steady
                                 /\ keeper[k].inode = p.inode
           /\ p.stage \notin {"sharing", "none"}
           /\ p.stage \in {"read", "found"} => p.token = p.steady
<1>4. Sound(prober[r])
  BY <1>3 DEF TypeOK, ProbeOnService
<1>5. Sound(prober'[r])
  <2>1. CASE Probe(r)
    <3>1. PICK s \in {t \in Tokens : Serving(t)} \cup {Blank} :
            prober'[r] = [stage |-> "opened", inode |-> path, token |-> Blank,
                          gone |-> {t \in used : ~ Serving(t)}, steady |-> s]
      BY <2>1 DEF Probe, TypeOK
    <3>2. prober'[r] \in Probing
      BY <3>1 DEF TypeOK, ProberStages
    <3>3. path # NoFile
      BY <2>1 DEF Probe
    <3>4. s # Blank => \E k \in Keepers : /\ keeper[k].stage = "serving"
                                          /\ keeper[k].token = s
                                          /\ keeper[k].inode = path
      BY DEF Serving, RecordNamesService
    <3>5. QED
      BY <3>1, <3>2, <3>3, <3>4
  <2>2. CASE TryShared(r)
    <3>1. PICK stage \in {"blocked", "sharing"} :
            prober' = [prober EXCEPT ![r].stage = stage]
      BY <2>2 DEF TryShared, Step
    <3>2. /\ prober'[r] = [prober[r] EXCEPT !.stage = stage]
          /\ prober[r].stage = "opened"
      BY <2>2, <3>1 DEF TypeOK, TryShared
    <3>3. prober'[r].stage = "sharing" =>
            \A k \in Keepers : ~ Holds(k, prober[r].inode)
      BY <2>2, <3>2 DEF TryShared, Step, TypeOK
    <3>4. prober'[r].stage = "sharing" => prober[r].steady = Blank
      BY <1>4, <3>3 DEF Holds, Locking
    <3>5. QED
      BY <1>3, <1>4, <3>1, <3>2, <3>4 DEF ProberStages
  <2>3. CASE ReadRecord(r)
    <3>1. /\ prober[r].stage = "blocked"
          /\ prober'[r] = [[prober[r] EXCEPT !.stage = "read"]
                             EXCEPT !.token = record[prober[r].inode]]
      BY <2>3 DEF TypeOK, ReadRecord
    <3>2. prober[r].inode \in Inodes
      BY <1>3, <1>4, <3>1
    <3>3. record[prober[r].inode] \in Tokens \cup {Blank}
      BY <3>2 DEF TypeOK
    <3>4. prober[r].steady # Blank => record[prober[r].inode] = prober[r].steady
      BY <1>4 DEF RecordNamesService
    <3>5. QED
      BY <1>3, <1>4, <3>1, <3>2, <3>3, <3>4 DEF ProberStages
  <2>4. CASE Decide(r)
    <3>1. PICK stage \in {"found", "none"} :
            prober' = [prober EXCEPT ![r].stage = stage]
      BY <2>4 DEF Decide, Step
    <3>2. /\ prober'[r] = [prober[r] EXCEPT !.stage = stage]
          /\ prober[r].stage \in {"sharing", "read"}
      BY <2>4, <3>1 DEF TypeOK, Decide
    <3>3. prober'[r].stage = "none" =>
            \/ prober[r].stage = "sharing"
            \/ prober[r].token = Blank
            \/ prober[r].inode # path
      BY <2>4, <3>2 DEF Decide, Step, TypeOK
    <3>4. prober'[r].stage = "none" => prober[r].steady = Blank
      BY <1>4, <3>2, <3>3 DEF RecordNamesService
    <3>5. QED
      BY <1>3, <1>4, <3>1, <3>2, <3>4 DEF ProberStages
  <2>5. CASE Forget(r)
    <3>1. prober'[r] = Away
      BY <2>5 DEF Forget, TypeOK
    <3>2. QED
      BY <3>1 DEF Away, ProberStages
  <2>6. QED
    BY <2>1, <2>2, <2>3, <2>4, <2>5 DEF ProberStep
<1>6. TypeOK'
  <2>1. prober' \in [Probers -> Probing]
    BY <1>2, <1>5 DEF TypeOK
  <2>2. QED
    BY <1>1, <1>2, <1>5, <2>1 DEF TypeOK
<1>7. ProbeOnService'
  BY <1>1, <1>2, <1>5 DEF ProbeOnService
<1>8. LockExcludes' /\ OwnersCurrent' /\ RecordNamesService'
  BY <1>1 DEF LockExcludes, OwnersCurrent, RecordNamesService
<1>9. QED
  BY <1>6, <1>7, <1>8

-----------------------------------------------------------------------------
(***************************************************************************)
(* The theorems.                                                           *)
(***************************************************************************)

\* The inductive invariant holds in every reachable state.
THEOREM InductiveInvariant == Spec => []Inductive
<1>1. Init => Inductive
  <2> SUFFICES ASSUME Init PROVE Inductive
    OBVIOUS
  <2>1. /\ \A k \in Keepers : keeper[k].stage = "out" /\ keeper[k].inode = NoFile
        /\ \A r \in Probers : /\ prober[r].stage = "out"
                              /\ prober[r].inode = NoFile
                              /\ prober[r].steady = Blank
    BY DEF Init, Out, Away
  <2>2. TypeOK
    BY <2>1 DEF Init, TypeOK, Out, Away, KeeperStages, ProberStages
  <2>3. QED
    BY <2>1, <2>2 DEF Inductive, LockExcludes, OwnersCurrent, RecordNamesService,
                      ProbeOnService, Owning, Locking
<1>2. Inductive /\ [Next]_vars => Inductive'
  <2> SUFFICES ASSUME Inductive, [Next]_vars PROVE Inductive'
    OBVIOUS
  <2>1. ASSUME NEW k \in Keepers, KeeperStep(k) PROVE Inductive'
    BY <2>1, OpenInductive, LockInductive, OwnerInductive, ServeInductive,
       LeaveInductive DEF KeeperStep
  <2>2. ASSUME NEW r \in Probers, ProberStep(r) PROVE Inductive'
    BY <2>2, ProberInductive
  <2>3. CASE UNCHANGED vars
    BY <2>3 DEF vars, Inductive, TypeOK, LockExcludes, OwnersCurrent,
                RecordNamesService, ProbeOnService
  <2>4. QED
    BY <2>1, <2>2, <2>3 DEF Next
<1>3. QED
  BY <1>1, <1>2, PTL DEF Spec

\* Type correctness of the lock files and of the attempts and probes on them.
THEOREM TypeCorrect == Spec => []TypeOK
<1>1. Inductive => TypeOK
  BY DEF Inductive
<1>2. QED
  BY <1>1, InductiveInvariant, PTL

\* However often the cache is deleted and recreated, comparing the locked file
\* with the path leaves one owner at most (file_lock::try_lock).
THEOREM SingleOwner == Spec => []OneOwner
<1>1. Inductive => OneOwner
  BY OwnersUnique DEF Inductive
<1>2. QED
  BY <1>1, InductiveInvariant, PTL

\* The address of a running service stays in the file that the path names
\* (acquire_lease, Server::start_branch).
THEOREM RecordStays == Spec => []RecordNamesService
<1>1. Inductive => RecordNamesService
  BY DEF Inductive
<1>2. QED
  BY <1>1, InductiveInvariant, PTL

\* A service that serves throughout a probe is found by it (running_service).
THEOREM ProbesFindServices == Spec => []ProbeFindsService
<1>1. Inductive => ProbeFindsService
  BY DEF Inductive, ProbeOnService, ProbeFindsService
<1>2. QED
  BY <1>1, InductiveInvariant, PTL
=============================================================================
