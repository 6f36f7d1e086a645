--------------------------- MODULE ServiceDrainProofs ---------------------------
(***************************************************************************)
(* Proofs about ServiceDrain: sessions and slots, the answers of previews,  *)
(* and what shutdown leaves behind, for any numbers of sessions, slots,     *)
(* previews and projects.                                                   *)
(***************************************************************************)
EXTENDS ServiceDrain, FiniteSetTheorems, SequenceTheorems, TLAPS

-----------------------------------------------------------------------------
(***************************************************************************)
(* The inductive invariant.                                                *)
(***************************************************************************)
Holding == {e \in Sessions : HoldsSlot(e)}

\* Where the gate is closed and every request has left.
Gated == {"taking", "cancelling", "waiting", "latex", "locking", "dropping", "done"}

Emptied == Gated \ {"taking"}

Busy == {"starting", "ready", "asked"}

SlotsKept == Cardinality(Holding) <= EditorSlots

\* A reservation is made for a session that does not exist yet.
ReservedAlone == \A e \in Sessions :
  reserving[e] # "none" => editors[e] = "none" /\ task[e] = "none"

\* A connection has its entry, in the map or in the hands of shutdown, for as
\* long as it has not been told to end, or is about to be.
ToldUnlessHeld == \A e \in Sessions :
  task[e] # "none" /\ e \notin told =>
    editors[e] = "taken" \/ e \in held \/ closing[e] = "dropped"

\* What each stage of the shutdown has achieved.
StagesKept ==
  /\ shutdown \in Gated => Readers = {}
  /\ shutdown \in Emptied => \A e \in Sessions : editors[e] = "none"
  /\ shutdown \notin Emptied \ {"done"} => held = {}
  /\ shutdown \in Emptied \ {"cancelling"} =>
       \A e \in held : task[e] # "none" => e \in told
  /\ Main \in Range(line) <=> shutdown = "dropping"
  /\ shutdown = "done" => worker = None /\ \A p \in Previews : job[p].stage \notin Busy

\* A request that waits for a task is about the same project as the task, and
\* an answered one has its answer.
ClientsMatch == \A p \in Previews :
  /\ client[p].stage = "captured" => job[p] = NoJob
  /\ client[p].stage = "waiting" => job[p].stage # "none" /\ job[p].key = client[p].key
  /\ client[p].stage = "answered" => client[p].answer = [for |-> p, config |-> client[p].key]

\* The pipes hold the request of the task that has asked, or its answer, and
\* nothing else; what was sent last is what the renderer remembers.
AskedBy(p) ==
  /\ worker.said = <<>> /\ worker.config = worker.sent
  /\ worker.asked = <<[for |-> p, key |-> job[p].key,
                       project |-> IF worker.sent = job[p].key THEN None ELSE job[p].key]>>

AnsweredTo(p) ==
  /\ worker.asked = <<>> /\ worker.config = job[p].key
  /\ worker.said = <<[for |-> p, config |-> job[p].key]>>

PipesMatch ==
  ~ latexStopping /\ worker # None =>
    /\ \A p \in Previews : job[p].stage = "asked" => AskedBy(p) \/ AnsweredTo(p)
    /\ (\A p \in Previews : job[p].stage # "asked") =>
         worker.asked = <<>> /\ worker.said = <<>> /\ worker.config = worker.sent

Inductive ==
  /\ TypeOK /\ SlotsKept /\ ReservedAlone /\ ToldUnlessHeld
  /\ StagesKept /\ ClientsMatch /\ PipesMatch

(***************************************************************************)
(* Stages of the shutdown.                                                 *)
(***************************************************************************)
LEMMA StagesIndexed ==
  /\ DOMAIN Stages = 1 .. 10
  /\ Stages[1] = "serving" /\ Stages[2] = "closing" /\ Stages[3] = "draining"
  /\ Stages[4] = "taking" /\ Stages[5] = "cancelling" /\ Stages[6] = "waiting"
  /\ Stages[7] = "latex" /\ Stages[8] = "locking" /\ Stages[9] = "dropping"
  /\ Stages[10] = "done"
BY DEF Stages

LEMMA AllStages ==
  Range(Stages) = {"serving", "closing", "draining", "taking", "cancelling",
                   "waiting", "latex", "locking", "dropping", "done"}
BY StagesIndexed DEF Range

\* From which stage on each of the three flags is set.
LEMMA FlagsOf ==
  shutdown \in Range(Stages) =>
    /\ stopping <=> shutdown # "serving"
    /\ slotsClosed <=> shutdown \notin {"serving", "closing"}
    /\ latexStopping <=> shutdown \in {"locking", "dropping", "done"}
BY StagesIndexed, AllStages DEF stopping, slotsClosed, latexStopping, Reached


LEMMA FlagsOfNext ==
  shutdown' \in {"locking", "dropping", "done"} => latexStopping'
BY StagesIndexed DEF latexStopping, Reached

(***************************************************************************)
(* The lock's line.                                                        *)
(***************************************************************************)
LEMMA RemoveOne ==
  ASSUME NEW S, NEW s \in Seq(S), IsInjective(s), NEW i \in 1 .. Len(s), NEW r,
         r = Seqs!RemoveAt(s, i)
  PROVE  /\ r \in Seq(S) /\ IsInjective(r)
         /\ Range(r) = Range(s) \ {s[i]}
         /\ s # <<>>
         /\ Head(s) # s[i] => r # <<>> /\ Head(r) = Head(s)
<1>1. /\ r \in Seq(S) /\ Len(r) = Len(s) - 1 /\ Len(s) \in Nat
      /\ \A j \in 1 .. Len(s) - 1 : r[j] = IF j < i THEN s[j] ELSE s[j + 1]
  <2> DEFINE a == SubSeq(s, 1, i - 1)
             b == SubSeq(s, i + 1, Len(s))
  <2>1. /\ a \in Seq(S) /\ Len(a) = i - 1 /\ \A j \in 1 .. i - 1 : a[j] = s[j]
    <3>1. \A j \in 1 .. i - 1 : s[j] \in S
      OBVIOUS
    <3>2. QED
      BY <3>1, SubSeqProperties
  <2>2. /\ b \in Seq(S) /\ Len(b) = Len(s) - i /\ \A j \in 1 .. Len(s) - i : b[j] = s[j + i]
    <3>1. \A j \in i + 1 .. Len(s) : s[j] \in S
      OBVIOUS
    <3>2. QED
      BY <3>1, SubSeqProperties
  <2> HIDE DEF a, b
  <2>3. r = a \o b
    BY DEF a, b, Seqs!RemoveAt
  <2>4. /\ r \in Seq(S) /\ Len(r) = Len(a) + Len(b)
        /\ \A j \in 1 .. Len(a) + Len(b) :
             r[j] = IF j <= Len(a) THEN a[j] ELSE b[j - Len(a)]
    <3>1. a \in Seq(S) /\ b \in Seq(S)
      BY <2>1, <2>2
    <3>2. /\ a \o b \in Seq(S) /\ Len(a \o b) = Len(a) + Len(b)
          /\ \A j \in 1 .. Len(a) + Len(b) :
               (a \o b)[j] = IF j <= Len(a) THEN a[j] ELSE b[j - Len(a)]
      BY <3>1, ConcatProperties, Zenon
    <3>3. QED
      BY <2>3, <3>2
  <2>5. Len(s) \in Nat /\ i \in Nat /\ Len(a) = i - 1 /\ Len(b) = Len(s) - i
    <3>1. Len(s) \in Nat
      BY LenProperties
    <3>2. i \in Nat
      BY <3>1
    <3>3. QED
      BY <2>1, <2>2, <3>1, <3>2
  <2>6. ASSUME NEW j \in 1 .. Len(s) - 1
        PROVE  r[j] = IF j < i THEN s[j] ELSE s[j + 1]
    <3>1. r[j] = IF j <= i - 1 THEN a[j] ELSE b[j - (i - 1)]
      BY <2>4, <2>5
    <3>2. CASE j < i
      BY <3>1, <3>2, <2>1, <2>5
    <3>3. CASE j >= i
      <4> DEFINE k == j - (i - 1)
      <4>1. k \in 1 .. Len(s) - i /\ k + i = j + 1 /\ ~ (j <= i - 1)
        BY <3>3, <2>5
      <4>2. b[k] = s[k + i]
        BY <4>1, <2>2
      <4>3. QED
        BY <3>1, <3>3, <4>1, <4>2, <2>5
    <3>4. QED
      BY <3>2, <3>3, <2>5
  <2>7. QED
    BY <2>4, <2>5, <2>6
<1>2. DOMAIN r = 1 .. Len(s) - 1 /\ DOMAIN s = 1 .. Len(s)
  BY <1>1
<1>3. IsInjective(r)
  <2> SUFFICES ASSUME NEW j \in 1 .. Len(s) - 1, NEW k \in 1 .. Len(s) - 1, r[j] = r[k]
               PROVE  j = k
    BY <1>2 DEF IsInjective
  <2> DEFINE at(n) == IF n < i THEN n ELSE n + 1
  <2>1. at(j) \in 1 .. Len(s) /\ at(k) \in 1 .. Len(s) /\ s[at(j)] = s[at(k)]
    BY <1>1
  <2>2. at(j) = at(k)
    BY <2>1, <1>2 DEF IsInjective
  <2>3. QED
    BY <2>2
<1>4. Range(r) \subseteq Range(s) \ {s[i]}
  BY <1>1, <1>2 DEF IsInjective, Range
<1>5. Range(s) \ {s[i]} \subseteq Range(r)
  <2> SUFFICES ASSUME NEW k \in 1 .. Len(s), k # i PROVE s[k] \in Range(r)
    BY <1>2 DEF Range
  <2>1. CASE k < i
    BY <2>1, <1>1, <1>2 DEF Range
  <2>2. CASE k > i
    <3>1. k - 1 \in 1 .. Len(s) - 1 /\ r[k - 1] = s[k]
      BY <2>2, <1>1
    <3>2. QED
      BY <3>1, <1>2 DEF Range
  <2>3. QED
    BY <2>1, <2>2
<1>6. Head(s) # s[i] => r # <<>> /\ Head(r) = Head(s)
  BY <1>1, <1>2
<1>7. QED
  BY <1>1, <1>3, <1>4, <1>5, <1>6

LEMMA AppendOne ==
  ASSUME NEW S, NEW s \in Seq(S), IsInjective(s), NEW e \in S, e \notin Range(s)
  PROVE  /\ Append(s, e) \in Seq(S) /\ IsInjective(Append(s, e))
         /\ Range(Append(s, e)) = Range(s) \cup {e}
         /\ s # <<>> => Append(s, e) # <<>> /\ Head(Append(s, e)) = Head(s)
<1> DEFINE r == Append(s, e)
<1>1. /\ r \in Seq(S) /\ Len(r) = Len(s) + 1 /\ Len(s) \in Nat
      /\ DOMAIN s = 1 .. Len(s) /\ DOMAIN r = 1 .. Len(s) + 1
      /\ \A j \in 1 .. Len(s) : r[j] = s[j] 
      /\ r[Len(s) + 1] = e
  BY AppendProperties
<1> HIDE DEF r
<1>2. IsInjective(r)
  BY <1>1 DEF IsInjective, Range
<1>3. Range(r) = Range(s) \cup {e}
  BY <1>1 DEF Range
<1>4. s # <<>> => r # <<>> /\ Head(r) = Head(s)
  BY <1>1
<1>5. QED
  BY <1>1, <1>2, <1>3, <1>4 DEF r

LEMMA TailOne ==
  ASSUME NEW S, NEW s \in Seq(S), IsInjective(s), s # <<>>, NEW r, r = Tail(s)
  PROVE  /\ r \in Seq(S) /\ IsInjective(r)
         /\ Range(r) = Range(s) \ {Head(s)}
<1>1. /\ r \in Seq(S) /\ Len(r) = Len(s) - 1 /\ Len(s) \in Nat \ {0}
      /\ DOMAIN s = 1 .. Len(s) /\ DOMAIN r = 1 .. Len(s) - 1
      /\ \A j \in 1 .. Len(s) - 1 : r[j] = s[j + 1]
      /\ Head(s) = s[1]
  BY HeadTailProperties
<1>2. IsInjective(r)
  BY <1>1 DEF IsInjective
<1>3. Range(r) \subseteq Range(s) \ {Head(s)}
  BY <1>1 DEF Range, IsInjective
<1>4. Range(s) \ {Head(s)} \subseteq Range(r)
  <2> SUFFICES ASSUME NEW k \in 2 .. Len(s) PROVE s[k] \in Range(r)
    BY <1>1 DEF Range
  <2>1. k - 1 \in 1 .. Len(s) - 1 /\ r[k - 1] = s[k]
    BY <1>1
  <2>2. QED
    BY <2>1, <1>1 DEF Range
<1>5. QED
  BY <1>1, <1>2, <1>3, <1>4

-----------------------------------------------------------------------------
(***************************************************************************)
(* Sessions and previews apart.                                            *)
(***************************************************************************)
SessionTypes ==
  /\ held \subseteq Sessions
  /\ editors \in [Sessions -> {"none", "input", "taken"}]
  /\ reserving \in [Sessions -> {"none", "admitted", "holding"}]
  /\ connecting \subseteq Sessions /\ told \subseteq Sessions
  /\ closing \in [Sessions -> {"none", "admitted", "dropped", "waiting"}]
  /\ task \in [Sessions -> {"none", "upgrading", "preparing", "bridging", "leaving", "removing"}]

LineKept ==
  /\ line \in Seq(Previews \cup {Main}) /\ IsInjective(line)
  /\ \A p \in Previews :
       /\ p \in Range(line) <=> job[p].stage \notin {"none", "spawned", "checked"}
       /\ job[p].stage \in Busy => Owns(p)
       /\ job[p].stage \in {"ready", "asked"} => worker # None

PreviewTypes ==
  /\ client \in [Previews -> Client]
  /\ job \in [Previews -> Job]
  /\ worker \in Process \cup {None}
  /\ LineKept

LEMMA TypesApart == TypeOK <=> shutdown \in Range(Stages) /\ SessionTypes /\ PreviewTypes
BY DEF TypeOK, SessionTypes, PreviewTypes, LineKept, Busy

SessionsKept == SessionTypes /\ SlotsKept /\ ReservedAlone /\ ToldUnlessHeld

PreviewsKept == PreviewTypes /\ ClientsMatch /\ PipesMatch

LEMMA PartsOfInductive ==
  Inductive <=> shutdown \in Range(Stages) /\ SessionsKept /\ PreviewsKept /\ StagesKept
BY TypesApart DEF Inductive, SessionsKept, PreviewsKept

LEMMA PartsOfNext ==
  (shutdown \in Range(Stages) /\ SessionsKept /\ PreviewsKept /\ StagesKept)' => Inductive'
BY DEF Inductive, TypeOK, SessionTypes, PreviewTypes, LineKept, Busy, SessionsKept, PreviewsKept

LEMMA SessionsUntouched == SessionsKept /\ UNCHANGED <<held, sessionVars>> => SessionsKept'
BY DEF SessionsKept, SessionTypes, SlotsKept, Holding, HoldsSlot, ReservedAlone,
       ToldUnlessHeld, sessionVars

\* Until LatexService::stop has been called, the stages say nothing of previews.
LEMMA PreviewsUntouched ==
  PreviewsKept /\ UNCHANGED previewVars /\ (latexStopping => latexStopping') => PreviewsKept'
BY DEF PreviewsKept, PreviewTypes, LineKept, Owns, ClientsMatch, PipesMatch, AskedBy,
       AnsweredTo, previewVars

LEMMA NoReaders ==
  Readers = {} <=>
    /\ \A e \in Sessions : reserving[e] = "none" /\ closing[e] = "none"
    /\ connecting = {}
    /\ \A p \in Previews : client[p].stage = "none"
BY DEF Readers

LEMMA InitInductive == Init => Inductive
<1> SUFFICES ASSUME Init PROVE Inductive
  OBVIOUS
<1>1. SessionsKept
  <2>1. Holding = {}
    BY DEF Init, Holding, HoldsSlot
  <2>2. SlotsKept
    BY <2>1, FS_EmptySet, DrainAssumption DEF SlotsKept
  <2>3. QED
    BY <2>2 DEF SessionsKept, SessionTypes, ReservedAlone, ToldUnlessHeld, Init
<1>2. PreviewsKept
  <2>1. line \in Seq(Previews \cup {Main}) /\ IsInjective(line) /\ Range(line) = {}
    BY EmptySeq DEF Init, IsInjective, Range
  <2>2. LineKept
    BY <2>1 DEF LineKept, Init, NoJob, Busy
  <2>3. client \in [Previews -> Client] /\ job \in [Previews -> Job]
    BY DEF Init, Client, Job
  <2>4. QED
    BY <2>2, <2>3 DEF PreviewsKept, PreviewTypes, ClientsMatch, PipesMatch, Init, NoJob, NoClient
<1>3. StagesKept
  BY EmptySeq DEF StagesKept, Init, Gated, Emptied, Range
<1>4. shutdown \in Range(Stages)
  BY AllStages DEF Init
<1>5. QED
  BY <1>1, <1>2, <1>3, <1>4, PartsOfInductive

-----------------------------------------------------------------------------
(***************************************************************************)
(* Editor sessions.                                                        *)
(***************************************************************************)
LEMMA NoMoreSlots ==
  ASSUME SlotsKept, Holding' \subseteq Holding
  PROVE  SlotsKept'
<1>1. IsFiniteSet(Holding)
  BY FS_Subset, DrainAssumption DEF Holding
<1>2. Cardinality(Holding') \in Nat /\ Cardinality(Holding) \in Nat
      /\ Cardinality(Holding') <= Cardinality(Holding)
  BY <1>1, FS_Subset, FS_CardinalityType
<1>3. QED
  BY <1>2, DrainAssumption DEF SlotsKept

LEMMA LeaveSessions ==
  ASSUME Inductive, NEW e \in Sessions,
         DropReserve(e) \/ DropConnect(e) \/ DropClose(e)
  PROVE  SessionsKept' /\ StagesKept'
<1> USE PartsOfInductive
<1>1. Holding' \subseteq Holding
  BY DEF DropReserve, DropConnect, DropClose, Holding, HoldsSlot, SessionsKept, SessionTypes
<1>2. SessionsKept'
  BY <1>1, NoMoreSlots DEF DropReserve, DropConnect, DropClose, SessionsKept, SessionTypes,
     ReservedAlone, ToldUnlessHeld
<1>3. StagesKept'
  BY NoReaders DEF DropReserve, DropConnect, DropClose, StagesKept, previewVars,
     SessionsKept, SessionTypes
<1>4. QED
  BY <1>2, <1>3

LEMMA ReserveSessions ==
  ASSUME Inductive, NEW e \in Sessions, Reserve(e)
  PROVE  SessionsKept' /\ StagesKept'
<1> USE PartsOfInductive
<1>1. Holding' \subseteq Holding
  BY DEF Reserve, Holding, HoldsSlot, SessionsKept, SessionTypes, Admit, Unused
<1>2. SlotsKept'
  BY <1>1, NoMoreSlots DEF SessionsKept
<1>3. SessionTypes'
  BY DEF Reserve, SessionsKept, SessionTypes, Admit, Unused
<1>4. ReservedAlone' /\ ToldUnlessHeld'
  BY DEF Reserve, SessionsKept, SessionTypes, ReservedAlone, ToldUnlessHeld, Unused, HoldsSlot
<1>5. StagesKept'
  <2>1. shutdown \in Gated => Readers' = {}
    BY NoReaders, FlagsOf DEF Reserve, StagesKept, Gated, Readers, SessionsKept, SessionTypes, previewVars, Admit, Unused
  <2>2. QED
    BY <2>1, NoReaders DEF Reserve, StagesKept, Gated, Emptied, SessionsKept, SessionTypes, previewVars,
       ToldUnlessHeld, Admit, Unused
<1>6. QED
  BY <1>2, <1>3, <1>4, <1>5 DEF SessionsKept


LEMMA TakeSlotSessions ==
  ASSUME Inductive, NEW e \in Sessions, TakeSlot(e)
  PROVE  SessionsKept' /\ StagesKept'
<1> USE PartsOfInductive
<1>1. \/ Holding' = Holding
      \/ Holding' = Holding \cup {e} /\ Cardinality(Holding) < EditorSlots
  <2>1. \/ reserving' = [reserving EXCEPT ![e] = "none"]
        \/ reserving' = [reserving EXCEPT ![e] = "holding"] /\ Cardinality(Holding) < EditorSlots
    BY DEF TakeSlot, Holding
  <2>2. reserving[e] = "admitted" /\ UNCHANGED <<held, editors>>
    BY DEF TakeSlot
  <2>3. reserving \in [Sessions -> {"none", "admitted", "holding"}]
    BY DEF SessionsKept, SessionTypes
  <2>4. CASE reserving' = [reserving EXCEPT ![e] = "none"]
    <3>1. \A s \in Sessions : HoldsSlot(s)' <=> HoldsSlot(s)
      BY <2>2, <2>3, <2>4 DEF HoldsSlot
    <3>2. QED
      BY <3>1 DEF Holding
  <2>5. CASE reserving' = [reserving EXCEPT ![e] = "holding"] /\ Cardinality(Holding) < EditorSlots
    <3>1. \A s \in Sessions : HoldsSlot(s)' <=> HoldsSlot(s) \/ s = e
      BY <2>2, <2>3, <2>5 DEF HoldsSlot
    <3>2. Holding' = Holding \cup {e}
      BY <3>1 DEF Holding
    <3>3. QED
      BY <3>2, <2>5
  <2>6. QED
    BY <2>1, <2>4, <2>5
<1>2. SlotsKept'
  <2>1. IsFiniteSet(Holding) /\ Cardinality(Holding) \in Nat
    BY FS_Subset, FS_CardinalityType, DrainAssumption DEF Holding
  <2>2. Cardinality(Holding \cup {e}) <= Cardinality(Holding) + 1
    <3>1. Cardinality(Holding \cup {e}) =
            IF e \in Holding THEN Cardinality(Holding) ELSE Cardinality(Holding) + 1
      BY <2>1, FS_AddElement
    <3>2. QED
      BY <2>1, <3>1
  <2>3. Cardinality(Holding \cup {e}) \in Nat
    BY <2>1, FS_AddElement, FS_CardinalityType
  <2>4. CASE Holding' = Holding
    BY <2>4 DEF SessionsKept, SlotsKept
  <2>5. CASE Holding' = Holding \cup {e} /\ Cardinality(Holding) < EditorSlots
    BY <2>1, <2>2, <2>3, <2>5, DrainAssumption DEF SlotsKept
  <2>6. QED
    BY <1>1, <2>4, <2>5
<1>3. SessionTypes'
  BY DEF TakeSlot, SessionsKept, SessionTypes
<1>4. ReservedAlone' /\ ToldUnlessHeld'
  BY DEF TakeSlot, SessionsKept, SessionTypes, ReservedAlone, ToldUnlessHeld
<1>5. StagesKept'
  <2>1. shutdown \in Gated => Readers' = {}
    BY NoReaders, FlagsOf DEF TakeSlot, StagesKept, Gated, Readers, SessionsKept, SessionTypes, previewVars
  <2>2. QED
    BY <2>1, NoReaders DEF TakeSlot, StagesKept, Gated, Emptied, SessionsKept, SessionTypes, previewVars,
       ToldUnlessHeld
<1>6. QED
  BY <1>2, <1>3, <1>4, <1>5 DEF SessionsKept


LEMMA InsertSessions ==
  ASSUME Inductive, NEW e \in Sessions, Insert(e)
  PROVE  SessionsKept' /\ StagesKept'
<1> USE PartsOfInductive
<1>1. Holding' \subseteq Holding
  BY DEF Insert, Holding, HoldsSlot, SessionsKept, SessionTypes
<1>2. SlotsKept'
  BY <1>1, NoMoreSlots DEF SessionsKept
<1>3. SessionTypes'
  BY DEF Insert, SessionsKept, SessionTypes
<1>4. ReservedAlone' /\ ToldUnlessHeld'
  BY DEF Insert, SessionsKept, SessionTypes, ReservedAlone, ToldUnlessHeld
<1>5. StagesKept'
  <2>1. shutdown \in Gated => Readers' = {}
    BY NoReaders, FlagsOf DEF Insert, StagesKept, Gated, Readers, SessionsKept, SessionTypes, previewVars
  <2>2. QED
    BY <2>1, NoReaders DEF Insert, StagesKept, Gated, Emptied, SessionsKept, SessionTypes, previewVars,
       ToldUnlessHeld
<1>6. QED
  BY <1>2, <1>3, <1>4, <1>5 DEF SessionsKept


LEMMA ExpireSessions ==
  ASSUME Inductive, NEW e \in Sessions, Expire(e)
  PROVE  SessionsKept' /\ StagesKept'
<1> USE PartsOfInductive
<1>1. Holding' \subseteq Holding
  BY DEF Expire, Holding, HoldsSlot, SessionsKept, SessionTypes
<1>2. SlotsKept'
  BY <1>1, NoMoreSlots DEF SessionsKept
<1>3. SessionTypes'
  BY DEF Expire, SessionsKept, SessionTypes
<1>4. ReservedAlone' /\ ToldUnlessHeld'
  BY DEF Expire, SessionsKept, SessionTypes, ReservedAlone, ToldUnlessHeld
<1>5. StagesKept'
  <2>1. shutdown \in Gated => Readers' = {}
    BY NoReaders, FlagsOf DEF Expire, StagesKept, Gated, Readers, SessionsKept, SessionTypes, previewVars
  <2>2. QED
    BY <2>1, NoReaders DEF Expire, StagesKept, Gated, Emptied, SessionsKept, SessionTypes, previewVars,
       ToldUnlessHeld
<1>6. QED
  BY <1>2, <1>3, <1>4, <1>5 DEF SessionsKept


LEMMA ConnectSessions ==
  ASSUME Inductive, NEW e \in Sessions, Connect(e)
  PROVE  SessionsKept' /\ StagesKept'
<1> USE PartsOfInductive
<1>1. Holding' \subseteq Holding
  BY DEF Connect, Holding, HoldsSlot, SessionsKept, SessionTypes, Admit
<1>2. SlotsKept'
  BY <1>1, NoMoreSlots DEF SessionsKept
<1>3. SessionTypes'
  BY DEF Connect, SessionsKept, SessionTypes, Admit
<1>4. ReservedAlone' /\ ToldUnlessHeld'
  BY DEF Connect, SessionsKept, SessionTypes, ReservedAlone, ToldUnlessHeld, Admit
<1>5. StagesKept'
  <2>1. shutdown \in Gated => Readers' = {}
    BY NoReaders, FlagsOf DEF Connect, StagesKept, Gated, Readers, SessionsKept, SessionTypes, previewVars, Admit
  <2>2. QED
    BY <2>1, NoReaders DEF Connect, StagesKept, Gated, Emptied, SessionsKept, SessionTypes, previewVars,
       ToldUnlessHeld, Admit
<1>6. QED
  BY <1>2, <1>3, <1>4, <1>5 DEF SessionsKept


LEMMA TakeInputSessions ==
  ASSUME Inductive, NEW e \in Sessions, TakeInput(e)
  PROVE  SessionsKept' /\ StagesKept'
<1> USE PartsOfInductive
<1>1. Holding' \subseteq Holding
  BY DEF TakeInput, Holding, HoldsSlot, SessionsKept, SessionTypes
<1>2. SlotsKept'
  BY <1>1, NoMoreSlots DEF SessionsKept
<1>3. SessionTypes'
  BY DEF TakeInput, SessionsKept, SessionTypes
<1>4. ReservedAlone' /\ ToldUnlessHeld'
  BY DEF TakeInput, SessionsKept, SessionTypes, ReservedAlone, ToldUnlessHeld
<1>5. StagesKept'
  <2>1. shutdown \in Gated => Readers' = {}
    BY NoReaders, FlagsOf DEF TakeInput, StagesKept, Gated, Readers, SessionsKept, SessionTypes, previewVars
  <2>2. QED
    BY <2>1, NoReaders DEF TakeInput, StagesKept, Gated, Emptied, SessionsKept, SessionTypes, previewVars,
       ToldUnlessHeld
<1>6. QED
  BY <1>2, <1>3, <1>4, <1>5 DEF SessionsKept


LEMMA ProceedSessions ==
  ASSUME Inductive, NEW e \in Sessions, Proceed(e)
  PROVE  SessionsKept' /\ StagesKept'
<1> USE PartsOfInductive
<1>1. Holding' \subseteq Holding
  BY DEF Proceed, Holding, HoldsSlot, SessionsKept, SessionTypes, Follows
<1>2. SlotsKept'
  BY <1>1, NoMoreSlots DEF SessionsKept
<1>3. SessionTypes'
  BY DEF Proceed, SessionsKept, SessionTypes, Follows
<1>4. ReservedAlone' /\ ToldUnlessHeld'
  BY DEF Proceed, SessionsKept, SessionTypes, ReservedAlone, ToldUnlessHeld, Follows
<1>5. StagesKept'
  <2>1. shutdown \in Gated => Readers' = {}
    BY NoReaders, FlagsOf DEF Proceed, StagesKept, Gated, Readers, SessionsKept, SessionTypes, previewVars, Follows
  <2>2. QED
    BY <2>1, NoReaders DEF Proceed, StagesKept, Gated, Emptied, SessionsKept, SessionTypes, previewVars,
       ToldUnlessHeld, Follows
<1>6. QED
  BY <1>2, <1>3, <1>4, <1>5 DEF SessionsKept


LEMMA RemoveSessions ==
  ASSUME Inductive, NEW e \in Sessions, Remove(e)
  PROVE  SessionsKept' /\ StagesKept'
<1> USE PartsOfInductive
<1>1. Holding' \subseteq Holding
  BY DEF Remove, Holding, HoldsSlot, SessionsKept, SessionTypes
<1>2. SlotsKept'
  BY <1>1, NoMoreSlots DEF SessionsKept
<1>3. SessionTypes'
  BY DEF Remove, SessionsKept, SessionTypes
<1>4. ReservedAlone' /\ ToldUnlessHeld'
  BY DEF Remove, SessionsKept, SessionTypes, ReservedAlone, ToldUnlessHeld
<1>5. StagesKept'
  <2>1. shutdown \in Gated => Readers' = {}
    BY NoReaders, FlagsOf DEF Remove, StagesKept, Gated, Readers, SessionsKept, SessionTypes, previewVars
  <2>2. QED
    BY <2>1, NoReaders DEF Remove, StagesKept, Gated, Emptied, SessionsKept, SessionTypes, previewVars,
       ToldUnlessHeld
<1>6. QED
  BY <1>2, <1>3, <1>4, <1>5 DEF SessionsKept


LEMMA CloseEditorSessions ==
  ASSUME Inductive, NEW e \in Sessions, CloseEditor(e)
  PROVE  SessionsKept' /\ StagesKept'
<1> USE PartsOfInductive
<1>1. Holding' \subseteq Holding
  BY DEF CloseEditor, Holding, HoldsSlot, SessionsKept, SessionTypes, Admit
<1>2. SlotsKept'
  BY <1>1, NoMoreSlots DEF SessionsKept
<1>3. SessionTypes'
  BY DEF CloseEditor, SessionsKept, SessionTypes, Admit
<1>4. ReservedAlone' /\ ToldUnlessHeld'
  BY DEF CloseEditor, SessionsKept, SessionTypes, ReservedAlone, ToldUnlessHeld, Admit
<1>5. StagesKept'
  <2>1. shutdown \in Gated => Readers' = {}
    BY NoReaders, FlagsOf DEF CloseEditor, StagesKept, Gated, Readers, SessionsKept, SessionTypes, previewVars, Admit
  <2>2. QED
    BY <2>1, NoReaders DEF CloseEditor, StagesKept, Gated, Emptied, SessionsKept, SessionTypes, previewVars,
       ToldUnlessHeld, Admit
<1>6. QED
  BY <1>2, <1>3, <1>4, <1>5 DEF SessionsKept


LEMMA CloseEntrySessions ==
  ASSUME Inductive, NEW e \in Sessions, CloseEntry(e)
  PROVE  SessionsKept' /\ StagesKept'
<1> USE PartsOfInductive
<1>1. Holding' \subseteq Holding
  BY DEF CloseEntry, Holding, HoldsSlot, SessionsKept, SessionTypes
<1>2. SlotsKept'
  BY <1>1, NoMoreSlots DEF SessionsKept
<1>3. SessionTypes'
  BY DEF CloseEntry, SessionsKept, SessionTypes
<1>4. ReservedAlone' /\ ToldUnlessHeld'
  BY DEF CloseEntry, SessionsKept, SessionTypes, ReservedAlone, ToldUnlessHeld
<1>5. StagesKept'
  <2>1. shutdown \in Gated => Readers' = {}
    BY NoReaders, FlagsOf DEF CloseEntry, StagesKept, Gated, Readers, SessionsKept, SessionTypes, previewVars
  <2>2. QED
    BY <2>1, NoReaders DEF CloseEntry, StagesKept, Gated, Emptied, SessionsKept, SessionTypes, previewVars,
       ToldUnlessHeld
<1>6. QED
  BY <1>2, <1>3, <1>4, <1>5 DEF SessionsKept


LEMMA CloseTaskSessions ==
  ASSUME Inductive, NEW e \in Sessions, CloseTask(e)
  PROVE  SessionsKept' /\ StagesKept'
<1> USE PartsOfInductive
<1>1. Holding' \subseteq Holding
  BY DEF CloseTask, Holding, HoldsSlot, SessionsKept, SessionTypes, Tell
<1>2. SlotsKept'
  BY <1>1, NoMoreSlots DEF SessionsKept
<1>3. SessionTypes'
  BY DEF CloseTask, SessionsKept, SessionTypes, Tell
<1>4. ReservedAlone' /\ ToldUnlessHeld'
  BY DEF CloseTask, SessionsKept, SessionTypes, ReservedAlone, ToldUnlessHeld, Tell
<1>5. StagesKept'
  <2>1. shutdown \in Gated => Readers' = {}
    BY NoReaders, FlagsOf DEF CloseTask, StagesKept, Gated, Readers, SessionsKept, SessionTypes, previewVars, Tell
  <2>2. QED
    BY <2>1, NoReaders DEF CloseTask, StagesKept, Gated, Emptied, SessionsKept, SessionTypes, previewVars,
       ToldUnlessHeld, Tell
<1>6. QED
  BY <1>2, <1>3, <1>4, <1>5 DEF SessionsKept


-----------------------------------------------------------------------------
(***************************************************************************)
(* Previews.                                                               *)
(***************************************************************************)
Working == {"spawned", "checked", "queued", "starting", "ready", "asked"}

LEMMA JobShape ==
  ASSUME PreviewTypes, NEW p \in Previews
  PROVE  /\ job[p].stage \in {"none"} \cup Working
         /\ job[p].stage = "none" => job[p] = NoJob
         /\ job[p].stage # "none" => job[p] \in Keyed(Working) /\ job[p].key \in Projects
BY DEF PreviewTypes, Job, NoJob, Keyed, Working

LEMMA JobMoves ==
  ASSUME PreviewTypes, NEW p \in Previews, job[p].stage # "none", NEW stage \in Working,
         job' = [job EXCEPT ![p].stage = stage]
  PROVE  /\ job' \in [Previews -> Job]
         /\ job'[p].stage = stage /\ job'[p].key = job[p].key /\ job'[p].key \in Projects
         /\ \A q \in Previews \ {p} : job'[q] = job[q]
<1>1. job[p] \in Keyed(Working) /\ job \in [Previews -> Job]
  BY JobShape DEF PreviewTypes
<1>2. /\ [job[p] EXCEPT !.stage = stage] \in Keyed(Working)
      /\ [job[p] EXCEPT !.stage = stage].stage = stage
      /\ [job[p] EXCEPT !.stage = stage].key = job[p].key
      /\ job[p].key \in Projects
  BY <1>1 DEF Keyed
<1>3. Keyed(Working) \subseteq Job
  BY DEF Job, Working
<1>4. job' = [job EXCEPT ![p] = [job[p] EXCEPT !.stage = stage]]
  OBVIOUS
<1> DEFINE moved == [job[p] EXCEPT !.stage = stage]
<1> HIDE DEF moved
<1>5. job' = [job EXCEPT ![p] = moved] /\ moved \in Job
  BY <1>2, <1>3, <1>4 DEF moved
<1>6. job'[p] = moved /\ job' \in [Previews -> Job] /\ \A q \in Previews \ {p} : job'[q] = job[q]
  BY <1>1, <1>5
<1>7. QED
  BY <1>2, <1>6 DEF moved

LEMMA ClientShape ==
  ASSUME PreviewTypes, NEW p \in Previews
  PROVE  /\ client[p].stage \in {"none", "captured", "waiting", "answered"}
         /\ client[p].stage \in {"captured", "waiting"} =>
              client[p] \in Keyed({"captured", "waiting"}) /\ client[p].key \in Projects
BY DEF PreviewTypes, Client, NoClient, Keyed

LEMMA ClientReplaced ==
  ASSUME PreviewTypes, NEW p \in Previews, NEW new \in Client,
         client' = [client EXCEPT ![p] = new]
  PROVE  /\ client' \in [Previews -> Client] /\ client'[p] = new
         /\ \A q \in Previews \ {p} : client'[q] = client[q]
BY DEF PreviewTypes

\* One task at a time is at the worker.
LEMMA OneBusy ==
  ASSUME PreviewTypes, NEW p \in Previews, Owns(p), NEW q \in Previews, job[q].stage \in Busy
  PROVE  q = p
BY DEF PreviewTypes, LineKept, Owns

\* The task of p ends: the others keep their places.
LEMMA JobEnds ==
  ASSUME PreviewTypes, NEW p \in Previews, EndJob(p),
         \/ worker' = worker
         \/ Owns(p)
  PROVE  /\ LineKept' /\ job' \in [Previews -> Job]
         /\ job'[p] = NoJob /\ \A q \in Previews \ {p} : job'[q] = job[q]
         /\ Range(line') = Range(line) \ {p}
<1>1. /\ job' \in [Previews -> Job]
      /\ job'[p] = NoJob /\ \A q \in Previews \ {p} : job'[q] = job[q]
  BY DEF PreviewTypes, EndJob, Job
<1>2. PICK i \in DOMAIN line : line[i] = p /\ line' = Seqs!RemoveAt(line, i)
  BY DEF EndJob
<1>3. line \in Seq(Previews \cup {Main}) /\ IsInjective(line) /\ i \in 1 .. Len(line)
  BY <1>2 DEF PreviewTypes, LineKept
<1>4. /\ line' \in Seq(Previews \cup {Main}) /\ IsInjective(line')
      /\ Range(line') = Range(line) \ {line[i]}
      /\ Head(line) # line[i] => line' # <<>> /\ Head(line') = Head(line)
  BY <1>2, <1>3, RemoveOne
<1>5. \A q \in Previews \ {p} : Owns(q) => Owns(q)'
  BY <1>2, <1>4 DEF Owns
<1>6. NoJob.stage = "none"
  BY DEF NoJob
<1>7. ASSUME NEW q \in Previews
      PROVE  /\ q \in Range(line') <=> job'[q].stage \notin {"none", "spawned", "checked"}
             /\ job'[q].stage \in Busy => Owns(q)'
             /\ job'[q].stage \in {"ready", "asked"} => worker' # None
  <2>1. CASE q = p
    BY <2>1, <1>1, <1>2, <1>4, <1>6 DEF Busy
  <2>2. CASE q # p
    <3>1. job'[q] = job[q]
      BY <2>2, <1>1
    <3>2. q \in Range(line') <=> q \in Range(line)
      BY <2>2, <1>2, <1>4
    <3>3. job[q].stage \in {"ready", "asked"} => worker' # None
      <4>1. job[q].stage \in {"ready", "asked"} => worker # None /\ job[q].stage \in Busy
        BY DEF PreviewTypes, LineKept, Busy
      <4>2. QED
        BY <4>1, <2>2, OneBusy
    <3>4. QED
      BY <3>1, <3>2, <3>3, <1>5, <2>2 DEF PreviewTypes, LineKept
  <2>3. QED
    BY <2>1, <2>2
<1>8. QED
  BY <1>1, <1>2, <1>4, <1>7 DEF LineKept

LEMMA StagesWithPreviews ==
  ASSUME StagesKept, UNCHANGED <<shutdown, held, sessionVars>>,
         shutdown \in Gated => \A p \in Previews : client'[p].stage = "none",
         Main \in Range(line') <=> Main \in Range(line),
         shutdown = "done" => worker' = None /\ \A p \in Previews : job'[p].stage \notin Busy
  PROVE  StagesKept'
<1>1. shutdown \in Gated => Readers' = {}
  BY NoReaders DEF StagesKept, Readers, sessionVars
<1>2. QED
  BY <1>1 DEF StagesKept, sessionVars

\* No request is left once the gate is closed.
LEMMA NoClients ==
  ASSUME StagesKept, shutdown \in Gated, NEW p \in Previews
  PROVE  client[p].stage = "none" /\ ~ Waiting(p)
BY NoReaders DEF StagesKept, Waiting

LEMMA PipesUnmoved ==
  ASSUME PipesMatch, UNCHANGED <<shutdown, worker>>,
         \A q \in Previews : job'[q].stage = "asked" <=> job[q].stage = "asked",
         \A q \in Previews : job[q].stage = "asked" => job'[q].key = job[q].key
  PROVE  PipesMatch'
<1>1. latexStopping' <=> latexStopping
  BY DEF latexStopping, Reached
<1>2. \A q \in Previews : job[q].stage = "asked" =>
        (AskedBy(q) => AskedBy(q)') /\ (AnsweredTo(q) => AnsweredTo(q)')
  BY DEF AskedBy, AnsweredTo
<1>3. QED
  BY <1>1, <1>2 DEF PipesMatch

\* Refuse(p) leaves the other clients alone, and p waits no more.
LEMMA Refused ==
  ASSUME PreviewTypes, NEW p \in Previews, client' = Refuse(p)
  PROVE  /\ client' \in [Previews -> Client]
         /\ \A q \in Previews \ {p} : client'[q] = client[q]
         /\ client'[p] = client[p] \/ client'[p] = NoClient
         /\ client'[p].stage # "waiting"
<1>1. NoClient \in Client /\ NoClient.stage = "none"
  BY DEF Client, NoClient
<1>2. QED
  BY <1>1, ClientReplaced DEF Refuse, Waiting, PreviewTypes

\* What becomes of clients when the task of p ends without an answer.
LEMMA ClientsOfEnd ==
  ASSUME PreviewTypes, ClientsMatch, NEW p \in Previews, job[p].stage # "none", EndJob(p),
         \/ worker' = worker
         \/ Owns(p),
         \/ client' = Refuse(p)
         \/ ~ Waiting(p) /\ client' = client
  PROVE  /\ ClientsMatch' /\ client' \in [Previews -> Client]
         /\ \A q \in Previews : client[q].stage = "none" => client'[q].stage = "none"
<1>1. /\ client' \in [Previews -> Client]
      /\ \A q \in Previews \ {p} : client'[q] = client[q]
      /\ client'[p] = client[p] \/ client'[p] = NoClient
      /\ client'[p].stage # "waiting"
  BY Refused DEF Waiting, PreviewTypes
<1>2. job'[p] = NoJob /\ \A q \in Previews \ {p} : job'[q] = job[q]
  BY JobEnds
<1>3. NoClient.stage = "none"
  BY DEF NoClient
<1>4. ASSUME NEW q \in Previews
      PROVE  /\ client'[q].stage = "captured" => job'[q] = NoJob
             /\ client'[q].stage = "waiting" =>
                  job'[q].stage # "none" /\ job'[q].key = client'[q].key
             /\ client'[q].stage = "answered" =>
                  client'[q].answer = [for |-> q, config |-> client'[q].key]
  <2>1. CASE q = p
    BY <2>1, <1>1, <1>2, <1>3 DEF ClientsMatch
  <2>2. CASE q # p
    BY <2>2, <1>1, <1>2 DEF ClientsMatch
  <2>3. QED
    BY <2>1, <2>2
<1>5. QED
  BY <1>1, <1>3, <1>4 DEF ClientsMatch

LEMMA DropPreviewPreviews ==
  ASSUME Inductive, NEW p \in Previews, DropPreview(p)
  PROVE  PreviewsKept' /\ StagesKept'
<1> USE PartsOfInductive DEF PreviewsKept
<1>1. NoClient \in Client /\ NoClient.stage = "none"
  BY DEF Client, NoClient
<1>2. /\ client' \in [Previews -> Client] /\ client'[p] = NoClient
      /\ \A q \in Previews \ {p} : client'[q] = client[q]
  BY <1>1, ClientReplaced DEF DropPreview
<1>3. PreviewTypes'
  BY <1>2 DEF DropPreview, PreviewTypes, LineKept, Owns
<1>4. ClientsMatch'
  BY <1>1, <1>2 DEF DropPreview, ClientsMatch
<1>5. PipesMatch'
  BY PipesUnmoved DEF DropPreview
<1>6. StagesKept'
  BY <1>1, <1>2, NoClients, StagesWithPreviews DEF DropPreview, StagesKept
<1>7. QED
  BY <1>3, <1>4, <1>5, <1>6

LEMMA PreviewPreviews ==
  ASSUME Inductive, NEW p \in Previews, NEW key \in Projects, Preview(p, key)
  PROVE  PreviewsKept' /\ StagesKept'
<1> USE PartsOfInductive DEF PreviewsKept
<1> DEFINE new == [stage |-> "captured", key |-> key]
<1>1. new \in Client /\ new.stage = "captured" /\ new.key = key
  BY DEF Client, Keyed
<1>2. client' = [client EXCEPT ![p] = new]
  BY DEF Preview
<1> HIDE DEF new
<1>3. /\ client' \in [Previews -> Client] /\ client'[p] = new
      /\ \A q \in Previews \ {p} : client'[q] = client[q]
  BY <1>1, <1>2, ClientReplaced
<1>4. PreviewTypes'
  BY <1>3 DEF Preview, PreviewTypes, LineKept, Owns
<1>5. job[p] = NoJob
  BY JobShape DEF Preview, Unasked
<1>6. ClientsMatch'
  BY <1>1, <1>3, <1>5 DEF Preview, ClientsMatch
<1>7. PipesMatch'
  BY PipesUnmoved DEF Preview
<1>8. shutdown \notin Gated
  BY FlagsOf DEF Preview, Admit, Gated
<1>9. StagesKept'
  BY <1>8, StagesWithPreviews DEF Preview, StagesKept
<1>10. QED
  BY <1>4, <1>6, <1>7, <1>9

LEMMA SubmitPreviews ==
  ASSUME Inductive, NEW p \in Previews, Submit(p)
  PROVE  PreviewsKept' /\ StagesKept'
<1> USE PartsOfInductive DEF PreviewsKept
<1>1. client[p].stage = "captured" /\ client[p].key \in Projects /\ job[p] = NoJob
      /\ client[p] \in Keyed({"captured", "waiting"})
  BY ClientShape DEF Submit, ClientsMatch
<1>2. shutdown \notin Gated
  BY <1>1, NoClients
<1>3. UNCHANGED <<shutdown, held, sessionVars, line, worker>>
  BY DEF Submit
<1>4. CASE client' = [client EXCEPT ![p] = NoClient] /\ UNCHANGED job
  <2>1. NoClient \in Client /\ NoClient.stage = "none"
    BY DEF Client, NoClient
  <2>2. /\ client' \in [Previews -> Client] /\ client'[p] = NoClient
        /\ \A q \in Previews \ {p} : client'[q] = client[q]
    BY <1>4, <2>1, ClientReplaced
  <2>3. PreviewTypes'
    BY <1>3, <1>4, <2>2 DEF PreviewTypes, LineKept, Owns
  <2>4. ClientsMatch'
    BY <1>4, <2>1, <2>2 DEF ClientsMatch
  <2>5. PipesMatch'
    BY <1>3, <1>4, PipesUnmoved
  <2>6. StagesKept'
    BY <1>2, <1>3, <1>4, StagesWithPreviews DEF StagesKept, Gated
  <2>7. QED
    BY <2>3, <2>4, <2>5, <2>6
<1>5. CASE /\ client' = [client EXCEPT ![p].stage = "waiting"]
           /\ job' = [job EXCEPT ![p] = [stage |-> "spawned", key |-> client[p].key]]
  <2> DEFINE new == [client[p] EXCEPT !.stage = "waiting"]
             made == [stage |-> "spawned", key |-> client[p].key]
  <2>1. new \in Client /\ new.stage = "waiting" /\ new.key = client[p].key
    BY <1>1 DEF Client, Keyed
  <2>2. made \in Job /\ made.stage = "spawned" /\ made.key = client[p].key
    BY <1>1 DEF Job, Keyed
  <2>3. client' = [client EXCEPT ![p] = new] /\ job' = [job EXCEPT ![p] = made]
    BY <1>5
  <2> HIDE DEF new, made
  <2>4. /\ client' \in [Previews -> Client] /\ client'[p] = new
        /\ \A q \in Previews \ {p} : client'[q] = client[q]
    BY <2>1, <2>3, ClientReplaced
  <2>5. /\ job' \in [Previews -> Job] /\ job'[p] = made
        /\ \A q \in Previews \ {p} : job'[q] = job[q]
    BY <2>2, <2>3 DEF PreviewTypes
  <2>6. job[p].stage = "none"
    BY <1>1 DEF NoJob
  <2>7. LineKept'
    <3>1. \A q \in Previews : Owns(q)' <=> Owns(q)
      BY <1>3 DEF Owns
    <3>2. QED
      BY <1>3, <2>2, <2>5, <2>6, <3>1 DEF PreviewTypes, LineKept, Busy
  <2>8. PreviewTypes'
    BY <1>3, <2>4, <2>5, <2>7 DEF PreviewTypes
  <2>9. ClientsMatch'
    BY <2>1, <2>2, <2>4, <2>5 DEF ClientsMatch
  <2>10. PipesMatch'
    BY <1>3, <2>2, <2>5, <2>6, PipesUnmoved
  <2>11. StagesKept'
    BY <1>2, <1>3, <2>5, StagesWithPreviews DEF StagesKept, Gated
  <2>12. QED
    BY <2>8, <2>9, <2>10, <2>11
<1>6. QED
  BY <1>4, <1>5 DEF Submit

\* A task that has no place in the line yet.
LEMMA CheckPreviews ==
  ASSUME Inductive, NEW p \in Previews, Check(p)
  PROVE  PreviewsKept' /\ StagesKept'
<1> USE PartsOfInductive DEF PreviewsKept
<1>1. job[p].stage = "spawned" /\ UNCHANGED <<shutdown, held, sessionVars, line, worker>>
  BY DEF Check
<1>2. NoJob \in Job /\ NoJob.stage = "none"
  BY DEF Job, NoJob
<1>3. \A q \in Previews : Owns(q)' <=> Owns(q)
  BY <1>1 DEF Owns
<1>4. CASE job' = [job EXCEPT ![p] = NoJob] /\ client' = Refuse(p)
  <2>1. /\ job' \in [Previews -> Job] /\ job'[p] = NoJob
        /\ \A q \in Previews \ {p} : job'[q] = job[q]
    BY <1>2, <1>4 DEF PreviewTypes
  <2>2. LineKept'
    BY <1>1, <1>2, <1>3, <2>1 DEF PreviewTypes, LineKept, Busy
  <2>3. /\ client' \in [Previews -> Client]
        /\ \A q \in Previews \ {p} : client'[q] = client[q]
        /\ client'[p] = client[p] \/ client'[p] = NoClient
        /\ client'[p].stage # "waiting"
        /\ NoClient.stage = "none"
    BY <1>4, Refused DEF NoClient
  <2>4. ClientsMatch'
    <3> SUFFICES ASSUME NEW q \in Previews
                 PROVE  /\ client'[q].stage = "captured" => job'[q] = NoJob
                        /\ client'[q].stage = "waiting" =>
                             job'[q].stage # "none" /\ job'[q].key = client'[q].key
                        /\ client'[q].stage = "answered" =>
                             client'[q].answer = [for |-> q, config |-> client'[q].key]
      BY DEF ClientsMatch
    <3>1. CASE q = p
      BY <3>1, <2>1, <2>3 DEF ClientsMatch
    <3>2. CASE q # p
      BY <3>2, <2>1, <2>3 DEF ClientsMatch
    <3>3. QED
      BY <3>1, <3>2
  <2>5. PipesMatch'
    BY <1>1, <1>2, <2>1, PipesUnmoved
  <2>6. \A q \in Previews : client[q].stage = "none" => client'[q].stage = "none"
    BY <2>3
  <2>7. StagesKept'
    BY <1>1, <1>2, <2>1, <2>6, NoClients, StagesWithPreviews DEF StagesKept, Busy
  <2>8. QED
    BY <1>1, <2>1, <2>2, <2>3, <2>4, <2>5, <2>7 DEF PreviewTypes
<1>5. CASE job' = [job EXCEPT ![p].stage = "checked"] /\ UNCHANGED client
  <2>1. /\ job' \in [Previews -> Job]
        /\ job'[p].stage = "checked" /\ job'[p].key = job[p].key
        /\ \A q \in Previews \ {p} : job'[q] = job[q]
    BY <1>1, <1>5, JobMoves DEF Working
  <2>2. LineKept'
    BY <1>1, <1>3, <2>1 DEF PreviewTypes, LineKept, Busy
  <2>3. ClientsMatch'
    BY <1>1, <1>2, <1>5, <2>1 DEF ClientsMatch
  <2>4. PipesMatch'
    BY <1>1, <2>1, PipesUnmoved
  <2>5. StagesKept'
    BY <1>1, <1>5, <2>1, NoClients, StagesWithPreviews DEF StagesKept, Busy
  <2>6. QED
    BY <1>1, <1>5, <2>1, <2>2, <2>3, <2>4, <2>5 DEF PreviewTypes
<1>6. QED
  BY <1>4, <1>5 DEF Check

LEMMA QueuePreviews ==
  ASSUME Inductive, NEW p \in Previews, Queue(p)
  PROVE  PreviewsKept' /\ StagesKept'
<1> USE PartsOfInductive DEF PreviewsKept
<1>1. job[p].stage = "checked" /\ UNCHANGED <<shutdown, held, sessionVars, client, worker>>
  BY DEF Queue
<1>2. /\ job' \in [Previews -> Job]
      /\ job'[p].stage = "queued" /\ job'[p].key = job[p].key
      /\ \A q \in Previews \ {p} : job'[q] = job[q]
  BY <1>1, JobMoves DEF Queue, Working
<1>3. /\ line' \in Seq(Previews \cup {Main}) /\ IsInjective(line')
      /\ Range(line') = Range(line) \cup {p}
      /\ line # <<>> => line' # <<>> /\ Head(line') = Head(line)
  <2>1. /\ line \in Seq(Previews \cup {Main}) /\ IsInjective(line)
        /\ p \notin Range(line) /\ p \in Previews \cup {Main} /\ line' = Append(line, p)
    BY <1>1 DEF PreviewTypes, LineKept, Queue
  <2> DEFINE Members == Previews \cup {Main}
  <2>2. line \in Seq(Members) /\ p \in Members
    BY <2>1
  <2> HIDE DEF Members
  <2>3. /\ line' \in Seq(Members) /\ IsInjective(line')
        /\ Range(line') = Range(line) \cup {p}
        /\ line # <<>> => line' # <<>> /\ Head(line') = Head(line)
    <3>1. IsInjective(line) /\ p \notin Range(line) /\ line' = Append(line, p)
      BY <2>1
    <3>2. /\ Append(line, p) \in Seq(Members) /\ IsInjective(Append(line, p))
          /\ Range(Append(line, p)) = Range(line) \cup {p}
          /\ line # <<>> => Append(line, p) # <<>> /\ Head(Append(line, p)) = Head(line)
      BY <3>1, <2>2, AppendOne, Zenon
    <3>3. QED
      BY <3>1, <3>2, Zenon
  <2>4. QED
    BY <2>3 DEF Members
<1>4. \A q \in Previews : Owns(q) => Owns(q)'
  BY <1>3 DEF Owns
<1>5. LineKept'
  BY <1>1, <1>2, <1>3, <1>4 DEF PreviewTypes, LineKept, Busy
<1>6. ClientsMatch'
  BY <1>1, <1>2 DEF ClientsMatch, NoJob
<1>7. PipesMatch'
  BY <1>1, <1>2, PipesUnmoved
<1>8. StagesKept'
  BY <1>1, <1>2, <1>3, DrainAssumption, NoClients, StagesWithPreviews DEF StagesKept, Busy
<1>9. QED
  BY <1>1, <1>2, <1>5, <1>6, <1>7, <1>8 DEF PreviewTypes

LEMMA TurnPreviews ==
  ASSUME Inductive, NEW p \in Previews, Turn(p)
  PROVE  PreviewsKept' /\ StagesKept'
<1> USE PartsOfInductive DEF PreviewsKept
<1>1. job[p].stage = "queued" /\ UNCHANGED <<shutdown, held, sessionVars, client, line, worker>>
      /\ Owns(p) /\ Waiting(p)
  BY DEF Turn
<1> DEFINE next == IF worker = None THEN "starting" ELSE "ready"
<1>2. next \in {"starting", "ready"} /\ (next = "ready" => worker # None)
  OBVIOUS
<1>3. job' = [job EXCEPT ![p].stage = next]
  BY DEF Turn
<1> HIDE DEF next
<1>4. /\ job' \in [Previews -> Job]
      /\ job'[p].stage = next /\ job'[p].key = job[p].key
      /\ \A q \in Previews \ {p} : job'[q] = job[q]
  BY <1>1, <1>2, <1>3, JobMoves DEF Working
<1>5. LineKept'
  <2>1. \A q \in Previews : Owns(q)' <=> Owns(q)
    BY <1>1 DEF Owns
  <2>2. QED
    BY <1>1, <1>2, <1>4, <2>1 DEF PreviewTypes, LineKept, Busy
<1>6. ClientsMatch'
  BY <1>1, <1>2, <1>4 DEF ClientsMatch, NoJob
<1>7. PipesMatch'
  BY <1>1, <1>2, <1>4, PipesUnmoved
<1>8. StagesKept'
  BY <1>1, NoClients, StagesWithPreviews DEF StagesKept, Gated
<1>9. QED
  BY <1>1, <1>4, <1>5, <1>6, <1>7, <1>8 DEF PreviewTypes

\* A task that ends without an answer and has not used the worker, or takes
\* it along.
LEMMA EndPreviews ==
  ASSUME Inductive, NEW p \in Previews, job[p].stage \in {"queued"} \cup Busy, EndJob(p),
         UNCHANGED <<shutdown, held, sessionVars>>,
         \/ client' = Refuse(p)
         \/ ~ Waiting(p) /\ client' = client,
         \/ Owns(p) /\ worker' = None
         \/ worker' = worker /\ (job[p].stage = "asked" => latexStopping)
  PROVE  PreviewsKept' /\ StagesKept'
<1> USE PartsOfInductive DEF PreviewsKept
<1>1. /\ LineKept' /\ job' \in [Previews -> Job]
      /\ job'[p] = NoJob /\ \A q \in Previews \ {p} : job'[q] = job[q]
      /\ Range(line') = Range(line) \ {p}
  BY JobEnds
<1>2. job[p].stage # "none"
  BY DEF Busy
<1>3. /\ ClientsMatch' /\ client' \in [Previews -> Client]
      /\ \A q \in Previews : client[q].stage = "none" => client'[q].stage = "none"
  BY <1>2, ClientsOfEnd
<1>4. PreviewTypes'
  BY <1>1, <1>3 DEF PreviewTypes
<1>5. NoJob.stage = "none"
  BY DEF NoJob
<1>6. PipesMatch'
  <2>1. latexStopping' <=> latexStopping
    BY DEF latexStopping, Reached
  <2>2. CASE latexStopping \/ worker' = None
    BY <2>1, <2>2 DEF PipesMatch
  <2>3. CASE job[p].stage # "asked" /\ worker' = worker
    BY <1>1, <1>5, <2>3, PipesUnmoved
  <2>4. QED
    BY <2>2, <2>3
<1>7. Main # p
  BY DrainAssumption
<1>8. shutdown = "done" => worker' = None /\ \A q \in Previews : job'[q].stage \notin Busy
  BY <1>1, <1>5 DEF StagesKept, Busy
<1>9. StagesKept'
  BY <1>1, <1>3, <1>7, <1>8, NoClients, StagesWithPreviews DEF StagesKept
<1>10. QED
  BY <1>3, <1>4, <1>6, <1>9

LEMMA AtWorker ==
  ASSUME PreviewTypes, NEW p \in Previews, job[p].stage \in Busy
  PROVE  Owns(p)
BY DEF PreviewTypes, LineKept

LEMMA CancelledPreviews ==
  ASSUME Inductive, NEW p \in Previews, Cancelled(p)
  PROVE  PreviewsKept' /\ StagesKept'
<1>1. job[p].stage = "queued" /\ ~ Waiting(p) /\ EndJob(p)
      /\ UNCHANGED <<shutdown, held, sessionVars, client, worker>>
  BY DEF Cancelled
<1>2. QED
  BY <1>1, EndPreviews

LEMMA FailPreviews ==
  ASSUME Inductive, NEW p \in Previews, Fail(p)
  PROVE  PreviewsKept' /\ StagesKept'
<1>1. job[p].stage = "asked" /\ EndJob(p) /\ client' = Refuse(p) /\ worker' = None
      /\ UNCHANGED <<shutdown, held, sessionVars>>
  BY DEF Fail
<1>2. Owns(p) /\ job[p].stage \in Busy
  BY <1>1, PartsOfInductive, AtWorker DEF PreviewsKept, Busy
<1>3. QED
  BY <1>1, <1>2, EndPreviews

LEMMA StopJobPreviews ==
  ASSUME Inductive, NEW p \in Previews, StopJob(p)
  PROVE  PreviewsKept' /\ StagesKept'
<1>1. job[p].stage \in {"queued"} \cup Busy /\ EndJob(p) /\ client' = Refuse(p)
      /\ latexStopping /\ UNCHANGED <<shutdown, held, sessionVars, worker>>
  BY DEF StopJob, Busy
<1>2. QED
  BY <1>1, EndPreviews

\* A new worker is the first or takes the place of one that failed.
LEMMA SpawnPreviews ==
  ASSUME Inductive, NEW p \in Previews, Spawn(p)
  PROVE  PreviewsKept' /\ StagesKept'
<1> USE PartsOfInductive DEF PreviewsKept
<1>1. job[p].stage = "starting" /\ UNCHANGED <<shutdown, held, sessionVars>>
  BY DEF Spawn
<1>2. Owns(p)
  BY <1>1, AtWorker DEF Busy
<1>3. CASE EndJob(p) /\ client' = Refuse(p) /\ UNCHANGED worker
  BY <1>1, <1>3, EndPreviews DEF Busy
<1>4. CASE /\ worker' = NewWorker
           /\ job' = [job EXCEPT ![p].stage = "ready"]
           /\ UNCHANGED <<client, line>>
  <2>1. /\ job' \in [Previews -> Job]
        /\ job'[p].stage = "ready" /\ job'[p].key = job[p].key
        /\ \A q \in Previews \ {p} : job'[q] = job[q]
    BY <1>1, <1>4, JobMoves DEF Working
  <2>2. /\ NewWorker \in Process
        /\ NewWorker.asked = <<>> /\ NewWorker.said = <<>> /\ NewWorker.config = NewWorker.sent
    BY EmptySeq DEF NewWorker, Process
  <2>3. shutdown # "done"
    BY <1>1 DEF StagesKept, Busy
  <2>4. \A q \in Previews \ {p} : job[q].stage \notin Busy
    BY <1>2, OneBusy
  <2>5. worker' # None /\ worker' \in Process
    BY <1>4, <2>2, NoneAssumption
  <2>6. LineKept'
    <3>1. \A q \in Previews : Owns(q)' <=> Owns(q)
      BY <1>4 DEF Owns
    <3>2. QED
      BY <1>1, <1>2, <1>4, <2>1, <2>4, <2>5, <3>1 DEF PreviewTypes, LineKept, Busy
  <2>7. ClientsMatch'
    BY <1>1, <1>4, <2>1 DEF ClientsMatch, NoJob
  <2>8. PipesMatch'
    <3>1. \A q \in Previews : job'[q].stage # "asked"
      BY <2>1, <2>4 DEF Busy
    <3>2. QED
      BY <1>4, <2>2, <3>1 DEF PipesMatch
  <2>9. StagesKept'
    BY <1>1, <1>4, <2>3, NoClients, StagesWithPreviews DEF StagesKept
  <2>10. QED
    BY <1>4, <2>1, <2>5, <2>6, <2>7, <2>8, <2>9 DEF PreviewTypes
<1>5. QED
  BY <1>3, <1>4 DEF Spawn

\* The fields of a worker.
LEMMA WorkerShape ==
  ASSUME PreviewTypes, worker # None
  PROVE  /\ worker \in Process
         /\ worker.sent \in Projects \cup {None} /\ worker.config \in Projects \cup {None}
         /\ worker.asked \in Seq([for : Previews, key : Projects, project : Projects \cup {None}])
         /\ worker.said \in Seq(Said)
BY DEF PreviewTypes, Process

LEMMA AskPreviews ==
  ASSUME Inductive, NEW p \in Previews, Ask(p)
  PROVE  PreviewsKept' /\ StagesKept'
<1> USE PartsOfInductive DEF PreviewsKept
<1>1. job[p].stage = "ready" /\ UNCHANGED <<shutdown, held, sessionVars, client, line>>
      /\ job' = [job EXCEPT ![p].stage = "asked"]
  BY DEF Ask
<1>2. Owns(p) /\ worker # None
  BY <1>1, AtWorker DEF Busy, PreviewTypes, LineKept
<1>3. /\ job' \in [Previews -> Job]
      /\ job'[p].stage = "asked" /\ job'[p].key = job[p].key /\ job[p].key \in Projects
      /\ \A q \in Previews \ {p} : job'[q] = job[q]
  BY <1>1, JobMoves, JobShape DEF Working
<1> DEFINE key == job[p].key
           request == [for |-> p, key |-> key,
                       project |-> IF worker.sent = key THEN None ELSE key]
           asked == Append(worker.asked, request)
           new == [worker EXCEPT !.asked = asked]
<1>4. worker' = new
  BY DEF Ask
<1>5. request \in [for : Previews, key : Projects, project : Projects \cup {None}]
  BY <1>3
<1>6. asked \in Seq([for : Previews, key : Projects, project : Projects \cup {None}])
  <2> HIDE DEF request
  <2>1. QED
    BY <1>2, <1>5, WorkerShape, AppendProperties
<1>7. /\ new \in Process /\ new.asked = asked /\ new.said = worker.said
      /\ new.config = worker.config /\ new.sent = worker.sent
  <2> HIDE DEF asked
  <2>1. QED
    BY <1>2, <1>6, WorkerShape DEF Process
<1>8. new # None
  BY <1>7, NoneAssumption
<1>9. \A q \in Previews \ {p} : job[q].stage \notin Busy
  BY <1>2, OneBusy
<1>10. LineKept'
  <2> HIDE DEF new
  <2>1. \A q \in Previews : Owns(q)' <=> Owns(q)
    BY <1>1 DEF Owns
  <2>2. QED
    BY <1>1, <1>2, <1>3, <1>4, <1>8, <2>1 DEF PreviewTypes, LineKept, Busy
<1>11. ClientsMatch'
  BY <1>1, <1>3 DEF ClientsMatch, NoJob
<1>12. PipesMatch'
  <2> SUFFICES ASSUME ~ latexStopping' PROVE AskedBy(p)'
    BY <1>3, <1>9 DEF PipesMatch, Busy
  <2>1. ~ latexStopping
    BY <1>1 DEF latexStopping, Reached
  <2>2. worker.asked = <<>> /\ worker.said = <<>> /\ worker.config = worker.sent
    BY <1>1, <1>2, <1>9, <2>1 DEF PipesMatch, Busy
  <2>3. asked = <<request>>
    <3> HIDE DEF request
    <3>1. QED
      BY <2>2
  <2>4. worker'.asked = <<request>> /\ worker'.said = <<>> /\ worker'.config = worker'.sent
        /\ worker'.sent = worker.sent
    <3> HIDE DEF new, request, asked
    <3>1. QED
      BY <1>4, <1>7, <2>2, <2>3
  <2>5. QED
    BY <2>4, <1>3 DEF AskedBy
<1>13. StagesKept'
  <2>1. shutdown # "done"
    BY <1>1 DEF StagesKept, Busy
  <2>2. QED
    BY <1>1, <2>1, NoClients, StagesWithPreviews DEF StagesKept
<1>14. QED
  <2> HIDE DEF new
  <2>1. PreviewTypes'
    BY <1>1, <1>3, <1>4, <1>7, <1>10 DEF PreviewTypes
  <2>2. QED
    BY <2>1, <1>11, <1>12, <1>13

LEMMA RenderPreviews ==
  ASSUME Inductive, Render
  PROVE  PreviewsKept' /\ StagesKept'
<1> USE PartsOfInductive DEF PreviewsKept
<1>1. worker # None /\ worker.asked # <<>>
      /\ UNCHANGED <<shutdown, held, sessionVars, client, job, line>>
  BY DEF Render
<1> DEFINE request == Head(worker.asked)
           config == IF request.project # None THEN request.project ELSE worker.config
           answer == [for |-> request.for,
                      config |-> IF config = request.key THEN config ELSE None]
           asked == Tail(worker.asked)
           said == Append(worker.said, answer)
           new == [worker EXCEPT !.asked = asked, !.config = config, !.said = said]
<1>2. worker' = new
  BY DEF Render
<1>3. /\ request \in [for : Previews, key : Projects, project : Projects \cup {None}]
      /\ asked \in Seq([for : Previews, key : Projects, project : Projects \cup {None}])
  BY <1>1, WorkerShape, HeadTailProperties
<1>4. config \in Projects \cup {None}
  <2> HIDE DEF request
  <2>1. QED
    BY <1>1, <1>3, WorkerShape
<1>5. answer \in Said
  <2> HIDE DEF request, config
  <2>1. QED
    BY <1>3, <1>4 DEF Said
<1>6. said \in Seq(Said)
  <2> HIDE DEF answer
  <2>1. QED
    BY <1>1, <1>5, WorkerShape, AppendProperties
<1>7. /\ new \in Process /\ new.asked = asked /\ new.said = said
      /\ new.config = config /\ new.sent = worker.sent
  <2> HIDE DEF asked, said, config
  <2>1. QED
    BY <1>1, <1>3, <1>4, <1>6, WorkerShape DEF Process
<1>8. new # None
  BY <1>7, NoneAssumption
<1>9. LineKept'
  <2> HIDE DEF new
  <2>1. \A q \in Previews : Owns(q)' <=> Owns(q)
    BY <1>1 DEF Owns
  <2>2. QED
    BY <1>1, <1>2, <1>8, <2>1 DEF PreviewTypes, LineKept
<1>10. ClientsMatch'
  BY <1>1 DEF ClientsMatch
<1>11. PipesMatch'
  <2> SUFFICES ASSUME ~ latexStopping'
               PROVE  /\ \A p \in Previews : job[p].stage = "asked" => AnsweredTo(p)'
                      /\ \E p \in Previews : job[p].stage = "asked"
    BY <1>1 DEF PipesMatch
  <2>1. ~ latexStopping
    BY <1>1 DEF latexStopping, Reached
  <2>2. \E p \in Previews : job[p].stage = "asked"
    BY <1>1, <2>1 DEF PipesMatch
  <2>3. ASSUME NEW p \in Previews, job[p].stage = "asked" PROVE AnsweredTo(p)'
    <3>1. AskedBy(p)
      BY <1>1, <2>1, <2>3 DEF PipesMatch, AnsweredTo
    <3>2. job[p].key \in Projects /\ job[p].key # None
      BY <2>3, JobShape, DrainAssumption
    <3>3. /\ request = [for |-> p, key |-> job[p].key,
                        project |-> IF worker.sent = job[p].key THEN None ELSE job[p].key]
          /\ asked = <<>>
      BY <3>1 DEF AskedBy
    <3>4. config = job[p].key
      <4> HIDE DEF request
      <4>1. QED
        BY <3>1, <3>2, <3>3 DEF AskedBy
    <3>5. answer = [for |-> p, config |-> job[p].key]
      <4>1. request.for = p /\ request.key = job[p].key
        BY <3>3
      <4> HIDE DEF request, config
      <4>2. QED
        BY <3>4, <4>1
    <3>6. said = <<[for |-> p, config |-> job[p].key]>>
      <4> HIDE DEF answer
      <4>1. worker.said = <<>>
        BY <3>1 DEF AskedBy
      <4>2. QED
        BY <3>5, <4>1
    <3>7. worker'.asked = asked /\ worker'.said = said /\ worker'.config = config
      <4> HIDE DEF new
      <4>1. QED
        BY <1>2, <1>7
    <3>8. QED
      <4> HIDE DEF asked, said, config
      <4>1. QED
        BY <1>1, <3>3, <3>4, <3>6, <3>7 DEF AnsweredTo
  <2>4. QED
    BY <2>2, <2>3
<1>12. StagesKept'
  BY <1>1, NoClients, StagesWithPreviews DEF StagesKept
<1>13. QED
  <2> HIDE DEF new
  <2>1. PreviewTypes'
    BY <1>1, <1>2, <1>7, <1>9 DEF PreviewTypes
  <2>2. QED
    BY <2>1, <1>10, <1>11, <1>12

LEMMA AnswerPreviews ==
  ASSUME Inductive, NEW p \in Previews, Answer(p)
  PROVE  PreviewsKept' /\ StagesKept'
<1> USE PartsOfInductive DEF PreviewsKept
<1>1. job[p].stage = "asked" /\ worker.said # <<>> /\ EndJob(p)
      /\ UNCHANGED <<shutdown, held, sessionVars>>
  BY DEF Answer
<1>2. Owns(p) /\ worker # None /\ job[p].key \in Projects
  BY <1>1, AtWorker, JobShape DEF Busy, PreviewTypes, LineKept
<1> DEFINE said == Head(worker.said)
           rest == Tail(worker.said)
           new == [worker EXCEPT !.said = rest, !.sent = job[p].key]
           answered == [stage |-> "answered", key |-> client[p].key, answer |-> said]
<1>3. worker' = new
  BY DEF Answer
<1>4. said \in Said /\ rest \in Seq(Said)
  BY <1>1, <1>2, WorkerShape, HeadTailProperties
<1>5. /\ new \in Process /\ new.asked = worker.asked /\ new.said = rest
      /\ new.config = worker.config /\ new.sent = job[p].key
  <2> HIDE DEF rest
  <2>1. QED
    BY <1>2, <1>4, WorkerShape DEF Process
<1>6. /\ LineKept' /\ job' \in [Previews -> Job]
      /\ job'[p] = NoJob /\ \A q \in Previews \ {p} : job'[q] = job[q]
      /\ Range(line') = Range(line) \ {p}
  BY <1>1, <1>2, JobEnds
<1>7. NoJob.stage = "none"
  BY DEF NoJob
<1>8. \A q \in Previews \ {p} : job[q].stage \notin Busy
  BY <1>2, OneBusy
<1>9. \A q \in Previews : job'[q].stage # "asked"
  BY <1>6, <1>7, <1>8 DEF Busy
<1>10. ~ latexStopping => AnsweredTo(p)
  BY <1>1, <1>2 DEF PipesMatch, AskedBy
<1>11. PipesMatch'
  <2> SUFFICES ASSUME ~ latexStopping'
               PROVE  worker'.asked = <<>> /\ worker'.said = <<>> /\ worker'.config = worker'.sent
    BY <1>9 DEF PipesMatch
  <2>1. ~ latexStopping
    BY <1>1 DEF latexStopping, Reached
  <2>2. worker.asked = <<>> /\ worker.config = job[p].key /\ rest = <<>>
    <3> DEFINE mine == [for |-> p, config |-> job[p].key]
    <3>1. worker.asked = <<>> /\ worker.config = job[p].key /\ worker.said = <<mine>>
      BY <1>10, <2>1 DEF AnsweredTo
    <3> HIDE DEF mine
    <3>2. QED
      BY <3>1
  <2>3. QED
    <3> HIDE DEF new, rest
    <3>1. QED
      BY <1>3, <1>5, <2>2
<1>12. CASE ~ Waiting(p)
  <2>1. client' = client
    BY <1>12 DEF Answer
  <2>2. ClientsMatch' /\ client' \in [Previews -> Client]
    BY <1>1, <1>2, <1>12, <2>1, ClientsOfEnd
  <2>3. PreviewTypes'
    <3> HIDE DEF new
    <3>1. QED
      BY <1>3, <1>5, <1>6, <2>2 DEF PreviewTypes
  <2>4. shutdown # "done" /\ Main # p
    BY <1>1, DrainAssumption DEF StagesKept, Busy
  <2>5. StagesKept'
    BY <1>1, <1>6, <2>1, <2>4, NoClients, StagesWithPreviews DEF StagesKept
  <2>6. QED
    BY <1>11, <2>2, <2>3, <2>5
<1>13. CASE Waiting(p)
  <2>1. client[p].stage = "waiting" /\ client[p].key \in Projects
        /\ client[p].key = job[p].key
    BY <1>13, ClientShape DEF Waiting, ClientsMatch
  <2>2. shutdown \notin Gated
    BY <1>13, NoClients
  <2>3. AnsweredTo(p)
    BY <1>10, <2>2, FlagsOf DEF Gated
  <2>4. said = [for |-> p, config |-> client[p].key]
    BY <2>1, <2>3 DEF AnsweredTo
  <2>5. answered \in Client /\ answered.stage = "answered"
        /\ answered.answer = [for |-> p, config |-> answered.key]
    <3>1. answered \in [stage : {"answered"}, key : Projects, answer : Said]
          /\ answered.stage = "answered" /\ answered.key = client[p].key
          /\ answered.answer = said
      <4> HIDE DEF said
      <4>1. QED
        BY <1>4, <2>1
    <3> HIDE DEF answered, said
    <3>2. QED
      BY <3>1, <2>4 DEF Client
  <2>6. client' = [client EXCEPT ![p] = answered]
    BY <1>13 DEF Answer
  <2> HIDE DEF answered
  <2>7. /\ client' \in [Previews -> Client] /\ client'[p] = answered
        /\ \A q \in Previews \ {p} : client'[q] = client[q]
    BY <2>5, <2>6, ClientReplaced
  <2>8. ClientsMatch'
    <3> SUFFICES ASSUME NEW q \in Previews
                 PROVE  /\ client'[q].stage = "captured" => job'[q] = NoJob
                        /\ client'[q].stage = "waiting" =>
                             job'[q].stage # "none" /\ job'[q].key = client'[q].key
                        /\ client'[q].stage = "answered" =>
                             client'[q].answer = [for |-> q, config |-> client'[q].key]
      BY DEF ClientsMatch
    <3>1. CASE q = p
      BY <3>1, <2>5, <2>7
    <3>2. CASE q # p
      BY <3>2, <1>6, <2>7 DEF ClientsMatch
    <3>3. QED
      BY <3>1, <3>2
  <2>9. PreviewTypes'
    <3> HIDE DEF new
    <3>1. QED
      BY <1>3, <1>5, <1>6, <2>7 DEF PreviewTypes
  <2>10. Main # p
    BY DrainAssumption
  <2>11. StagesKept'
    BY <1>1, <1>6, <2>2, <2>10, StagesWithPreviews DEF StagesKept, Gated
  <2>12. QED
    BY <1>11, <2>8, <2>9, <2>11
<1>14. QED
  BY <1>12, <1>13

-----------------------------------------------------------------------------
(***************************************************************************)
(* Service::shutdown.                                                      *)
(***************************************************************************)
LEMMA StopInductive == Inductive /\ (Stop \/ CloseSlots \/ StopLatex) => Inductive'
<1> SUFFICES ASSUME Inductive, Stop \/ CloseSlots \/ StopLatex PROVE Inductive'
  OBVIOUS
<1> USE PartsOfInductive
<1>1. /\ UNCHANGED <<held, sessionVars>> /\ UNCHANGED previewVars
      /\ \/ shutdown = "serving" /\ shutdown' = "closing"
         \/ shutdown = "closing" /\ shutdown' = "draining"
         \/ shutdown = "latex" /\ shutdown' = "locking"
  BY DEF Stop, CloseSlots, StopLatex, Advance
<1>2. shutdown' \in Range(Stages)
  BY <1>1, AllStages
<1>3. latexStopping => latexStopping'
  BY <1>1, FlagsOf
<1>4. SessionsKept' /\ PreviewsKept'
  BY <1>1, <1>3, SessionsUntouched, PreviewsUntouched
<1>5. StagesKept'
  <2>1. Readers' = Readers
    BY <1>1 DEF Readers, sessionVars, previewVars
  <2>2. QED
    BY <1>1, <2>1 DEF StagesKept, Gated, Emptied, sessionVars, previewVars
<1>6. QED
  BY <1>2, <1>4, <1>5, PartsOfNext

LEMMA DrainInductive == Inductive /\ (Drain \/ WaitEditors) => Inductive'
<1> SUFFICES ASSUME Inductive, Drain \/ WaitEditors PROVE Inductive'
  OBVIOUS
<1> USE PartsOfInductive
<1>1. /\ UNCHANGED <<held, sessionVars>> /\ UNCHANGED previewVars
      /\ \/ shutdown = "draining" /\ shutdown' = "taking" /\ Readers = {}
         \/ shutdown = "waiting" /\ shutdown' = "latex"
  BY DEF Drain, WaitEditors, Advance
<1>2. shutdown' \in Range(Stages)
  BY <1>1, AllStages
<1>3. ~ latexStopping
  BY <1>1, FlagsOf
<1>4. SessionsKept' /\ PreviewsKept'
  BY <1>1, <1>3, SessionsUntouched, PreviewsUntouched
<1>5. StagesKept'
  <2>1. Readers' = Readers
    BY <1>1 DEF Readers, sessionVars, previewVars
  <2>2. QED
    BY <1>1, <2>1 DEF StagesKept, Gated, Emptied, sessionVars, previewVars
<1>6. QED
  BY <1>2, <1>4, <1>5, PartsOfNext

\* The entries change hands and keep their slots.
LEMMA TakeEditorsInductive == Inductive /\ TakeEditors => Inductive'
<1> SUFFICES ASSUME Inductive, TakeEditors PROVE Inductive'
  OBVIOUS
<1> USE PartsOfInductive
<1>1. /\ shutdown = "taking" /\ shutdown' = "cancelling"
      /\ held' = {e \in Sessions : editors[e] # "none"}
      /\ editors' = [e \in Sessions |-> "none"]
      /\ UNCHANGED <<reserving, connecting, closing, task, told, previewVars>>
  BY DEF TakeEditors, Advance
<1>2. shutdown' \in Range(Stages) /\ ~ latexStopping
  BY <1>1, AllStages, FlagsOf
<1>3. PreviewsKept'
  BY <1>1, <1>2, PreviewsUntouched
<1>4. held = {}
  BY <1>1 DEF StagesKept, Emptied
<1>5. Holding' \subseteq Holding
  BY <1>1 DEF Holding, HoldsSlot
<1>6. SessionsKept'
  BY <1>1, <1>4, <1>5, NoMoreSlots DEF SessionsKept, SessionTypes, ReservedAlone, ToldUnlessHeld
<1>7. StagesKept'
  <2>1. Readers' = Readers
    BY <1>1 DEF Readers, previewVars
  <2>2. QED
    BY <1>1, <2>1 DEF StagesKept, Gated, Emptied, previewVars
<1>8. QED
  BY <1>2, <1>3, <1>6, <1>7, PartsOfNext

LEMMA CancelInductive == Inductive /\ Cancel => Inductive'
<1> SUFFICES ASSUME Inductive, Cancel PROVE Inductive'
  OBVIOUS
<1> USE PartsOfInductive
<1>1. /\ shutdown = "cancelling" /\ shutdown' = "waiting"
      /\ told' = told \cup {e \in held : task[e] # "none"}
      /\ UNCHANGED <<held, editors, reserving, connecting, closing, task, previewVars>>
  BY DEF Cancel, Advance, Tell
<1>2. shutdown' \in Range(Stages) /\ ~ latexStopping
  BY <1>1, AllStages, FlagsOf
<1>3. PreviewsKept'
  BY <1>1, <1>2, PreviewsUntouched
<1>4. Holding' \subseteq Holding
  BY <1>1 DEF Holding, HoldsSlot
<1>5. SessionsKept'
  BY <1>1, <1>4, NoMoreSlots DEF SessionsKept, SessionTypes, ReservedAlone, ToldUnlessHeld
<1>6. StagesKept'
  <2>1. Readers' = Readers
    BY <1>1 DEF Readers, previewVars
  <2>2. QED
    BY <1>1, <2>1 DEF StagesKept, Gated, Emptied, previewVars
<1>7. QED
  BY <1>2, <1>3, <1>5, <1>6, PartsOfNext

LEMMA LockWorkerInductive == Inductive /\ LockWorker => Inductive'
<1> SUFFICES ASSUME Inductive, LockWorker PROVE Inductive'
  OBVIOUS
<1> USE PartsOfInductive DEF PreviewsKept
<1>1. /\ shutdown = "locking" /\ shutdown' = "dropping" /\ line' = Append(line, Main)
      /\ UNCHANGED <<held, sessionVars, client, job, worker>>
  BY DEF LockWorker, Advance
<1>2. shutdown' \in Range(Stages) /\ latexStopping /\ latexStopping'
  BY <1>1, AllStages, FlagsOf, FlagsOfNext
<1>3. SessionsKept'
  BY <1>1, SessionsUntouched
<1>4. /\ line' \in Seq(Previews \cup {Main}) /\ IsInjective(line')
      /\ Range(line') = Range(line) \cup {Main}
      /\ line # <<>> => line' # <<>> /\ Head(line') = Head(line)
  <2> DEFINE Members == Previews \cup {Main}
  <2>1. /\ line \in Seq(Members) /\ IsInjective(line)
        /\ Main \notin Range(line) /\ Main \in Members /\ line' = Append(line, Main)
    BY <1>1 DEF PreviewTypes, LineKept, StagesKept
  <2> HIDE DEF Members
  <2>2. /\ Append(line, Main) \in Seq(Members) /\ IsInjective(Append(line, Main))
        /\ Range(Append(line, Main)) = Range(line) \cup {Main}
        /\ line # <<>> => Append(line, Main) # <<>> /\ Head(Append(line, Main)) = Head(line)
    BY <2>1, AppendOne, Zenon
  <2>3. /\ line' \in Seq(Members) /\ IsInjective(line')
        /\ Range(line') = Range(line) \cup {Main}
        /\ line # <<>> => line' # <<>> /\ Head(line') = Head(line)
    BY <2>1, <2>2, Zenon
  <2>4. QED
    BY <2>3 DEF Members
<1>5. \A q \in Previews : (Owns(q) => Owns(q)') /\ (q \in Range(line') <=> q \in Range(line))
  BY <1>4, DrainAssumption DEF Owns
<1>6. LineKept'
  BY <1>1, <1>4, <1>5 DEF PreviewTypes, LineKept
<1>7. PreviewsKept'
  BY <1>1, <1>2, <1>6 DEF PreviewTypes, ClientsMatch, PipesMatch
<1>8. StagesKept'
  <2>1. Readers' = Readers
    BY <1>1 DEF Readers, sessionVars
  <2>2. Main \in Range(line')
    BY <1>4
  <2>3. QED
    BY <1>1, <2>1, <2>2 DEF StagesKept, Gated, Emptied, sessionVars
<1>9. QED
  BY <1>2, <1>3, <1>7, <1>8, PartsOfNext

\* Whoever was at the worker has left it when shutdown holds its lock, and
\* nobody waits for an answer any more.
LEMMA DropWorkerInductive == Inductive /\ DropWorker => Inductive'
<1> SUFFICES ASSUME Inductive, DropWorker PROVE Inductive'
  OBVIOUS
<1> USE PartsOfInductive DEF PreviewsKept
<1>1. /\ shutdown = "dropping" /\ shutdown' = "done" /\ line' = Tail(line)
      /\ worker' = None /\ held' = {} /\ line # <<>> /\ Head(line) = Main
      /\ UNCHANGED <<sessionVars, client, job>>
  BY DEF DropWorker, Advance, Owns
<1>2. shutdown' \in Range(Stages)
  BY <1>1, AllStages
<1>3. /\ line' \in Seq(Previews \cup {Main}) /\ IsInjective(line')
      /\ Range(line') = Range(line) \ {Main}
  <2> DEFINE Members == Previews \cup {Main}
  <2>1. line \in Seq(Members) /\ IsInjective(line)
    BY DEF PreviewTypes, LineKept
  <2> HIDE DEF Members
  <2>2. line' \in Seq(Members) /\ IsInjective(line') /\ Range(line') = Range(line) \ {Head(line)}
    BY <1>1, <2>1, TailOne
  <2>3. QED
    BY <1>1, <2>2 DEF Members
<1>4. \A q \in Previews : job[q].stage \notin Busy
  BY <1>1, DrainAssumption DEF PreviewTypes, LineKept, Owns
<1>5. \A q \in Previews : q \in Range(line') <=> q \in Range(line)
  BY <1>3, DrainAssumption
<1>6. LineKept'
  BY <1>1, <1>3, <1>4, <1>5 DEF PreviewTypes, LineKept, Busy
<1>7. PreviewsKept'
  BY <1>1, <1>6 DEF PreviewTypes, ClientsMatch, PipesMatch
<1>8. Holding' \subseteq Holding
  BY <1>1 DEF Holding, HoldsSlot, sessionVars
<1>9. ToldUnlessHeld'
  BY <1>1 DEF SessionsKept, ToldUnlessHeld, StagesKept, Emptied, sessionVars
<1>10. SessionsKept'
  BY <1>1, <1>8, <1>9, NoMoreSlots DEF SessionsKept, SessionTypes, ReservedAlone, sessionVars
<1>11. StagesKept'
  <2>1. Readers' = Readers
    BY <1>1 DEF Readers, sessionVars
  <2>2. QED
    BY <1>1, <1>3, <1>4, <2>1 DEF StagesKept, Gated, Emptied, sessionVars
<1>12. QED
  BY <1>2, <1>7, <1>10, <1>11, PartsOfNext

-----------------------------------------------------------------------------
(***************************************************************************)
(* All steps.                                                              *)
(***************************************************************************)
\* A step of a session leaves the previews alone.
LEMMA SessionInductive ==
  ASSUME Inductive, NEW e \in Sessions,
         DropReserve(e) \/ DropConnect(e) \/ DropClose(e) \/ EditorStep(e)
  PROVE  Inductive'
<1>1. UNCHANGED <<shutdown, previewVars>>
  BY DEF DropReserve, DropConnect, DropClose, EditorStep, Reserve, TakeSlot, Insert, Expire,
         Connect, TakeInput, Proceed, Remove, CloseEditor, CloseEntry, CloseTask
<1>2. latexStopping => latexStopping'
  BY <1>1 DEF latexStopping, Reached
<1>3. SessionsKept' /\ StagesKept'
  BY LeaveSessions, ReserveSessions, TakeSlotSessions, InsertSessions, ExpireSessions,
     ConnectSessions, TakeInputSessions, ProceedSessions, RemoveSessions,
     CloseEditorSessions, CloseEntrySessions, CloseTaskSessions DEF EditorStep
<1>4. PreviewsKept'
  BY <1>1, <1>2, PartsOfInductive, PreviewsUntouched
<1>5. QED
  BY <1>1, <1>3, <1>4, PartsOfNext, PartsOfInductive

\* A step of a preview leaves the sessions alone.
LEMMA PreviewInductive ==
  ASSUME Inductive, NEW p \in Previews,
         \/ DropPreview(p) \/ \E key \in Projects : Preview(p, key)
         \/ Submit(p) \/ JobStep(p) \/ Answer(p)
  PROVE  Inductive'
<1>1. UNCHANGED <<shutdown, held, sessionVars>>
  BY DEF DropPreview, Preview, Submit, JobStep, Answer, Check, Queue, Cancelled, Turn,
         Spawn, Ask, Fail, StopJob
<1>2. PreviewsKept' /\ StagesKept'
  BY DropPreviewPreviews, PreviewPreviews, SubmitPreviews, CheckPreviews, QueuePreviews,
     CancelledPreviews, TurnPreviews, SpawnPreviews, AskPreviews, FailPreviews,
     StopJobPreviews, AnswerPreviews DEF JobStep
<1>3. SessionsKept'
  BY <1>1, PartsOfInductive, SessionsUntouched
<1>4. QED
  BY <1>1, <1>2, <1>3, PartsOfNext, PartsOfInductive

LEMMA NextInductive == Inductive /\ [Next]_vars => Inductive'
<1> SUFFICES ASSUME Inductive, [Next]_vars PROVE Inductive'
  OBVIOUS
<1>1. CASE \E e \in Sessions :
             DropReserve(e) \/ DropConnect(e) \/ DropClose(e) \/ EditorStep(e)
  BY <1>1, SessionInductive
<1>2. CASE \E p \in Previews :
             \/ DropPreview(p) \/ \E key \in Projects : Preview(p, key)
             \/ Submit(p) \/ JobStep(p) \/ Answer(p)
  BY <1>2, PreviewInductive
<1>3. CASE Render
  <2>1. UNCHANGED <<shutdown, held, sessionVars>>
    BY <1>3 DEF Render
  <2>2. QED
    BY <1>3, <2>1, RenderPreviews, PartsOfInductive, PartsOfNext, SessionsUntouched
<1>4. CASE Stop \/ ShutdownStep
  BY <1>4, StopInductive, DrainInductive, TakeEditorsInductive, CancelInductive,
     LockWorkerInductive, DropWorkerInductive DEF ShutdownStep
<1>5. CASE UNCHANGED vars
  <2>1. UNCHANGED <<shutdown, held, sessionVars, previewVars>>
    BY <1>5 DEF vars
  <2>2. SessionsKept' /\ PreviewsKept'
    BY <2>1, PartsOfInductive, SessionsUntouched, PreviewsUntouched DEF latexStopping, Reached
  <2>3. StagesKept'
    BY <2>1, PartsOfInductive DEF StagesKept, Readers, sessionVars, previewVars
  <2>4. QED
    BY <2>1, <2>2, <2>3, PartsOfNext, PartsOfInductive
<1>6. QED
  BY <1>1, <1>2, <1>3, <1>4, <1>5 DEF Next, Leave

\* Slots, connections, the worker's pipes and the stages of the shutdown fit
\* together at all times.
THEOREM InductiveInvariant == Spec => []Inductive
BY InitInductive, NextInductive, PTL DEF Spec

\* Every variable has its type, and nobody but the task at the head of the
\* line touches the worker (ServiceDrain!TypeOK).
THEOREM TypeCorrect == Spec => []TypeOK
<1>1. Inductive => TypeOK
  BY DEF Inductive
<1>2. QED
  BY <1>1, InductiveInvariant, PTL

\* However slots return, live sessions never outnumber them.
THEOREM SlotsBoundSessions == Spec => []LiveSessionsBounded
<1>1. Inductive => LiveSessionsBounded
  <2> SUFFICES ASSUME Inductive PROVE LiveSessionsBounded
    OBVIOUS
  <2> DEFINE Live == {e \in Sessions :
        \/ editors[e] = "input"
        \/ /\ task[e] \in {"preparing", "bridging"}
           /\ e \notin told /\ closing[e] # "dropped"}
  <2>1. Live \subseteq Holding
    BY DEF Inductive, ToldUnlessHeld, Holding, HoldsSlot
  <2>2. IsFiniteSet(Holding)
    BY FS_Subset, DrainAssumption DEF Holding
  <2> HIDE DEF Live
  <2>3. Cardinality(Live) \in Nat /\ Cardinality(Holding) \in Nat
        /\ Cardinality(Live) <= Cardinality(Holding)
    BY <2>1, <2>2, FS_Subset, FS_CardinalityType
  <2>4. Cardinality(Live) <= EditorSlots
    BY <2>3, DrainAssumption DEF Inductive, SlotsKept
  <2>5. QED
    BY <2>4 DEF Live, LiveSessionsBounded
<1>2. QED
  BY <1>1, InductiveInvariant, PTL

\* When shutdown has returned there is no session, no request, no worker, and
\* no connection that has not been told to end.
THEOREM NothingRemains == Spec => []NothingAfterShutdown
<1>1. Inductive => NothingAfterShutdown
  <2> SUFFICES ASSUME Inductive, shutdown = "done"
               PROVE  /\ \A e \in Sessions :
                           /\ ~ HoldsSlot(e)
                           /\ task[e] \in {"upgrading", "preparing", "bridging"} => e \in told
                      /\ Readers = {}
                      /\ worker = None
    BY DEF NothingAfterShutdown
  <2>1. held = {} /\ Readers = {} /\ worker = None /\ \A e \in Sessions : editors[e] = "none"
    BY DEF Inductive, StagesKept, Gated, Emptied
  <2>2. QED
    BY <2>1, NoReaders DEF Inductive, HoldsSlot, ToldUnlessHeld
<1>2. QED
  BY <1>1, InductiveInvariant, PTL

\* Every preview gets what was rendered for it, in its own project.
THEOREM AnswersAreExact == Spec => []AnswersExact
<1>1. Inductive => AnswersExact
  BY DEF Inductive, ClientsMatch, AnswersExact
<1>2. QED
  BY <1>1, InductiveInvariant, PTL
=============================================================================
