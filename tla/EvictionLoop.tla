---------------------------- MODULE EvictionLoop ----------------------------
(***************************************************************************)
(* The loop of collect_pools in lean/gc.rs that plans an eviction: it goes *)
(* through the mappings in the order of their last use, with a count of    *)
(* the references to each object.  CacheGC says which plans are right.     *)
(***************************************************************************)
EXTENDS CacheGC, SequencesExt

References(c) == [o \in Objects |->
  Cardinality({m \in MappingsIn(collector[c].held) : o \in Refs[m]})]

Orphans(c) ==
  {o \in ObjectsIn(collector[c].held) \ collector[c].young : References(c)[o] = 0}

StartPlan(c) ==
  [count |-> References(c), remove |-> Orphans(c),
   remaining |-> Before(c) - Cardinality(Orphans(c))]

\* Mutant: the objects of an evicted mapping go although others name them.
EvictShared(c, plan, m) ==
  IF m \in collector[c].young \/ Within(c, plan.remaining)
  THEN plan
  ELSE LET freed == {o \in ObjectsIn(collector[c].held) \cap Refs[m] :
                       o \notin collector[c].young}
       IN  [plan EXCEPT !.remove = @ \cup {m} \cup freed,
                        !.remaining = @ - Cardinality(freed)]

\* One mapping: retained, or evicted with the objects it was the last to name.
EvictNext(c, plan, m) ==
  IF m \in collector[c].young \/ Within(c, plan.remaining)
  THEN plan
  ELSE LET freed == {o \in ObjectsIn(collector[c].held) \cap Refs[m] :
                       plan.count[o] = 1 /\ o \notin collector[c].young}
       IN  [count |-> [o \in Objects |->
                         plan.count[o] - (IF o \in Refs[m] THEN 1 ELSE 0)],
            remove |-> plan.remove \cup {m} \cup freed,
            remaining |-> plan.remaining - Cardinality(freed)]

Loop(c, order) ==
  LET after[k \in 0 .. Len(order)] ==
        IF k = 0 THEN StartPlan(c) ELSE EvictNext(c, after[k - 1], order[k])
  IN  after[Len(order)]

\* Whatever the order of last use, the loop plans one of the evictions that
\* Plan may choose, with all the objects that it leaves unreferenced and no
\* other, and each of them for some order.  Its count of what remains is right.
LoopPlansEvictions == \A c \in Collectors :
  collector[c].stage = "lock" /\ collector[c].todo = {} =>
    LET orders == SetToSeqs(MappingsIn(collector[c].held))
    IN  /\ {Loop(c, order).remove : order \in orders} =
             {ms \cup Unreferenced(c, ms) : ms \in Evictions(c)}
        /\ \A order \in orders :
             LET plan == Loop(c, order)
             IN  plan.remaining = Before(c) - Cardinality(plan.remove \cap Objects)
=============================================================================
