------------------------ MODULE EditorObserverProofs ------------------------
(***************************************************************************)
(* Proofs about EditorObserver: what a certificate of the editor rests on, *)
(* for any graph, documents, sources, requests and lengths of queues.      *)
(***************************************************************************)
EXTENDS EditorObserver, FiniteSetTheorems, SequenceTheorems, WellFoundedInduction, TLAPS

-----------------------------------------------------------------------------
(***************************************************************************)
(* The inductive invariant: types.                                         *)
(***************************************************************************)
ToLean ==
  [kind : {"open", "change"}, uri : Docs, text : Revisions, version : Versions]
    \cup [kind : {"close"}, uri : Docs]
    \cup [kind : {"wait"}, id : Ids, uri : Docs, version : Versions]
    \cup [kind : {"imports"}, id : Ids, uri : Docs]

FromLean ==
  [kind : {"diagnostics"}, uri : Docs, version : Versions, incremental : BOOLEAN,
   part : Part]
    \cup [kind : {"done"}, id : Ids]
    \cup [kind : {"names"}, id : Ids, text : Revisions]
    \cup [kind : {"error"}, id : Ids]

DocInputs == UNION {Inputs(u) : u \in Docs}

AnyInput == UNION {Inputs(n) : n \in Nodes}
AnyDocument == UNION {OpenDocument(u) : u \in Docs}
AnyWorker == UNION {WorkerState(u) : u \in Docs}

ObserverRecords ==
  [prepared : [Docs -> DocInputs \cup {None}], keys : [Nodes -> AnyInput \cup {None}],
   documents : [Docs -> AnyDocument \cup {None}],
   pending : [Ids -> PendingRequest \cup {None}]]

Selecting ==
  [stage : {"refreshing"}, input : DocInputs, left : SUBSET Nodes]

Certifying ==
  [stage : {"recording", "recorded"}, input : DocInputs, version : Versions,
   diagnostics : Seq(Part), imports : Revisions]

BranchTypes ==
  /\ head \in [Nodes -> Revisions] /\ past \in [Nodes -> SUBSET Revisions]
  /\ returned \subseteq Nodes /\ saves \in 0 .. MaxSaves

WorkspaceTypes ==
  /\ disk \in [Nodes -> Revisions \cup {None}]
  /\ sources \in [Nodes -> Revisions \cup {None}]

ObserverTypes ==
  /\ observer \in ObserverRecords
  /\ \A u \in Docs :
       /\ observer.prepared[u] \in Inputs(u) \cup {None}
       /\ observer.documents[u] = None \/ observer.documents[u] \in OpenDocument(u)
       /\ observer.documents[u] # None => observer.prepared[u] # None
  /\ \A n \in Nodes : observer.keys[n] \in Inputs(n) \cup {None}

QueueTypes ==
  /\ toLean \in Seq(ToLean) /\ Len(toLean) <= MaxQueue
  /\ fromLean \in Seq(FromLean) /\ Len(fromLean) <= MaxQueue

LeanTypes ==
  /\ lean \in [Docs -> AnyWorker \cup {None}]
  /\ \A u \in Docs : lean[u] # None =>
       /\ lean[u] \in WorkerState(u)
       /\ lean[u].shown > 0 => lean[u].env # None

NativeTypes == QueueTypes /\ LeanTypes

SessionTypes ==
  /\ \/ session \in {[stage |-> "over"], [stage |-> "connected"]}
     \/ session \in [stage : {"reserved"}, input : DocInputs]
  /\ \/ custom \in {Idle, [stage |-> "certified"]}
     \/ custom \in Selecting /\ custom.left \subseteq Chain(custom.input.node)
     \/ custom \in Certifying

\* Without a connection there is nothing else.
Unconnected ==
  session.stage # "connected" =>
    /\ observer = NoObserver /\ custom = Idle /\ toLean = <<>> /\ fromLean = <<>>
    /\ \A u \in Docs : lean[u] = None

Types ==
  BranchTypes /\ WorkspaceTypes /\ ObserverTypes /\ NativeTypes /\ SessionTypes
    /\ Unconnected

-----------------------------------------------------------------------------
(***************************************************************************)
(* What is on its way to the native server, and how far a worker has come. *)
(***************************************************************************)
Doc(u) == observer.documents[u]

Starts(m, u) == m.kind \in {"open", "close"} /\ m.uri = u
Sets(m, u) == m.kind \in {"open", "change"} /\ m.uri = u
Alters(m, u) == m.kind \in {"open", "change", "close"} /\ m.uri = u

\* Nothing behind the k-th message opens or closes the document.
Latest(u, k) == \A j \in DOMAIN toLean : j > k => ~ Starts(toLean[j], u)

\* The worker is that of the document that is open.
Serves(u) == Latest(u, 0)

\* It has the present text.
Arrived(u) == Serves(u) /\ lean[u] # None /\ lean[u].version = Doc(u).version

\* It will have, when it takes the k-th message.
Arrives(u, k) ==
  \/ Arrived(u)
  \/ \E j \in DOMAIN toLean :
       /\ j < k /\ Latest(u, j)
       /\ Sets(toLean[j], u) /\ toLean[j].version = Doc(u).version

\* A message that the present document has sent, or the worker that took it.
SentKept(u, k) ==
  /\ ~ (toLean[k].kind = "close" /\ toLean[k].uri = u)
  /\ Sets(toLean[k], u) =>
       /\ toLean[k].version <= Doc(u).version
       /\ toLean[k].version = Doc(u).version =>
            /\ toLean[k].text = Doc(u).source
            /\ \A j \in DOMAIN toLean : j > k => ~ Alters(toLean[j], u)

WorkerKept(u) ==
  /\ lean[u] # None /\ lean[u].version <= Doc(u).version
  /\ lean[u].version = Doc(u).version =>
       /\ lean[u].text = Doc(u).source
       /\ \A j \in DOMAIN toLean : ~ Alters(toLean[j], u)

QueueKept(u) ==
  /\ \A k \in DOMAIN toLean : Latest(u, k) => SentKept(u, k)
  /\ Serves(u) => WorkerKept(u)
  /\ Arrives(u, Len(toLean) + 1)

-----------------------------------------------------------------------------
(***************************************************************************)
(* What is on its way back.                                                *)
(***************************************************************************)
Counts(m, u) ==
  m.kind = "diagnostics" /\ m.uri = u /\ m.version = Doc(u).version

\* Nothing between two places counts for the document.
Silent(u, lo, hi) ==
  \A j \in DOMAIN fromLean : lo < j /\ j < hi => ~ Counts(fromLean[j], u)

\* The document will have the first part of what its worker says, and then
\* both, when the messages before the k-th have been read.
PartOf(u, n) == [part |-> n, text |-> lean[u].text, env |-> lean[u].env]

Half(u, k) ==
  \/ Doc(u).diagnostics = <<PartOf(u, 1)>> /\ Silent(u, 0, k)
  \/ \E j \in DOMAIN fromLean :
       /\ j < k /\ Counts(fromLean[j], u) /\ Silent(u, j, k)
       /\ ~ fromLean[j].incremental /\ fromLean[j].part = PartOf(u, 1)

Whole(u, k) ==
  \/ Doc(u).diagnostics = <<PartOf(u, 1), PartOf(u, 2)>> /\ Silent(u, 0, k)
  \/ \E j \in DOMAIN fromLean :
       /\ j < k /\ Counts(fromLean[j], u) /\ Silent(u, j, k)
       /\ fromLean[j].incremental /\ fromLean[j].part = PartOf(u, 2)
       /\ Half(u, j)

SaidKept(u) ==
  Arrived(u) =>
    /\ lean[u].shown = 1 => Half(u, Len(fromLean) + 1)
    /\ lean[u].shown = 2 => Whole(u, Len(fromLean) + 1)

\* The worker has said all that it has to say of the present text, and all of
\* it lies before the k-th message.
Done(u, k) ==
  Arrived(u) /\ lean[u].shown = 2 /\ Silent(u, k, Len(fromLean) + 1)

ReadKept(u) ==
  /\ Doc(u).complete => Done(u, 0)
  /\ Doc(u).imports # None => Doc(u).imports = Doc(u).source

DocumentKept(u) == Doc(u) # None => QueueKept(u) /\ SaidKept(u) /\ ReadKept(u)

\* A pending request, and all that has its identifier.
Asked(p, m, k) ==
  /\ m.uri = p.uri /\ Latest(p.uri, k)
  /\ m.kind = "wait" => p.kind = "diagnostics" /\ m.version = p.version
  /\ m.kind = "imports" =>
       /\ p.kind = "imports"
       /\ Doc(p.uri) # None /\ p.version = Doc(p.uri).version => Arrives(p.uri, k)

Waits(p, u, w) ==
  u = p.uri /\ Serves(u) /\ p.kind = "diagnostics" /\ w.version = p.version

Replied(p, m, k) ==
  /\ m.kind = "done" =>
       /\ p.kind = "diagnostics"
       /\ Doc(p.uri) # None =>
            /\ p.version <= Doc(p.uri).version
            /\ p.version = Doc(p.uri).version => Done(p.uri, k)
  /\ m.kind = "names" =>
       /\ p.kind = "imports"
       /\ Doc(p.uri) # None /\ p.version = Doc(p.uri).version => m.text = Doc(p.uri).source

AskedKept(i, p) ==
  \A k \in DOMAIN toLean :
    toLean[k].kind \in {"wait", "imports"} /\ toLean[k].id = i => Asked(p, toLean[k], k)

WaitsKept(i, p) ==
  \A u \in Docs : lean[u] # None => \A w \in lean[u].waits : w.id = i => Waits(p, u, w)

RepliedKept(i, p) ==
  \A k \in DOMAIN fromLean :
    fromLean[k].kind # "diagnostics" /\ fromLean[k].id = i => Replied(p, fromLean[k], k)

ImportsKept(p) ==
  p.kind = "imports" /\ Doc(p.uri) # None => p.version <= Doc(p.uri).version

RequestKept(i, p) ==
  AskedKept(i, p) /\ WaitsKept(i, p) /\ RepliedKept(i, p) /\ ImportsKept(p)

PendingKept(i) == observer.pending[i] # None => RequestKept(i, observer.pending[i])

Talk == (\A u \in Docs : DocumentKept(u)) /\ (\A i \in Ids : PendingKept(i))

-----------------------------------------------------------------------------
(***************************************************************************)
(* The workspace, for nodes whose sources never came back.                 *)
(***************************************************************************)
Steady == Nodes \ returned

\* A source that the node has or had.
Held(m, r) == r = head[m] \/ r \in past[m]

FileKept(m) ==
  /\ head[m] \notin past[m]
  /\ sources[m] # None => Held(m, sources[m])
  /\ sources[m] = head[m] => disk[m] = head[m]

ReservedKept(m) ==
  session.stage = "reserved" /\ m \in Chain(session.input.node) =>
    Held(m, session.input.text[m])

\* A request that selects a node is about what the branch was later than
\* anything that the workspace has.
SelectKept(m) ==
  custom.stage = "refreshing" /\ m \in Chain(custom.input.node) =>
    /\ Held(m, custom.input.text[m])
    /\ sources[m] = head[m] => custom.input.text[m] = head[m]

RefreshKept ==
  custom.stage = "refreshing" =>
    \A m \in Chain(custom.input.node) \ custom.left : sources[m] = custom.input.text[m]

PreparedKept(u, m) ==
  observer.prepared[u] # None =>
    /\ Held(m, observer.prepared[u].text[m])
    /\ observer.prepared[u].text[m] = head[m] => sources[m] = head[m]

EnvironmentKept(u, m) ==
  Doc(u) # None =>
    /\ Held(m, Doc(u).environment[m])
    /\ Doc(u).environment[m] = head[m] =>
         /\ sources[m] = head[m]
         /\ Serves(u) /\ lean[u] # None /\ lean[u].env # None => lean[u].env[m] = head[m]

Files ==
  /\ RefreshKept
  /\ \A m \in Steady : FileKept(m) /\ ReservedKept(m) /\ SelectKept(m)
  /\ \A u \in Docs : \A m \in DepsOf[u] \cap Steady :
       PreparedKept(u, m) /\ EnvironmentKept(u, m)

\* What a certificate is being made of.
Certificate ==
  custom.stage \in {"recording", "recorded"} =>
    LET u == custom.input.node
        text == custom.input.text
    IN /\ custom.imports = text[u]
       /\ \E env \in [DepsOf[u] -> Revisions] :
            /\ custom.diagnostics = Verdict(text[u], env)
            /\ \A m \in DepsOf[u] \cap Steady : env[m] = text[m]

\* What is said and certified, as long as no identifier is used again.
Exact == Talk /\ Certificate

Inductive == Types /\ Files /\ reused \in BOOLEAN /\ (~ reused => Exact)


-----------------------------------------------------------------------------
(***************************************************************************)
(* Inputs, messages and queues.                                            *)
(***************************************************************************)
\* A chain holds its node and the chains of what the node depends on.
LEMMA Chains ==
  ASSUME NEW n \in Nodes
  PROVE  /\ Chain(n) \subseteq Nodes /\ n \in Chain(n) /\ DepsOf[n] \subseteq Chain(n)
         /\ n \notin DepsOf[n]
         /\ \A m \in Chain(n) : Chain(m) \subseteq Chain(n) /\ DepsOf[m] \subseteq Chain(n)
BY EditorAssumption DEF Chain

\* An input of a node, taken from sources of its chain.
LEMMA InputsOf ==
  ASSUME NEW n \in Nodes, NEW src, NEW S, src \in [S -> Revisions], Chain(n) \subseteq S
  PROVE  /\ InputOf(src, n) \in Inputs(n)
         /\ InputOf(src, n).node = n
         /\ \A m \in Chain(n) : InputOf(src, n).text[m] = src[m]
<1>. DEFINE t == [m \in Chain(n) |-> src[m]]
<1>1. t \in [Chain(n) -> Revisions]
  OBVIOUS
<1>2. InputOf(src, n) = [node |-> n, text |-> t]
  BY DEF InputOf
<1>3. \A m \in Chain(n) : t[m] = src[m]
  OBVIOUS
<1>. HIDE DEF t
<1>. QED
  BY <1>1, <1>2, <1>3 DEF Inputs

LEMMA InputFields ==
  ASSUME NEW n \in Nodes, NEW input \in Inputs(n)
  PROVE  /\ input.node = n /\ input.text \in [Chain(n) -> Revisions]
         /\ input # None
         /\ Environment(input) \in [DepsOf[n] -> Revisions]
         /\ \A m \in DepsOf[n] : Environment(input)[m] = input.text[m]
<1>1. input.node = n /\ input.text \in [Chain(n) -> Revisions]
  BY DEF Inputs
<1>. QED
  BY <1>1, NoneAssumption, Chains DEF Environment

LEMMA DocInputFields ==
  ASSUME NEW input \in DocInputs
  PROVE  /\ input.node \in Docs /\ input.node \in Nodes /\ input \in Inputs(input.node)
         /\ input.text \in [Chain(input.node) -> Revisions] /\ input # None
<1>1. PICK u \in Docs : input \in Inputs(u)
  BY DEF DocInputs
<1>2. u \in Nodes
  BY EditorAssumption
<1>. QED
  BY <1>1, <1>2, InputFields

LEMMA ToLeanFields ==
  ASSUME NEW m \in ToLean
  PROVE  /\ m.kind \in {"open", "change", "close", "wait", "imports"}
         /\ m.uri \in Docs
         /\ m.kind \in {"open", "change"} => m.text \in Revisions
         /\ m.kind \in {"open", "change", "wait"} => m.version \in Versions
         /\ m.kind \in {"wait", "imports"} => m.id \in Ids
BY DEF ToLean

LEMMA FromLeanFields ==
  ASSUME NEW m \in FromLean
  PROVE  /\ m.kind \in {"diagnostics", "done", "names", "error"}
         /\ m.kind = "diagnostics" =>
              m.uri \in Docs /\ m.version \in Versions /\ m.incremental \in BOOLEAN
                /\ m.part \in Part
         /\ m.kind # "diagnostics" => m.id \in Ids
         /\ m.kind = "names" => m.text \in Revisions
BY DEF FromLean

LEMMA Appending ==
  ASSUME NEW S, NEW q \in Seq(S), NEW m \in S
  PROVE  /\ Append(q, m) \in Seq(S) /\ Len(Append(q, m)) = Len(q) + 1 /\ Len(q) \in Nat
         /\ DOMAIN q = 1 .. Len(q) /\ DOMAIN Append(q, m) = 1 .. (Len(q) + 1)
         /\ \A k \in 1 .. Len(q) : Append(q, m)[k] = q[k]
         /\ Append(q, m)[Len(q) + 1] = m
OBVIOUS

LEMMA Popping ==
  ASSUME NEW S, NEW q \in Seq(S), q # <<>>
  PROVE  /\ Tail(q) \in Seq(S) /\ Len(Tail(q)) = Len(q) - 1 /\ Len(q) \in Nat \ {0}
         /\ DOMAIN q = 1 .. Len(q) /\ DOMAIN Tail(q) = 1 .. (Len(q) - 1)
         /\ \A k \in 1 .. (Len(q) - 1) : Tail(q)[k] = q[k + 1]
         /\ Head(q) = q[1] /\ q[1] \in S
OBVIOUS

-----------------------------------------------------------------------------
(***************************************************************************)
(* Every step keeps the types.                                             *)
(***************************************************************************)
LEMMA InitTypes == Init => Types
<1>. SUFFICES ASSUME Init PROVE Types
  OBVIOUS
<1>1. BranchTypes
  BY EditorAssumption DEF Init, BranchTypes
<1>2. WorkspaceTypes
  BY DEF Init, WorkspaceTypes
<1>3. ObserverTypes
  BY DEF Init, ObserverTypes, ObserverRecords, NoObserver
<1>4. NativeTypes
  BY EditorAssumption DEF Init, NativeTypes, QueueTypes, LeanTypes
<1>5. SessionTypes /\ Unconnected
  BY DEF Init, SessionTypes, Unconnected, Idle
<1>. QED
  BY <1>1, <1>2, <1>3, <1>4, <1>5 DEF Types

LEMMA SameTypes ==
  ASSUME Types
  PROVE  /\ UNCHANGED branch => BranchTypes'
         /\ UNCHANGED workspace => WorkspaceTypes'
         /\ UNCHANGED observer => ObserverTypes'
         /\ UNCHANGED native => NativeTypes'
         /\ UNCHANGED <<session, custom>> => SessionTypes'
         /\ session.stage = "connected" /\ UNCHANGED session => Unconnected'
<1>1. UNCHANGED branch => BranchTypes'
  BY DEF Types, BranchTypes, branch
<1>2. UNCHANGED workspace => WorkspaceTypes'
  BY DEF Types, WorkspaceTypes, workspace
<1>3. UNCHANGED observer => ObserverTypes'
  BY DEF Types, ObserverTypes
<1>4. UNCHANGED native => NativeTypes'
  BY DEF Types, NativeTypes, QueueTypes, LeanTypes, native
<1>5. UNCHANGED <<session, custom>> => SessionTypes'
  BY DEF Types, SessionTypes
<1>6. session.stage = "connected" /\ UNCHANGED session => Unconnected'
  BY DEF Unconnected
<1>. QED
  BY <1>1, <1>2, <1>3, <1>4, <1>5, <1>6

\* What there is without a connection is nothing.
LEMMA Connected ==
  ASSUME Types,
         \/ toLean # <<>> \/ fromLean # <<>> \/ custom # Idle
         \/ \E u \in Docs : lean[u] # None \/ Doc(u) # None
  PROVE  session.stage = "connected"
BY DEF Types, Unconnected, NoObserver, Doc

LEMMA SaveTypes ==
  ASSUME Types, NEW n \in Nodes, NEW r \in SourcesOf[n], Save(n, r)
  PROVE  Types'
<1>1. r \in Revisions
  BY EditorAssumption
<1>2. BranchTypes'
  BY <1>1, EditorAssumption DEF Types, BranchTypes, Save
<1>3. /\ WorkspaceTypes' /\ ObserverTypes' /\ NativeTypes' /\ SessionTypes'
  BY SameTypes DEF Save
<1>4. Unconnected'
  BY DEF Types, Unconnected, Save, native
<1>. QED
  BY <1>2, <1>3, <1>4 DEF Types

LEMMA ReserveTypes ==
  ASSUME Types, NEW u \in Docs, Reserve(u)
  PROVE  Types'
<1>1. u \in Nodes
  BY EditorAssumption
<1>2. InputOf(head, u) \in DocInputs
  BY <1>1, Chains, InputsOf DEF Types, BranchTypes, DocInputs
<1>3. BranchTypes' /\ WorkspaceTypes' /\ ObserverTypes' /\ NativeTypes'
  BY SameTypes DEF Reserve
<1>4. SessionTypes'
  BY <1>2 DEF Types, SessionTypes, Reserve
<1>5. Unconnected'
  BY DEF Types, Unconnected, Reserve, native
<1>. QED
  BY <1>3, <1>4, <1>5 DEF Types

\* The keys of a prepared observer are those of the input's chain.
LEMMA PreparedFields ==
  ASSUME NEW obs, NEW input \in DocInputs,
         obs \in ObserverRecords,
         \A n \in Nodes : obs.keys[n] \in Inputs(n) \cup {None}
  PROVE  /\ Prepared(obs, input) \in ObserverRecords
         /\ Prepared(obs, input).documents = obs.documents
         /\ Prepared(obs, input).pending = obs.pending
         /\ \A u \in Docs : Prepared(obs, input).prepared[u]
              = IF u = input.node THEN input ELSE obs.prepared[u]
         /\ \A n \in Nodes : Prepared(obs, input).keys[n] \in Inputs(n) \cup {None}
<1>. DEFINE keys == [n \in Nodes |-> IF n \in DOMAIN input.text
                                     THEN InputOf(input.text, n) ELSE obs.keys[n]]
<1>1. /\ input.node \in Docs /\ input.node \in Nodes /\ DOMAIN input.text = Chain(input.node)
      /\ input.text \in [Chain(input.node) -> Revisions]
  BY DocInputFields
<1>2. ASSUME NEW n \in Nodes
      PROVE  keys[n] \in Inputs(n) \cup {None}
  <2>1. CASE n \in DOMAIN input.text
    <3>1. Chain(n) \subseteq Chain(input.node)
      BY <1>1, <2>1, Chains
    <3>2. InputOf(input.text, n) \in Inputs(n)
      BY <1>1, <3>1, InputsOf
    <3>. QED
      BY <2>1, <3>2
  <2>. QED
    BY <2>1
<1>3. keys \in [Nodes -> AnyInput \cup {None}]
  <2>. HIDE DEF keys
  <2>1. \A n \in Nodes : keys[n] \in AnyInput \cup {None}
    BY <1>2 DEF AnyInput
  <2>2. keys = [n \in Nodes |-> keys[n]]
    BY DEF keys
  <2>. QED
    BY <2>1, <2>2
<1>4. Prepared(obs, input)
        = [obs EXCEPT !.prepared[input.node] = input, !.keys = keys]
  BY DEF Prepared
<1>. HIDE DEF keys
<1>5. Prepared(obs, input) = [obs EXCEPT !.prepared = [@ EXCEPT ![input.node] = input],
                                         !.keys = keys]
  BY <1>4 DEF ObserverRecords
<1>6. /\ Prepared(obs, input).keys = keys
      /\ Prepared(obs, input).prepared = [obs.prepared EXCEPT ![input.node] = input]
      /\ Prepared(obs, input).documents = obs.documents
      /\ Prepared(obs, input).pending = obs.pending
  BY <1>5 DEF ObserverRecords
<1>7. Prepared(obs, input) \in ObserverRecords
  <2>. DEFINE prepared == [obs.prepared EXCEPT ![input.node] = input]
  <2>1. prepared \in [Docs -> DocInputs \cup {None}]
    BY <1>1 DEF ObserverRecords
  <2>2. Prepared(obs, input) = [prepared |-> prepared, keys |-> keys,
                                documents |-> obs.documents, pending |-> obs.pending]
    BY <1>5 DEF ObserverRecords
  <2>. HIDE DEF prepared
  <2>. QED
    BY <1>3, <2>1, <2>2 DEF ObserverRecords
<1>8. \A u \in Docs : Prepared(obs, input).prepared[u]
                        = IF u = input.node THEN input ELSE obs.prepared[u]
  BY <1>1, <1>6 DEF ObserverRecords
<1>. QED
  BY <1>2, <1>6, <1>7, <1>8

LEMMA ConnectTypes ==
  ASSUME Types, Connect
  PROVE  Types'
<1>1. session.input \in DocInputs
  BY DEF Types, SessionTypes, Connect
<1>. DEFINE input == session.input
<1>2. /\ input.node \in Nodes /\ input.text \in [Chain(input.node) -> Revisions]
      /\ input.node \in Docs /\ input # None /\ input \in Inputs(input.node)
  BY <1>1, DocInputFields
<1>3. BranchTypes' /\ NativeTypes'
  BY SameTypes DEF Connect
<1>4. WorkspaceTypes'
  BY <1>2 DEF Connect, WorkspaceTypes
<1>5. ObserverTypes'
  <2>1. /\ NoObserver \in ObserverRecords
        /\ \A n \in Nodes : NoObserver.keys[n] \in Inputs(n) \cup {None}
        /\ \A u \in Docs : NoObserver.documents[u] = None /\ NoObserver.prepared[u] = None
    BY DEF NoObserver, ObserverRecords
  <2>2. observer' = Prepared(NoObserver, session.input)
    BY DEF Connect
  <2>. QED
    BY <1>1, <1>2, <2>1, <2>2, PreparedFields DEF ObserverTypes
<1>6. SessionTypes' /\ Unconnected'
  BY DEF Types, SessionTypes, Unconnected, Connect
<1>. QED
  BY <1>3, <1>4, <1>5, <1>6 DEF Types

LEMMA DisconnectTypes ==
  ASSUME Types, Disconnect
  PROVE  Types'
<1>1. BranchTypes'
  BY SameTypes DEF Disconnect
<1>2. WorkspaceTypes'
  BY DEF Disconnect, WorkspaceTypes
<1>3. ObserverTypes'
  BY DEF Disconnect, ObserverTypes, ObserverRecords, NoObserver
<1>4. NativeTypes'
  BY EditorAssumption DEF Disconnect, NativeTypes, QueueTypes, LeanTypes
<1>5. SessionTypes' /\ Unconnected'
  BY DEF Disconnect, SessionTypes, Unconnected, Idle
<1>. QED
  BY <1>1, <1>2, <1>3, <1>4, <1>5 DEF Types

Writes(u, doc, pending) ==
  observer' = [observer EXCEPT !.pending = pending, !.documents[u] = doc]

\* A document is written, and requests are remembered or forgotten.
LEMMA ObserverWrites ==
  ASSUME ObserverTypes, NEW u \in Docs, NEW doc, NEW pending,
         doc = None \/ doc \in OpenDocument(u),
         doc # None => observer.prepared[u] # None,
         pending \in [Ids -> PendingRequest \cup {None}],
         Writes(u, doc, pending)
  PROVE  /\ ObserverTypes'
         /\ observer'.prepared = observer.prepared /\ observer'.keys = observer.keys
         /\ observer'.pending = pending
         /\ Doc(u)' = doc
         /\ \A v \in Docs \ {u} : Doc(v)' = Doc(v)
<1>. DEFINE documents == [observer.documents EXCEPT ![u] = doc]
<1>1. documents \in [Docs -> AnyDocument \cup {None}]
  BY DEF ObserverTypes, ObserverRecords, AnyDocument
<1>2. observer' = [prepared |-> observer.prepared, keys |-> observer.keys,
                   documents |-> documents, pending |-> pending]
  BY DEF ObserverTypes, ObserverRecords, Writes
<1>3. documents[u] = doc /\ \A v \in Docs \ {u} : documents[v] = observer.documents[v]
  BY DEF ObserverTypes, ObserverRecords
<1>. HIDE DEF documents
<1>4. observer' \in ObserverRecords
  BY <1>1, <1>2 DEF ObserverTypes, ObserverRecords
<1>5. Doc(u)' = doc /\ \A v \in Docs \ {u} : Doc(v)' = Doc(v)
  BY <1>2, <1>3 DEF Doc
<1>6. /\ observer'.prepared = observer.prepared /\ observer'.keys = observer.keys
      /\ observer'.documents = documents /\ observer'.pending = pending
  BY <1>2
<1>7. ObserverTypes'
  BY <1>3, <1>4, <1>6 DEF ObserverTypes
<1>. QED
  BY <1>5, <1>6, <1>7

LEMMA ObserverDocument ==
  ASSUME ObserverTypes, NEW u \in Docs, NEW doc,
         observer' = [observer EXCEPT !.documents[u] = doc]
  PROVE  /\ observer.pending \in [Ids -> PendingRequest \cup {None}]
         /\ Writes(u, doc, observer.pending)
BY DEF ObserverTypes, ObserverRecords, Writes

\* Only requests are remembered or forgotten.
LEMMA ObserverPends ==
  ASSUME ObserverTypes, NEW i \in Ids, NEW p \in PendingRequest,
         observer' = [observer EXCEPT !.pending[i] = p]
  PROVE  /\ ObserverTypes'
         /\ observer'.prepared = observer.prepared /\ observer'.keys = observer.keys
         /\ observer'.documents = observer.documents
         /\ observer'.pending[i] = p
         /\ \A j \in Ids \ {i} : observer'.pending[j] = observer.pending[j]
<1>. DEFINE pending == [observer.pending EXCEPT ![i] = p]
<1>1. pending \in [Ids -> PendingRequest \cup {None}]
  BY DEF ObserverTypes, ObserverRecords
<1>2. observer' = [prepared |-> observer.prepared, keys |-> observer.keys,
                   documents |-> observer.documents, pending |-> pending]
  BY DEF ObserverTypes, ObserverRecords
<1>3. pending[i] = p /\ \A j \in Ids \ {i} : pending[j] = observer.pending[j]
  BY DEF ObserverTypes, ObserverRecords
<1>. HIDE DEF pending
<1>4. observer' \in ObserverRecords
  BY <1>1, <1>2 DEF ObserverTypes, ObserverRecords
<1>5. /\ observer'.prepared = observer.prepared /\ observer'.keys = observer.keys
      /\ observer'.documents = observer.documents /\ observer'.pending = pending
  BY <1>2
<1>6. ObserverTypes'
  BY <1>4, <1>5 DEF ObserverTypes
<1>. QED
  BY <1>3, <1>5, <1>6

LEMMA DocumentType ==
  ASSUME NEW u \in Docs, NEW text \in Revisions, NEW version \in Versions,
         NEW env \in [DepsOf[u] -> Revisions]
  PROVE  Document(text, version, env) \in OpenDocument(u)
BY DEF Document, OpenDocument

LEMMA ForwardTypes ==
  ASSUME Types, NEW message \in ToLean, Forward(message), ObserverTypes'
  PROVE  Types'
<1>1. BranchTypes' /\ WorkspaceTypes' /\ SessionTypes' /\ Unconnected'
  BY SameTypes DEF Forward
<1>2. NativeTypes'
  BY Appending, EditorAssumption DEF Types, NativeTypes, QueueTypes, LeanTypes, Forward
<1>. QED
  BY <1>1, <1>2 DEF Types

\* What each message of the browser does to the observer.
LEMMA DidOpenFacts ==
  ASSUME Types, NEW u \in Docs, NEW text \in SourcesOf[u], NEW version \in Versions,
         DidOpen(u, text, version)
  PROVE  /\ Types'
         /\ observer'.prepared = observer.prepared /\ observer'.keys = observer.keys
         /\ observer'.pending = Purged(u)
         /\ Doc(u)' = Document(text, version, Environment(observer.prepared[u]))
         /\ \A v \in Docs \ {u} : Doc(v)' = Doc(v)
         /\ text \in Revisions
         /\ [kind |-> "open", uri |-> u, text |-> text, version |-> version] \in ToLean
<1>1. u \in Nodes /\ text \in Revisions
  BY EditorAssumption
<1>2. Environment(observer.prepared[u]) \in [DepsOf[u] -> Revisions]
  BY <1>1, InputFields DEF Types, ObserverTypes, DidOpen
<1>3. Document(text, version, Environment(observer.prepared[u])) \in OpenDocument(u)
  BY <1>1, <1>2, DocumentType
<1>4. Purged(u) \in [Ids -> PendingRequest \cup {None}]
  BY DEF Types, ObserverTypes, ObserverRecords, Purged
<1>5. [kind |-> "open", uri |-> u, text |-> text, version |-> version] \in ToLean
  BY <1>1 DEF ToLean
<1>6. /\ ObserverTypes'
      /\ observer'.prepared = observer.prepared /\ observer'.keys = observer.keys
      /\ observer'.pending = Purged(u)
      /\ Doc(u)' = Document(text, version, Environment(observer.prepared[u]))
      /\ \A v \in Docs \ {u} : Doc(v)' = Doc(v)
  BY <1>3, <1>4, ObserverWrites DEF Writes, Types, DidOpen
<1>7. Types'
  BY <1>5, <1>6, ForwardTypes DEF DidOpen
<1>. QED
  BY <1>1, <1>5, <1>6, <1>7

LEMMA DidChangeFacts ==
  ASSUME Types, NEW u \in Docs, NEW text \in SourcesOf[u], NEW version \in Versions,
         DidChange(u, text, version)
  PROVE  /\ Types'
         /\ observer'.prepared = observer.prepared /\ observer'.keys = observer.keys
         /\ observer'.pending = observer.pending
         /\ Doc(u) \in OpenDocument(u)
         /\ Doc(u)' = Document(text, version, Doc(u).environment)
         /\ \A v \in Docs \ {u} : Doc(v)' = Doc(v)
         /\ text \in Revisions
         /\ [kind |-> "change", uri |-> u, text |-> text, version |-> version] \in ToLean
<1>1. text \in Revisions
  BY EditorAssumption
<1>2. Doc(u) \in OpenDocument(u) /\ observer.prepared[u] # None
  BY DEF Types, ObserverTypes, DidChange, Doc
<1>3. Document(text, version, Doc(u).environment) \in OpenDocument(u)
  <2>1. Doc(u).environment \in [DepsOf[u] -> Revisions]
    BY <1>2 DEF OpenDocument
  <2>. QED
    BY <1>1, <2>1, DocumentType
<1>4. [kind |-> "change", uri |-> u, text |-> text, version |-> version] \in ToLean
  BY <1>1 DEF ToLean
<1>5. observer' = [observer EXCEPT !.documents[u] =
                     Document(text, version, Doc(u).environment)]
  BY DEF DidChange, Doc
<1>6. /\ ObserverTypes'
      /\ observer'.prepared = observer.prepared /\ observer'.keys = observer.keys
      /\ observer'.pending = observer.pending
      /\ Doc(u)' = Document(text, version, Doc(u).environment)
      /\ \A v \in Docs \ {u} : Doc(v)' = Doc(v)
  BY <1>2, <1>3, <1>5, ObserverDocument, ObserverWrites DEF Types
<1>7. Types'
  BY <1>4, <1>6, ForwardTypes DEF DidChange
<1>. QED
  BY <1>1, <1>2, <1>4, <1>6, <1>7

LEMMA DidCloseFacts ==
  ASSUME Types, NEW u \in Docs, DidClose(u)
  PROVE  /\ Types'
         /\ observer'.prepared = observer.prepared /\ observer'.keys = observer.keys
         /\ observer'.pending = Purged(u)
         /\ Doc(u)' = None
         /\ \A v \in Docs \ {u} : Doc(v)' = Doc(v)
         /\ [kind |-> "close", uri |-> u] \in ToLean
<1>1. Purged(u) \in [Ids -> PendingRequest \cup {None}]
  BY DEF Types, ObserverTypes, ObserverRecords, Purged
<1>2. [kind |-> "close", uri |-> u] \in ToLean
  BY DEF ToLean
<1>3. /\ ObserverTypes'
      /\ observer'.prepared = observer.prepared /\ observer'.keys = observer.keys
      /\ observer'.pending = Purged(u)
      /\ Doc(u)' = None
      /\ \A v \in Docs \ {u} : Doc(v)' = Doc(v)
  BY <1>1, ObserverWrites DEF Writes, Types, DidClose
<1>4. Types'
  BY <1>2, <1>3, ForwardTypes DEF DidClose
<1>. QED
  BY <1>2, <1>3, <1>4

LEMMA WaitFacts ==
  ASSUME Types, NEW i \in Ids, NEW u \in Docs, NEW version \in Versions,
         WaitForDiagnostics(i, u, version)
  PROVE  /\ Types'
         /\ observer'.prepared = observer.prepared /\ observer'.keys = observer.keys
         /\ observer'.documents = observer.documents
         /\ observer'.pending[i] = [kind |-> "diagnostics", uri |-> u, version |-> version]
         /\ \A j \in Ids \ {i} : observer'.pending[j] = observer.pending[j]
         /\ [kind |-> "wait", id |-> i, uri |-> u, version |-> version] \in ToLean
<1>1. [kind |-> "diagnostics", uri |-> u, version |-> version] \in PendingRequest
  BY DEF PendingRequest
<1>2. [kind |-> "wait", id |-> i, uri |-> u, version |-> version] \in ToLean
  BY DEF ToLean
<1>3. observer' = [observer EXCEPT !.pending[i] =
                     [kind |-> "diagnostics", uri |-> u, version |-> version]]
  BY DEF WaitForDiagnostics
<1>4. /\ ObserverTypes'
      /\ observer'.prepared = observer.prepared /\ observer'.keys = observer.keys
      /\ observer'.documents = observer.documents
      /\ observer'.pending[i] = [kind |-> "diagnostics", uri |-> u, version |-> version]
      /\ \A j \in Ids \ {i} : observer'.pending[j] = observer.pending[j]
  BY <1>1, <1>3, ObserverPends DEF Types
<1>5. Types'
  BY <1>2, <1>4, ForwardTypes DEF WaitForDiagnostics
<1>. QED
  BY <1>2, <1>4, <1>5

LEMMA ImportsFacts ==
  ASSUME Types, NEW i \in Ids, NEW u \in Docs, ModuleImports(i, u)
  PROVE  /\ Types'
         /\ observer'.prepared = observer.prepared /\ observer'.keys = observer.keys
         /\ observer'.documents = observer.documents
         /\ Doc(u) = None => observer'.pending = observer.pending
         /\ Doc(u) # None =>
              /\ Doc(u) \in OpenDocument(u)
              /\ observer'.pending[i] =
                   [kind |-> "imports", uri |-> u, version |-> Doc(u).version]
              /\ \A j \in Ids \ {i} : observer'.pending[j] = observer.pending[j]
         /\ [kind |-> "imports", id |-> i, uri |-> u] \in ToLean
<1>1. [kind |-> "imports", id |-> i, uri |-> u] \in ToLean
  BY DEF ToLean
<1>2. CASE Doc(u) = None
  <2>1. UNCHANGED observer
    BY <1>2 DEF ModuleImports, Doc
  <2>2. Types'
    BY <1>1, <2>1, SameTypes, ForwardTypes DEF ModuleImports
  <2>. QED
    BY <1>1, <1>2, <2>1, <2>2
<1>3. CASE Doc(u) # None
  <2>1. Doc(u) \in OpenDocument(u)
    BY <1>3 DEF Types, ObserverTypes, Doc
  <2>2. [kind |-> "imports", uri |-> u, version |-> Doc(u).version] \in PendingRequest
    BY <2>1 DEF PendingRequest, OpenDocument
  <2>3. observer' = [observer EXCEPT !.pending[i] =
                       [kind |-> "imports", uri |-> u, version |-> Doc(u).version]]
    BY <1>3 DEF ModuleImports, Doc
  <2>4. /\ ObserverTypes'
        /\ observer'.prepared = observer.prepared /\ observer'.keys = observer.keys
        /\ observer'.documents = observer.documents
        /\ observer'.pending[i] =
             [kind |-> "imports", uri |-> u, version |-> Doc(u).version]
        /\ \A j \in Ids \ {i} : observer'.pending[j] = observer.pending[j]
    BY <2>2, <2>3, ObserverPends DEF Types
  <2>5. Types'
    BY <1>1, <2>4, ForwardTypes DEF ModuleImports
  <2>. QED
    BY <1>1, <1>3, <2>1, <2>4, <2>5
<1>. QED
  BY <1>2, <1>3

\* One worker is written.
LEMMA LeanWrites ==
  ASSUME LeanTypes, NEW u \in Docs, NEW w,
         w = None \/ (w \in WorkerState(u) /\ (w.shown > 0 => w.env # None)),
         lean' = [lean EXCEPT ![u] = w]
  PROVE  LeanTypes' /\ lean'[u] = w /\ \A v \in Docs \ {u} : lean'[v] = lean[v]
<1>1. w \in AnyWorker \cup {None}
  BY DEF AnyWorker
<1>2. lean' \in [Docs -> AnyWorker \cup {None}]
  BY <1>1 DEF LeanTypes
<1>3. lean'[u] = w /\ \A v \in Docs \ {u} : lean'[v] = lean[v]
  BY DEF LeanTypes
<1>. QED
  BY <1>2, <1>3 DEF LeanTypes

LEMMA WorkerFields ==
  ASSUME NEW u \in Docs, NEW w \in WorkerState(u)
  PROVE  /\ w.text \in Revisions /\ w.version \in Versions /\ w.version \in Nat
         /\ w.env \in [DepsOf[u] -> Revisions] \cup {None}
         /\ w.shown \in 0 .. 2 /\ w.waits \in SUBSET [id : Ids, version : Versions]
         /\ w # None
         /\ w = [text |-> w.text, version |-> w.version, env |-> w.env,
                 shown |-> w.shown, waits |-> w.waits]
<1>1. u \in Nodes
  BY EditorAssumption
<1>2. w # None
  BY <1>1, NoneAssumption
<1>. QED
  BY <1>2 DEF WorkerState, Versions

LEMMA WorkerType ==
  ASSUME NEW u \in Docs, NEW text \in Revisions, NEW version \in Versions,
         NEW env \in [DepsOf[u] -> Revisions] \cup {None}, NEW shown \in 0 .. 2,
         NEW waits \in SUBSET [id : Ids, version : Versions]
  PROVE  [text |-> text, version |-> version, env |-> env, shown |-> shown,
          waits |-> waits] \in WorkerState(u)
BY DEF WorkerState

\* The native server takes the first message that is on its way to it.
Taken(m) ==
  /\ toLean # <<>> /\ m = toLean[1] /\ toLean' = Tail(toLean)
  /\ UNCHANGED observer
  /\ m.uri \in Docs
  /\ \A v \in Docs \ {m.uri} : lean'[v] = lean[v]

TakenOpen(m) ==
  /\ m.kind = "open" /\ fromLean' = fromLean
  /\ lean'[m.uri] = Worker(m.text, m.version, None) /\ lean'[m.uri] \in WorkerState(m.uri)

TakenChange(m) ==
  /\ m.kind = "change" /\ lean[m.uri] # None /\ fromLean' = fromLean
  /\ lean'[m.uri] \in WorkerState(m.uri)
  /\ \E env \in {lean[m.uri].env, None} :
       lean'[m.uri] = [Worker(m.text, m.version, env) EXCEPT !.waits = lean[m.uri].waits]

TakenClose(m) ==
  m.kind = "close" /\ lean'[m.uri] = None /\ fromLean' = fromLean

TakenWait(m) ==
  /\ m.kind = "wait" /\ lean[m.uri] # None /\ fromLean' = fromLean
  /\ lean'[m.uri] \in WorkerState(m.uri)
  /\ lean'[m.uri] = [lean[m.uri] EXCEPT
                       !.waits = @ \cup {[id |-> m.id, version |-> m.version]}]

TakenImports(m) ==
  /\ m.kind = "imports" /\ lean[m.uri] # None /\ lean' = lean
  /\ fromLean' = Append(fromLean, [kind |-> "names", id |-> m.id, text |-> lean[m.uri].text])
  /\ [kind |-> "names", id |-> m.id, text |-> lean[m.uri].text] \in FromLean

TakenError(m) ==
  /\ m.kind \in {"wait", "imports"} /\ lean[m.uri] = None /\ lean' = lean
  /\ fromLean' = Append(fromLean, [kind |-> "error", id |-> m.id])
  /\ [kind |-> "error", id |-> m.id] \in FromLean

LEMMA ReceiveFacts ==
  ASSUME Types, Receive
  PROVE  /\ Types' /\ Taken(toLean[1])
         /\ \/ TakenOpen(toLean[1]) \/ TakenChange(toLean[1]) \/ TakenClose(toLean[1])
            \/ TakenWait(toLean[1]) \/ TakenImports(toLean[1]) \/ TakenError(toLean[1])
<1>. DEFINE m == toLean[1]
<1>1. LeanTypes /\ QueueTypes
  BY DEF Types, NativeTypes
<1>2. toLean # <<>> /\ toLean' = Tail(toLean)
  BY DEF Receive
<1>3. Head(toLean) = m /\ m \in ToLean /\ toLean' \in Seq(ToLean) /\ Len(toLean') <= MaxQueue
  BY <1>1, <1>2, Popping, EditorAssumption DEF QueueTypes
<1>4. /\ m.uri \in Docs
      /\ m.kind \in {"open", "change"} => m.text \in Revisions
      /\ m.kind \in {"open", "change", "wait"} => m.version \in Versions
      /\ m.kind \in {"wait", "imports"} => m.id \in Ids
  BY <1>3, ToLeanFields
<1>6. lean[m.uri] # None => lean[m.uri] \in WorkerState(m.uri)
  BY <1>1, <1>4 DEF LeanTypes
<1>7. fromLean \in Seq(FromLean) /\ Len(fromLean) <= MaxQueue
  BY <1>1 DEF QueueTypes
<1>8. BranchTypes' /\ WorkspaceTypes' /\ ObserverTypes' /\ SessionTypes' /\ Unconnected'
  BY <1>2, Connected, SameTypes DEF Receive
<1>9. /\ LeanTypes' /\ fromLean' \in Seq(FromLean) /\ Len(fromLean') <= MaxQueue
      /\ \A v \in Docs \ {m.uri} : lean'[v] = lean[v]
      /\ \/ TakenOpen(m) \/ TakenChange(m) \/ TakenClose(m)
         \/ TakenWait(m) \/ TakenImports(m) \/ TakenError(m)
  <2>1. CASE /\ m.kind = "open"
             /\ lean' = [lean EXCEPT ![m.uri] = Worker(m.text, m.version, None)]
             /\ UNCHANGED fromLean
    <3>1. Worker(m.text, m.version, None) \in WorkerState(m.uri) /\ ~ (Worker(m.text, m.version, None).shown > 0)
      BY <1>4, <2>1, WorkerType DEF Worker
    <3>2. LeanTypes' /\ lean'[m.uri] = Worker(m.text, m.version, None)
            /\ \A v \in Docs \ {m.uri} : lean'[v] = lean[v]
      BY <1>1, <1>4, <2>1, <3>1, LeanWrites
    <3>. QED
      BY <1>7, <2>1, <3>1, <3>2 DEF TakenOpen
  <2>2. CASE /\ m.kind = "change" /\ lean[m.uri] # None
             /\ \E env \in {lean[m.uri].env, None} :
                  lean' = [lean EXCEPT ![m.uri] =
                    [Worker(m.text, m.version, env) EXCEPT !.waits = lean[m.uri].waits]]
             /\ UNCHANGED fromLean
    <3>1. PICK env \in {lean[m.uri].env, None} :
            lean' = [lean EXCEPT ![m.uri] =
              [Worker(m.text, m.version, env) EXCEPT !.waits = lean[m.uri].waits]]
      BY <2>2
    <3>. DEFINE w == [Worker(m.text, m.version, env) EXCEPT !.waits = lean[m.uri].waits]
    <3>2. w = [text |-> m.text, version |-> m.version, env |-> env, shown |-> 0,
               waits |-> lean[m.uri].waits]
      BY DEF Worker
    <3>3. w \in WorkerState(m.uri) /\ ~ (w.shown > 0)
      <4>. HIDE DEF w
      <4>1. lean[m.uri] \in WorkerState(m.uri) /\ m.uri \in Docs
        BY <1>4, <1>6, <2>2
      <4>2. /\ m.text \in Revisions /\ m.version \in Versions
            /\ env \in [DepsOf[m.uri] -> Revisions] \cup {None}
            /\ lean[m.uri].waits \in SUBSET [id : Ids, version : Versions]
        BY <1>4, <2>2, <4>1, WorkerFields
      <4>3. w \in WorkerState(m.uri)
        BY <3>2, <4>1, <4>2, WorkerType
      <4>. QED
        BY <3>2, <4>3
    <3>4. LeanTypes' /\ lean'[m.uri] = w /\ \A v \in Docs \ {m.uri} : lean'[v] = lean[v]
      <4>. HIDE DEF w
      <4>1. lean' = [lean EXCEPT ![m.uri] = w]
        BY <3>1 DEF w
      <4>. QED
        BY <1>1, <1>4, <3>3, <4>1, LeanWrites
    <3>. QED
      BY <1>7, <2>2, <3>3, <3>4 DEF TakenChange
  <2>3. CASE /\ m.kind = "close" /\ lean' = [lean EXCEPT ![m.uri] = None]
             /\ UNCHANGED fromLean
    <3>1. LeanTypes' /\ lean'[m.uri] = None /\ \A v \in Docs \ {m.uri} : lean'[v] = lean[v]
      BY <1>1, <1>4, <2>3, LeanWrites
    <3>. QED
      BY <1>7, <2>3, <3>1 DEF TakenClose
  <2>4. CASE /\ m.kind = "wait" /\ lean[m.uri] # None
             /\ lean' = [lean EXCEPT ![m.uri].waits =
                           @ \cup {[id |-> m.id, version |-> m.version]}]
             /\ UNCHANGED fromLean
    <3>. DEFINE w == [lean[m.uri] EXCEPT !.waits =
                        @ \cup {[id |-> m.id, version |-> m.version]}]
    <3>1. w = [text |-> lean[m.uri].text, version |-> lean[m.uri].version,
               env |-> lean[m.uri].env, shown |-> lean[m.uri].shown,
               waits |-> lean[m.uri].waits \cup {[id |-> m.id, version |-> m.version]}]
      <4>1. lean[m.uri] = [text |-> lean[m.uri].text, version |-> lean[m.uri].version,
               env |-> lean[m.uri].env, shown |-> lean[m.uri].shown,
               waits |-> lean[m.uri].waits]
        BY <1>4, <1>6, <2>4, WorkerFields
      <4>. QED
        BY <4>1
    <3>2. lean' = [lean EXCEPT ![m.uri] = w]
      BY <2>4
    <3>. HIDE DEF w
    <3>3. w \in WorkerState(m.uri)
      <4>1. lean[m.uri].waits \cup {[id |-> m.id, version |-> m.version]}
              \in SUBSET [id : Ids, version : Versions]
        BY <1>4, <1>6, <2>4, WorkerFields
      <4>. QED
        BY <1>4, <1>6, <2>4, <3>1, <4>1, WorkerFields, WorkerType
    <3>4. w.shown > 0 => w.env # None
      BY <1>1, <1>4, <2>4, <3>1 DEF LeanTypes
    <3>5. LeanTypes' /\ lean'[m.uri] = w /\ \A v \in Docs \ {m.uri} : lean'[v] = lean[v]
      BY <1>1, <1>4, <3>2, <3>3, <3>4, LeanWrites
    <3>. QED
      BY <1>7, <2>4, <3>3, <3>5 DEF TakenWait, w
  <2>5. CASE /\ m.kind = "imports" /\ lean[m.uri] # None /\ Len(fromLean) < MaxQueue
             /\ fromLean' = Append(fromLean,
                  [kind |-> "names", id |-> m.id, text |-> lean[m.uri].text])
             /\ UNCHANGED lean
    <3>1. [kind |-> "names", id |-> m.id, text |-> lean[m.uri].text] \in FromLean
      <4>1. lean[m.uri].text \in Revisions /\ m.id \in Ids
        BY <1>4, <1>6, <2>5, WorkerFields
      <4>. QED
        BY <4>1 DEF FromLean
    <3>2. fromLean' \in Seq(FromLean) /\ Len(fromLean') <= MaxQueue
      BY <1>7, <2>5, <3>1, Appending, EditorAssumption
    <3>3. LeanTypes'
      BY <1>1, <2>5 DEF LeanTypes
    <3>. QED
      BY <2>5, <3>1, <3>2, <3>3 DEF TakenImports
  <2>6. CASE /\ m.kind \in {"wait", "imports"} /\ lean[m.uri] = None
             /\ Len(fromLean) < MaxQueue
             /\ fromLean' = Append(fromLean, [kind |-> "error", id |-> m.id])
             /\ UNCHANGED lean
    <3>1. [kind |-> "error", id |-> m.id] \in FromLean
      BY <1>4, <2>6 DEF FromLean
    <3>2. fromLean' \in Seq(FromLean) /\ Len(fromLean') <= MaxQueue
      BY <1>7, <2>6, <3>1, Appending, EditorAssumption
    <3>3. LeanTypes'
      BY <1>1, <2>6 DEF LeanTypes
    <3>. QED
      BY <2>6, <3>1, <3>2, <3>3 DEF TakenError
  <2>. QED
    BY <1>3, <2>1, <2>2, <2>3, <2>4, <2>5, <2>6 DEF Receive
<1>. QED
  <2>1. NativeTypes'
    BY <1>3, <1>9 DEF NativeTypes, QueueTypes
  <2>2. UNCHANGED observer
    BY DEF Receive
  <2>. QED
    BY <1>2, <1>4, <1>8, <1>9, <2>1, <2>2 DEF Types, Taken

LEMMA LoadFacts ==
  ASSUME Types, NEW u \in Docs, Load(u)
  PROVE  /\ Types'
         /\ lean[u] \in WorkerState(u) /\ lean[u].shown = 0
         /\ lean'[u] = [lean[u] EXCEPT !.env = [m \in DepsOf[u] |-> disk[m]]]
         /\ \A v \in Docs \ {u} : lean'[v] = lean[v]
         /\ lean'[u] \in WorkerState(u)
<1>. DEFINE env == [m \in DepsOf[u] |-> disk[m]]
            w == [lean[u] EXCEPT !.env = env]
<1>1. LeanTypes /\ u \in Nodes
  BY EditorAssumption DEF Types, NativeTypes
<1>2. lean[u] \in WorkerState(u) /\ lean[u].shown = 0
  <2>1. lean[u] \in WorkerState(u) /\ (lean[u].shown > 0 => lean[u].env # None)
    BY <1>1 DEF LeanTypes, Load
  <2>. QED
    BY <2>1, WorkerFields DEF Load
<1>3. env \in [DepsOf[u] -> Revisions]
  BY <1>1, Chains DEF Types, WorkspaceTypes, Load
<1>4. lean' = [lean EXCEPT ![u] = w]
  BY DEF Load
<1>5. w = [text |-> lean[u].text, version |-> lean[u].version, env |-> env,
           shown |-> lean[u].shown, waits |-> lean[u].waits]
  <2>. HIDE DEF env
  <2>. QED
    BY <1>2, WorkerFields
<1>6. w \in WorkerState(u) /\ ~ (w.shown > 0)
  <2>. HIDE DEF env
  <2>. HIDE DEF w
  <2>. QED
    BY <1>2, <1>3, <1>5, WorkerFields, WorkerType
<1>7. LeanTypes' /\ lean'[u] = w /\ \A v \in Docs \ {u} : lean'[v] = lean[v]
  <2>. HIDE DEF w
  <2>. QED
    BY <1>1, <1>4, <1>6, LeanWrites
<1>8. NativeTypes'
  BY <1>7 DEF Types, NativeTypes, QueueTypes, Load
<1>9. BranchTypes' /\ WorkspaceTypes' /\ ObserverTypes' /\ SessionTypes' /\ Unconnected'
  BY Connected, SameTypes DEF Load
<1>. QED
  BY <1>2, <1>6, <1>7, <1>8, <1>9 DEF Types

\* A message to the browser that publishes the next part.
Published(u) ==
  [kind |-> "diagnostics", uri |-> u, version |-> lean[u].version,
   incremental |-> lean[u].shown = 1, part |-> PartOf(u, lean[u].shown + 1)]

LEMMA PublishFacts ==
  ASSUME Types, NEW u \in Docs, Publish(u)
  PROVE  /\ Types'
         /\ lean[u] \in WorkerState(u) /\ lean[u].shown \in {0, 1}
         /\ fromLean' = Append(fromLean, Published(u)) /\ Published(u) \in FromLean
         /\ lean'[u] = [lean[u] EXCEPT !.shown = @ + 1]
         /\ lean'[u] \in WorkerState(u)
         /\ \A v \in Docs \ {u} : lean'[v] = lean[v]
<1>. DEFINE w == [lean[u] EXCEPT !.shown = @ + 1]
<1>1. LeanTypes /\ QueueTypes /\ u \in Nodes
  BY EditorAssumption DEF Types, NativeTypes
<1>2. lean[u] \in WorkerState(u) /\ lean[u].shown \in {0, 1}
  <2>1. lean[u] \in WorkerState(u) /\ lean[u].shown < 2
    BY <1>1 DEF LeanTypes, Publish
  <2>. QED
    BY <2>1, WorkerFields
<1>3. /\ lean[u].env \in [DepsOf[u] -> Revisions] /\ lean[u].env # None
      /\ lean[u].text \in Revisions /\ lean[u].version \in Versions
  BY <1>2, WorkerFields DEF Publish
<1>4. Verdict(lean[u].text, lean[u].env)[lean[u].shown + 1] = PartOf(u, lean[u].shown + 1)
  BY <1>2 DEF Verdict, PartOf
<1>5. PartOf(u, lean[u].shown + 1) \in Part
  BY <1>2, <1>3 DEF PartOf, Part
<1>6. Published(u) \in FromLean
  BY <1>3, <1>5 DEF Published, FromLean
<1>7. fromLean' = Append(fromLean, Published(u))
  BY <1>4 DEF Publish, Published
<1>8. w = [text |-> lean[u].text, version |-> lean[u].version, env |-> lean[u].env,
           shown |-> lean[u].shown + 1, waits |-> lean[u].waits]
  BY <1>2, WorkerFields
<1>9. lean' = [lean EXCEPT ![u] = w]
  BY DEF Publish
<1>. HIDE DEF w
<1>10. w \in WorkerState(u) /\ w.env # None
  BY <1>2, <1>3, <1>8, WorkerFields, WorkerType
<1>11. LeanTypes' /\ lean'[u] = w /\ \A v \in Docs \ {u} : lean'[v] = lean[v]
  BY <1>1, <1>9, <1>10, LeanWrites
<1>12. QueueTypes'
  BY <1>1, <1>6, <1>7, Appending, EditorAssumption DEF QueueTypes, Publish
<1>13. BranchTypes' /\ WorkspaceTypes' /\ ObserverTypes' /\ SessionTypes' /\ Unconnected'
  BY Connected, SameTypes DEF Publish
<1>. QED
  BY <1>2, <1>6, <1>7, <1>10, <1>11, <1>12, <1>13 DEF Types, NativeTypes, w

LEMMA AnswerFacts ==
  ASSUME Types, NEW u \in Docs, lean[u] # None, NEW w \in lean[u].waits, Answer(u, w)
  PROVE  /\ Types'
         /\ lean[u] \in WorkerState(u) /\ w \in [id : Ids, version : Versions]
         /\ fromLean' = Append(fromLean, [kind |-> "done", id |-> w.id])
         /\ [kind |-> "done", id |-> w.id] \in FromLean
         /\ lean'[u] = [lean[u] EXCEPT !.waits = @ \ {w}]
         /\ lean'[u] \in WorkerState(u)
         /\ \A v \in Docs \ {u} : lean'[v] = lean[v]
<1>. DEFINE new == [lean[u] EXCEPT !.waits = @ \ {w}]
<1>1. LeanTypes /\ QueueTypes /\ u \in Nodes
  BY EditorAssumption DEF Types, NativeTypes
<1>2. lean[u] \in WorkerState(u) /\ (lean[u].shown > 0 => lean[u].env # None)
  BY <1>1 DEF LeanTypes
<1>3. w \in [id : Ids, version : Versions] /\ lean[u].waits \ {w} \in SUBSET [id : Ids, version : Versions]
  BY <1>2, WorkerFields
<1>4. [kind |-> "done", id |-> w.id] \in FromLean
  BY <1>3 DEF FromLean
<1>5. new = [text |-> lean[u].text, version |-> lean[u].version, env |-> lean[u].env,
             shown |-> lean[u].shown, waits |-> lean[u].waits \ {w}]
  BY <1>2, WorkerFields
<1>6. lean' = [lean EXCEPT ![u] = new]
  BY DEF Answer
<1>. HIDE DEF new
<1>7. new \in WorkerState(u) /\ (new.shown > 0 => new.env # None)
  BY <1>2, <1>3, <1>5, WorkerFields, WorkerType
<1>8. LeanTypes' /\ lean'[u] = new /\ \A v \in Docs \ {u} : lean'[v] = lean[v]
  BY <1>1, <1>6, <1>7, LeanWrites
<1>9. QueueTypes'
  BY <1>1, <1>4, Appending, EditorAssumption DEF QueueTypes, Answer
<1>10. BranchTypes' /\ WorkspaceTypes' /\ ObserverTypes' /\ SessionTypes' /\ Unconnected'
  BY Connected, SameTypes DEF Answer
<1>. QED
  BY <1>2, <1>3, <1>4, <1>7, <1>8, <1>9, <1>10 DEF Types, NativeTypes, Answer, new

\* A file of the chain is next, and what it depends on is not.
LEMMA NextFile ==
  ASSUME Types, custom.stage = "refreshing", custom.left # {}
  PROVE  /\ Next1 \in custom.left /\ DepsOf[Next1] \cap custom.left = {}
         /\ custom \in Selecting /\ custom.left \subseteq Chain(custom.input.node)
         /\ Next1 \in Chain(custom.input.node) /\ Next1 \in Nodes
         /\ custom.input \in DocInputs
         /\ custom.input.text[Next1] \in Revisions
<1>1. /\ custom \in Selecting /\ custom.left \subseteq Chain(custom.input.node)
      /\ custom.input \in DocInputs
  BY DEF Types, SessionTypes, Selecting, Certifying, Idle
<1>2. /\ Chain(custom.input.node) \subseteq Nodes
      /\ custom.input.text \in [Chain(custom.input.node) -> Revisions]
  BY <1>1, DocInputFields, Chains
<1>3. custom.left \subseteq Nodes
  BY <1>1, <1>2
<1>4. \E m \in custom.left : DepsOf[m] \cap custom.left = {}
  <2>. DEFINE sets == {DepsOf[m] : m \in custom.left}
  <2>1. sets \subseteq FiniteSubsetsOf(Nodes)
    BY <1>3, EditorAssumption, FS_FiniteSubsetsOfFinite
  <2>2. sets # {}
    BY DEF sets
  <2>3. IsWellFoundedOn(StrictSubsetOrdering(Nodes), FiniteSubsetsOf(Nodes))
    BY FS_StrictSubsetOrderingWellFounded
  <2>4. PICK x \in sets : \A y \in sets : ~ (<<y, x>> \in StrictSubsetOrdering(Nodes))
    BY <2>1, <2>2, <2>3, WFMin
  <2>5. PICK m \in custom.left : x = DepsOf[m]
    BY <2>4
  <2>6. ASSUME NEW k \in DepsOf[m], k \in custom.left
        PROVE  FALSE
    <3>1. DepsOf[k] \subseteq DepsOf[m] /\ k \notin DepsOf[k] /\ DepsOf[k] \in sets
      BY <1>3, <2>5, <2>6, EditorAssumption
    <3>2. <<DepsOf[k], DepsOf[m]>> \in StrictSubsetOrdering(Nodes)
      BY <1>3, <2>5, <2>6, <3>1, EditorAssumption DEF StrictSubsetOrdering
    <3>. QED
      BY <2>4, <2>5, <3>1, <3>2
  <2>. QED
    BY <2>5, <2>6
<1>. QED
  BY <1>1, <1>2, <1>3, <1>4 DEF Next1

\* The bridge reads the first message on its way to the browser.
Read(m) ==
  /\ fromLean # <<>> /\ m = fromLean[1] /\ m \in FromLean /\ fromLean' = Tail(fromLean)
  /\ UNCHANGED <<toLean, lean>>
  /\ observer'.prepared = observer.prepared /\ observer'.keys = observer.keys

ReadPublished(m) ==
  /\ m.kind = "diagnostics" /\ observer'.pending = observer.pending
  /\ Doc(m.uri)' = Noted(Doc(m.uri), m)
  /\ \A v \in Docs \ {m.uri} : Doc(v)' = Doc(v)

ReadUnasked(m) ==
  m.kind # "diagnostics" /\ observer.pending[m.id] = None /\ UNCHANGED observer

ReplyTo(doc, asked, m) ==
  IF m.kind = "error" THEN doc
  ELSE IF asked.kind = "diagnostics" THEN Completed(doc, asked.version)
  ELSE IF m.kind = "names" THEN Imported(doc, asked.version, m.text)
  ELSE doc

ReadReply(m, asked) ==
  /\ m.kind # "diagnostics" /\ asked # None
  /\ asked = observer.pending[m.id] /\ asked \in PendingRequest
  /\ observer'.pending[m.id] = None
  /\ \A i \in Ids \ {m.id} : observer'.pending[i] = observer.pending[i]
  /\ Doc(asked.uri)' = ReplyTo(Doc(asked.uri), asked, m)
  /\ \A v \in Docs \ {asked.uri} : Doc(v)' = Doc(v)

LEMMA NotedType ==
  ASSUME NEW u \in Docs, NEW doc, doc = None \/ doc \in OpenDocument(u),
         NEW m \in FromLean, m.kind = "diagnostics"
  PROVE  Noted(doc, m) = None \/ Noted(doc, m) \in OpenDocument(u)
<1>1. m.part \in Part
  BY FromLeanFields
<1>2. doc # None => doc \in OpenDocument(u) /\ doc.diagnostics \in Seq(Part)
  BY DEF OpenDocument
<1>. DEFINE said == IF m.incremental THEN Append(doc.diagnostics, m.part) ELSE <<m.part>>
<1>3. doc # None => said \in Seq(Part)
  BY <1>1, <1>2
<1>4. Noted(doc, m) = IF doc = None \/ doc.version # m.version THEN doc
                      ELSE [doc EXCEPT !.diagnostics = said]
  BY DEF Noted
<1>. HIDE DEF said
<1>. QED
  BY <1>2, <1>3, <1>4 DEF OpenDocument

LEMMA ReplyType ==
  ASSUME NEW u \in Docs, NEW doc, doc = None \/ doc \in OpenDocument(u),
         NEW m \in FromLean, m.kind # "diagnostics", NEW asked \in PendingRequest
  PROVE  \/ ReplyTo(doc, asked, m) = None /\ doc = None
         \/ ReplyTo(doc, asked, m) \in OpenDocument(u) /\ doc # None
         \/ ReplyTo(doc, asked, m) = doc
<1>1. m.kind \in {"done", "names", "error"} /\ (m.kind = "names" => m.text \in Revisions)
  BY FromLeanFields
<1>2. asked.kind \in {"diagnostics", "imports"}
  BY DEF PendingRequest
<1>3. CASE m.kind = "error" \/ (m.kind = "done" /\ asked.kind = "imports")
  BY <1>3 DEF ReplyTo
<1>4. CASE m.kind # "error" /\ asked.kind = "diagnostics"
  <2>1. ReplyTo(doc, asked, m) = Completed(doc, asked.version)
    BY <1>4 DEF ReplyTo
  <2>. QED
    BY <2>1 DEF Completed, OpenDocument
<1>5. CASE m.kind = "names" /\ asked.kind = "imports"
  <2>1. ReplyTo(doc, asked, m) = Imported(doc, asked.version, m.text)
    BY <1>5 DEF ReplyTo
  <2>. QED
    BY <1>1, <1>5, <2>1 DEF Imported, ReadyForImports, OpenDocument
<1>. QED
  BY <1>1, <1>2, <1>3, <1>4, <1>5

LEMMA ObserveFacts ==
  ASSUME Types, Observe
  PROVE  /\ Types'
         /\ \E m : /\ Read(m)
                   /\ \/ ReadPublished(m) \/ ReadUnasked(m)
                      \/ \E asked : ReadReply(m, asked)
<1>. PICK m : m = fromLean[1]
  OBVIOUS
<1>1. LeanTypes /\ QueueTypes /\ ObserverTypes
  BY DEF Types, NativeTypes
<1>2. fromLean # <<>> /\ fromLean' = Tail(fromLean)
  BY DEF Observe
<1>3. /\ Head(fromLean) = m /\ m \in FromLean /\ fromLean' \in Seq(FromLean)
      /\ Len(fromLean') <= MaxQueue /\ 1 \in DOMAIN fromLean
  BY <1>1, <1>2, Popping, EditorAssumption DEF QueueTypes
<1>4. /\ m.kind \in {"diagnostics", "done", "names", "error"}
      /\ m.kind = "diagnostics" => m.uri \in Docs
      /\ m.kind # "diagnostics" => m.id \in Ids
  BY <1>3, FromLeanFields
<1>5. BranchTypes' /\ WorkspaceTypes' /\ SessionTypes' /\ Unconnected'
  BY <1>2, Connected, SameTypes DEF Observe
<1>6. NativeTypes'
  BY <1>1, <1>3 DEF NativeTypes, QueueTypes, LeanTypes, Observe
<1>7. CASE m.kind = "diagnostics"
  <2>1. observer' = [observer EXCEPT !.documents[m.uri] = Noted(Doc(m.uri), m)]
    <3>1. observer' = [observer EXCEPT !.documents[m.uri] = Noted(@, m)]
      BY <1>3, <1>7 DEF Observe
    <3>2. [observer EXCEPT !.documents[m.uri] = Noted(@, m)]
            = [observer EXCEPT !.documents[m.uri] = Noted(observer.documents[m.uri], m)]
      BY <1>1 DEF ObserverTypes, ObserverRecords
    <3>. QED
      BY <3>1, <3>2 DEF Doc
  <2>2. Doc(m.uri) = None \/ Doc(m.uri) \in OpenDocument(m.uri)
    BY <1>1, <1>4, <1>7 DEF ObserverTypes, Doc
  <2>3. Noted(Doc(m.uri), m) = None \/ Noted(Doc(m.uri), m) \in OpenDocument(m.uri)
    BY <1>3, <1>4, <1>7, <2>2, NotedType
  <2>4. Noted(Doc(m.uri), m) # None => observer.prepared[m.uri] # None
    BY <1>1, <1>4, <1>7 DEF ObserverTypes, Doc, Noted
  <2>5. Writes(m.uri, Noted(Doc(m.uri), m), observer.pending)
        /\ observer.pending \in [Ids -> PendingRequest \cup {None}]
    BY <1>1, <1>4, <1>7, <2>1, ObserverDocument
  <2>6. /\ ObserverTypes'
        /\ observer'.prepared = observer.prepared /\ observer'.keys = observer.keys
        /\ observer'.pending = observer.pending
        /\ Doc(m.uri)' = Noted(Doc(m.uri), m)
        /\ \A v \in Docs \ {m.uri} : Doc(v)' = Doc(v)
    BY <1>1, <1>4, <1>7, <2>3, <2>4, <2>5, ObserverWrites
  <2>7. Types'
    BY <1>5, <1>6, <2>6 DEF Types
  <2>. QED
    BY <1>2, <1>3, <1>7, <2>6, <2>7 DEF Read, ReadPublished, Observe
<1>8. CASE m.kind # "diagnostics" /\ observer.pending[m.id] = None
  <2>1. UNCHANGED observer
    BY <1>3, <1>8 DEF Observe
  <2>2. Types'
    BY <1>5, <1>6, <2>1, SameTypes DEF Types
  <2>. QED
    BY <1>2, <1>3, <1>8, <2>1, <2>2 DEF Read, ReadUnasked, Observe
<1>9. CASE m.kind # "diagnostics" /\ observer.pending[m.id] # None
  <2>. PICK asked : asked = observer.pending[m.id]
    OBVIOUS
  <2>. PICK old : old = Doc(asked.uri)
    OBVIOUS
  <2>. PICK new : new = ReplyTo(old, asked, m)
    OBVIOUS
  <2>. DEFINE pending == [observer.pending EXCEPT ![m.id] = None]
  <2>1. asked \in PendingRequest /\ asked.uri \in Docs
    BY <1>1, <1>4, <1>9 DEF ObserverTypes, ObserverRecords, PendingRequest
  <2>2. /\ old = None \/ old \in OpenDocument(asked.uri)
        /\ old # None => observer.prepared[asked.uri] # None
    BY <1>1, <2>1 DEF ObserverTypes, Doc
  <2>4. \/ new = None /\ old = None
        \/ new \in OpenDocument(asked.uri) /\ old # None
        \/ new = old
    <3>1. /\ ReplyTo(old, asked, m) = new /\ m \in FromLean /\ m.kind # "diagnostics"
          /\ asked.uri \in Docs /\ asked \in PendingRequest
          /\ old = None \/ old \in OpenDocument(asked.uri)
      BY <1>3, <1>9, <2>1, <2>2
    <3>. QED
      BY <3>1, ReplyType
  <2>5. pending \in [Ids -> PendingRequest \cup {None}] /\ pending[m.id] = None
        /\ \A i \in Ids \ {m.id} : pending[i] = observer.pending[i]
    BY <1>1, <1>4, <1>9 DEF ObserverTypes, ObserverRecords
  <2>6. Writes(asked.uri, new, pending)
    <3>1. observer' = [observer EXCEPT !.pending[m.id] = None, !.documents[asked.uri] = new]
      BY <1>3, <1>9 DEF Observe, ReplyTo, Doc
    <3>2. [observer EXCEPT !.pending[m.id] = None, !.documents[asked.uri] = new]
            = [observer EXCEPT !.pending = pending, !.documents[asked.uri] = new]
      BY <1>1 DEF ObserverTypes, ObserverRecords
    <3>. QED
      BY <3>1, <3>2 DEF Writes
  <2>7. PICK known : known = pending
    OBVIOUS
  <2>. HIDE DEF pending
  <2>8. /\ new = None \/ new \in OpenDocument(asked.uri)
        /\ new # None => observer.prepared[asked.uri] # None
        /\ known \in [Ids -> PendingRequest \cup {None}]
        /\ Writes(asked.uri, new, known)
    BY <2>2, <2>4, <2>5, <2>6, <2>7
  <2>9. /\ ObserverTypes'
        /\ observer'.prepared = observer.prepared /\ observer'.keys = observer.keys
        /\ observer'.pending = known
        /\ Doc(asked.uri)' = new
        /\ \A v \in Docs \ {asked.uri} : Doc(v)' = Doc(v)
    BY <1>1, <2>1, <2>8, ObserverWrites
  <2>10. Types'
    BY <1>5, <1>6, <2>9 DEF Types
  <2>11. ReadReply(m, asked)
    BY <1>9, <2>1, <2>5, <2>7, <2>9 DEF ReadReply
  <2>12. UNCHANGED <<toLean, lean>>
    BY DEF Observe
  <2>. QED
    BY <1>2, <1>3, <2>9, <2>10, <2>11, <2>12 DEF Read
<1>. QED
  BY <1>7, <1>8, <1>9

CustomType(c) ==
  \/ c \in {Idle, [stage |-> "certified"]}
  \/ c \in Selecting /\ c.left \subseteq Chain(c.input.node)
  \/ c \in Certifying

LEMMA BridgeTypes ==
  ASSUME Types, session.stage = "connected", UNCHANGED <<branch, session, native>>,
         WorkspaceTypes', ObserverTypes', CustomType(custom')
  PROVE  Types'
<1>1. BranchTypes' /\ NativeTypes' /\ Unconnected'
  BY SameTypes
<1>2. SessionTypes'
  BY DEF Types, SessionTypes, CustomType
<1>. QED
  BY <1>1, <1>2 DEF Types

LEMMA CustomFields ==
  ASSUME Types
  PROVE  /\ custom.stage = "refreshing" =>
              /\ custom \in Selecting /\ custom.left \subseteq Chain(custom.input.node)
              /\ custom.input \in DocInputs
         /\ custom.stage \in {"recording", "recorded"} =>
              custom \in Certifying /\ custom.input \in DocInputs
         /\ custom.stage # "idle" => session.stage = "connected"
BY Connected DEF Types, SessionTypes, Selecting, Certifying, Idle

LEMMA SelectFacts ==
  ASSUME Types, NEW u \in Docs, SelectNode(u)
  PROVE  /\ Types' /\ custom'.stage = "refreshing" /\ custom'.left = Chain(u)
         /\ custom'.input = InputOf(head, u) /\ custom'.input.node = u
         /\ \A m \in Chain(u) : custom'.input.text[m] = head[m]
<1>1. u \in Nodes /\ head \in [Nodes -> Revisions] /\ Chain(u) \subseteq Nodes
  BY EditorAssumption, Chains DEF Types, BranchTypes
<1>2. /\ InputOf(head, u) \in Inputs(u) /\ InputOf(head, u).node = u
      /\ \A m \in Chain(u) : InputOf(head, u).text[m] = head[m]
  BY <1>1, InputsOf
<1>3. custom' = [stage |-> "refreshing", input |-> InputOf(head, u), left |-> Chain(u)]
  BY DEF SelectNode, Begin
<1>4. InputOf(head, u) \in DocInputs
  BY <1>2 DEF DocInputs
<1>5. CustomType(custom')
  BY <1>1, <1>2, <1>3, <1>4 DEF CustomType, Selecting
<1>6. WorkspaceTypes' /\ ObserverTypes' /\ session.stage = "connected"
      /\ UNCHANGED <<branch, session, native>>
  BY SameTypes DEF SelectNode, Begin
<1>. QED
  BY <1>2, <1>3, <1>5, <1>6, BridgeTypes

LEMMA CertifyFacts ==
  ASSUME Types, NEW u \in Docs, NEW version \in Versions, Certify(u, version)
  PROVE  /\ Types' /\ custom'.stage = "recording" /\ custom'.input = InputOf(head, u)
         /\ custom'.input.node = u /\ custom'.diagnostics = Doc(u).diagnostics
         /\ custom'.imports = Doc(u).imports
         /\ Doc(u) \in OpenDocument(u) /\ Doc(u) # None /\ Doc(u).complete
         /\ Doc(u).imports # None
         /\ Doc(u).source = InputOf(head, u).text[u]
         /\ Doc(u).environment = Environment(InputOf(head, u))
         /\ \A m \in Chain(u) : custom'.input.text[m] = head[m]
<1>1. u \in Nodes /\ head \in [Nodes -> Revisions] /\ Chain(u) \subseteq Nodes
  BY EditorAssumption, Chains DEF Types, BranchTypes
<1>2. /\ InputOf(head, u) \in Inputs(u) /\ InputOf(head, u).node = u
      /\ \A m \in Chain(u) : InputOf(head, u).text[m] = head[m]
  BY <1>1, InputsOf
<1>3. custom' = [stage |-> "recording", input |-> InputOf(head, u), version |-> version,
                 diagnostics |-> Doc(u).diagnostics, imports |-> Doc(u).imports]
  BY DEF Certify, Begin, Doc
<1>4. /\ Doc(u) # None /\ Doc(u).complete /\ Doc(u).imports # None
      /\ Doc(u).source = InputOf(head, u).text[u]
      /\ Doc(u).environment = Environment(InputOf(head, u))
  BY DEF Certify, Evidence, Observed, Doc
<1>5. Doc(u) \in OpenDocument(u)
  BY <1>4 DEF Types, ObserverTypes, Doc
<1>6. InputOf(head, u) \in DocInputs
  BY <1>2 DEF DocInputs
<1>7. Doc(u).diagnostics \in Seq(Part) /\ Doc(u).imports \in Revisions
  BY <1>4, <1>5 DEF OpenDocument
<1>8. CustomType(custom')
  BY <1>3, <1>6, <1>7 DEF CustomType, Certifying
<1>9. WorkspaceTypes' /\ ObserverTypes' /\ session.stage = "connected"
      /\ UNCHANGED <<branch, session, native>>
  BY SameTypes DEF Certify, Begin
<1>10. Types'
  BY <1>8, <1>9, BridgeTypes
<1>. QED
  BY <1>2, <1>3, <1>4, <1>5, <1>10

LEMMA RefreshFacts ==
  ASSUME Types, Refresh
  PROVE  /\ Types' /\ custom'.stage = "refreshing" /\ custom'.input = custom.input
         /\ custom'.left = custom.left \ {Next1}
         /\ \A m \in Nodes \ {Next1} : disk'[m] = disk[m] /\ sources'[m] = sources[m]
         /\ sources'[Next1] = custom.input.text[Next1]
         /\ disk'[Next1] = IF sources[Next1] = custom.input.text[Next1]
                           THEN disk[Next1] ELSE custom.input.text[Next1]
<1>. PICK n : n = Next1
  OBVIOUS
<1>1. /\ n \in custom.left /\ custom \in Selecting
      /\ custom.left \subseteq Chain(custom.input.node)
      /\ n \in Nodes /\ custom.input.text[n] \in Revisions
  BY NextFile DEF Refresh
<1>2. /\ disk' = IF sources[n] = custom.input.text[n] THEN disk
                 ELSE [disk EXCEPT ![n] = custom.input.text[n]]
      /\ sources' = [sources EXCEPT ![n] = custom.input.text[n]]
      /\ custom' = [custom EXCEPT !.left = @ \ {n}]
  BY DEF Refresh
<1>3. /\ WorkspaceTypes'
      /\ \A m \in Nodes \ {n} : disk'[m] = disk[m] /\ sources'[m] = sources[m]
      /\ sources'[n] = custom.input.text[n]
      /\ disk'[n] = IF sources[n] = custom.input.text[n]
                    THEN disk[n] ELSE custom.input.text[n]
  BY <1>1, <1>2 DEF Types, WorkspaceTypes
<1>4. /\ custom' \in Selecting /\ custom'.left = custom.left \ {n}
      /\ custom'.input = custom.input /\ custom'.stage = "refreshing"
  BY <1>1, <1>2 DEF Selecting
<1>5. CustomType(custom')
  BY <1>1, <1>4 DEF CustomType
<1>6. ObserverTypes' /\ session.stage = "connected" /\ UNCHANGED <<branch, session, native>>
  BY SameTypes, CustomFields DEF Refresh
<1>7. Types'
  BY <1>3, <1>5, <1>6, BridgeTypes
<1>. QED
  BY <1>3, <1>4, <1>7

LEMMA PrepareFacts ==
  ASSUME Types, Prepare
  PROVE  /\ Types' /\ custom' = Idle /\ custom.input \in DocInputs
         /\ observer'.documents = observer.documents
         /\ observer'.pending = observer.pending
         /\ \A u \in Docs : observer'.prepared[u]
              = IF u = custom.input.node THEN custom.input ELSE observer.prepared[u]
<1>. PICK input : input = custom.input
  OBVIOUS
<1>1. input \in DocInputs /\ session.stage = "connected"
  BY CustomFields DEF Prepare
<1>2. observer' = Prepared(observer, input)
  BY DEF Prepare
<1>3. /\ observer' \in ObserverRecords
      /\ observer'.documents = observer.documents
      /\ observer'.pending = observer.pending
      /\ \A u \in Docs : observer'.prepared[u]
           = IF u = input.node THEN input ELSE observer.prepared[u]
      /\ \A n \in Nodes : observer'.keys[n] \in Inputs(n) \cup {None}
  BY <1>1, <1>2, PreparedFields DEF Types, ObserverTypes
<1>4. input \in Inputs(input.node) /\ input # None
  BY <1>1, DocInputFields
<1>5. ObserverTypes'
  BY <1>3, <1>4 DEF Types, ObserverTypes
<1>6. WorkspaceTypes' /\ UNCHANGED <<branch, session, native>> /\ custom' = Idle
  BY SameTypes DEF Prepare
<1>7. Types'
  BY <1>1, <1>5, <1>6, BridgeTypes DEF CustomType
<1>. QED
  BY <1>1, <1>3, <1>6, <1>7

LEMMA RecordFacts ==
  ASSUME Types, RecordEditorCheck
  PROVE  /\ Types'
         /\ \/ custom' = Idle
            \/ /\ custom'.stage = "recorded" /\ custom'.input = custom.input
               /\ custom'.diagnostics = custom.diagnostics /\ custom'.imports = custom.imports
<1>1. custom \in Certifying /\ session.stage = "connected"
  BY CustomFields DEF RecordEditorCheck
<1>2. custom' = Idle \/ custom' = [custom EXCEPT !.stage = "recorded"]
  BY DEF RecordEditorCheck
<1>3. WorkspaceTypes' /\ ObserverTypes' /\ UNCHANGED <<branch, session, native>>
  BY SameTypes DEF RecordEditorCheck
<1>4. CustomType(custom')
  BY <1>1, <1>2 DEF CustomType, Certifying
<1>5. Types'
  BY <1>1, <1>3, <1>4, BridgeTypes
<1>. QED
  BY <1>1, <1>2, <1>5 DEF Certifying

LEMMA ConfirmFacts ==
  ASSUME Types, Confirm
  PROVE  Types' /\ custom' \in {Idle, [stage |-> "certified"]}
<1>1. session.stage = "connected"
  BY CustomFields DEF Confirm
<1>2. custom' \in {Idle, [stage |-> "certified"]}
  BY DEF Confirm
<1>3. WorkspaceTypes' /\ ObserverTypes' /\ UNCHANGED <<branch, session, native>>
  BY SameTypes DEF Confirm
<1>. QED
  BY <1>1, <1>2, <1>3, BridgeTypes DEF CustomType

LEMMA TimeOutFacts ==
  ASSUME Types, TimeOut
  PROVE  /\ Types' /\ custom' = Idle /\ sources' = sources
         /\ \A m \in Nodes :
              \/ disk'[m] = disk[m]
              \/ /\ custom.stage = "refreshing" /\ m \in Chain(custom.input.node)
                 /\ disk'[m] = custom.input.text[m]
<1>1. session.stage = "connected" /\ custom' = Idle /\ sources' = sources
  BY CustomFields DEF TimeOut
<1>2. WorkspaceTypes' /\ \A m \in Nodes :
              \/ disk'[m] = disk[m]
              \/ /\ custom.stage = "refreshing" /\ m \in Chain(custom.input.node)
                 /\ disk'[m] = custom.input.text[m]
  <2>1. CASE UNCHANGED disk
    BY <1>1, <2>1 DEF Types, WorkspaceTypes
  <2>2. CASE /\ custom.stage = "refreshing" /\ custom.left # {}
             /\ disk' = [disk EXCEPT ![Next1] = custom.input.text[Next1]]
    <3>1. PICK n : n = Next1
      OBVIOUS
    <3>2. n \in Nodes /\ n \in Chain(custom.input.node) /\ custom.input.text[n] \in Revisions
      BY <2>2, <3>1, NextFile
    <3>3. disk' = [disk EXCEPT ![n] = custom.input.text[n]]
      BY <2>2, <3>1
    <3>. QED
      BY <1>1, <2>2, <3>2, <3>3 DEF Types, WorkspaceTypes
  <2>. QED
    BY <2>1, <2>2 DEF TimeOut
<1>3. ObserverTypes' /\ UNCHANGED <<branch, session, native>>
  BY SameTypes DEF TimeOut
<1>4. Types'
  BY <1>1, <1>2, <1>3, BridgeTypes DEF CustomType
<1>. QED
  BY <1>1, <1>2, <1>4

-----------------------------------------------------------------------------
(***************************************************************************)
(* What is on its way to the native server: messages are added behind and  *)
(* taken from the front.                                                   *)
(***************************************************************************)
SameText(v) ==
  /\ Doc(v) # None /\ Doc(v)' # None
  /\ Doc(v)'.version = Doc(v).version /\ Doc(v)'.source = Doc(v).source

SameWorker(v) ==
  /\ lean'[v] # None <=> lean[v] # None
  /\ lean'[v].version = lean[v].version /\ lean'[v].text = lean[v].text

Sends(m) == m \in ToLean /\ toLean' = Append(toLean, m)

LEMMA Kinds ==
  ASSUME NEW m, NEW v
  PROVE  /\ Starts(m, v) => Alters(m, v)
         /\ Sets(m, v) => Alters(m, v)
         /\ Alters(m, v) <=> Sets(m, v) \/ (m.kind = "close" /\ m.uri = v)
         /\ m.kind = "close" /\ m.uri = v => Starts(m, v)
         /\ m.uri # v => ~ Alters(m, v)
         /\ m.kind \notin {"open", "change", "close"} => ~ Alters(m, v)
BY DEF Starts, Sets, Alters

LEMMA StayQueue ==
  ASSUME NEW v, toLean' = toLean
  PROVE  /\ \A k : Latest(v, k)' <=> Latest(v, k)
         /\ SameText(v) /\ SameWorker(v) =>
              /\ Arrived(v)' <=> Arrived(v)
              /\ \A k : Arrives(v, k)' <=> Arrives(v, k)
              /\ QueueKept(v) => QueueKept(v)'
<1>1. \A k : Latest(v, k)' <=> Latest(v, k)
  BY DEF Latest
<1>2. ASSUME SameText(v), SameWorker(v)
      PROVE  /\ Arrived(v)' <=> Arrived(v)
             /\ \A k : Arrives(v, k)' <=> Arrives(v, k)
             /\ QueueKept(v) => QueueKept(v)'
  <2>1. Arrived(v)' <=> Arrived(v)
    BY <1>1, <1>2 DEF Arrived, Serves, SameText, SameWorker
  <2>2. \A k : Arrives(v, k)' <=> Arrives(v, k)
    BY <1>1, <1>2, <2>1 DEF Arrives, SameText
  <2>3. \A k : SentKept(v, k)' <=> SentKept(v, k)
    BY <1>2 DEF SentKept, SameText
  <2>4. WorkerKept(v) => WorkerKept(v)'
    BY <1>2 DEF WorkerKept, SameText, SameWorker
  <2>5. Serves(v)' <=> Serves(v)
    BY <1>1 DEF Serves
  <2>. QED
    BY <1>1, <2>1, <2>2, <2>3, <2>4, <2>5 DEF QueueKept
<1>. QED
  BY <1>1, <1>2

\* A message that is sent hides what lies before it only if it opens or closes.
LEMMA SentLatest ==
  ASSUME QueueTypes, NEW v, NEW m, Sends(m)
  PROVE  /\ ~ Starts(m, v) => \A k \in Nat : Latest(v, k)' <=> Latest(v, k)
         /\ Starts(m, v) => \A k \in Nat : Latest(v, k)' <=> k > Len(toLean)
<1>1. /\ toLean \in Seq(ToLean) /\ Len(toLean) \in Nat /\ Len(toLean') = Len(toLean) + 1
      /\ DOMAIN toLean = 1 .. Len(toLean) /\ DOMAIN toLean' = 1 .. (Len(toLean) + 1)
      /\ \A k \in 1 .. Len(toLean) : toLean'[k] = toLean[k]
      /\ toLean'[Len(toLean) + 1] = m
  BY Appending DEF QueueTypes, Sends
<1>2. ASSUME ~ Starts(m, v), NEW k \in Nat
      PROVE  Latest(v, k)' <=> Latest(v, k)
  BY <1>1, <1>2 DEF Latest
<1>3. ASSUME Starts(m, v), NEW k \in Nat
      PROVE  Latest(v, k)' <=> k > Len(toLean)
  BY <1>1, <1>3 DEF Latest
<1>. QED
  BY <1>2, <1>3

LEMMA SentOther ==
  ASSUME QueueTypes, NEW v, NEW m, Sends(m), ~ Alters(m, v)
  PROVE  /\ \A k \in Nat : Latest(v, k)' <=> Latest(v, k)
         /\ SameText(v) /\ SameWorker(v) =>
              /\ Arrived(v)' <=> Arrived(v)
              /\ \A k \in Nat : Arrives(v, k) => Arrives(v, k)'
              /\ QueueKept(v) => QueueKept(v)'
<1>1. /\ toLean \in Seq(ToLean) /\ Len(toLean) \in Nat /\ Len(toLean') = Len(toLean) + 1
      /\ DOMAIN toLean = 1 .. Len(toLean) /\ DOMAIN toLean' = 1 .. (Len(toLean) + 1)
      /\ \A k \in 1 .. Len(toLean) : toLean'[k] = toLean[k]
      /\ toLean'[Len(toLean) + 1] = m
  BY Appending DEF QueueTypes, Sends
<1>2. /\ ~ Starts(m, v) /\ ~ Sets(m, v) /\ ~ (m.kind = "close" /\ m.uri = v)
      /\ \A k \in Nat : Latest(v, k)' <=> Latest(v, k)
  BY Kinds, SentLatest
<1>3. ASSUME SameText(v), SameWorker(v)
      PROVE  /\ Arrived(v)' <=> Arrived(v)
             /\ \A k \in Nat : Arrives(v, k) => Arrives(v, k)'
             /\ QueueKept(v) => QueueKept(v)'
  <2>1. Serves(v)' <=> Serves(v)
    BY <1>2 DEF Serves
  <2>2. Arrived(v)' <=> Arrived(v)
    BY <1>3, <2>1 DEF Arrived, SameText, SameWorker
  <2>3. ASSUME NEW k \in Nat, Arrives(v, k)
        PROVE  Arrives(v, k)'
    <3>1. CASE Arrived(v)
      BY <2>2, <3>1 DEF Arrives
    <3>2. ASSUME NEW j \in DOMAIN toLean, j < k, Latest(v, j),
                 Sets(toLean[j], v), toLean[j].version = Doc(v).version
          PROVE  Arrives(v, k)'
      <4>1. /\ j \in DOMAIN toLean' /\ j < k /\ toLean'[j] = toLean[j] /\ Latest(v, j)'
            /\ Doc(v)'.version = Doc(v).version
        BY <1>1, <1>2, <1>3, <3>2 DEF SameText
      <4>. QED
        BY <3>2, <4>1 DEF Arrives
    <3>. QED
      BY <2>3, <3>1, <3>2 DEF Arrives
  <2>4. ASSUME QueueKept(v)
        PROVE  QueueKept(v)'
    <3>1. ASSUME NEW k \in DOMAIN toLean', Latest(v, k)'
          PROVE  SentKept(v, k)'
      <4>1. CASE k = Len(toLean) + 1
        BY <1>1, <1>2, <4>1 DEF SentKept
      <4>2. CASE k # Len(toLean) + 1
        <5>1. k \in DOMAIN toLean /\ toLean'[k] = toLean[k] /\ k \in Nat
          BY <1>1, <4>2
        <5>2. SentKept(v, k)
          BY <1>2, <2>4, <3>1, <5>1 DEF QueueKept
        <5>. QED
          BY <1>1, <1>3, <5>1, <5>2 DEF SentKept, SameText
      <4>. QED
        BY <4>1, <4>2
    <3>2. WorkerKept(v) => WorkerKept(v)'
      BY <1>1, <1>3 DEF WorkerKept, SameText, SameWorker
    <3>3. Arrives(v, Len(toLean) + 1)'
      <4>1. Arrives(v, Len(toLean) + 1)
        BY <2>4 DEF QueueKept
      <4>2. PICK j : \/ Arrived(v)
                     \/ /\ j \in DOMAIN toLean /\ j < Len(toLean) + 1 /\ Latest(v, j)
                        /\ Sets(toLean[j], v) /\ toLean[j].version = Doc(v).version
        BY <4>1 DEF Arrives
      <4>3. CASE Arrived(v)
        BY <2>2, <4>3 DEF Arrives
      <4>4. CASE /\ j \in DOMAIN toLean /\ j < Len(toLean) + 1 /\ Latest(v, j)
                 /\ Sets(toLean[j], v) /\ toLean[j].version = Doc(v).version
        BY <1>1, <1>2, <1>3, <4>4 DEF Arrives, SameText
      <4>. QED
        BY <4>2, <4>3, <4>4
    <3>. QED
      BY <2>1, <2>4, <3>1, <3>2, <3>3 DEF QueueKept
  <2>. QED
    BY <2>2, <2>3, <2>4
<1>. QED
  BY <1>2, <1>3

LEMMA SentOpen ==
  ASSUME QueueTypes, NEW v, NEW m, Sends(m), m.kind = "open", m.uri = v,
         Doc(v)' # None, Doc(v)'.version = m.version, Doc(v)'.source = m.text
  PROVE  QueueKept(v)' /\ ~ Serves(v)'
<1>1. /\ Len(toLean) \in Nat /\ Len(toLean') = Len(toLean) + 1
      /\ DOMAIN toLean' = 1 .. (Len(toLean) + 1)
      /\ toLean'[Len(toLean) + 1] = m
  BY Appending DEF QueueTypes, Sends
<1>2. Starts(m, v) /\ Sets(m, v) /\ m.kind # "close" /\ m.version \in Nat
  BY ToLeanFields DEF Starts, Sets, Sends, Versions
<1>3. \A k \in Nat : Latest(v, k)' <=> k > Len(toLean)
  BY <1>2, SentLatest
<1>4. ~ Serves(v)'
  BY <1>1, <1>3 DEF Serves
<1>5. ASSUME NEW k \in DOMAIN toLean', Latest(v, k)'
      PROVE  SentKept(v, k)'
  <2>1. k = Len(toLean) + 1
    BY <1>1, <1>3, <1>5
  <2>. QED
    BY <1>1, <1>2, <2>1 DEF SentKept
<1>6. Arrives(v, Len(toLean) + 1)'
  BY <1>1, <1>2, <1>3 DEF Arrives
<1>. QED
  BY <1>4, <1>5, <1>6 DEF QueueKept

LEMMA SentChange ==
  ASSUME QueueTypes, NEW v, NEW m, Sends(m), m.kind = "change", m.uri = v,
         Doc(v) # None, Doc(v).version \in Nat, m.version \in Nat,
         Doc(v).version < m.version,
         Doc(v)' # None, Doc(v)'.version = m.version, Doc(v)'.source = m.text,
         lean[v] # None => lean[v].version \in Nat, lean' = lean, QueueKept(v)
  PROVE  /\ QueueKept(v)' /\ ~ Arrived(v)'
         /\ Serves(v)' <=> Serves(v)
<1>1. /\ toLean \in Seq(ToLean) /\ Len(toLean) \in Nat /\ Len(toLean') = Len(toLean) + 1
      /\ DOMAIN toLean = 1 .. Len(toLean) /\ DOMAIN toLean' = 1 .. (Len(toLean) + 1)
      /\ \A k \in 1 .. Len(toLean) : toLean'[k] = toLean[k]
      /\ toLean'[Len(toLean) + 1] = m
  BY Appending DEF QueueTypes, Sends
<1>2. ~ Starts(m, v) /\ Sets(m, v)
  BY DEF Starts, Sets
<1>3. \A k \in Nat : Latest(v, k)' <=> Latest(v, k)
  BY <1>2, SentLatest
<1>4. Serves(v)' <=> Serves(v)
  BY <1>3 DEF Serves
<1>5. Serves(v) => lean[v] # None /\ lean[v].version < m.version
  BY DEF QueueKept, WorkerKept
<1>6. ~ Arrived(v)'
  BY <1>4, <1>5 DEF Arrived
<1>7. ASSUME NEW k \in DOMAIN toLean', Latest(v, k)'
      PROVE  SentKept(v, k)'
  <2>1. CASE k = Len(toLean) + 1
    BY <1>1, <1>2, <2>1 DEF SentKept
  <2>2. CASE k # Len(toLean) + 1
    <3>1. k \in DOMAIN toLean /\ toLean'[k] = toLean[k] /\ k \in Nat
      BY <1>1, <2>2
    <3>2. toLean[k] \in ToLean
      BY <1>1, <3>1
    <3>3. SentKept(v, k)
      BY <1>3, <1>7, <3>1 DEF QueueKept
    <3>4. Sets(toLean[k], v) => toLean[k].version \in Nat
      BY <3>2, ToLeanFields DEF Sets, Versions
    <3>5. Sets(toLean[k], v) => toLean[k].version < m.version
      BY <3>3, <3>4 DEF SentKept
    <3>. QED
      BY <3>1, <3>3, <3>4, <3>5 DEF SentKept
  <2>. QED
    BY <2>1, <2>2
<1>8. Arrives(v, Len(toLean) + 1)'
  <2>1. Latest(v, Len(toLean) + 1)'
    BY <1>1 DEF Latest
  <2>2. \A j \in DOMAIN toLean' : j > Len(toLean) + 1 => FALSE
    BY <1>1
  <2>3. \E j \in DOMAIN toLean' :
          /\ j < Len(toLean') + 1 /\ Latest(v, j)'
          /\ Sets(toLean'[j], v) /\ toLean'[j].version = Doc(v)'.version
    <3>1. Len(toLean) + 1 \in DOMAIN toLean' /\ Len(toLean) + 1 < Len(toLean') + 1
      BY <1>1
    <3>2. PICK j : j = Len(toLean) + 1
      OBVIOUS
    <3>3. Latest(v, j)'
      BY <1>1, <3>2 DEF Latest
    <3>. QED
      BY <1>1, <1>2, <3>1, <3>2, <3>3
  <2>. QED
    BY <2>3 DEF Arrives
<1>9. WorkerKept(v)' \/ ~ Serves(v)
  <2>1. ASSUME Serves(v) PROVE WorkerKept(v)'
    BY <1>5, <2>1 DEF WorkerKept
  <2>. QED
    BY <2>1
<1>. QED
  BY <1>4, <1>6, <1>7, <1>8, <1>9 DEF QueueKept

\* Places move by one when the first message is taken.
Shifted ==
  /\ toLean # <<>> /\ toLean' = Tail(toLean)

LEMMA PoppedLatest ==
  ASSUME QueueTypes, NEW v, Shifted
  PROVE  /\ \A k \in Nat : Latest(v, k)' <=> Latest(v, k + 1)
         /\ ~ Starts(toLean[1], v) => (Latest(v, 0) <=> Latest(v, 1))
         /\ Starts(toLean[1], v) => ~ Latest(v, 0)
         /\ Serves(v)' <=> Latest(v, 1)
<1>1. /\ Len(toLean) \in Nat \ {0} /\ DOMAIN toLean = 1 .. Len(toLean)
      /\ DOMAIN toLean' = 1 .. (Len(toLean) - 1)
      /\ \A k \in 1 .. (Len(toLean) - 1) : toLean'[k] = toLean[k + 1]
  BY Popping DEF QueueTypes, Shifted
<1>2. ASSUME NEW k \in Nat
      PROVE  Latest(v, k)' <=> Latest(v, k + 1)
  <2>1. ASSUME Latest(v, k)', NEW j \in DOMAIN toLean, j > k + 1
        PROVE  ~ Starts(toLean[j], v)
    <3>1. j - 1 \in DOMAIN toLean' /\ j - 1 > k /\ toLean'[j - 1] = toLean[j]
      BY <1>1, <2>1
    <3>. QED
      BY <2>1, <3>1 DEF Latest
  <2>2. ASSUME Latest(v, k + 1), NEW j \in DOMAIN toLean', j > k
        PROVE  ~ Starts(toLean'[j], v)
    <3>1. j + 1 \in DOMAIN toLean /\ j + 1 > k + 1 /\ toLean'[j] = toLean[j + 1]
      BY <1>1, <2>2
    <3>. QED
      BY <2>2, <3>1 DEF Latest
  <2>. QED
    BY <2>1, <2>2 DEF Latest
<1>3. ~ Starts(toLean[1], v) => (Latest(v, 0) <=> Latest(v, 1))
  BY <1>1 DEF Latest
<1>4. Starts(toLean[1], v) => ~ Latest(v, 0)
  BY <1>1 DEF Latest
<1>5. Serves(v)' <=> Latest(v, 1)
  <2>1. Latest(v, 0)' <=> Latest(v, 0 + 1)
    BY <1>2
  <2>. QED
    BY <2>1 DEF Serves
<1>. QED
  BY <1>2, <1>3, <1>4, <1>5

\* A message further behind arrives one place earlier.
LEMMA PoppedBehind ==
  ASSUME QueueTypes, NEW v, Shifted, SameText(v), NEW k \in Nat,
         NEW j \in DOMAIN toLean, j # 1, j < k + 1, Latest(v, j),
         Sets(toLean[j], v), toLean[j].version = Doc(v).version
  PROVE  Arrives(v, k)'
<1>1. /\ Len(toLean) \in Nat \ {0} /\ DOMAIN toLean = 1 .. Len(toLean)
      /\ DOMAIN toLean' = 1 .. (Len(toLean) - 1)
      /\ \A i \in 1 .. (Len(toLean) - 1) : toLean'[i] = toLean[i + 1]
  BY Popping DEF QueueTypes, Shifted
<1>. PICK i : i = j - 1
  OBVIOUS
<1>2. i \in DOMAIN toLean' /\ i < k /\ toLean'[i] = toLean[j] /\ i \in Nat /\ j = i + 1
  BY <1>1
<1>3. Latest(v, i)'
  BY <1>2, PoppedLatest
<1>. QED
  BY <1>2, <1>3 DEF Arrives, SameText

LEMMA PoppedKept ==
  ASSUME QueueTypes, NEW v, Shifted, SameText(v), QueueKept(v)
  PROVE  \A k \in DOMAIN toLean' : Latest(v, k)' => SentKept(v, k)'
<1>1. /\ Len(toLean) \in Nat \ {0} /\ DOMAIN toLean = 1 .. Len(toLean)
      /\ DOMAIN toLean' = 1 .. (Len(toLean) - 1)
      /\ \A i \in 1 .. (Len(toLean) - 1) : toLean'[i] = toLean[i + 1]
  BY Popping DEF QueueTypes, Shifted
<1>2. SUFFICES ASSUME NEW k \in DOMAIN toLean', Latest(v, k)'
               PROVE  SentKept(v, k)'
  OBVIOUS
<1>3. k \in Nat /\ k + 1 \in DOMAIN toLean /\ toLean'[k] = toLean[k + 1]
  BY <1>1
<1>4. SentKept(v, k + 1)
  BY <1>2, <1>3, PoppedLatest DEF QueueKept
<1>5. ASSUME NEW j \in DOMAIN toLean', j > k
      PROVE  j + 1 \in DOMAIN toLean /\ j + 1 > k + 1 /\ toLean'[j] = toLean[j + 1]
  BY <1>1, <1>5
<1>. QED
  BY <1>3, <1>4, <1>5 DEF SentKept, SameText

LEMMA PoppedOther ==
  ASSUME QueueTypes, NEW v, Shifted, ~ Alters(toLean[1], v)
  PROVE  /\ Serves(v)' <=> Serves(v)
         /\ SameText(v) /\ SameWorker(v) =>
              /\ Arrived(v)' <=> Arrived(v)
              /\ \A k \in Nat : Arrives(v, k + 1) => Arrives(v, k)'
              /\ QueueKept(v) => QueueKept(v)'
<1>1. /\ Len(toLean) \in Nat \ {0} /\ DOMAIN toLean = 1 .. Len(toLean)
      /\ DOMAIN toLean' = 1 .. (Len(toLean) - 1) /\ Len(toLean') = Len(toLean) - 1
      /\ \A i \in 1 .. (Len(toLean) - 1) : toLean'[i] = toLean[i + 1]
  BY Popping DEF QueueTypes, Shifted
<1>2. ~ Starts(toLean[1], v) /\ ~ Sets(toLean[1], v)
  BY Kinds
<1>3. Serves(v)' <=> Serves(v)
  BY <1>2, PoppedLatest DEF Serves
<1>4. ASSUME SameText(v), SameWorker(v)
      PROVE  /\ Arrived(v)' <=> Arrived(v)
             /\ \A k \in Nat : Arrives(v, k + 1) => Arrives(v, k)'
             /\ QueueKept(v) => QueueKept(v)'
  <2>1. Arrived(v)' <=> Arrived(v)
    BY <1>3, <1>4 DEF Arrived, SameText, SameWorker
  <2>2. ASSUME NEW k \in Nat, Arrives(v, k + 1)
        PROVE  Arrives(v, k)'
    <3>1. CASE Arrived(v)
      BY <2>1, <3>1 DEF Arrives
    <3>2. ASSUME NEW j \in DOMAIN toLean, j < k + 1, Latest(v, j),
                 Sets(toLean[j], v), toLean[j].version = Doc(v).version
          PROVE  Arrives(v, k)'
      <4>1. j # 1
        BY <1>2, <3>2
      <4>. QED
        BY <1>4, <3>2, <4>1, PoppedBehind
    <3>. QED
      BY <2>2, <3>1, <3>2 DEF Arrives
  <2>3. ASSUME QueueKept(v)
        PROVE  QueueKept(v)'
    <3>1. \A k \in DOMAIN toLean' : Latest(v, k)' => SentKept(v, k)'
      BY <1>4, <2>3, PoppedKept
    <3>2. ASSUME Serves(v) PROVE WorkerKept(v)'
      <4>1. WorkerKept(v)
        BY <2>3, <3>2 DEF QueueKept
      <4>2. ASSUME NEW j \in DOMAIN toLean'
            PROVE  j + 1 \in DOMAIN toLean /\ toLean'[j] = toLean[j + 1]
        BY <1>1
      <4>. QED
        BY <1>4, <4>1, <4>2 DEF WorkerKept, SameText, SameWorker
    <3>3. Arrives(v, Len(toLean) + 1)'
      <4>1. PICK l : l = Len(toLean)
        OBVIOUS
      <4>2. Arrives(v, l + 1) /\ l \in Nat /\ Len(toLean') + 1 = l
        BY <1>1, <2>3, <4>1 DEF QueueKept
      <4>3. Arrives(v, l)'
        BY <2>2, <4>2
      <4>. QED
        BY <4>2, <4>3 DEF Arrives
    <3>. QED
      BY <1>3, <3>1, <3>2, <3>3 DEF QueueKept
  <2>. QED
    BY <2>1, <2>2, <2>3
<1>. QED
  BY <1>3, <1>4

\* The worker takes a message that alters its document.
LEMMA PoppedAlters ==
  ASSUME QueueTypes, NEW v, Shifted, Alters(toLean[1], v), SameText(v), QueueKept(v),
         Sets(toLean[1], v) =>
           /\ lean'[v] # None /\ lean'[v].version = toLean[1].version
           /\ lean'[v].text = toLean[1].text
  PROVE  /\ ~ Arrived(v)
         /\ \A k \in Nat : Arrives(v, k + 1) => Arrives(v, k)'
         /\ QueueKept(v)'
<1>1. /\ Len(toLean) \in Nat \ {0} /\ DOMAIN toLean = 1 .. Len(toLean)
      /\ DOMAIN toLean' = 1 .. (Len(toLean) - 1) /\ Len(toLean') = Len(toLean) - 1
      /\ \A i \in 1 .. (Len(toLean) - 1) : toLean'[i] = toLean[i + 1]
  BY Popping DEF QueueTypes, Shifted
<1>2. ~ Arrived(v)
  <2>1. 1 \in DOMAIN toLean
    BY <1>1
  <2>. QED
    BY <2>1 DEF Arrived, QueueKept, WorkerKept
<1>3. Latest(v, 1) => Sets(toLean[1], v) /\ SentKept(v, 1)
  <2>1. Latest(v, 1) => SentKept(v, 1)
    BY <1>1 DEF QueueKept
  <2>. QED
    BY <2>1, Kinds DEF SentKept
<1>4. Serves(v)' <=> Latest(v, 1)
  BY PoppedLatest
<1>5. ASSUME Latest(v, 1) PROVE WorkerKept(v)'
  <2>1. /\ lean'[v] # None /\ lean'[v].version = toLean[1].version
        /\ lean'[v].text = toLean[1].text
    BY <1>3, <1>5
  <2>2. ASSUME NEW j \in DOMAIN toLean'
        PROVE  j + 1 \in DOMAIN toLean /\ j + 1 > 1 /\ toLean'[j] = toLean[j + 1]
    BY <1>1
  <2>. QED
    BY <1>3, <1>5, <2>1, <2>2 DEF WorkerKept, SentKept, SameText
<1>6. ASSUME NEW k \in Nat, Arrives(v, k + 1)
      PROVE  Arrives(v, k)'
  <2>1. PICK j \in DOMAIN toLean :
          /\ j < k + 1 /\ Latest(v, j)
          /\ Sets(toLean[j], v) /\ toLean[j].version = Doc(v).version
    BY <1>2, <1>6 DEF Arrives
  <2>2. CASE j = 1
    <3>1. Arrived(v)'
      BY <1>3, <1>4, <2>1, <2>2 DEF Arrived, SameText
    <3>. QED
      BY <3>1 DEF Arrives
  <2>3. CASE j # 1
    BY <2>1, <2>3, PoppedBehind
  <2>. QED
    BY <2>2, <2>3
<1>7. Arrives(v, Len(toLean) + 1)'
  <2>1. PICK l : l = Len(toLean)
    OBVIOUS
  <2>2. Arrives(v, l + 1) /\ l \in Nat /\ Len(toLean') + 1 = l
    BY <1>1, <2>1 DEF QueueKept
  <2>3. Arrives(v, l)'
    BY <1>6, <2>2
  <2>. QED
    BY <2>2, <2>3 DEF Arrives
<1>8. \A k \in DOMAIN toLean' : Latest(v, k)' => SentKept(v, k)'
  BY PoppedKept
<1>. QED
  BY <1>2, <1>4, <1>5, <1>6, <1>7, <1>8 DEF QueueKept

-----------------------------------------------------------------------------
(***************************************************************************)
(* What is on its way to the browser.                                      *)
(***************************************************************************)
\* The document and its worker stay, and nothing that counts is added.
Quiet(v) ==
  /\ Doc(v)' = Doc(v)
  /\ lean'[v].shown = lean[v].shown
  /\ lean'[v].text = lean[v].text /\ lean'[v].env = lean[v].env
  /\ \/ fromLean' = fromLean
     \/ \E m \in FromLean : fromLean' = Append(fromLean, m) /\ ~ Counts(m, v)

LEMMA QuietSilent ==
  ASSUME QueueTypes, NEW v, Quiet(v)
  PROVE  /\ \A lo, hi \in Nat : Silent(v, lo, hi) <=> Silent(v, lo, hi)'
         /\ Len(fromLean') >= Len(fromLean)
         /\ Len(fromLean) \in Nat /\ Len(fromLean') \in Nat
         /\ DOMAIN fromLean = 1 .. Len(fromLean)
         /\ \A j \in DOMAIN fromLean : j \in DOMAIN fromLean' /\ fromLean'[j] = fromLean[j]
<1>1. \A x : Counts(x, v)' <=> Counts(x, v)
  BY DEF Quiet, Counts
<1>2. CASE fromLean' = fromLean
  <2>1. \A lo, hi \in Nat : Silent(v, lo, hi) <=> Silent(v, lo, hi)'
    BY <1>1, <1>2 DEF Silent
  <2>. QED
    BY <1>2, <2>1 DEF QueueTypes
<1>3. CASE \E m \in FromLean : fromLean' = Append(fromLean, m) /\ ~ Counts(m, v)
  <2>1. PICK m \in FromLean : fromLean' = Append(fromLean, m) /\ ~ Counts(m, v)
    BY <1>3
  <2>2. /\ Len(fromLean) \in Nat /\ Len(fromLean') = Len(fromLean) + 1
        /\ DOMAIN fromLean = 1 .. Len(fromLean) /\ DOMAIN fromLean' = 1 .. (Len(fromLean) + 1)
        /\ \A k \in 1 .. Len(fromLean) : fromLean'[k] = fromLean[k]
        /\ fromLean'[Len(fromLean) + 1] = m
    BY <2>1, Appending DEF QueueTypes
  <2>3. ASSUME NEW lo \in Nat, NEW hi \in Nat
        PROVE  Silent(v, lo, hi) <=> Silent(v, lo, hi)'
    <3>1. ASSUME Silent(v, lo, hi), NEW j \in DOMAIN fromLean', lo < j, j < hi
          PROVE  ~ Counts(fromLean[j], v)'
      <4>1. j \in DOMAIN fromLean \/ j = Len(fromLean) + 1
        BY <2>2
      <4>2. ~ Counts(fromLean'[j], v)
        BY <2>1, <2>2, <3>1, <4>1 DEF Silent
      <4>. QED
        BY <4>2 DEF Quiet, Counts
    <3>2. ASSUME Silent(v, lo, hi)', NEW j \in DOMAIN fromLean, lo < j, j < hi
          PROVE  ~ Counts(fromLean[j], v)
      <4>1. j \in DOMAIN fromLean' /\ fromLean'[j] = fromLean[j]
        BY <2>2
      <4>. QED
        BY <3>2, <4>1 DEF Silent, Quiet, Counts
    <3>. QED
      BY <3>1, <3>2 DEF Silent
  <2>. QED
    BY <2>2, <2>3
<1>. QED
  BY <1>2, <1>3 DEF Quiet

LEMMA QuietParts ==
  ASSUME QueueTypes, NEW v, Quiet(v)
  PROVE  /\ \A k \in Nat : Half(v, k) => Half(v, k)'
         /\ \A k \in Nat : Whole(v, k) => Whole(v, k)'
<1>1. /\ \A lo, hi \in Nat : Silent(v, lo, hi) <=> Silent(v, lo, hi)'
      /\ DOMAIN fromLean = 1 .. Len(fromLean) /\ Len(fromLean) \in Nat
      /\ \A j \in DOMAIN fromLean : j \in DOMAIN fromLean' /\ fromLean'[j] = fromLean[j]
  BY QuietSilent
<1>2. /\ Doc(v)' = Doc(v) /\ \A x : Counts(x, v)' <=> Counts(x, v)
      /\ \A n : PartOf(v, n)' = PartOf(v, n)
  BY DEF Quiet, Counts, PartOf
<1>3. ASSUME NEW k \in Nat, Half(v, k)
      PROVE  Half(v, k)'
  <2>1. CASE Doc(v).diagnostics = <<PartOf(v, 1)>> /\ Silent(v, 0, k)
    BY <1>1, <1>2, <2>1 DEF Half
  <2>2. ASSUME NEW j \in DOMAIN fromLean,
               j < k, Counts(fromLean[j], v), Silent(v, j, k),
               ~ fromLean[j].incremental, fromLean[j].part = PartOf(v, 1)
        PROVE  Half(v, k)'
    <3>1. /\ j \in DOMAIN fromLean' /\ fromLean'[j] = fromLean[j] /\ Silent(v, j, k)'
          /\ Counts(fromLean[j], v)'
      <4>1. j \in Nat /\ j \in DOMAIN fromLean' /\ fromLean'[j] = fromLean[j]
        BY <1>1
      <4>. QED
        BY <1>1, <1>2, <2>2, <4>1 DEF Counts
    <3>. QED
      BY <1>2, <2>2, <3>1 DEF Half
  <2>. QED
    BY <1>3, <2>1, <2>2 DEF Half
<1>4. ASSUME NEW k \in Nat, Whole(v, k)
      PROVE  Whole(v, k)'
  <2>1. CASE Doc(v).diagnostics = <<PartOf(v, 1), PartOf(v, 2)>> /\ Silent(v, 0, k)
    BY <1>1, <1>2, <2>1 DEF Whole
  <2>2. ASSUME NEW j \in DOMAIN fromLean,
               j < k, Counts(fromLean[j], v), Silent(v, j, k),
               fromLean[j].incremental, fromLean[j].part = PartOf(v, 2), Half(v, j)
        PROVE  Whole(v, k)'
    <3>1. /\ j \in DOMAIN fromLean' /\ fromLean'[j] = fromLean[j] /\ Silent(v, j, k)'
          /\ Counts(fromLean[j], v)' /\ Half(v, j)'
      <4>1. j \in Nat /\ j \in DOMAIN fromLean' /\ fromLean'[j] = fromLean[j]
        BY <1>1
      <4>. QED
        BY <1>1, <1>2, <1>3, <2>2, <4>1 DEF Counts
    <3>. QED
      BY <1>2, <2>2, <3>1 DEF Whole
  <2>. QED
    BY <1>4, <2>1, <2>2 DEF Whole
<1>. QED
  BY <1>3, <1>4

\* What is said by the end is said after it.
LEMMA PartsEnd ==
  ASSUME QueueTypes, NEW v, NEW n \in Nat, n > Len(fromLean)
  PROVE  /\ \A lo \in Nat : Silent(v, lo, n) <=> Silent(v, lo, Len(fromLean) + 1)
         /\ Half(v, n) <=> Half(v, Len(fromLean) + 1)
         /\ Whole(v, n) <=> Whole(v, Len(fromLean) + 1)
<1>1. Len(fromLean) \in Nat /\ DOMAIN fromLean = 1 .. Len(fromLean)
  BY DEF QueueTypes
<1>2. \A lo \in Nat : Silent(v, lo, n) <=> Silent(v, lo, Len(fromLean) + 1)
  BY <1>1 DEF Silent
<1>3. \A j \in DOMAIN fromLean : j \in Nat /\ j < n /\ j < Len(fromLean) + 1
  BY <1>1
<1>4. Half(v, n) <=> Half(v, Len(fromLean) + 1)
  BY <1>2, <1>3 DEF Half
<1>5. Whole(v, n) <=> Whole(v, Len(fromLean) + 1)
  BY <1>2, <1>3 DEF Whole
<1>. QED
  BY <1>2, <1>4, <1>5

LEMMA QuietKept ==
  ASSUME QueueTypes, QueueTypes', NEW v, Quiet(v)
  PROVE  /\ SaidKept(v) /\ (Arrived(v)' => Arrived(v)) => SaidKept(v)'
         /\ (Arrived(v) => Arrived(v)')
              => \A k \in Nat : Done(v, k) => Done(v, k)'
<1>1. /\ Len(fromLean) \in Nat /\ Len(fromLean') \in Nat /\ Len(fromLean') >= Len(fromLean)
      /\ \A lo, hi \in Nat : Silent(v, lo, hi) <=> Silent(v, lo, hi)'
  BY QuietSilent
<1>. PICK f : f = Len(fromLean')
  OBVIOUS
<1>2. f + 1 \in Nat /\ f + 1 > Len(fromLean)
  BY <1>1
<1>3. /\ Half(v, Len(fromLean) + 1) => Half(v, f + 1)'
      /\ Whole(v, Len(fromLean) + 1) => Whole(v, f + 1)'
  BY <1>2, PartsEnd, QuietParts
<1>4. Half(v, f + 1)' => Half(v, Len(fromLean) + 1)'
  BY <1>1 DEF Half
<1>5. Whole(v, f + 1)' => Whole(v, Len(fromLean) + 1)'
  BY <1>1 DEF Whole
<1>6. ASSUME SaidKept(v), Arrived(v)' => Arrived(v)
      PROVE  SaidKept(v)'
  BY <1>3, <1>4, <1>5, <1>6 DEF SaidKept, Quiet
<1>7. ASSUME Arrived(v) => Arrived(v)', NEW k \in Nat, Done(v, k)
      PROVE  Done(v, k)'
  <2>1. Silent(v, k, f + 1)'
    BY <1>1, <1>2, <1>7, PartsEnd DEF Done
  <2>2. Silent(v, k, Len(fromLean) + 1)'
    BY <2>1 DEF Silent
  <2>. QED
    BY <1>7, <2>2 DEF Done, Quiet
<1>. QED
  BY <1>6, <1>7

LEMMA TwoParts ==
  ASSUME NEW x, NEW y
  PROVE  Append(<<x>>, y) = <<x, y>>
<1>1. <<x>> \in Seq({x, y}) /\ Len(<<x>>) = 1 /\ <<x>>[1] = x
  OBVIOUS
<1>2. PICK s \in Seq({x, y}) : s = <<x>> /\ Len(s) = 1 /\ s[1] = x
  BY <1>1
<1>3. /\ Append(s, y) \in Seq({x, y}) /\ Len(Append(s, y)) = 2
      /\ Append(s, y)[1] = x /\ Append(s, y)[2] = y
  BY <1>2
<1>4. <<x, y>> \in Seq({x, y}) /\ Len(<<x, y>>) = 2 /\ <<x, y>>[1] = x /\ <<x, y>>[2] = y
  OBVIOUS
<1>5. PICK t \in Seq({x, y}) : t = <<x, y>> /\ Len(t) = 2 /\ t[1] = x /\ t[2] = y
  BY <1>4
<1>6. PICK r \in Seq({x, y}) : r = Append(s, y) /\ Len(r) = 2 /\ r[1] = x /\ r[2] = y
  BY <1>3
<1>7. \A i \in 1 .. 2 : r[i] = t[i]
  BY <1>5, <1>6
<1>8. r = t
  BY <1>5, <1>6, <1>7, SeqEqual
<1>. QED
  BY <1>2, <1>5, <1>6, <1>8

\* The first message on its way to the browser has been read.
Passed(v) ==
  /\ fromLean # <<>> /\ fromLean' = Tail(fromLean)
  /\ toLean' = toLean /\ lean' = lean /\ SameText(v)

LEMMA PassedSilent ==
  ASSUME QueueTypes, NEW v, Passed(v)
  PROVE  /\ \A lo, hi \in Nat : Silent(v, lo + 1, hi + 1) <=> Silent(v, lo, hi)'
         /\ ~ Counts(fromLean[1], v) =>
              \A hi \in Nat : Silent(v, 0, hi) <=> Silent(v, 1, hi)
         /\ Counts(fromLean[1], v) => \A hi \in Nat : hi > 1 => ~ Silent(v, 0, hi)
         /\ Len(fromLean) \in Nat \ {0} /\ DOMAIN fromLean = 1 .. Len(fromLean)
         /\ DOMAIN fromLean' = 1 .. (Len(fromLean) - 1) /\ Len(fromLean') = Len(fromLean) - 1
         /\ \A i \in 1 .. (Len(fromLean) - 1) : fromLean'[i] = fromLean[i + 1]
         /\ \A x : Counts(x, v)' <=> Counts(x, v)
         /\ \A n : PartOf(v, n)' = PartOf(v, n)
         /\ Arrived(v)' <=> Arrived(v)
<1>1. /\ Len(fromLean) \in Nat \ {0} /\ DOMAIN fromLean = 1 .. Len(fromLean)
      /\ DOMAIN fromLean' = 1 .. (Len(fromLean) - 1) /\ Len(fromLean') = Len(fromLean) - 1
      /\ \A i \in 1 .. (Len(fromLean) - 1) : fromLean'[i] = fromLean[i + 1]
  BY Popping DEF QueueTypes, Passed
<1>2. \A x : Counts(x, v)' <=> Counts(x, v)
  BY DEF Passed, SameText, Counts
<1>3. \A n : PartOf(v, n)' = PartOf(v, n)
  BY DEF Passed, PartOf
<1>4. ASSUME NEW lo \in Nat, NEW hi \in Nat
      PROVE  Silent(v, lo + 1, hi + 1) <=> Silent(v, lo, hi)'
  <2>1. ASSUME Silent(v, lo + 1, hi + 1), NEW j \in DOMAIN fromLean', lo < j, j < hi
        PROVE  ~ Counts(fromLean[j], v)'
    <3>1. PICK x : x = fromLean'[j]
      OBVIOUS
    <3>2. j + 1 \in DOMAIN fromLean /\ x = fromLean[j + 1] /\ lo + 1 < j + 1 /\ j + 1 < hi + 1
      BY <1>1, <2>1, <3>1
    <3>3. ~ Counts(x, v)
      BY <2>1, <3>2 DEF Silent
    <3>. QED
      BY <1>2, <3>1, <3>3 DEF Counts
  <2>2. ASSUME Silent(v, lo, hi)', NEW j \in DOMAIN fromLean, lo + 1 < j, j < hi + 1
        PROVE  ~ Counts(fromLean[j], v)
    <3>1. PICK i : i = j - 1
      OBVIOUS
    <3>2. i \in DOMAIN fromLean' /\ fromLean'[i] = fromLean[j] /\ lo < i /\ i < hi
      BY <1>1, <2>2, <3>1
    <3>3. PICK x : x = fromLean'[i]
      OBVIOUS
    <3>4. ~ Counts(x, v)'
      BY <2>2, <3>2, <3>3 DEF Silent, Counts
    <3>. QED
      BY <1>2, <3>2, <3>3, <3>4
  <2>. QED
    BY <2>1, <2>2 DEF Silent
<1>5. ~ Counts(fromLean[1], v) => \A hi \in Nat : Silent(v, 0, hi) <=> Silent(v, 1, hi)
  BY <1>1 DEF Silent
<1>6. Counts(fromLean[1], v) => \A hi \in Nat : hi > 1 => ~ Silent(v, 0, hi)
  BY <1>1 DEF Silent
<1>7. Arrived(v)' <=> Arrived(v)
  BY StayQueue DEF Passed, SameWorker
<1>. QED
  BY <1>1, <1>2, <1>3, <1>4, <1>5, <1>6, <1>7

LEMMA PassedMessage ==
  ASSUME QueueTypes, NEW v, Passed(v), NEW k \in Nat,
         NEW i \in Nat \ {0}, i + 1 \in DOMAIN fromLean, i < k,
         Counts(fromLean[i + 1], v), Silent(v, i + 1, k + 1)
  PROVE  /\ i \in DOMAIN fromLean' /\ fromLean'[i] = fromLean[i + 1]
         /\ Counts(fromLean[i], v)' /\ Silent(v, i, k)'
<1>1. /\ \A lo, hi \in Nat : Silent(v, lo + 1, hi + 1) <=> Silent(v, lo, hi)'
      /\ Len(fromLean) \in Nat \ {0} /\ DOMAIN fromLean = 1 .. Len(fromLean)
      /\ DOMAIN fromLean' = 1 .. (Len(fromLean) - 1)
      /\ \A n \in 1 .. (Len(fromLean) - 1) : fromLean'[n] = fromLean[n + 1]
      /\ \A x : Counts(x, v)' <=> Counts(x, v)
  BY PassedSilent
<1>2. i \in DOMAIN fromLean' /\ fromLean'[i] = fromLean[i + 1]
  <2>1. /\ Len(fromLean) \in Nat \ {0} /\ DOMAIN fromLean = 1 .. Len(fromLean)
        /\ DOMAIN fromLean' = 1 .. (Len(fromLean) - 1)
        /\ \A n \in 1 .. (Len(fromLean) - 1) : fromLean'[n] = fromLean[n + 1]
    BY <1>1
  <2>2. i \in 1 .. (Len(fromLean) - 1)
    BY <2>1
  <2>. QED
    BY <2>1, <2>2
<1>3. PICK x : x = fromLean'[i]
  OBVIOUS
<1>4. Counts(x, v)'
  BY <1>1, <1>2, <1>3
<1>5. Counts(fromLean[i], v)'
  BY <1>3, <1>4 DEF Counts
<1>6. Silent(v, i, k)'
  BY <1>1
<1>. QED
  BY <1>2, <1>5, <1>6

LEMMA Before ==
  ASSUME NEW l \in Nat, NEW j \in 1 .. l, j # 1, NEW n \in Nat, j < n + 1
  PROVE  \E i \in Nat \ {0} : j = i + 1 /\ i < n
<1>. j - 1 \in Nat \ {0} /\ j = (j - 1) + 1 /\ j - 1 < n
  OBVIOUS
<1>. QED
  OBVIOUS

LEMMA PassedUncounted ==
  ASSUME QueueTypes, NEW v, Passed(v), ~ Counts(fromLean[1], v),
         Doc(v)'.diagnostics = Doc(v).diagnostics, NEW k \in Nat
  PROVE  /\ Half(v, k + 1) => Half(v, k)'
         /\ Whole(v, k + 1) => Whole(v, k)'
<1>1. /\ \A lo, hi \in Nat : Silent(v, lo + 1, hi + 1) <=> Silent(v, lo, hi)'
      /\ \A hi \in Nat : Silent(v, 0, hi) <=> Silent(v, 1, hi)
      /\ DOMAIN fromLean = 1 .. Len(fromLean) /\ Len(fromLean) \in Nat
      /\ \A n : PartOf(v, n)' = PartOf(v, n)
  BY PassedSilent
<1>2. ASSUME NEW n \in Nat, Silent(v, 0, n + 1)
      PROVE  Silent(v, 0, n)'
  <2>1. Silent(v, 0 + 1, n + 1)
    BY <1>1, <1>2
  <2>. QED
    BY <1>1, <2>1
<1>3. ASSUME NEW n \in Nat, Half(v, n + 1)
      PROVE  Half(v, n)'
  <2>1. CASE Doc(v).diagnostics = <<PartOf(v, 1)>> /\ Silent(v, 0, n + 1)
    BY <1>1, <1>2, <2>1 DEF Half
  <2>2. ASSUME NEW j \in DOMAIN fromLean,
               j < n + 1, Counts(fromLean[j], v), Silent(v, j, n + 1),
               ~ fromLean[j].incremental, fromLean[j].part = PartOf(v, 1)
        PROVE  Half(v, n)'
    <3>1. j # 1
      BY <2>2
    <3>2. PICK i \in Nat \ {0} : j = i + 1 /\ i < n
      BY <1>1, <2>2, <3>1, Before
    <3>3. /\ i \in DOMAIN fromLean' /\ i < n /\ fromLean'[i] = fromLean[j]
          /\ Counts(fromLean[i], v)' /\ Silent(v, i, n)'
      BY <2>2, <3>2, PassedMessage
    <3>. QED
      BY <1>1, <2>2, <3>3 DEF Half
  <2>. QED
    BY <1>3, <2>1, <2>2 DEF Half
<1>4. ASSUME Whole(v, k + 1)
      PROVE  Whole(v, k)'
  <2>1. CASE Doc(v).diagnostics = <<PartOf(v, 1), PartOf(v, 2)>> /\ Silent(v, 0, k + 1)
    BY <1>1, <1>2, <2>1 DEF Whole
  <2>2. ASSUME NEW j \in DOMAIN fromLean,
               j < k + 1, Counts(fromLean[j], v), Silent(v, j, k + 1),
               fromLean[j].incremental, fromLean[j].part = PartOf(v, 2), Half(v, j)
        PROVE  Whole(v, k)'
    <3>1. j # 1
      BY <2>2
    <3>2. PICK i \in Nat \ {0} : j = i + 1 /\ i < k
      BY <1>1, <2>2, <3>1, Before
    <3>3. /\ i \in DOMAIN fromLean' /\ i < k /\ fromLean'[i] = fromLean[j]
          /\ Counts(fromLean[i], v)' /\ Silent(v, i, k)'
      BY <2>2, <3>2, PassedMessage
    <3>4. Half(v, i)'
      BY <1>3, <2>2, <3>2
    <3>. QED
      BY <1>1, <2>2, <3>3, <3>4 DEF Whole
  <2>. QED
    BY <1>4, <2>1, <2>2 DEF Whole
<1>. QED
  BY <1>3, <1>4

LEMMA PassedCounted ==
  ASSUME QueueTypes, NEW v, Passed(v), Counts(fromLean[1], v),
         Doc(v)'.diagnostics = IF fromLean[1].incremental
                               THEN Append(Doc(v).diagnostics, fromLean[1].part)
                               ELSE <<fromLean[1].part>>,
         NEW k \in Nat \ {0}
  PROVE  /\ Half(v, k + 1) => Half(v, k)'
         /\ Whole(v, k + 1) => Whole(v, k)'
<1>1. /\ \A lo, hi \in Nat : Silent(v, lo + 1, hi + 1) <=> Silent(v, lo, hi)'
      /\ \A hi \in Nat : hi > 1 => ~ Silent(v, 0, hi)
      /\ DOMAIN fromLean = 1 .. Len(fromLean) /\ Len(fromLean) \in Nat
      /\ \A n : PartOf(v, n)' = PartOf(v, n)
  BY PassedSilent
<1>2. ASSUME NEW n \in Nat \ {0}, Silent(v, 1, n + 1)
      PROVE  Silent(v, 0, n)'
  <2>1. Silent(v, 0 + 1, n + 1)
    BY <1>2
  <2>. QED
    BY <1>1, <2>1
<1>3. ASSUME NEW n \in Nat \ {0}, Half(v, n + 1)
      PROVE  Half(v, n)'
  <2>1. PICK j \in DOMAIN fromLean :
          /\ j < n + 1 /\ Counts(fromLean[j], v) /\ Silent(v, j, n + 1)
          /\ ~ fromLean[j].incremental /\ fromLean[j].part = PartOf(v, 1)
    BY <1>1, <1>3 DEF Half
  <2>2. CASE j = 1
    <3>1. Doc(v)'.diagnostics = <<PartOf(v, 1)>> /\ Silent(v, 0, n)'
      BY <1>2, <2>1, <2>2
    <3>. QED
      BY <1>1, <3>1 DEF Half
  <2>3. CASE j # 1
    <3>1. PICK i \in Nat \ {0} : j = i + 1 /\ i < n
      BY <1>1, <2>1, <2>3, Before
    <3>2. /\ i \in DOMAIN fromLean' /\ i < n /\ fromLean'[i] = fromLean[j]
          /\ Counts(fromLean[i], v)' /\ Silent(v, i, n)'
      BY <2>1, <3>1, PassedMessage
    <3>. QED
      BY <1>1, <2>1, <3>2 DEF Half
  <2>. QED
    BY <2>2, <2>3
<1>4. ASSUME Whole(v, k + 1)
      PROVE  Whole(v, k)'
  <2>1. PICK j \in DOMAIN fromLean :
          /\ j < k + 1 /\ Counts(fromLean[j], v) /\ Silent(v, j, k + 1)
          /\ fromLean[j].incremental /\ fromLean[j].part = PartOf(v, 2) /\ Half(v, j)
    BY <1>1, <1>4 DEF Whole
  <2>2. CASE j = 1
    <3>1. Doc(v).diagnostics = <<PartOf(v, 1)>>
      <4>1. \A i \in DOMAIN fromLean : ~ (i < 1)
        BY <1>1
      <4>. QED
        BY <2>1, <2>2, <4>1 DEF Half
    <3>2. PICK a, b : a = PartOf(v, 1) /\ b = PartOf(v, 2) /\ a = PartOf(v, 1)' /\ b = PartOf(v, 2)'
      <4>1. PartOf(v, 1)' = PartOf(v, 1) /\ PartOf(v, 2)' = PartOf(v, 2)
        BY DEF PartOf, Passed
      <4>. QED
        BY <4>1
    <3>3. Doc(v)'.diagnostics = <<a, b>>
      <4>1. Doc(v)'.diagnostics = Append(<<a>>, b)
        BY <2>1, <2>2, <3>1, <3>2
      <4>. QED
        BY <4>1, TwoParts
    <3>4. Silent(v, 0, k)'
      BY <1>2, <2>1, <2>2
    <3>5. Doc(v)'.diagnostics = <<PartOf(v, 1)', PartOf(v, 2)'>>
      BY <3>2, <3>3
    <3>. QED
      BY <3>4, <3>5 DEF Whole
  <2>3. CASE j # 1
    <3>1. PICK i \in Nat \ {0} : j = i + 1 /\ i < k
      BY <1>1, <2>1, <2>3, Before
    <3>2. /\ i \in DOMAIN fromLean' /\ i < k /\ fromLean'[i] = fromLean[j]
          /\ Counts(fromLean[i], v)' /\ Silent(v, i, k)'
      BY <2>1, <3>1, PassedMessage
    <3>3. Half(v, i)'
      BY <1>3, <2>1, <3>1
    <3>. QED
      BY <1>1, <2>1, <3>2, <3>3 DEF Whole
  <2>. QED
    BY <2>2, <2>3
<1>. QED
  BY <1>3, <1>4

LEMMA PassedKept ==
  ASSUME QueueTypes, NEW v, Passed(v),
         Doc(v)'.diagnostics =
           IF ~ Counts(fromLean[1], v) THEN Doc(v).diagnostics
           ELSE IF fromLean[1].incremental
           THEN Append(Doc(v).diagnostics, fromLean[1].part)
           ELSE <<fromLean[1].part>>
  PROVE  /\ SaidKept(v) => SaidKept(v)'
         /\ \A k \in Nat : Done(v, k + 1) => Done(v, k)'
         /\ Done(v, 0) => Done(v, 0)' /\ ~ Counts(fromLean[1], v)
<1>1. /\ \A lo, hi \in Nat : Silent(v, lo + 1, hi + 1) <=> Silent(v, lo, hi)'
      /\ ~ Counts(fromLean[1], v) => \A hi \in Nat : Silent(v, 0, hi) <=> Silent(v, 1, hi)
      /\ Counts(fromLean[1], v) => \A hi \in Nat : hi > 1 => ~ Silent(v, 0, hi)
      /\ Len(fromLean) \in Nat \ {0} /\ Len(fromLean') = Len(fromLean) - 1
      /\ Arrived(v)' <=> Arrived(v)
  BY PassedSilent
<1>. PICK f : f = Len(fromLean)
  OBVIOUS
<1>2. f \in Nat \ {0} /\ Len(fromLean') + 1 = f
  BY <1>1
<1>3. /\ Half(v, f + 1) => Half(v, f)'
      /\ Whole(v, f + 1) => Whole(v, f)'
  <2>1. CASE Counts(fromLean[1], v)
    BY <1>2, <2>1, PassedCounted
  <2>2. CASE ~ Counts(fromLean[1], v)
    BY <1>2, <2>2, PassedUncounted
  <2>. QED
    BY <2>1, <2>2
<1>4. /\ Half(v, f)' => Half(v, Len(fromLean) + 1)'
      /\ Whole(v, f)' => Whole(v, Len(fromLean) + 1)'
  BY <1>2 DEF Half, Whole
<1>5. SaidKept(v) => SaidKept(v)'
  BY <1>1, <1>3, <1>4 DEF SaidKept, Passed
<1>6. ASSUME NEW k \in Nat, Done(v, k + 1)
      PROVE  Done(v, k)'
  <2>1. Silent(v, k + 1, f + 1)
    BY <1>6 DEF Done
  <2>2. Silent(v, k, f)'
    BY <1>1, <1>2, <2>1
  <2>3. Silent(v, k, Len(fromLean) + 1)'
    BY <1>2, <2>2 DEF Silent
  <2>. QED
    BY <1>1, <1>6, <2>3 DEF Done, Passed
<1>7. ASSUME Done(v, 0)
      PROVE  Done(v, 0)' /\ ~ Counts(fromLean[1], v)
  <2>1. Silent(v, 0, f + 1) /\ f + 1 \in Nat /\ f + 1 > 1
    BY <1>2, <1>7 DEF Done
  <2>2. ~ Counts(fromLean[1], v)
    BY <1>1, <2>1
  <2>3. Silent(v, 1, f + 1)
    BY <1>1, <2>1, <2>2
  <2>4. Done(v, 0 + 1)
    BY <1>7, <2>3 DEF Done
  <2>. QED
    BY <1>6, <2>2, <2>4
<1>. QED
  BY <1>5, <1>6, <1>7

-----------------------------------------------------------------------------
(***************************************************************************)
(* Messages of the browser keep what is said.                              *)
(***************************************************************************)
\* A document that a message does not alter.
LEMMA DocumentForward ==
  ASSUME QueueTypes, QueueTypes', NEW v, NEW m, Sends(m), ~ Alters(m, v),
         Doc(v)' = Doc(v), lean' = lean, fromLean' = fromLean, DocumentKept(v)
  PROVE  DocumentKept(v)'
<1>1. SUFFICES ASSUME Doc(v) # None
               PROVE  DocumentKept(v)'
  BY DEF DocumentKept
<1>2. SameText(v) /\ SameWorker(v) /\ Quiet(v)
  BY <1>1 DEF SameText, SameWorker, Quiet
<1>3. QueueKept(v)' /\ (Arrived(v)' <=> Arrived(v))
  BY <1>1, <1>2, SentOther DEF DocumentKept
<1>4. SaidKept(v)' /\ (Done(v, 0) => Done(v, 0)')
  BY <1>1, <1>2, <1>3, QuietKept DEF DocumentKept
<1>5. ReadKept(v)'
  BY <1>1, <1>4 DEF DocumentKept, ReadKept
<1>. QED
  BY <1>3, <1>4, <1>5 DEF DocumentKept

\* A request about such a document.
LEMMA RequestForward ==
  ASSUME QueueTypes, QueueTypes', NEW i, NEW p, NEW m, Sends(m), ~ Alters(m, p.uri),
         m.kind \in {"wait", "imports"} => m.id # i,
         Doc(p.uri)' = Doc(p.uri), lean' = lean, fromLean' = fromLean, RequestKept(i, p)
  PROVE  RequestKept(i, p)'
<1>1. /\ Len(toLean) \in Nat /\ DOMAIN toLean = 1 .. Len(toLean)
      /\ DOMAIN toLean' = 1 .. (Len(toLean) + 1)
      /\ \A k \in 1 .. Len(toLean) : toLean'[k] = toLean[k]
      /\ toLean'[Len(toLean) + 1] = m
  BY Appending DEF QueueTypes, Sends
<1>2. \A k \in Nat : Latest(p.uri, k)' <=> Latest(p.uri, k)
  BY SentOther
<1>3. ASSUME Doc(p.uri) # None
      PROVE  /\ \A k \in Nat : Arrives(p.uri, k) => Arrives(p.uri, k)'
             /\ \A k \in Nat : Done(p.uri, k) => Done(p.uri, k)'
  <2>1. SameText(p.uri) /\ SameWorker(p.uri) /\ Quiet(p.uri)
    BY <1>3 DEF SameText, SameWorker, Quiet
  <2>2. /\ Arrived(p.uri)' <=> Arrived(p.uri)
        /\ \A k \in Nat : Arrives(p.uri, k) => Arrives(p.uri, k)'
    BY <2>1, SentOther
  <2>. QED
    BY <2>1, <2>2, QuietKept
<1>4. AskedKept(i, p)'
  <2>1. ASSUME NEW k \in DOMAIN toLean', toLean'[k].kind \in {"wait", "imports"},
               toLean'[k].id = i
        PROVE  Asked(p, toLean[k], k)'
    <3>1. k \in DOMAIN toLean /\ k \in Nat /\ toLean'[k] = toLean[k]
      BY <1>1, <2>1
    <3>2. Asked(p, toLean[k], k)
      BY <2>1, <3>1 DEF RequestKept, AskedKept
    <3>. QED
      BY <1>2, <1>3, <3>1, <3>2 DEF Asked
  <2>. QED
    BY <2>1 DEF AskedKept
<1>5. WaitsKept(i, p)'
  BY <1>2 DEF RequestKept, WaitsKept, Waits, Serves
<1>6. RepliedKept(i, p)'
  <2>1. ASSUME NEW k \in DOMAIN fromLean, Replied(p, fromLean[k], k)
        PROVE  Replied(p, fromLean[k], k)'
    <3>1. k \in Nat
      BY DEF QueueTypes
    <3>. QED
      BY <1>3, <2>1, <3>1 DEF Replied
  <2>. QED
    BY <2>1 DEF RequestKept, RepliedKept
<1>7. ImportsKept(p)'
  BY DEF RequestKept, ImportsKept
<1>. QED
  BY <1>4, <1>5, <1>6, <1>7 DEF RequestKept

LEMMA TypesParts ==
  ASSUME Types
  PROVE  /\ QueueTypes /\ LeanTypes /\ ObserverTypes /\ WorkspaceTypes /\ BranchTypes
         /\ toLean \in Seq(ToLean) /\ fromLean \in Seq(FromLean)
         /\ Len(toLean) \in Nat /\ DOMAIN toLean = 1 .. Len(toLean)
         /\ Len(fromLean) \in Nat /\ DOMAIN fromLean = 1 .. Len(fromLean)
         /\ \A u \in Docs : u \in Nodes /\ (Doc(u) # None => Doc(u) \in OpenDocument(u))
         /\ \A u \in Docs : Doc(u) # None =>
              /\ Doc(u).version \in Versions /\ Doc(u).version \in Nat
              /\ Doc(u).source \in Revisions
         /\ \A i \in Ids : observer.pending[i] # None =>
              /\ observer.pending[i] \in PendingRequest
              /\ observer.pending[i].uri \in Docs
              /\ observer.pending[i].version \in Versions
              /\ observer.pending[i].version \in Nat
              /\ observer.pending[i].kind \in {"diagnostics", "imports"}
         /\ \A u \in Docs : lean[u] # None => lean[u] \in WorkerState(u)
         /\ \A u \in Docs : lean[u] # None => lean[u].version \in Nat
<1>1. /\ QueueTypes /\ LeanTypes /\ ObserverTypes /\ WorkspaceTypes /\ BranchTypes
  BY DEF Types, NativeTypes
<1>2. /\ toLean \in Seq(ToLean) /\ fromLean \in Seq(FromLean)
      /\ Len(toLean) \in Nat /\ DOMAIN toLean = 1 .. Len(toLean)
      /\ Len(fromLean) \in Nat /\ DOMAIN fromLean = 1 .. Len(fromLean)
  BY <1>1 DEF QueueTypes
<1>3. \A u \in Docs : u \in Nodes /\ (Doc(u) # None => Doc(u) \in OpenDocument(u))
  BY <1>1, EditorAssumption DEF ObserverTypes, Doc
<1>4. \A u \in Docs : Doc(u) # None =>
        Doc(u).version \in Versions /\ Doc(u).version \in Nat /\ Doc(u).source \in Revisions
  BY <1>3 DEF OpenDocument, Versions
<1>5. \A i \in Ids : observer.pending[i] # None =>
              /\ observer.pending[i] \in PendingRequest
              /\ observer.pending[i].uri \in Docs
              /\ observer.pending[i].version \in Versions
              /\ observer.pending[i].version \in Nat
              /\ observer.pending[i].kind \in {"diagnostics", "imports"}
  <2>1. \A i \in Ids : observer.pending[i] # None => observer.pending[i] \in PendingRequest
    BY <1>1 DEF ObserverTypes, ObserverRecords
  <2>. QED
    BY <2>1 DEF PendingRequest, Versions
<1>6. \A u \in Docs : lean[u] # None => lean[u] \in WorkerState(u)
  BY <1>1 DEF LeanTypes
<1>7. \A u \in Docs : lean[u] # None => lean[u].version \in Nat
  BY <1>6, WorkerFields
<1>. QED
  BY <1>1, <1>2, <1>3, <1>4, <1>5, <1>6, <1>7

LEMMA TypesPartsNext == Types' => QueueTypes' /\ LeanTypes' /\ ObserverTypes'
BY DEF Types, NativeTypes

\* What is pending, named.
LEMMA PendingNext ==
  ASSUME NEW i, NEW p, p = observer'.pending[i], p # None => RequestKept(i, p)'
  PROVE  PendingKept(i)'
BY DEF PendingKept, RequestKept, AskedKept, WaitsKept, RepliedKept, ImportsKept, Asked, Waits,
       Replied

\* A document is opened or closed: requests about it are forgotten.
LEMMA DidOpenTalk ==
  ASSUME Types, Talk, NEW u \in Docs, NEW text \in SourcesOf[u], NEW version \in Versions,
         DidOpen(u, text, version)
  PROVE  Talk'
<1>. PICK m : m = [kind |-> "open", uri |-> u, text |-> text, version |-> version]
  OBVIOUS
<1>1. /\ Types' /\ observer'.pending = Purged(u)
      /\ Doc(u)' = Document(text, version, Environment(observer.prepared[u]))
      /\ \A v \in Docs \ {u} : Doc(v)' = Doc(v)
      /\ m \in ToLean
  BY DidOpenFacts
<1>2. /\ Sends(m) /\ lean' = lean /\ fromLean' = fromLean
      /\ QueueTypes /\ QueueTypes'
  BY <1>1, TypesParts, TypesPartsNext DEF DidOpen, Forward, Sends
<1>3. /\ m.kind = "open" /\ m.uri = u /\ m.text = text /\ m.version = version
      /\ m.kind \notin {"wait", "imports"}
  OBVIOUS
<1>4. \A v \in Docs \ {u} : DocumentKept(v)'
  BY <1>1, <1>2, <1>3, Kinds, DocumentForward DEF Talk
<1>5. DocumentKept(u)'
  <2>1. SUFFICES ASSUME Doc(u)' # None PROVE DocumentKept(u)'
    BY DEF DocumentKept
  <2>2. /\ Doc(u)'.version = m.version /\ Doc(u)'.source = m.text /\ Doc(u)'.complete = FALSE
        /\ Doc(u)'.imports = None
    BY <1>1, <1>3 DEF Document
  <2>3. QueueKept(u)' /\ ~ Serves(u)'
    BY <1>2, <1>3, <2>1, <2>2, SentOpen
  <2>. QED
    BY <2>2, <2>3 DEF DocumentKept, SaidKept, ReadKept, Arrived
<1>6. ASSUME NEW i \in Ids
      PROVE  PendingKept(i)'
  <2>. PICK p : p = observer'.pending[i]
    OBVIOUS
  <2>1. SUFFICES ASSUME p # None PROVE RequestKept(i, p)'
    BY PendingNext
  <2>2. p = observer.pending[i] /\ p.uri # u /\ p.uri \in Docs /\ RequestKept(i, p)
    BY <1>1, <2>1, TypesParts DEF Purged, Talk, PendingKept
  <2>. QED
    BY <1>1, <1>2, <1>3, <2>2, Kinds, RequestForward
<1>. QED
  BY <1>4, <1>5, <1>6 DEF Talk

LEMMA DidCloseTalk ==
  ASSUME Types, Talk, NEW u \in Docs, DidClose(u)
  PROVE  Talk'
<1>. PICK m : m = [kind |-> "close", uri |-> u]
  OBVIOUS
<1>1. /\ Types' /\ observer'.pending = Purged(u) /\ Doc(u)' = None
      /\ \A v \in Docs \ {u} : Doc(v)' = Doc(v)
      /\ m \in ToLean
  BY DidCloseFacts
<1>2. /\ Sends(m) /\ lean' = lean /\ fromLean' = fromLean
      /\ QueueTypes /\ QueueTypes'
  BY <1>1, TypesParts, TypesPartsNext DEF DidClose, Forward, Sends
<1>3. m.kind = "close" /\ m.uri = u /\ m.kind \notin {"wait", "imports"}
  OBVIOUS
<1>4. \A v \in Docs \ {u} : DocumentKept(v)'
  BY <1>1, <1>2, <1>3, Kinds, DocumentForward DEF Talk
<1>5. DocumentKept(u)'
  BY <1>1 DEF DocumentKept
<1>6. ASSUME NEW i \in Ids
      PROVE  PendingKept(i)'
  <2>. PICK p : p = observer'.pending[i]
    OBVIOUS
  <2>1. SUFFICES ASSUME p # None PROVE RequestKept(i, p)'
    BY PendingNext
  <2>2. p = observer.pending[i] /\ p.uri # u /\ p.uri \in Docs /\ RequestKept(i, p)
    BY <1>1, <2>1, TypesParts DEF Purged, Talk, PendingKept
  <2>. QED
    BY <1>1, <1>2, <1>3, <2>2, Kinds, RequestForward
<1>. QED
  BY <1>4, <1>5, <1>6 DEF Talk

\* A change has a version that nobody has seen or asked about.
LEMMA DidChangeTalk ==
  ASSUME Types, Talk, NEW u \in Docs, NEW text \in SourcesOf[u], NEW version \in Versions,
         DidChange(u, text, version)
  PROVE  Talk'
<1>. PICK m : m = [kind |-> "change", uri |-> u, text |-> text, version |-> version]
  OBVIOUS
<1>1. /\ Types' /\ observer'.pending = observer.pending
      /\ Doc(u)' = Document(text, version, Doc(u).environment)
      /\ \A v \in Docs \ {u} : Doc(v)' = Doc(v)
      /\ m \in ToLean
  BY DidChangeFacts
<1>2. /\ Sends(m) /\ lean' = lean /\ fromLean' = fromLean
      /\ QueueTypes /\ QueueTypes'
  BY <1>1, TypesParts, TypesPartsNext DEF DidChange, Forward, Sends
<1>3. /\ m.kind = "change" /\ m.uri = u /\ m.text = text /\ m.version = version
      /\ m.kind \notin {"wait", "imports"} /\ ~ Starts(m, u)
  BY DEF Starts
<1>4. \A v \in Docs \ {u} : DocumentKept(v)'
  BY <1>1, <1>2, <1>3, Kinds, DocumentForward DEF Talk
<1>5. /\ Doc(u)'.version = version /\ Doc(u)'.source = text /\ Doc(u)'.complete = FALSE
      /\ Doc(u)'.imports = None
  BY <1>1 DEF Document
<1>6. /\ Doc(u) # None /\ Doc(u).version \in Nat /\ version \in Nat
      /\ Doc(u).version < version
      /\ lean[u] # None => lean[u].version \in Nat
  BY TypesParts DEF DidChange, Doc, Versions
<1>7. DocumentKept(u)'
  <2>1. SUFFICES ASSUME Doc(u)' # None PROVE DocumentKept(u)'
    BY DEF DocumentKept
  <2>2. QueueKept(u)
    BY <1>6 DEF Talk, DocumentKept
  <2>3. QueueKept(u)' /\ ~ Arrived(u)'
    BY <1>2, <1>3, <1>5, <1>6, <2>1, <2>2, SentChange
  <2>. QED
    BY <1>5, <2>3 DEF DocumentKept, SaidKept, ReadKept
<1>8. ASSUME NEW i \in Ids
      PROVE  PendingKept(i)'
  <2>. PICK p : p = observer'.pending[i]
    OBVIOUS
  <2>1. SUFFICES ASSUME p # None PROVE RequestKept(i, p)'
    BY PendingNext
  <2>2. /\ p = observer.pending[i] /\ p.uri \in Docs /\ RequestKept(i, p)
        /\ p.version \in Nat /\ p.kind \in {"diagnostics", "imports"}
    BY <1>1, <2>1, TypesParts DEF Talk, PendingKept
  <2>3. CASE p.uri # u
    BY <1>1, <1>2, <1>3, <2>2, <2>3, Kinds, RequestForward
  <2>4. CASE p.uri = u
    <3>1. p.kind = "imports" => p.version < version
      BY <1>6, <2>2, <2>4 DEF RequestKept, ImportsKept
    <3>2. \A k \in Nat : Latest(u, k)' <=> Latest(u, k)
      BY <1>2, <1>3, SentLatest
    <3>3. AskedKept(i, p)'
      <4>1. ASSUME NEW k \in DOMAIN toLean', toLean'[k].kind \in {"wait", "imports"},
                   toLean'[k].id = i
            PROVE  Asked(p, toLean[k], k)'
        <5>1. k \in DOMAIN toLean /\ k \in Nat /\ toLean'[k] = toLean[k]
          BY <1>2, <1>3, <4>1, Appending DEF QueueTypes, Sends
        <5>2. Asked(p, toLean[k], k)
          BY <2>2, <4>1, <5>1 DEF RequestKept, AskedKept
        <5>. QED
          BY <1>5, <1>6, <2>2, <2>4, <3>1, <3>2, <5>1, <5>2 DEF Asked
      <4>. QED
        BY <4>1 DEF AskedKept
    <3>4. WaitsKept(i, p)'
      BY <1>2, <2>2, <2>4, <3>2 DEF RequestKept, WaitsKept, Waits, Serves
    <3>5. RepliedKept(i, p)'
      <4>1. ASSUME NEW k \in DOMAIN fromLean, Replied(p, fromLean[k], k)
            PROVE  Replied(p, fromLean[k], k)'
        <5>1. CASE fromLean[k].kind = "done"
          <6>1. p.version <= Doc(u).version
            BY <1>6, <2>4, <4>1, <5>1 DEF Replied
          <6>2. p.version < version
            BY <1>6, <2>2, <6>1
          <6>. QED
            BY <1>2, <1>5, <1>6, <2>2, <2>4, <4>1, <5>1, <6>2 DEF Replied
        <5>2. CASE fromLean[k].kind # "done"
          BY <1>2, <1>5, <1>6, <2>2, <2>4, <3>1, <4>1, <5>2 DEF Replied
        <5>. QED
          BY <5>1, <5>2
      <4>. QED
        BY <1>2, <2>2, <4>1 DEF RequestKept, RepliedKept
    <3>6. ImportsKept(p)'
      BY <1>5, <1>6, <2>2, <2>4, <3>1 DEF ImportsKept
    <3>. QED
      BY <3>3, <3>4, <3>5, <3>6 DEF RequestKept
  <2>. QED
    BY <2>3, <2>4
<1>. QED
  BY <1>4, <1>7, <1>8 DEF Talk

\* Nothing that is pending or on its way has the identifier of the request.
LEMMA WaitTalk ==
  ASSUME Types, Talk, NEW i \in Ids, NEW u \in Docs, NEW version \in Versions,
         WaitForDiagnostics(i, u, version), ~ InUse(i)
  PROVE  Talk'
<1>. PICK m : m = [kind |-> "wait", id |-> i, uri |-> u, version |-> version]
  OBVIOUS
<1>1. /\ Types' /\ observer'.documents = observer.documents
      /\ observer'.pending[i] = [kind |-> "diagnostics", uri |-> u, version |-> version]
      /\ \A j \in Ids \ {i} : observer'.pending[j] = observer.pending[j]
      /\ m \in ToLean
  BY WaitFacts
<1>2. /\ Sends(m) /\ lean' = lean /\ fromLean' = fromLean
      /\ QueueTypes /\ QueueTypes' /\ \A v : Doc(v)' = Doc(v)
  BY <1>1, TypesParts, TypesPartsNext DEF WaitForDiagnostics, Forward, Sends, Doc
<1>3. /\ m.kind = "wait" /\ m.uri = u /\ m.version = version /\ m.id = i
      /\ \A v : ~ Alters(m, v)
  BY DEF Alters
<1>4. \A v \in Docs : DocumentKept(v)'
  BY <1>2, <1>3, DocumentForward DEF Talk
<1>5. ASSUME NEW j \in Ids \ {i}
      PROVE  PendingKept(j)'
  <2>. PICK p : p = observer'.pending[j]
    OBVIOUS
  <2>1. SUFFICES ASSUME p # None PROVE RequestKept(j, p)'
    BY PendingNext
  <2>2. RequestKept(j, p)
    BY <1>1, <2>1 DEF Talk, PendingKept
  <2>. QED
    BY <1>2, <1>3, <2>2, RequestForward
<1>6. PendingKept(i)'
  <2>. PICK p : p = observer'.pending[i]
    OBVIOUS
  <2>1. SUFFICES ASSUME p # None PROVE RequestKept(i, p)'
    BY PendingNext
  <2>2. p.kind = "diagnostics" /\ p.uri = u /\ p.version = version
    BY <1>1
  <2>3. AskedKept(i, p)'
    <3>1. ASSUME NEW k \in DOMAIN toLean', toLean'[k].kind \in {"wait", "imports"},
                 toLean'[k].id = i
          PROVE  Asked(p, toLean[k], k)'
      <4>1. /\ Len(toLean) \in Nat /\ DOMAIN toLean = 1 .. Len(toLean)
            /\ DOMAIN toLean' = 1 .. (Len(toLean) + 1)
            /\ \A n \in 1 .. Len(toLean) : toLean'[n] = toLean[n]
            /\ toLean'[Len(toLean) + 1] = m
        BY <1>2, Appending DEF QueueTypes, Sends
      <4>2. k = Len(toLean) + 1
        BY <3>1, <4>1 DEF InUse
      <4>3. toLean'[k] = m /\ \A j \in DOMAIN toLean' : ~ (j > k)
        BY <4>1, <4>2
      <4>. QED
        BY <1>3, <2>2, <4>3 DEF Asked, Latest
    <3>. QED
      BY <3>1 DEF AskedKept
  <2>4. WaitsKept(i, p)'
    BY <1>2 DEF InUse, WaitsKept
  <2>5. RepliedKept(i, p)'
    <3>1. ASSUME NEW k \in DOMAIN fromLean, fromLean[k].kind # "diagnostics"
          PROVE  fromLean[k].id # i
      <4>1. fromLean[k] \in FromLean
        BY TypesParts
      <4>2. fromLean[k].kind \in {"done", "names", "error"}
        BY <3>1, <4>1, FromLeanFields
      <4>. QED
        BY <4>2 DEF InUse
    <3>. QED
      BY <1>2, <3>1 DEF RepliedKept
  <2>6. ImportsKept(p)'
    BY <2>2 DEF ImportsKept
  <2>. QED
    BY <2>3, <2>4, <2>5, <2>6 DEF RequestKept
<1>. QED
  BY <1>4, <1>5, <1>6 DEF Talk

LEMMA ImportsTalk ==
  ASSUME Types, Talk, NEW i \in Ids, NEW u \in Docs, ModuleImports(i, u),
         ~ InUse(i)
  PROVE  Talk'
<1>. PICK m : m = [kind |-> "imports", id |-> i, uri |-> u]
  OBVIOUS
<1>1. /\ Types' /\ observer'.documents = observer.documents
      /\ m \in ToLean
      /\ \A j \in Ids \ {i} : observer'.pending[j] = observer.pending[j]
      /\ Doc(u) = None => observer'.pending[i] = observer.pending[i]
      /\ Doc(u) # None =>
           /\ Doc(u) \in OpenDocument(u)
           /\ observer'.pending[i] =
                [kind |-> "imports", uri |-> u, version |-> Doc(u).version]
  BY ImportsFacts
<1>2. /\ Sends(m) /\ lean' = lean /\ fromLean' = fromLean
      /\ QueueTypes /\ QueueTypes' /\ \A v : Doc(v)' = Doc(v)
  BY <1>1, TypesParts, TypesPartsNext DEF ModuleImports, Forward, Sends, Doc
<1>3. /\ m.kind = "imports" /\ m.uri = u /\ m.id = i
      /\ \A v : ~ Alters(m, v)
  BY DEF Alters
<1>4. \A v \in Docs : DocumentKept(v)'
  BY <1>2, <1>3, DocumentForward DEF Talk
<1>5. ASSUME NEW j \in Ids \ {i}
      PROVE  PendingKept(j)'
  <2>. PICK p : p = observer'.pending[j]
    OBVIOUS
  <2>1. SUFFICES ASSUME p # None PROVE RequestKept(j, p)'
    BY PendingNext
  <2>2. RequestKept(j, p)
    BY <1>1, <2>1 DEF Talk, PendingKept
  <2>. QED
    BY <1>2, <1>3, <2>2, RequestForward
<1>6. PendingKept(i)'
  <2>. PICK p : p = observer'.pending[i]
    OBVIOUS
  <2>1. SUFFICES ASSUME p # None PROVE RequestKept(i, p)'
    BY PendingNext
  <2>2. p.kind = "imports" /\ p.uri = u /\ p.version = Doc(u).version /\ Doc(u) # None
        /\ p.version \in Nat
    <3>1. Doc(u) # None
      BY <1>1, <2>1 DEF InUse
    <3>. QED
      BY <1>1, <3>1, TypesParts DEF Doc
  <2>3. AskedKept(i, p)'
    <3>1. ASSUME NEW k \in DOMAIN toLean', toLean'[k].kind \in {"wait", "imports"},
                 toLean'[k].id = i
          PROVE  Asked(p, toLean[k], k)'
      <4>1. /\ Len(toLean) \in Nat /\ DOMAIN toLean = 1 .. Len(toLean)
            /\ DOMAIN toLean' = 1 .. (Len(toLean) + 1)
            /\ \A n \in 1 .. Len(toLean) : toLean'[n] = toLean[n]
            /\ toLean'[Len(toLean) + 1] = m
        BY <1>2, Appending DEF QueueTypes, Sends
      <4>2. k = Len(toLean) + 1
        BY <3>1, <4>1 DEF InUse
      <4>3. /\ toLean'[k] = m /\ k \in Nat /\ \A j \in DOMAIN toLean' : ~ (j > k)
        BY <4>1, <4>2
      <4>4. Arrives(u, k)
        BY <2>2, <4>2 DEF Talk, DocumentKept, QueueKept
      <4>5. SameText(u) /\ SameWorker(u)
        BY <1>2, <2>2 DEF SameText, SameWorker
      <4>6. Arrives(u, k)'
        BY <1>2, <1>3, <4>3, <4>4, <4>5, SentOther
      <4>. QED
        BY <1>3, <2>2, <4>3, <4>6 DEF Asked, Latest
    <3>. QED
      BY <3>1 DEF AskedKept
  <2>4. WaitsKept(i, p)'
    BY <1>2 DEF InUse, WaitsKept
  <2>5. RepliedKept(i, p)'
    <3>1. ASSUME NEW k \in DOMAIN fromLean, fromLean[k].kind # "diagnostics"
          PROVE  fromLean[k].id # i
      <4>1. fromLean[k] \in FromLean
        BY TypesParts
      <4>2. fromLean[k].kind \in {"done", "names", "error"}
        BY <3>1, <4>1, FromLeanFields
      <4>. QED
        BY <4>2 DEF InUse
    <3>. QED
      BY <1>2, <3>1 DEF RepliedKept
  <2>6. ImportsKept(p)'
    BY <1>2, <2>2 DEF ImportsKept
  <2>. QED
    BY <2>3, <2>4, <2>5, <2>6 DEF RequestKept
<1>. QED
  BY <1>4, <1>5, <1>6 DEF Talk

-----------------------------------------------------------------------------
(***************************************************************************)
(* The native server takes a message and may answer it at once.            *)
(***************************************************************************)
Replies(r) ==
  r \in FromLean /\ r.kind # "diagnostics" /\ fromLean' = Append(fromLean, r)

Answered == fromLean' = fromLean \/ \E r : Replies(r)

\* A document whose worker the message does not alter.
LEMMA DocumentTaken ==
  ASSUME QueueTypes, QueueTypes', NEW m, Taken(m), NEW v, ~ Alters(m, v), Answered,
         SameWorker(v), lean'[v].shown = lean[v].shown, lean'[v].env = lean[v].env,
         DocumentKept(v)
  PROVE  /\ DocumentKept(v)'
         /\ Doc(v) # None =>
              /\ \A k \in Nat : Arrives(v, k + 1) => Arrives(v, k)'
              /\ \A k \in Nat : Done(v, k) => Done(v, k)'
<1>1. Doc(v)' = Doc(v) /\ Shifted /\ m = toLean[1]
  BY DEF Taken, Shifted, Doc
<1>2. SUFFICES ASSUME Doc(v) # None
               PROVE  /\ DocumentKept(v)'
                      /\ \A k \in Nat : Arrives(v, k + 1) => Arrives(v, k)'
                      /\ \A k \in Nat : Done(v, k) => Done(v, k)'
  BY <1>1 DEF DocumentKept
<1>3. SameText(v)
  BY <1>1, <1>2 DEF SameText
<1>4. Quiet(v)
  <2>1. \A r : Replies(r) => r \in FromLean /\ fromLean' = Append(fromLean, r) /\ ~ Counts(r, v)
    BY DEF Replies, Counts
  <2>. QED
    BY <1>1, <2>1 DEF Quiet, Answered, SameWorker
<1>5. /\ QueueKept(v)' /\ (Arrived(v)' <=> Arrived(v))
      /\ \A k \in Nat : Arrives(v, k + 1) => Arrives(v, k)'
  <2>1. QueueKept(v)
    BY <1>2 DEF DocumentKept
  <2>. QED
    BY <1>1, <1>3, <2>1, PoppedOther
<1>6. SaidKept(v)' /\ \A k \in Nat : Done(v, k) => Done(v, k)'
  BY <1>2, <1>4, <1>5, QuietKept DEF DocumentKept
<1>7. ReadKept(v)'
  BY <1>1, <1>2, <1>6 DEF DocumentKept, ReadKept
<1>. QED
  BY <1>5, <1>6, <1>7 DEF DocumentKept

\* The document that the message is about.
LEMMA DocumentAltered ==
  ASSUME QueueTypes, QueueTypes', NEW m, Taken(m), NEW v, Alters(m, v),
         Sets(m, v) => /\ lean'[v] # None /\ lean'[v].version = m.version
                       /\ lean'[v].text = m.text,
         lean'[v] # None => lean'[v].shown = 0,
         DocumentKept(v)
  PROVE  /\ DocumentKept(v)'
         /\ Doc(v) # None =>
              /\ \A k \in Nat : Arrives(v, k + 1) => Arrives(v, k)'
              /\ \A k \in Nat : Done(v, k) => Done(v, k)'
<1>1. Doc(v)' = Doc(v) /\ Shifted /\ m = toLean[1]
  BY DEF Taken, Shifted, Doc
<1>2. SUFFICES ASSUME Doc(v) # None
               PROVE  /\ DocumentKept(v)'
                      /\ \A k \in Nat : Arrives(v, k + 1) => Arrives(v, k)'
                      /\ \A k \in Nat : Done(v, k) => Done(v, k)'
  BY <1>1 DEF DocumentKept
<1>3. SameText(v)
  BY <1>1, <1>2 DEF SameText
<1>4. /\ QueueKept(v)' /\ ~ Arrived(v)
      /\ \A k \in Nat : Arrives(v, k + 1) => Arrives(v, k)'
  <2>1. QueueKept(v)
    BY <1>2 DEF DocumentKept
  <2>. QED
    BY <1>1, <1>3, <2>1, PoppedAlters
<1>5. \A k : ~ Done(v, k)
  BY <1>4 DEF Done
<1>6. SaidKept(v)'
  BY DEF SaidKept, Arrived
<1>7. ReadKept(v)'
  BY <1>1, <1>2, <1>5 DEF DocumentKept, ReadKept
<1>. QED
  BY <1>4, <1>5, <1>6, <1>7 DEF DocumentKept

\* A request, when the waits and an answer given at once are right.
LEMMA RequestTaken ==
  ASSUME QueueTypes, QueueTypes', NEW m, Taken(m), NEW i, NEW p, RequestKept(i, p),
         Doc(p.uri) # None =>
           /\ \A k \in Nat : Arrives(p.uri, k + 1) => Arrives(p.uri, k)'
           /\ \A k \in Nat : Done(p.uri, k) => Done(p.uri, k)',
         \A u \in Docs : \A w : lean'[u] # None /\ w \in lean'[u].waits /\ w.id = i =>
           \/ lean[u] # None /\ w \in lean[u].waits
           \/ m.kind = "wait" /\ m.id = i /\ u = m.uri /\ w.version = m.version,
         \/ fromLean' = fromLean
         \/ \E r : Replies(r) /\ (r.id = i => \A k : Replied(p, r, k)')
  PROVE  RequestKept(i, p)'
<1>1. Doc(p.uri)' = Doc(p.uri) /\ Shifted /\ m = toLean[1]
  BY DEF Taken, Shifted, Doc
<1>2. /\ Len(toLean) \in Nat \ {0} /\ DOMAIN toLean = 1 .. Len(toLean)
      /\ DOMAIN toLean' = 1 .. (Len(toLean) - 1)
      /\ \A n \in 1 .. (Len(toLean) - 1) : toLean'[n] = toLean[n + 1]
  BY <1>1, Popping DEF QueueTypes, Shifted
<1>3. AskedKept(i, p)'
  <2>1. ASSUME NEW k \in DOMAIN toLean', toLean'[k].kind \in {"wait", "imports"},
               toLean'[k].id = i
        PROVE  Asked(p, toLean[k], k)'
    <3>1. k \in Nat /\ k + 1 \in DOMAIN toLean /\ toLean'[k] = toLean[k + 1]
      BY <1>2
    <3>2. PICK x : x = toLean[k + 1]
      OBVIOUS
    <3>3. Asked(p, x, k + 1)
      BY <2>1, <3>1, <3>2 DEF RequestKept, AskedKept
    <3>4. Latest(p.uri, k)'
      BY <1>1, <3>1, <3>3, PoppedLatest DEF Asked
    <3>5. Asked(p, x, k)'
      BY <1>1, <3>1, <3>3, <3>4 DEF Asked
    <3>. QED
      BY <3>1, <3>2, <3>5 DEF Asked
  <2>. QED
    BY <2>1 DEF AskedKept
<1>4. WaitsKept(i, p)'
  <2>1. ASSUME NEW u \in Docs, lean'[u] # None, NEW w \in lean'[u].waits, w.id = i
        PROVE  Waits(p, u, w)'
    <3>1. CASE lean[u] # None /\ w \in lean[u].waits
      <4>1. Waits(p, u, w)
        BY <2>1, <3>1 DEF RequestKept, WaitsKept
      <4>2. Serves(u) => Serves(u)'
        BY <1>1, PoppedLatest DEF Serves
      <4>. QED
        BY <4>1, <4>2 DEF Waits
    <3>2. CASE m.kind = "wait" /\ m.id = i /\ u = m.uri /\ w.version = m.version
      <4>1. Asked(p, m, 1)
        BY <1>1, <1>2, <3>2 DEF RequestKept, AskedKept
      <4>2. Serves(u)' <=> Latest(u, 1)
        BY <1>1, PoppedLatest
      <4>. QED
        BY <3>2, <4>1, <4>2 DEF Asked, Waits
    <3>. QED
      BY <2>1, <3>1, <3>2
  <2>. QED
    BY <2>1 DEF WaitsKept
<1>5. ASSUME NEW x, NEW k \in Nat, Replied(p, x, k)
      PROVE  Replied(p, x, k)'
  BY <1>1, <1>5 DEF Replied
<1>6. RepliedKept(i, p)'
  <2>0. Len(fromLean) \in Nat /\ DOMAIN fromLean = 1 .. Len(fromLean)
    BY DEF QueueTypes
  <2>1. CASE fromLean' = fromLean
    <3>1. ASSUME NEW k \in DOMAIN fromLean, Replied(p, fromLean[k], k)
          PROVE  Replied(p, fromLean[k], k)'
      <4>1. PICK x : x = fromLean[k]
        OBVIOUS
      <4>2. Replied(p, x, k)'
        BY <1>5, <2>0, <3>1, <4>1
      <4>. QED
        BY <2>1, <4>1, <4>2 DEF Replied
    <3>. QED
      BY <2>1, <3>1 DEF RequestKept, RepliedKept
  <2>2. ASSUME NEW r, Replies(r), r.id = i => \A k : Replied(p, r, k)'
        PROVE  RepliedKept(i, p)'
    <3>1. /\ DOMAIN fromLean' = 1 .. (Len(fromLean) + 1)
          /\ \A n \in 1 .. Len(fromLean) : fromLean'[n] = fromLean[n]
          /\ fromLean'[Len(fromLean) + 1] = r
      BY <2>2, Appending DEF QueueTypes, Replies
    <3>2. ASSUME NEW k \in DOMAIN fromLean', fromLean'[k].kind # "diagnostics",
                 fromLean'[k].id = i
          PROVE  Replied(p, fromLean[k], k)'
      <4>. PICK x : x = fromLean'[k]
        OBVIOUS
      <4>1. CASE k # Len(fromLean) + 1
        <5>1. k \in DOMAIN fromLean /\ k \in Nat /\ x = fromLean[k]
          BY <2>0, <3>1, <4>1
        <5>2. Replied(p, x, k)'
          BY <1>5, <3>2, <5>1 DEF RequestKept, RepliedKept
        <5>. QED
          BY <5>2 DEF Replied
      <4>2. CASE k = Len(fromLean) + 1
        <5>1. x = r /\ r.id = i
          BY <3>1, <3>2, <4>2
        <5>2. Replied(p, x, k)'
          BY <2>2, <5>1 DEF Replied
        <5>. QED
          BY <5>2 DEF Replied
      <4>. QED
        BY <4>1, <4>2
    <3>. QED
      BY <3>2 DEF RepliedKept
  <2>. QED
    BY <2>1, <2>2
<1>7. ImportsKept(p)'
  BY <1>1 DEF RequestKept, ImportsKept
<1>. QED
  BY <1>3, <1>4, <1>6, <1>7 DEF RequestKept

\* What it leaves of the worker.
LEMMA TakenWorker ==
  ASSUME NEW m, Taken(m)
  PROVE  /\ TakenOpen(m) =>
              /\ lean'[m.uri] # None /\ lean'[m.uri].version = m.version
              /\ lean'[m.uri].text = m.text /\ lean'[m.uri].shown = 0
              /\ lean'[m.uri].env = None /\ lean'[m.uri].waits = {}
         /\ TakenChange(m) =>
              /\ lean'[m.uri] # None /\ lean'[m.uri].version = m.version
              /\ lean'[m.uri].text = m.text /\ lean'[m.uri].shown = 0
              /\ lean'[m.uri].env \in {lean[m.uri].env, None}
              /\ lean'[m.uri].waits = lean[m.uri].waits
         /\ lean[m.uri] \in WorkerState(m.uri) /\ TakenWait(m) =>
              /\ lean'[m.uri] # None /\ lean'[m.uri].version = lean[m.uri].version
              /\ lean'[m.uri].text = lean[m.uri].text
              /\ lean'[m.uri].shown = lean[m.uri].shown
              /\ lean'[m.uri].env = lean[m.uri].env
              /\ lean'[m.uri].waits
                   = lean[m.uri].waits \cup {[id |-> m.id, version |-> m.version]}
<1>. PICK w : w = lean'[m.uri]
  OBVIOUS
<1>0. m.uri \in Docs
  BY DEF Taken
<1>1. ASSUME w \in WorkerState(m.uri)
      PROVE  w # None
  BY <1>0, <1>1, WorkerFields
<1>2. ASSUME TakenOpen(m)
      PROVE  /\ w # None /\ w.version = m.version /\ w.text = m.text /\ w.shown = 0
             /\ w.env = None /\ w.waits = {}
  BY <1>1, <1>2 DEF TakenOpen, Worker
<1>3. ASSUME TakenChange(m)
      PROVE  /\ w # None /\ w.version = m.version /\ w.text = m.text /\ w.shown = 0
             /\ w.env \in {lean[m.uri].env, None} /\ w.waits = lean[m.uri].waits
  BY <1>1, <1>3 DEF TakenChange, Worker
<1>4. ASSUME lean[m.uri] \in WorkerState(m.uri), TakenWait(m)
      PROVE  /\ w # None /\ w.version = lean[m.uri].version /\ w.text = lean[m.uri].text
             /\ w.shown = lean[m.uri].shown /\ w.env = lean[m.uri].env
             /\ w.waits = lean[m.uri].waits \cup {[id |-> m.id, version |-> m.version]}
  <2>1. PICK old \in WorkerState(m.uri) : old = lean[m.uri]
    BY <1>4
  <2>2. w = [old EXCEPT !.waits = @ \cup {[id |-> m.id, version |-> m.version]}]
    BY <1>4, <2>1 DEF TakenWait
  <2>3. w # None
    BY <1>1, <1>4 DEF TakenWait
  <2>. QED
    BY <2>1, <2>2, <2>3 DEF WorkerState
<1>. QED
  BY <1>2, <1>3, <1>4

LEMMA ReceiveTalk ==
  ASSUME Types, Talk, Receive
  PROVE  Talk'
<1>. PICK m : m = toLean[1]
  OBVIOUS
<1>1. /\ Types' /\ Taken(m)
      /\ \/ TakenOpen(m) \/ TakenChange(m) \/ TakenClose(m)
         \/ TakenWait(m) \/ TakenImports(m) \/ TakenError(m)
  BY ReceiveFacts
<1>. PICK u : u = m.uri
  OBVIOUS
<1>2. /\ u \in Docs /\ QueueTypes /\ QueueTypes' /\ UNCHANGED observer
      /\ \A v \in Docs \ {u} : lean'[v] = lean[v]
      /\ 1 \in DOMAIN toLean /\ toLean # <<>>
      /\ lean[u] # None => lean[u] \in WorkerState(u)
  BY <1>1, TypesParts, TypesPartsNext, Popping DEF Taken, QueueTypes
<1>3. \/ fromLean' = fromLean
      \/ \E r : Replies(r) /\ r.kind # "done" /\ r.id = m.id
                  /\ (r.kind = "names" => /\ m.kind = "imports" /\ lean[u] # None
                                          /\ r.text = lean[u].text)
  <2>1. CASE TakenImports(m)
    BY <2>1 DEF TakenImports, Replies
  <2>2. CASE TakenError(m)
    BY <2>2 DEF TakenError, Replies
  <2>. QED
    BY <1>1, <2>1, <2>2 DEF TakenOpen, TakenChange, TakenClose, TakenWait
<1>4. Answered
  BY <1>3 DEF Answered
<1>5. ASSUME NEW v \in Docs
      PROVE  /\ DocumentKept(v)'
             /\ Doc(v) # None =>
                  /\ \A k \in Nat : Arrives(v, k + 1) => Arrives(v, k)'
                  /\ \A k \in Nat : Done(v, k) => Done(v, k)'
  <2>1. DocumentKept(v)
    BY DEF Talk
  <2>2. CASE v # u
    <3>1. lean'[v] = lean[v] /\ ~ Alters(m, v)
      BY <1>2, <2>2, Kinds
    <3>. QED
      BY <1>1, <1>2, <1>4, <2>1, <3>1, DocumentTaken DEF SameWorker
  <2>3. CASE v = u /\ (TakenWait(m) \/ TakenImports(m) \/ TakenError(m))
    <3>1. ~ Alters(m, v)
      BY <2>3, Kinds DEF TakenWait, TakenImports, TakenError
    <3>2. SameWorker(v) /\ lean'[v].shown = lean[v].shown /\ lean'[v].env = lean[v].env
      <4>1. CASE TakenWait(m)
        <5>1. /\ lean[u] # None /\ lean'[u] # None
              /\ lean'[u].text = lean[u].text /\ lean'[u].version = lean[u].version
              /\ lean'[u].shown = lean[u].shown /\ lean'[u].env = lean[u].env
          BY <1>1, <1>2, <4>1, TakenWorker DEF TakenWait
        <5>. QED
          BY <2>3, <5>1 DEF SameWorker
      <4>2. CASE TakenImports(m) \/ TakenError(m)
        BY <4>2 DEF TakenImports, TakenError, SameWorker
      <4>. QED
        BY <2>3, <4>1, <4>2
    <3>. QED
      BY <1>1, <1>2, <1>4, <2>1, <3>1, <3>2, DocumentTaken
  <2>4. CASE v = u /\ (TakenOpen(m) \/ TakenChange(m) \/ TakenClose(m))
    <3>1. Alters(m, v)
      BY <2>4 DEF TakenOpen, TakenChange, TakenClose, Alters
    <3>2. /\ Sets(m, v) => /\ lean'[v] # None /\ lean'[v].version = m.version
                           /\ lean'[v].text = m.text
          /\ lean'[v] # None => lean'[v].shown = 0
      <4>1. CASE TakenOpen(m)
        BY <1>1, <2>4, <4>1, TakenWorker DEF TakenOpen
      <4>2. CASE TakenChange(m)
        BY <1>1, <2>4, <4>2, TakenWorker
      <4>3. CASE TakenClose(m)
        BY <2>4, <4>3 DEF TakenClose, Sets
      <4>. QED
        BY <2>4, <4>1, <4>2, <4>3
    <3>. QED
      BY <1>1, <1>2, <2>1, <3>1, <3>2, DocumentAltered
  <2>. QED
    BY <1>1, <2>2, <2>3, <2>4
<1>6. ASSUME NEW i \in Ids
      PROVE  PendingKept(i)'
  <2>. PICK p : p = observer'.pending[i]
    OBVIOUS
  <2>1. SUFFICES ASSUME p # None PROVE RequestKept(i, p)'
    BY PendingNext
  <2>2. p = observer.pending[i] /\ p.uri \in Docs /\ RequestKept(i, p)
    BY <1>2, <2>1, TypesParts DEF Talk, PendingKept
  <2>3. ASSUME NEW v \in Docs, NEW w, lean'[v] # None, w \in lean'[v].waits, w.id = i
        PROVE  \/ lean[v] # None /\ w \in lean[v].waits
               \/ m.kind = "wait" /\ m.id = i /\ v = m.uri /\ w.version = m.version
    <3>1. CASE v # u
      BY <1>2, <2>3, <3>1
    <3>2. CASE v = u
      <4>1. CASE TakenOpen(m) \/ TakenClose(m)
        BY <1>1, <2>3, <3>2, <4>1, TakenWorker DEF TakenClose
      <4>2. CASE TakenChange(m)
        BY <1>1, <2>3, <3>2, <4>2, TakenWorker DEF TakenChange
      <4>3. CASE TakenWait(m)
        <5>1. lean[u] # None
              /\ lean'[u].waits = lean[u].waits \cup {[id |-> m.id, version |-> m.version]}
          BY <1>1, <1>2, <4>3, TakenWorker DEF TakenWait
        <5>. QED
          BY <2>3, <3>2, <4>3, <5>1 DEF TakenWait
      <4>4. CASE TakenImports(m) \/ TakenError(m)
        BY <2>3, <4>4 DEF TakenImports, TakenError
      <4>. QED
        BY <1>1, <4>1, <4>2, <4>3, <4>4
    <3>. QED
      BY <3>1, <3>2
  <2>4. \/ fromLean' = fromLean
        \/ \E r : Replies(r) /\ (r.id = i => \A k : Replied(p, r, k)')
    <3>1. SUFFICES ASSUME NEW r, r.kind # "done", r.id = m.id, r.id = i,
                          r.kind = "names" => /\ m.kind = "imports" /\ lean[u] # None
                                              /\ r.text = lean[u].text
                   PROVE  \A k : Replied(p, r, k)'
      BY <1>3
    <3>2. CASE r.kind # "names"
      BY <3>1, <3>2 DEF Replied
    <3>3. CASE r.kind = "names"
      <4>1. Asked(p, m, 1)
        BY <1>2, <2>2, <3>1, <3>3 DEF RequestKept, AskedKept
      <4>2. ASSUME Doc(u) # None, p.version = Doc(u).version
            PROVE  r.text = Doc(u).source
        <5>1. Arrives(u, 1)
          BY <3>1, <3>3, <4>1, <4>2 DEF Asked
        <5>2. Arrived(u)
          BY <1>2, <5>1 DEF Arrives, QueueTypes
        <5>3. QueueKept(u)
          BY <1>2, <4>2 DEF Talk, DocumentKept
        <5>. QED
          BY <3>1, <3>3, <5>2, <5>3 DEF QueueKept, Arrived, WorkerKept
      <4>. QED
        BY <1>2, <3>1, <3>3, <4>1, <4>2 DEF Replied, Asked, Doc
    <3>. QED
      BY <3>2, <3>3
  <2>5. Doc(p.uri) # None =>
           /\ \A k \in Nat : Arrives(p.uri, k + 1) => Arrives(p.uri, k)'
           /\ \A k \in Nat : Done(p.uri, k) => Done(p.uri, k)'
    BY <1>5, <2>2
  <2>6. \A v \in Docs : \A w : lean'[v] # None /\ w \in lean'[v].waits /\ w.id = i =>
           \/ lean[v] # None /\ w \in lean[v].waits
           \/ m.kind = "wait" /\ m.id = i /\ v = m.uri /\ w.version = m.version
    BY <2>3
  <2>. QED
    BY <1>1, <1>2, <2>2, <2>4, <2>5, <2>6, RequestTaken
<1>. QED
  BY <1>5, <1>6 DEF Talk

-----------------------------------------------------------------------------
(***************************************************************************)
(* The native server works and speaks.                                     *)
(***************************************************************************)
\* A document of which nothing is said.
LEMMA DocumentSaid ==
  ASSUME QueueTypes, QueueTypes', NEW v, toLean' = toLean, Quiet(v), SameWorker(v),
         DocumentKept(v)
  PROVE  /\ DocumentKept(v)'
         /\ Doc(v) # None =>
              /\ \A k \in Nat : Arrives(v, k) => Arrives(v, k)'
              /\ \A k \in Nat : Done(v, k) => Done(v, k)'
<1>1. Doc(v)' = Doc(v)
  BY DEF Quiet
<1>2. SUFFICES ASSUME Doc(v) # None
               PROVE  /\ DocumentKept(v)'
                      /\ \A k \in Nat : Arrives(v, k) => Arrives(v, k)'
                      /\ \A k \in Nat : Done(v, k) => Done(v, k)'
  BY <1>1 DEF DocumentKept
<1>3. SameText(v)
  BY <1>1, <1>2 DEF SameText
<1>4. /\ QueueKept(v)' /\ (Arrived(v)' <=> Arrived(v))
      /\ \A k \in Nat : Arrives(v, k) => Arrives(v, k)'
  <2>1. QueueKept(v)
    BY <1>2 DEF DocumentKept
  <2>. QED
    BY <1>3, <2>1, StayQueue
<1>5. SaidKept(v)' /\ \A k \in Nat : Done(v, k) => Done(v, k)'
  BY <1>2, <1>4, QuietKept DEF DocumentKept
<1>6. ReadKept(v)'
  BY <1>1, <1>2, <1>5 DEF DocumentKept, ReadKept
<1>. QED
  BY <1>4, <1>5, <1>6 DEF DocumentKept

\* A request, when an answer is right.
LEMMA RequestSaid ==
  ASSUME QueueTypes, QueueTypes', NEW i, NEW p, RequestKept(i, p), toLean' = toLean,
         Doc(p.uri)' = Doc(p.uri),
         Doc(p.uri) # None =>
           /\ \A k \in Nat : Arrives(p.uri, k) => Arrives(p.uri, k)'
           /\ \A k \in Nat : Done(p.uri, k) => Done(p.uri, k)',
         \A u \in Docs : lean'[u] # None =>
           lean[u] # None /\ lean'[u].waits \subseteq lean[u].waits,
         \/ fromLean' = fromLean
         \/ \E r \in FromLean :
              /\ fromLean' = Append(fromLean, r)
              /\ r.kind # "diagnostics" /\ r.id = i =>
                   \A k \in Nat : k >= Len(fromLean) => Replied(p, r, k)'
  PROVE  RequestKept(i, p)'
<1>1. \A k : Latest(p.uri, k)' <=> Latest(p.uri, k)
  BY StayQueue
<1>2. /\ Len(toLean) \in Nat /\ DOMAIN toLean = 1 .. Len(toLean)
      /\ Len(fromLean) \in Nat /\ DOMAIN fromLean = 1 .. Len(fromLean)
  BY DEF QueueTypes
<1>3. AskedKept(i, p)'
  <2>1. ASSUME NEW k \in DOMAIN toLean, Asked(p, toLean[k], k)
        PROVE  Asked(p, toLean[k], k)'
    <3>1. k \in Nat
      BY <1>2
    <3>. QED
      BY <1>1, <2>1, <3>1 DEF Asked
  <2>. QED
    BY <2>1 DEF RequestKept, AskedKept
<1>4. WaitsKept(i, p)'
  <2>1. ASSUME NEW u \in Docs, lean'[u] # None, NEW w \in lean'[u].waits, w.id = i
        PROVE  Waits(p, u, w)'
    <3>1. Waits(p, u, w)
      BY <2>1 DEF RequestKept, WaitsKept
    <3>. QED
      BY <1>1, <3>1 DEF Waits, Serves
  <2>. QED
    BY <2>1 DEF WaitsKept
<1>5. ASSUME NEW x, NEW k \in Nat, Replied(p, x, k)
      PROVE  Replied(p, x, k)'
  BY <1>5 DEF Replied
<1>6. RepliedKept(i, p)'
  <2>1. CASE fromLean' = fromLean
    <3>1. ASSUME NEW k \in DOMAIN fromLean, Replied(p, fromLean[k], k)
          PROVE  Replied(p, fromLean[k], k)'
      <4>1. PICK x : x = fromLean[k]
        OBVIOUS
      <4>2. Replied(p, x, k)'
        BY <1>2, <1>5, <3>1, <4>1
      <4>. QED
        BY <2>1, <4>1, <4>2 DEF Replied
    <3>. QED
      BY <2>1, <3>1 DEF RequestKept, RepliedKept
  <2>2. ASSUME NEW r \in FromLean, fromLean' = Append(fromLean, r),
               r.kind # "diagnostics" /\ r.id = i =>
                   \A k \in Nat : k >= Len(fromLean) => Replied(p, r, k)'
        PROVE  RepliedKept(i, p)'
    <3>1. /\ DOMAIN fromLean' = 1 .. (Len(fromLean) + 1)
          /\ \A n \in 1 .. Len(fromLean) : fromLean'[n] = fromLean[n]
          /\ fromLean'[Len(fromLean) + 1] = r
      BY <2>2, Appending DEF QueueTypes
    <3>2. ASSUME NEW k \in DOMAIN fromLean', fromLean'[k].kind # "diagnostics",
                 fromLean'[k].id = i
          PROVE  Replied(p, fromLean[k], k)'
      <4>. PICK x : x = fromLean'[k]
        OBVIOUS
      <4>1. CASE k # Len(fromLean) + 1
        <5>1. k \in DOMAIN fromLean /\ k \in Nat /\ x = fromLean[k]
          BY <1>2, <3>1, <4>1
        <5>2. Replied(p, x, k)'
          BY <1>5, <3>2, <5>1 DEF RequestKept, RepliedKept
        <5>. QED
          BY <5>2 DEF Replied
      <4>2. CASE k = Len(fromLean) + 1
        <5>1. x = r /\ r.id = i /\ k \in Nat /\ k >= Len(fromLean)
          BY <1>2, <3>1, <3>2, <4>2
        <5>2. Replied(p, x, k)'
          BY <2>2, <3>2, <5>1
        <5>. QED
          BY <5>2 DEF Replied
      <4>. QED
        BY <4>1, <4>2
    <3>. QED
      BY <3>2 DEF RepliedKept
  <2>. QED
    BY <2>1, <2>2
<1>7. ImportsKept(p)'
  BY DEF RequestKept, ImportsKept
<1>. QED
  BY <1>3, <1>4, <1>6, <1>7 DEF RequestKept

LEMMA LoadTalk ==
  ASSUME Types, Talk, NEW u \in Docs, Load(u)
  PROVE  Talk'
<1>1. /\ Types' /\ lean[u] \in WorkerState(u) /\ lean[u].shown = 0
      /\ lean'[u] = [lean[u] EXCEPT !.env = [m \in DepsOf[u] |-> disk[m]]]
      /\ \A v \in Docs \ {u} : lean'[v] = lean[v]
      /\ lean'[u] \in WorkerState(u)
  BY LoadFacts
<1>2. /\ UNCHANGED <<observer, toLean, fromLean>> /\ QueueTypes /\ QueueTypes'
      /\ \A v : Doc(v)' = Doc(v)
  BY <1>1, TypesParts, TypesPartsNext DEF Load, Doc
<1>3. /\ lean[u] # None /\ lean'[u] # None /\ SameWorker(u)
      /\ lean'[u].shown = 0 /\ lean'[u].waits = lean[u].waits
  <2>1. lean[u] # None /\ lean'[u] # None
    BY <1>1, WorkerFields
  <2>2. PICK w \in WorkerState(u) : w = lean[u]
    BY <1>1
  <2>. QED
    BY <1>1, <2>1, <2>2 DEF WorkerState, SameWorker
<1>4. ASSUME NEW v \in Docs
      PROVE  /\ DocumentKept(v)'
             /\ Doc(v) # None =>
                  /\ \A k \in Nat : Arrives(v, k) => Arrives(v, k)'
                  /\ \A k \in Nat : Done(v, k) => Done(v, k)'
  <2>1. DocumentKept(v)
    BY DEF Talk
  <2>2. CASE v # u
    <3>1. Quiet(v) /\ SameWorker(v)
      BY <1>1, <1>2, <2>2 DEF Quiet, SameWorker
    <3>. QED
      BY <1>2, <2>1, <3>1, DocumentSaid
  <2>3. CASE v = u
    <3>1. SUFFICES ASSUME Doc(v) # None
                   PROVE  /\ DocumentKept(v)'
                          /\ \A k \in Nat : Arrives(v, k) => Arrives(v, k)'
                          /\ \A k \in Nat : Done(v, k) => Done(v, k)'
      BY <1>2 DEF DocumentKept
    <3>2. SameText(v) /\ SameWorker(v) /\ QueueKept(v)
      BY <1>2, <1>3, <2>1, <2>3, <3>1 DEF SameText, DocumentKept
    <3>3. QueueKept(v)' /\ \A k \in Nat : Arrives(v, k) => Arrives(v, k)'
      BY <1>2, <3>2, StayQueue
    <3>4. \A k : ~ Done(v, k)
      BY <1>1, <2>3 DEF Done
    <3>5. SaidKept(v)'
      BY <1>3, <2>3 DEF SaidKept
    <3>6. ReadKept(v)'
      BY <1>2, <2>1, <3>1, <3>4 DEF DocumentKept, ReadKept
    <3>. QED
      BY <3>3, <3>4, <3>5, <3>6 DEF DocumentKept
  <2>. QED
    BY <2>2, <2>3
<1>5. ASSUME NEW i \in Ids
      PROVE  PendingKept(i)'
  <2>. PICK p : p = observer'.pending[i]
    OBVIOUS
  <2>1. SUFFICES ASSUME p # None PROVE RequestKept(i, p)'
    BY PendingNext
  <2>2. p = observer.pending[i] /\ p.uri \in Docs /\ RequestKept(i, p)
    BY <1>2, <2>1, TypesParts DEF Talk, PendingKept
  <2>3. \A v \in Docs : lean'[v] # None =>
           lean[v] # None /\ lean'[v].waits \subseteq lean[v].waits
    BY <1>1, <1>3
  <2>. QED
    BY <1>2, <1>4, <2>2, <2>3, RequestSaid
<1>. QED
  BY <1>4, <1>5 DEF Talk

\* The last message, and what lies before it.
LEMMA SaidBefore ==
  ASSUME QueueTypes, NEW v, NEW m \in FromLean, fromLean' = Append(fromLean, m),
         Doc(v)' = Doc(v), lean'[v].text = lean[v].text, lean'[v].env = lean[v].env
  PROVE  /\ Half(v, Len(fromLean) + 1) => \A k : k = Len(fromLean) + 1 => Half(v, k)'
         /\ \A k : k = Len(fromLean) + 1 =>
              /\ k \in DOMAIN fromLean' /\ fromLean'[k] = m
              /\ k < Len(fromLean') + 1 /\ Silent(v, k, Len(fromLean) + 1)'
         /\ \A x : Counts(x, v)' <=> Counts(x, v)
         /\ PartOf(v, 1)' = PartOf(v, 1) /\ PartOf(v, 2)' = PartOf(v, 2)
<1>1. /\ Len(fromLean) \in Nat /\ DOMAIN fromLean = 1 .. Len(fromLean)
      /\ DOMAIN fromLean' = 1 .. (Len(fromLean) + 1) /\ Len(fromLean') = Len(fromLean) + 1
      /\ \A k \in 1 .. Len(fromLean) : fromLean'[k] = fromLean[k]
      /\ fromLean'[Len(fromLean) + 1] = m
  BY Appending DEF QueueTypes
<1>2. /\ \A x : Counts(x, v)' <=> Counts(x, v)
      /\ PartOf(v, 1)' = PartOf(v, 1) /\ PartOf(v, 2)' = PartOf(v, 2)
  BY DEF Counts, PartOf
<1>. PICK f : f = Len(fromLean) + 1
  OBVIOUS
<1>3. /\ f \in Nat /\ f \in DOMAIN fromLean' /\ fromLean'[f] = m /\ f < Len(fromLean') + 1
      /\ Silent(v, f, Len(fromLean) + 1)'
  <2>1. f \in Nat /\ f \in DOMAIN fromLean' /\ fromLean'[f] = m /\ f < Len(fromLean') + 1
    BY <1>1
  <2>2. \A j \in DOMAIN fromLean' : ~ (f < j)
    BY <1>1
  <2>3. Silent(v, f, Len(fromLean) + 1)'
    BY <2>2 DEF Silent
  <2>. QED
    BY <2>1, <2>3
<1>4. ASSUME NEW lo \in Nat, Silent(v, lo, f)
      PROVE  Silent(v, lo, f)'
  <2>1. ASSUME NEW j \in DOMAIN fromLean', lo < j, j < f
        PROVE  ~ Counts(fromLean[j], v)'
    <3>1. j \in DOMAIN fromLean /\ fromLean'[j] = fromLean[j]
      BY <1>1, <2>1
    <3>2. ~ Counts(fromLean[j], v)
      BY <1>4, <2>1, <3>1 DEF Silent
    <3>. QED
      BY <3>1, <3>2 DEF Counts
  <2>. QED
    BY <2>1 DEF Silent
<1>5. ASSUME Half(v, f)
      PROVE  Half(v, f)'
  <2>1. CASE Doc(v).diagnostics = <<PartOf(v, 1)>> /\ Silent(v, 0, f)
    BY <1>2, <1>4, <2>1 DEF Half
  <2>2. CASE \E j \in DOMAIN fromLean :
               /\ j < f /\ Counts(fromLean[j], v) /\ Silent(v, j, f)
               /\ ~ fromLean[j].incremental /\ fromLean[j].part = PartOf(v, 1)
    <3>1. PICK j \in DOMAIN fromLean :
               /\ j < f /\ Counts(fromLean[j], v) /\ Silent(v, j, f)
               /\ ~ fromLean[j].incremental /\ fromLean[j].part = PartOf(v, 1)
      BY <2>2
    <3>2. j \in DOMAIN fromLean' /\ fromLean'[j] = fromLean[j] /\ j \in Nat
      BY <1>1
    <3>3. Counts(fromLean[j], v)'
      BY <3>1, <3>2 DEF Counts
    <3>4. Silent(v, j, f)'
      BY <1>4, <3>1, <3>2
    <3>. QED
      BY <1>2, <3>1, <3>2, <3>3, <3>4 DEF Half
  <2>. QED
    BY <1>5, <2>1, <2>2 DEF Half
<1>. QED
  BY <1>2, <1>3, <1>5

LEMMA PublishTalk ==
  ASSUME Types, Talk, NEW u \in Docs, Publish(u)
  PROVE  Talk'
<1>. PICK m : m = Published(u)
  OBVIOUS
<1>1. /\ Types' /\ lean[u] \in WorkerState(u) /\ lean[u].shown \in {0, 1}
      /\ fromLean' = Append(fromLean, m) /\ m \in FromLean
      /\ lean'[u] = [lean[u] EXCEPT !.shown = @ + 1]
      /\ lean'[u] \in WorkerState(u)
      /\ \A v \in Docs \ {u} : lean'[v] = lean[v]
  BY PublishFacts
<1>2. /\ UNCHANGED <<observer, toLean>> /\ QueueTypes /\ QueueTypes'
      /\ \A v : Doc(v)' = Doc(v)
  BY <1>1, TypesParts, TypesPartsNext DEF Publish, Doc
<1>3. /\ lean[u] # None /\ lean'[u] # None /\ SameWorker(u)
      /\ lean'[u].shown = lean[u].shown + 1 /\ lean'[u].waits = lean[u].waits
      /\ lean'[u].text = lean[u].text /\ lean'[u].env = lean[u].env
  <2>1. lean[u] # None /\ lean'[u] # None
    BY <1>1, WorkerFields
  <2>2. PICK w \in WorkerState(u) : w = lean[u]
    BY <1>1
  <2>. QED
    BY <1>1, <2>1, <2>2 DEF WorkerState, SameWorker
<1>4. /\ m.kind = "diagnostics" /\ m.uri = u /\ m.version = lean[u].version
      /\ m.incremental <=> lean[u].shown = 1
      /\ m.part = PartOf(u, lean[u].shown + 1)
  BY DEF Published
<1>5. ASSUME NEW v \in Docs
      PROVE  /\ DocumentKept(v)'
             /\ Doc(v) # None =>
                  /\ \A k \in Nat : Arrives(v, k) => Arrives(v, k)'
                  /\ \A k \in Nat : Done(v, k) => Done(v, k)'
  <2>1. DocumentKept(v)
    BY DEF Talk
  <2>2. CASE v # u
    <3>1. Quiet(v) /\ SameWorker(v)
      BY <1>1, <1>2, <1>4, <2>2 DEF Quiet, SameWorker, Counts
    <3>. QED
      BY <1>2, <2>1, <3>1, DocumentSaid
  <2>3. CASE v = u
    <3>1. SUFFICES ASSUME Doc(v) # None
                   PROVE  /\ DocumentKept(v)'
                          /\ \A k \in Nat : Arrives(v, k) => Arrives(v, k)'
                          /\ \A k \in Nat : Done(v, k) => Done(v, k)'
      BY <1>2 DEF DocumentKept
    <3>2. SameText(v) /\ SameWorker(v) /\ QueueKept(v)
      BY <1>2, <1>3, <2>1, <2>3, <3>1 DEF SameText, DocumentKept
    <3>3. /\ QueueKept(v)' /\ (Arrived(v)' <=> Arrived(v))
          /\ \A k \in Nat : Arrives(v, k) => Arrives(v, k)'
      BY <1>2, <3>2, StayQueue
    <3>4. \A k : ~ Done(v, k)
      BY <1>1, <2>3 DEF Done
    <3>5. SaidKept(v)'
      <4>1. SUFFICES ASSUME Arrived(v)'
                     PROVE  /\ lean'[v].shown = 1 => Half(v, Len(fromLean) + 1)'
                            /\ lean'[v].shown = 2 => Whole(v, Len(fromLean) + 1)'
        BY DEF SaidKept
      <4>2. Arrived(v) /\ SaidKept(v) /\ Counts(m, v)
        BY <1>4, <2>1, <2>3, <3>1, <3>3, <4>1 DEF DocumentKept, Arrived, Counts
      <4>. PICK f : f = Len(fromLean) + 1
        OBVIOUS
      <4>3. /\ Half(v, Len(fromLean) + 1) => Half(v, f)'
            /\ f \in DOMAIN fromLean' /\ fromLean'[f] = m
            /\ f < Len(fromLean') + 1 /\ Silent(v, f, Len(fromLean) + 1)'
            /\ \A x : Counts(x, v)' <=> Counts(x, v)
            /\ PartOf(v, 1)' = PartOf(v, 1) /\ PartOf(v, 2)' = PartOf(v, 2)
        <5>1. /\ QueueTypes /\ m \in FromLean /\ fromLean' = Append(fromLean, m)
              /\ Doc(v)' = Doc(v) /\ lean'[v].text = lean[v].text
              /\ lean'[v].env = lean[v].env
          BY <1>1, <1>2, <1>3, <2>3
        <5>2. Half(v, Len(fromLean) + 1) => \A k : k = Len(fromLean) + 1 => Half(v, k)'
          BY <5>1, SaidBefore
        <5>3. \A k : k = Len(fromLean) + 1 =>
                /\ k \in DOMAIN fromLean' /\ fromLean'[k] = m
                /\ k < Len(fromLean') + 1 /\ Silent(v, k, Len(fromLean) + 1)'
          BY <5>1, SaidBefore
        <5>4. /\ \A x : Counts(x, v)' <=> Counts(x, v)
              /\ PartOf(v, 1)' = PartOf(v, 1) /\ PartOf(v, 2)' = PartOf(v, 2)
          BY <5>1, SaidBefore
        <5>. QED
          BY <5>2, <5>3, <5>4
      <4>4. Counts(fromLean[f], v)'
        <5>1. Counts(m, v)'
          BY <4>2, <4>3
        <5>. QED
          BY <4>3, <5>1 DEF Counts
      <4>5. CASE lean[v].shown = 0
        <5>1. ~ m.incremental /\ m.part = PartOf(v, 1) /\ lean'[v].shown = 1
          BY <1>3, <1>4, <2>3, <4>5
        <5>2. Half(v, Len(fromLean) + 1)'
          BY <4>3, <4>4, <5>1 DEF Half
        <5>. QED
          BY <5>1, <5>2
      <4>6. CASE lean[v].shown = 1
        <5>1. m.incremental /\ m.part = PartOf(v, 2) /\ lean'[v].shown = 2
          BY <1>3, <1>4, <2>3, <4>6
        <5>2. Half(v, f)'
          BY <4>2, <4>3, <4>6 DEF SaidKept
        <5>3. Whole(v, Len(fromLean) + 1)'
          BY <4>3, <4>4, <5>1, <5>2 DEF Whole
        <5>. QED
          BY <5>1, <5>3
      <4>. QED
        BY <1>1, <2>3, <4>5, <4>6
    <3>6. ReadKept(v)'
      BY <1>2, <2>1, <3>1, <3>4 DEF DocumentKept, ReadKept
    <3>. QED
      BY <3>3, <3>4, <3>5, <3>6 DEF DocumentKept
  <2>. QED
    BY <2>2, <2>3
<1>6. ASSUME NEW i \in Ids
      PROVE  PendingKept(i)'
  <2>. PICK p : p = observer'.pending[i]
    OBVIOUS
  <2>1. SUFFICES ASSUME p # None PROVE RequestKept(i, p)'
    BY PendingNext
  <2>2. p = observer.pending[i] /\ p.uri \in Docs /\ RequestKept(i, p)
    BY <1>2, <2>1, TypesParts DEF Talk, PendingKept
  <2>3. \A v \in Docs : lean'[v] # None =>
           lean[v] # None /\ lean'[v].waits \subseteq lean[v].waits
    BY <1>1, <1>3
  <2>. QED
    BY <1>1, <1>2, <1>4, <1>5, <2>2, <2>3, RequestSaid
<1>. QED
  BY <1>5, <1>6 DEF Talk

\* The worker that answers has said all that it has to say.
LEMMA AnswerTalk ==
  ASSUME Types, Talk, NEW u \in Docs, lean[u] # None, NEW w \in lean[u].waits, Answer(u, w)
  PROVE  Talk'
<1>. PICK m : m = [kind |-> "done", id |-> w.id]
  OBVIOUS
<1>1. /\ Types' /\ lean[u] \in WorkerState(u) /\ w \in [id : Ids, version : Versions]
      /\ fromLean' = Append(fromLean, m) /\ m \in FromLean
      /\ lean'[u] = [lean[u] EXCEPT !.waits = @ \ {w}]
      /\ lean'[u] \in WorkerState(u)
      /\ \A v \in Docs \ {u} : lean'[v] = lean[v]
  BY AnswerFacts
<1>2. /\ UNCHANGED <<observer, toLean>> /\ QueueTypes /\ QueueTypes'
      /\ \A v : Doc(v)' = Doc(v)
      /\ w.version <= lean[u].version /\ lean[u].shown = 2
  BY <1>1, TypesParts, TypesPartsNext DEF Answer, Doc
<1>3. /\ lean'[u] # None /\ SameWorker(u)
      /\ lean'[u].shown = lean[u].shown /\ lean'[u].waits \subseteq lean[u].waits
      /\ lean'[u].text = lean[u].text /\ lean'[u].env = lean[u].env
      /\ lean[u].version \in Nat /\ w.version \in Nat
  <2>1. lean'[u] # None /\ lean[u].version \in Nat
    BY <1>1, WorkerFields
  <2>2. PICK x \in WorkerState(u) : x = lean[u]
    BY <1>1
  <2>3. w.version \in Nat
    BY <1>1 DEF Versions
  <2>. QED
    BY <1>1, <2>1, <2>2, <2>3 DEF WorkerState, SameWorker
<1>4. m.kind = "done" /\ m.id = w.id
  OBVIOUS
<1>5. ASSUME NEW v \in Docs
      PROVE  /\ DocumentKept(v)'
             /\ Doc(v) # None =>
                  /\ \A k \in Nat : Arrives(v, k) => Arrives(v, k)'
                  /\ \A k \in Nat : Done(v, k) => Done(v, k)'
  <2>1. DocumentKept(v)
    BY DEF Talk
  <2>2. SameWorker(v) /\ lean'[v].shown = lean[v].shown
        /\ lean'[v].text = lean[v].text /\ lean'[v].env = lean[v].env
    BY <1>1, <1>3 DEF SameWorker
  <2>3. Quiet(v)
    BY <1>1, <1>2, <1>4, <2>2 DEF Quiet, Counts
  <2>. QED
    BY <1>2, <2>1, <2>2, <2>3, DocumentSaid
<1>6. ASSUME NEW i \in Ids
      PROVE  PendingKept(i)'
  <2>. PICK p : p = observer'.pending[i]
    OBVIOUS
  <2>1. SUFFICES ASSUME p # None PROVE RequestKept(i, p)'
    BY PendingNext
  <2>2. /\ p = observer.pending[i] /\ p.uri \in Docs /\ RequestKept(i, p)
        /\ p.version \in Nat
    BY <1>2, <2>1, TypesParts DEF Talk, PendingKept
  <2>3. \A v \in Docs : lean'[v] # None =>
           lean[v] # None /\ lean'[v].waits \subseteq lean[v].waits
    BY <1>1, <1>3
  <2>4. ASSUME m.id = i, NEW k \in Nat, k >= Len(fromLean)
        PROVE  Replied(p, m, k)'
    <3>1. Waits(p, u, w)
      BY <1>4, <2>2, <2>4 DEF RequestKept, WaitsKept
    <3>2. ASSUME Doc(u) # None
          PROVE  /\ p.version <= Doc(u).version
                 /\ p.version = Doc(u).version => Done(u, k)'
      <4>1. WorkerKept(u) /\ Serves(u)
        BY <3>1, <3>2 DEF Talk, DocumentKept, QueueKept, Waits
      <4>2. Doc(u).version \in Nat
        BY <3>2, TypesParts
      <4>3. p.version <= lean[u].version /\ lean[u].version <= Doc(u).version
        BY <1>2, <3>1, <4>1 DEF Waits, WorkerKept
      <4>4. p.version <= Doc(u).version
            /\ (p.version = Doc(u).version => lean[u].version = Doc(u).version)
        BY <1>3, <2>2, <4>2, <4>3
      <4>5. ASSUME p.version = Doc(u).version
            PROVE  Done(u, k)'
        <5>1. Arrived(u)
          BY <4>1, <4>4, <4>5 DEF Arrived
        <5>2. Arrived(u)'
          BY <1>2, <1>3, <3>2, <5>1, StayQueue DEF SameText
        <5>3. Silent(u, k, Len(fromLean) + 1)'
          <6>1. ASSUME NEW j \in DOMAIN fromLean', k < j
                PROVE  fromLean'[j] = m
            BY <1>1, <1>2, <2>4, <6>1, Appending DEF QueueTypes
          <6>2. \A j \in DOMAIN fromLean' : k < j => fromLean'[j].kind # "diagnostics"
            BY <1>4, <6>1
          <6>. QED
            BY <6>2 DEF Silent, Counts
        <5>. QED
          BY <1>2, <1>3, <5>2, <5>3 DEF Done
      <4>. QED
        BY <4>4, <4>5
    <3>. QED
      BY <1>2, <1>4, <3>1, <3>2 DEF Replied, Waits
  <2>. QED
    BY <1>1, <1>2, <1>5, <2>2, <2>3, <2>4, RequestSaid
<1>. QED
  BY <1>5, <1>6 DEF Talk

-----------------------------------------------------------------------------
(***************************************************************************)
(* The bridge reads.                                                       *)
(***************************************************************************)
\* What a message may do to a document.
Reads(m, v) ==
  /\ Doc(v) = None => Doc(v)' = None
  /\ Doc(v) # None =>
       /\ SameText(v) /\ Doc(v)'.environment = Doc(v).environment
       /\ Doc(v)'.diagnostics = IF ~ Counts(m, v) THEN Doc(v).diagnostics
                                ELSE IF m.incremental THEN Append(Doc(v).diagnostics, m.part)
                                ELSE <<m.part>>
       /\ Doc(v)'.complete => Doc(v).complete \/ Done(v, 1)
       /\ Doc(v)'.imports # None => Doc(v)'.imports \in {Doc(v).imports, Doc(v).source}

LEMMA DocumentRead ==
  ASSUME QueueTypes, QueueTypes', NEW v, NEW m, Read(m), Reads(m, v), DocumentKept(v)
  PROVE  /\ DocumentKept(v)'
         /\ Doc(v) # None =>
              /\ \A k \in Nat : Arrives(v, k) => Arrives(v, k)'
              /\ \A k \in Nat : Done(v, k + 1) => Done(v, k)'
<1>1. SUFFICES ASSUME Doc(v) # None
               PROVE  /\ DocumentKept(v)'
                      /\ \A k \in Nat : Arrives(v, k) => Arrives(v, k)'
                      /\ \A k \in Nat : Done(v, k + 1) => Done(v, k)'
  BY DEF DocumentKept, Reads
<1>2. Passed(v) /\ SameText(v) /\ SameWorker(v) /\ m = fromLean[1] /\ toLean' = toLean
  BY <1>1 DEF Passed, Read, Reads, SameWorker
<1>3. QueueKept(v)' /\ \A k \in Nat : Arrives(v, k) => Arrives(v, k)'
  <2>1. QueueKept(v)
    BY <1>1 DEF DocumentKept
  <2>. QED
    BY <1>2, <2>1, StayQueue
<1>4. /\ SaidKept(v) => SaidKept(v)'
      /\ \A k \in Nat : Done(v, k + 1) => Done(v, k)'
      /\ Done(v, 0) => Done(v, 0)'
  <2>1. Doc(v)'.diagnostics =
          IF ~ Counts(fromLean[1], v) THEN Doc(v).diagnostics
          ELSE IF fromLean[1].incremental
          THEN Append(Doc(v).diagnostics, fromLean[1].part)
          ELSE <<fromLean[1].part>>
    BY <1>1, <1>2 DEF Reads
  <2>. QED
    BY <1>2, <2>1, PassedKept
<1>5. ReadKept(v)'
  <2>1. Done(v, 1) => Done(v, 0)'
    <3>1. 0 \in Nat /\ 0 + 1 = 1
      OBVIOUS
    <3>. QED
      BY <1>4, <3>1
  <2>2. ReadKept(v)
    BY <1>1 DEF DocumentKept
  <2>3. Doc(v)'.complete => Done(v, 0)'
    BY <1>1, <1>4, <2>1, <2>2 DEF Reads, ReadKept
  <2>4. Doc(v)'.imports # None => Doc(v)'.imports = Doc(v).source
    BY <1>1, <2>2 DEF Reads, ReadKept
  <2>. QED
    BY <1>2, <2>3, <2>4 DEF ReadKept, SameText
<1>. QED
  BY <1>1, <1>3, <1>4, <1>5 DEF DocumentKept

\* A request that stays pending.
LEMMA RequestRead ==
  ASSUME QueueTypes, QueueTypes', NEW i, NEW p, NEW m, Read(m), Reads(m, p.uri),
         RequestKept(i, p),
         Doc(p.uri) # None =>
           /\ \A k \in Nat : Arrives(p.uri, k) => Arrives(p.uri, k)'
           /\ \A k \in Nat : Done(p.uri, k + 1) => Done(p.uri, k)'
  PROVE  RequestKept(i, p)'
<1>1. /\ toLean' = toLean /\ lean' = lean /\ fromLean # <<>> /\ fromLean' = Tail(fromLean)
      /\ \A k : Latest(p.uri, k)' <=> Latest(p.uri, k)
  BY StayQueue DEF Read
<1>2. /\ Doc(p.uri)' # None => /\ Doc(p.uri) # None
                               /\ Doc(p.uri)'.version = Doc(p.uri).version
                               /\ Doc(p.uri)'.source = Doc(p.uri).source
  BY DEF Reads, SameText
<1>3. AskedKept(i, p)'
  <2>1. ASSUME NEW k \in DOMAIN toLean, Asked(p, toLean[k], k)
        PROVE  Asked(p, toLean[k], k)'
    <3>1. k \in Nat
      BY DEF QueueTypes
    <3>. QED
      BY <1>1, <1>2, <2>1, <3>1 DEF Asked
  <2>. QED
    BY <1>1, <2>1 DEF RequestKept, AskedKept
<1>4. WaitsKept(i, p)'
  BY <1>1 DEF RequestKept, WaitsKept, Waits, Serves
<1>5. RepliedKept(i, p)'
  <2>1. ASSUME NEW k \in DOMAIN fromLean', fromLean'[k].kind # "diagnostics",
               fromLean'[k].id = i
        PROVE  Replied(p, fromLean[k], k)'
    <3>1. k \in Nat /\ k + 1 \in DOMAIN fromLean /\ fromLean'[k] = fromLean[k + 1]
      BY <1>1, Popping DEF QueueTypes
    <3>2. PICK x : x = fromLean[k + 1]
      OBVIOUS
    <3>3. Replied(p, x, k + 1)
      BY <2>1, <3>1, <3>2 DEF RequestKept, RepliedKept
    <3>4. Replied(p, x, k)'
      BY <1>2, <3>1, <3>3 DEF Replied
    <3>. QED
      BY <3>1, <3>2, <3>4 DEF Replied
  <2>. QED
    BY <2>1 DEF RepliedKept
<1>6. ImportsKept(p)'
  BY <1>2 DEF RequestKept, ImportsKept
<1>. QED
  BY <1>3, <1>4, <1>5, <1>6 DEF RequestKept

\* What the reply to a request does, when it is the reply that was asked for.
LEMMA ReplyReads ==
  ASSUME NEW u \in Docs, NEW m \in FromLean, NEW asked \in PendingRequest, asked.uri = u,
         ReadReply(m, asked), Replied(asked, m, 1),
         Doc(u) # None => Doc(u) \in OpenDocument(u)
  PROVE  Reads(m, u)
<1>1. /\ m.kind \in {"done", "names", "error"} /\ ~ Counts(m, u)
      /\ Doc(u)' = ReplyTo(Doc(u), asked, m)
  BY FromLeanFields DEF ReadReply, Counts
<1>2. CASE m.kind = "error" \/ Doc(u) = None \/ Doc(u).version # asked.version
  <2>1. Doc(u)' = Doc(u)
    BY <1>1, <1>2 DEF ReplyTo, Completed, Imported, ReadyForImports
  <2>. QED
    BY <1>1, <2>1 DEF Reads, SameText
<1>3. CASE m.kind # "error" /\ Doc(u) # None /\ Doc(u).version = asked.version
  <2>. PICK old \in OpenDocument(u) : old = Doc(u)
    BY <1>3
  <2>. PICK new : new = Doc(u)'
    OBVIOUS
  <2>3. u \in Nodes
    BY EditorAssumption
  <2>0. new # None
    <3>1. \/ ReplyTo(old, asked, m) = None /\ old = None
          \/ ReplyTo(old, asked, m) \in OpenDocument(u) /\ old # None
          \/ ReplyTo(old, asked, m) = old
      <4>1. m.kind # "diagnostics"
        BY <1>1
      <4>. QED
        BY <4>1, ReplyType
    <3>2. new = ReplyTo(old, asked, m) /\ old # None
      BY <1>1, <1>3
    <3>. QED
      BY <3>1, <3>2, <2>3, NoneAssumption
  <2>1. CASE asked.kind = "diagnostics"
    <3>1. Done(u, 1)
      <4>1. m.kind = "done"
        BY <1>1, <1>3, <2>1 DEF Replied
      <4>. QED
        BY <1>3, <4>1 DEF Replied
    <3>2. new = [old EXCEPT !.complete = TRUE]
      BY <1>1, <1>3, <2>1 DEF ReplyTo, Completed
    <3>3. /\ new.version = old.version /\ new.source = old.source
          /\ new.environment = old.environment /\ new.diagnostics = old.diagnostics
          /\ new.imports = old.imports
      BY <3>2 DEF OpenDocument
    <3>. QED
      BY <1>1, <1>3, <2>0, <3>1, <3>3 DEF Reads, SameText
  <2>2. CASE asked.kind # "diagnostics"
    <3>1. m.text = old.source
      <4>1. m.kind = "names"
        BY <1>1, <1>3, <2>2 DEF Replied
      <4>. QED
        BY <1>3, <4>1 DEF Replied
    <3>2. new = old \/ new = [old EXCEPT !.imports = m.text]
      BY <1>1, <1>3, <2>2 DEF ReplyTo, Imported, ReadyForImports
    <3>3. /\ new.version = old.version /\ new.source = old.source
          /\ new.environment = old.environment /\ new.diagnostics = old.diagnostics
          /\ new.complete = old.complete /\ new.imports \in {old.imports, m.text}
      BY <3>2 DEF OpenDocument
    <3>. QED
      BY <1>1, <1>3, <2>0, <3>1, <3>3 DEF Reads, SameText
  <2>. QED
    BY <2>1, <2>2
<1>. QED
  BY <1>2, <1>3

LEMMA ObserveReads ==
  ASSUME Types, Talk, Observe
  PROVE  /\ Types'
         /\ \E m : /\ Read(m) /\ \A v \in Docs : Reads(m, v)
                   /\ \A i \in Ids : observer'.pending[i] \in {None, observer.pending[i]}
<1>2. /\ Types'
      /\ \E m : /\ Read(m)
                /\ \/ ReadPublished(m) \/ ReadUnasked(m)
                   \/ \E asked : ReadReply(m, asked)
  BY ObserveFacts
<1>3. PICK m : /\ Read(m)
               /\ \/ ReadPublished(m) \/ ReadUnasked(m)
                  \/ \E asked : ReadReply(m, asked)
  BY <1>2
<1>4. /\ QueueTypes /\ QueueTypes' /\ m \in FromLean /\ m = fromLean[1]
      /\ 1 \in DOMAIN fromLean
      /\ \A v \in Docs : Doc(v) # None => Doc(v) \in OpenDocument(v)
  BY <1>2, <1>3, TypesParts, TypesPartsNext, Popping DEF Read, QueueTypes
<1>5. ASSUME NEW v, Doc(v)' = Doc(v), ~ Counts(m, v)
      PROVE  Reads(m, v)
  BY <1>5 DEF Reads, SameText
<1>6. /\ \A v \in Docs : Reads(m, v)
      /\ \A i \in Ids : observer'.pending[i] \in {None, observer.pending[i]}
  <2>1. CASE ReadPublished(m)
    <3>1. ASSUME NEW v \in Docs
          PROVE  Reads(m, v)
      <4>1. CASE v # m.uri
        BY <1>5, <2>1, <3>1, <4>1 DEF ReadPublished, Counts
      <4>2. CASE v = m.uri /\ ~ Counts(m, v)
        <5>1. Doc(v)' = Doc(v)
          BY <2>1, <4>2 DEF ReadPublished, Noted, Counts
        <5>. QED
          BY <1>5, <4>2, <5>1
      <4>3. CASE v = m.uri /\ Counts(m, v)
        <5>1. CASE Doc(v) = None
          BY <2>1, <4>3, <5>1 DEF ReadPublished, Noted, Reads
        <5>2. CASE Doc(v) # None
          <6>. PICK old \in OpenDocument(v) : old = Doc(v)
            BY <1>4, <5>2
          <6>. PICK new : new = Doc(v)'
            OBVIOUS
          <6>. PICK said : said = IF m.incremental THEN Append(old.diagnostics, m.part)
                                  ELSE <<m.part>>
            OBVIOUS
          <6>1. new = [old EXCEPT !.diagnostics = said]
            BY <2>1, <4>3, <5>2 DEF ReadPublished, Noted, Counts
          <6>2. /\ new.version = old.version /\ new.source = old.source
                /\ new.environment = old.environment /\ new.diagnostics = said
                /\ new.complete = old.complete /\ new.imports = old.imports
            BY <6>1 DEF OpenDocument
          <6>3. new # None
            <7>1. new \in OpenDocument(v)
              <8>1. said \in Seq(Part)
                BY <1>4, FromLeanFields, <4>3 DEF OpenDocument, Counts
              <8>. QED
                BY <6>1, <8>1 DEF OpenDocument
            <7>. QED
              BY <7>1, EditorAssumption, NoneAssumption
          <6>. QED
            BY <4>3, <5>2, <6>2, <6>3 DEF Reads, SameText
        <5>. QED
          BY <5>1, <5>2
      <4>. QED
        BY <4>1, <4>2, <4>3
    <3>. QED
      BY <2>1, <3>1 DEF ReadPublished
  <2>2. CASE ReadUnasked(m)
    <3>1. \A v : Doc(v)' = Doc(v) /\ ~ Counts(m, v)
      BY <2>2 DEF ReadUnasked, Doc, Counts
    <3>. QED
      BY <1>5, <2>2, <3>1 DEF ReadUnasked
  <2>3. CASE \E asked : ReadReply(m, asked)
    <3>. PICK asked : ReadReply(m, asked)
      BY <2>3
    <3>1. /\ asked \in PendingRequest /\ asked.uri \in Docs /\ m.id \in Ids
          /\ asked = observer.pending[m.id] /\ asked # None /\ m.kind # "diagnostics"
      BY <1>4, FromLeanFields DEF ReadReply, PendingRequest
    <3>2. Replied(asked, m, 1)
      BY <1>4, <3>1 DEF Talk, PendingKept, RequestKept, RepliedKept
    <3>3. ASSUME NEW v \in Docs
          PROVE  Reads(m, v)
      <4>1. CASE v = asked.uri
        BY <1>4, <3>1, <3>2, <4>1, ReplyReads
      <4>2. CASE v # asked.uri
        BY <1>5, <3>1, <4>2 DEF ReadReply, Counts
      <4>. QED
        BY <4>1, <4>2
    <3>. QED
      BY <3>1, <3>3 DEF ReadReply
  <2>. QED
    BY <1>3, <2>1, <2>2, <2>3
<1>. QED
  BY <1>2, <1>3, <1>6

LEMMA ObserveTalk ==
  ASSUME Types, Talk, Observe
  PROVE  Talk'
<1>1. Types'
  BY ObserveReads
<1>2. PICK m : /\ Read(m) /\ \A v \in Docs : Reads(m, v)
               /\ \A i \in Ids : observer'.pending[i] \in {None, observer.pending[i]}
  BY ObserveReads
<1>3. QueueTypes /\ QueueTypes'
  BY <1>1, TypesParts, TypesPartsNext
<1>4. ASSUME NEW v \in Docs
      PROVE  /\ DocumentKept(v)'
             /\ Doc(v) # None =>
                  /\ \A k \in Nat : Arrives(v, k) => Arrives(v, k)'
                  /\ \A k \in Nat : Done(v, k + 1) => Done(v, k)'
  BY <1>2, <1>3, DocumentRead DEF Talk
<1>5. ASSUME NEW i \in Ids
      PROVE  PendingKept(i)'
  <2>. PICK p : p = observer'.pending[i]
    OBVIOUS
  <2>1. SUFFICES ASSUME p # None PROVE RequestKept(i, p)'
    BY PendingNext
  <2>2. p = observer.pending[i] /\ p.uri \in Docs /\ RequestKept(i, p)
    BY <1>2, <2>1, TypesParts DEF Talk, PendingKept
  <2>. QED
    BY <1>2, <1>3, <1>4, <2>2, RequestRead
<1>. QED
  BY <1>4, <1>5 DEF Talk

\* Steps that leave alone what is open, asked and said.
LEMMA QuietTalk ==
  ASSUME Talk, UNCHANGED native, observer'.documents = observer.documents,
         observer'.pending = observer.pending
  PROVE  Talk'
<1>1. /\ toLean' = toLean /\ fromLean' = fromLean /\ lean' = lean
      /\ \A v : Doc(v)' = Doc(v)
  BY DEF native, Doc
<1>2. ASSUME NEW v
      PROVE  /\ \A k : Latest(v, k)' <=> Latest(v, k)
             /\ Serves(v)' <=> Serves(v)
             /\ Arrived(v)' <=> Arrived(v)
             /\ \A k : Arrives(v, k)' <=> Arrives(v, k)
             /\ \A lo, hi : Silent(v, lo, hi)' <=> Silent(v, lo, hi)
             /\ \A k : Done(v, k)' <=> Done(v, k)
  <2>1. \A k : Latest(v, k)' <=> Latest(v, k)
    BY <1>1 DEF Latest
  <2>2. Serves(v)' <=> Serves(v)
    BY <2>1 DEF Serves
  <2>3. Arrived(v)' <=> Arrived(v)
    BY <1>1, <2>2 DEF Arrived
  <2>4. \A k : Arrives(v, k)' <=> Arrives(v, k)
    BY <1>1, <2>1, <2>3 DEF Arrives
  <2>5. \A lo, hi : Silent(v, lo, hi)' <=> Silent(v, lo, hi)
    BY <1>1 DEF Silent, Counts
  <2>6. \A k : Done(v, k)' <=> Done(v, k)
    BY <1>1, <2>3, <2>5 DEF Done
  <2>. QED
    BY <2>1, <2>2, <2>3, <2>4, <2>5, <2>6
<1>3. ASSUME NEW v \in Docs
      PROVE  DocumentKept(v)'
  <2>1. SUFFICES ASSUME Doc(v) # None
                 PROVE  DocumentKept(v)'
    BY <1>1 DEF DocumentKept
  <2>2. QueueKept(v) /\ SaidKept(v) /\ ReadKept(v)
    BY <2>1 DEF Talk, DocumentKept
  <2>3. QueueKept(v)'
    BY <1>1, <1>2, <2>2 DEF QueueKept, SentKept, WorkerKept
  <2>4. SaidKept(v)'
    <3>1. /\ \A k : Half(v, k)' <=> Half(v, k)
          /\ \A k : Whole(v, k)' <=> Whole(v, k)
      <4>1. PartOf(v, 1)' = PartOf(v, 1) /\ PartOf(v, 2)' = PartOf(v, 2)
        BY <1>1 DEF PartOf
      <4>2. \A k : Half(v, k)' <=> Half(v, k)
        BY <1>1, <1>2, <4>1 DEF Half, Counts
      <4>. QED
        BY <1>1, <1>2, <4>1, <4>2 DEF Whole, Counts
    <3>. QED
      BY <1>1, <1>2, <2>2, <3>1 DEF SaidKept
  <2>5. ReadKept(v)'
    BY <1>1, <1>2, <2>2 DEF ReadKept
  <2>. QED
    BY <2>3, <2>4, <2>5 DEF DocumentKept
<1>4. ASSUME NEW i \in Ids
      PROVE  PendingKept(i)'
  <2>. PICK p : p = observer'.pending[i]
    OBVIOUS
  <2>1. SUFFICES ASSUME p # None PROVE RequestKept(i, p)'
    BY PendingNext
  <2>2. RequestKept(i, p)
    BY <2>1 DEF Talk, PendingKept
  <2>3. AskedKept(i, p)'
    BY <1>1, <1>2, <2>2 DEF RequestKept, AskedKept, Asked
  <2>4. WaitsKept(i, p)'
    BY <1>1, <1>2, <2>2 DEF RequestKept, WaitsKept, Waits
  <2>5. RepliedKept(i, p)'
    BY <1>1, <1>2, <2>2 DEF RequestKept, RepliedKept, Replied
  <2>6. ImportsKept(p)'
    BY <1>1, <2>2 DEF RequestKept, ImportsKept
  <2>. QED
    BY <2>3, <2>4, <2>5, <2>6 DEF RequestKept
<1>. QED
  BY <1>3, <1>4 DEF Talk

\* Nothing is open and nothing is asked.
LEMMA EmptyTalk ==
  ASSUME \A u \in Docs : Doc(u) = None, \A i \in Ids : observer.pending[i] = None
  PROVE  Talk
BY DEF Talk, DocumentKept, PendingKept

-----------------------------------------------------------------------------
(***************************************************************************)
(* The workspace.                                                          *)
(***************************************************************************)
LEMMA InitFiles == Init => Files
<1>. SUFFICES ASSUME Init PROVE Files
  OBVIOUS
<1>1. RefreshKept /\ \A m : ReservedKept(m) /\ SelectKept(m)
  BY DEF Init, RefreshKept, ReservedKept, SelectKept, Idle
<1>2. \A m \in Nodes : FileKept(m)
  BY EditorAssumption DEF Init, FileKept
<1>3. \A u \in Docs : \A m : PreparedKept(u, m) /\ EnvironmentKept(u, m)
  BY DEF Init, PreparedKept, EnvironmentKept, NoObserver, Doc
<1>. QED
  BY <1>1, <1>2, <1>3 DEF Files, Steady

\* What a steady node has been given, it has had before; if it is the present
\* source then that has been the present source before.
LEMMA SaveHeld ==
  ASSUME Types, NEW n \in Nodes, NEW r \in SourcesOf[n], Save(n, r),
         NEW m \in Nodes, m \notin returned'
  PROVE  /\ m \notin returned
         /\ \A x : Held(m, x) => Held(m, x)' /\ (x = head'[m] => head'[m] = head[m])
         /\ head[m] \notin past[m] => head'[m] \notin past'[m]
         /\ head[m] \in Revisions /\ head'[m] \in Revisions
<1>1. head \in [Nodes -> Revisions] /\ past \in [Nodes -> SUBSET Revisions]
  BY DEF Types, BranchTypes
<1>2. r \in Revisions /\ r # head[n]
  BY EditorAssumption DEF Save
<1>3. /\ head' = [head EXCEPT ![n] = r]
      /\ past' = [past EXCEPT ![n] = @ \cup {head[n]}]
  BY DEF Save
<1>4. m \notin returned /\ (m = n => r \notin past[n])
  BY DEF Save
<1>5. CASE m = n
  BY <1>1, <1>2, <1>3, <1>4, <1>5 DEF Held
<1>6. CASE m # n
  BY <1>1, <1>3, <1>4, <1>6 DEF Held
<1>. QED
  BY <1>5, <1>6

LEMMA SaveFiles ==
  ASSUME Types, Files, NEW n \in Nodes, NEW r \in SourcesOf[n], Save(n, r)
  PROVE  Files'
<1>1. /\ UNCHANGED <<session, disk, sources, observer, custom, toLean, lean>>
      /\ \A u : Doc(u)' = Doc(u)
      /\ \A u : Serves(u)' <=> Serves(u)
  BY DEF Save, workspace, native, Doc, Serves, Latest
<1>2. RefreshKept'
  BY <1>1 DEF Files, RefreshKept
<1>3. ASSUME NEW m \in Steady'
      PROVE  FileKept(m)' /\ ReservedKept(m)' /\ SelectKept(m)'
  <2>1. /\ m \in Nodes /\ m \in Steady
        /\ \A x : Held(m, x) => Held(m, x)' /\ (x = head'[m] => head'[m] = head[m])
        /\ head[m] \notin past[m] => head'[m] \notin past'[m]
        /\ head[m] \in Revisions /\ head'[m] \in Revisions
    BY SaveHeld DEF Steady
  <2>2. FileKept(m) /\ ReservedKept(m) /\ SelectKept(m) /\ None \notin Revisions
    BY <2>1, EditorAssumption DEF Files
  <2>3. sources[m] = head'[m] => head'[m] = head[m]
    BY <2>1, <2>2 DEF FileKept
  <2>4. FileKept(m)'
    BY <1>1, <2>1, <2>2, <2>3 DEF FileKept, Held
  <2>5. ReservedKept(m)'
    BY <1>1, <2>1, <2>2 DEF ReservedKept, Held
  <2>6. SelectKept(m)'
    BY <1>1, <2>1, <2>2, <2>3 DEF SelectKept, Held
  <2>. QED
    BY <2>4, <2>5, <2>6
<1>4. ASSUME NEW u \in Docs, NEW m \in DepsOf[u], m \in Steady'
      PROVE  PreparedKept(u, m)' /\ EnvironmentKept(u, m)'
  <2>1. /\ m \in Nodes /\ m \in Steady
        /\ \A x : Held(m, x) => Held(m, x)' /\ (x = head'[m] => head'[m] = head[m])
    BY <1>4, SaveHeld DEF Steady
  <2>2. PreparedKept(u, m) /\ EnvironmentKept(u, m)
    BY <2>1 DEF Files
  <2>3. PreparedKept(u, m)'
    BY <1>1, <2>1, <2>2 DEF PreparedKept, Held
  <2>4. EnvironmentKept(u, m)'
    BY <1>1, <2>1, <2>2 DEF EnvironmentKept, Held
  <2>. QED
    BY <2>3, <2>4
<1>. QED
  BY <1>2, <1>3, <1>4 DEF Files

LEMMA ReserveFiles ==
  ASSUME Types, Files, NEW u \in Docs, Reserve(u)
  PROVE  Files'
<1>1. /\ UNCHANGED <<head, past, returned, disk, sources, observer, custom, toLean, lean>>
      /\ \A v : Doc(v)' = Doc(v)
      /\ \A v : Serves(v)' <=> Serves(v)
      /\ \A m, x : Held(m, x)' <=> Held(m, x)
      /\ Steady' = Steady
  BY DEF Reserve, branch, workspace, native, Doc, Serves, Latest, Held, Steady
<1>2. RefreshKept'
  BY <1>1 DEF Files, RefreshKept
<1>3. ASSUME NEW m \in Steady
      PROVE  FileKept(m)' /\ ReservedKept(m)' /\ SelectKept(m)'
  <2>1. FileKept(m) /\ SelectKept(m)
    BY DEF Files
  <2>2. FileKept(m)' /\ SelectKept(m)'
    BY <1>1, <2>1 DEF FileKept, SelectKept, Held
  <2>3. ReservedKept(m)'
    <3>1. /\ u \in Nodes /\ head \in [Nodes -> Revisions]
          /\ session'.input = InputOf(head, u) /\ Chain(u) \subseteq Nodes
      BY EditorAssumption, Chains DEF Types, BranchTypes, Reserve
    <3>2. /\ session'.input.node = u
          /\ \A x \in Chain(u) : session'.input.text[x] = head[x]
      BY <3>1, InputsOf
    <3>3. \A x \in Chain(u) : Held(x, session'.input.text[x])
      BY <3>2 DEF Held
    <3>. QED
      BY <1>1, <3>2, <3>3 DEF ReservedKept, Held
  <2>. QED
    BY <2>2, <2>3
<1>4. ASSUME NEW v \in Docs, NEW m \in DepsOf[v], m \in Steady
      PROVE  PreparedKept(v, m)' /\ EnvironmentKept(v, m)'
  <2>1. PreparedKept(v, m) /\ EnvironmentKept(v, m)
    BY <1>4 DEF Files
  <2>. QED
    BY <1>1, <2>1 DEF PreparedKept, EnvironmentKept, Held
<1>. QED
  BY <1>1, <1>2, <1>3, <1>4 DEF Files

LEMMA ConnectFiles ==
  ASSUME Types, Files, Connect
  PROVE  Files'
<1>. PICK input : input = session.input
  OBVIOUS
<1>1. /\ session.stage = "reserved" /\ session'.stage = "connected"
      /\ UNCHANGED <<head, past, returned, custom>>
      /\ observer' = Prepared(NoObserver, input)
      /\ disk' = [n \in Nodes |-> IF n \in DOMAIN input.text THEN input.text[n] ELSE None]
      /\ sources' = disk'
      /\ \A m, x : Held(m, x)' <=> Held(m, x)
      /\ Steady' = Steady
  BY DEF Connect, branch, Held, Steady
<1>2. custom.stage = "idle" /\ input \in DocInputs
  BY <1>1 DEF Types, Unconnected, SessionTypes, Idle
<1>3. /\ input.node \in Docs /\ DOMAIN input.text = Chain(input.node)
      /\ input.text \in [Chain(input.node) -> Revisions] /\ input # None
      /\ Chain(input.node) \subseteq Nodes /\ DepsOf[input.node] \subseteq Chain(input.node)
  BY <1>2, DocInputFields, Chains DEF Chain
<1>4. /\ observer'.documents = NoObserver.documents
      /\ \A u \in Docs : observer'.prepared[u]
           = IF u = input.node THEN input ELSE NoObserver.prepared[u]
  <2>1. NoObserver \in ObserverRecords /\ \A n \in Nodes : NoObserver.keys[n] \in Inputs(n) \cup {None}
    BY DEF NoObserver, ObserverRecords
  <2>. QED
    BY <1>1, <1>2, <2>1, PreparedFields
<1>5. \A m \in Chain(input.node) : sources'[m] = input.text[m] /\ disk'[m] = input.text[m]
  BY <1>1, <1>3
<1>6. \A m \in Nodes \ Chain(input.node) : sources'[m] = None
  BY <1>1, <1>3
<1>7. ASSUME NEW m \in Steady, m \in Chain(input.node)
      PROVE  Held(m, input.text[m])
  BY <1>1, <1>7 DEF Files, ReservedKept
<1>8. RefreshKept' /\ \A m : ReservedKept(m)' /\ SelectKept(m)'
  BY <1>1, <1>2 DEF RefreshKept, ReservedKept, SelectKept
<1>9. ASSUME NEW m \in Steady
      PROVE  FileKept(m)'
  <2>1. head[m] \notin past[m] /\ head[m] # None /\ m \in Nodes
    BY EditorAssumption DEF Files, FileKept, Types, BranchTypes, Steady
  <2>2. CASE m \in Chain(input.node)
    <3>1. /\ sources'[m] = input.text[m] /\ disk'[m] = input.text[m]
          /\ Held(m, input.text[m])
      BY <1>5, <1>7, <2>2
    <3>. QED
      BY <1>1, <2>1, <3>1 DEF FileKept, Held
  <2>3. CASE m \notin Chain(input.node)
    BY <1>1, <1>6, <2>1, <2>3 DEF FileKept
  <2>. QED
    BY <2>2, <2>3
<1>10. ASSUME NEW u \in Docs, NEW m \in DepsOf[u], m \in Steady
       PROVE  PreparedKept(u, m)' /\ EnvironmentKept(u, m)'
  <2>1. CASE u = input.node
    <3>1. /\ observer'.prepared[u] = input /\ m \in Chain(input.node)
          /\ sources'[m] = input.text[m] /\ Held(m, input.text[m])
      BY <1>3, <1>4, <1>5, <1>7, <1>10, <2>1
    <3>2. PreparedKept(u, m)'
      BY <1>1, <3>1 DEF PreparedKept, Held
    <3>. QED
      BY <1>4, <3>2 DEF EnvironmentKept, Doc, NoObserver
  <2>2. CASE u # input.node
    BY <1>4, <2>2 DEF PreparedKept, EnvironmentKept, Doc, NoObserver
  <2>. QED
    BY <2>1, <2>2
<1>. QED
  BY <1>1, <1>8, <1>9, <1>10 DEF Files

LEMMA DisconnectFiles ==
  ASSUME Types, Files, Disconnect
  PROVE  Files'
<1>1. /\ UNCHANGED <<head, past, returned>> /\ session'.stage = "over" /\ custom' = Idle
      /\ sources' = [n \in Nodes |-> None] /\ observer' = NoObserver /\ Steady' = Steady
  BY DEF Disconnect, branch, Steady
<1>2. RefreshKept' /\ \A m : ReservedKept(m)' /\ SelectKept(m)'
  BY <1>1 DEF RefreshKept, ReservedKept, SelectKept, Idle
<1>3. ASSUME NEW m \in Steady
      PROVE  FileKept(m)'
  <2>1. head[m] \notin past[m] /\ head[m] # None /\ m \in Nodes
    BY EditorAssumption DEF Files, FileKept, Types, BranchTypes, Steady
  <2>. QED
    BY <1>1, <2>1 DEF FileKept
<1>4. \A u \in Docs : \A m : PreparedKept(u, m)' /\ EnvironmentKept(u, m)'
  BY <1>1 DEF PreparedKept, EnvironmentKept, NoObserver, Doc
<1>. QED
  BY <1>1, <1>2, <1>3, <1>4 DEF Files

\* Steps that leave the branch and the workspace alone.
LEMMA SameFiles ==
  ASSUME Files, UNCHANGED <<branch, session, workspace>>,
         observer'.prepared = observer.prepared,
         custom' = custom \/ custom'.stage # "refreshing",
         \A u \in Docs : \A m \in DepsOf[u] \cap Steady : EnvironmentKept(u, m)'
  PROVE  Files'
<1>1. /\ UNCHANGED <<head, past, returned, session, disk, sources>> /\ Steady' = Steady
  BY DEF branch, workspace, Steady
<1>2. RefreshKept'
  BY <1>1 DEF Files, RefreshKept
<1>3. ASSUME NEW m \in Steady
      PROVE  FileKept(m)' /\ ReservedKept(m)' /\ SelectKept(m)'
  <2>1. FileKept(m) /\ ReservedKept(m) /\ SelectKept(m)
    BY DEF Files
  <2>. QED
    BY <1>1, <2>1 DEF FileKept, ReservedKept, SelectKept, Held
<1>4. ASSUME NEW u \in Docs, NEW m \in DepsOf[u], m \in Steady
      PROVE  PreparedKept(u, m)'
  <2>1. PreparedKept(u, m)
    BY <1>4 DEF Files
  <2>. QED
    BY <1>1, <2>1 DEF PreparedKept, Held
<1>. QED
  BY <1>1, <1>2, <1>3, <1>4 DEF Files

\* A document whose worker has loaded no other files.
LEMMA EnvironmentStays ==
  ASSUME Files, UNCHANGED <<branch, workspace>>, NEW u \in Docs,
         NEW m \in DepsOf[u] \cap Steady,
         Doc(u)' # None =>
           Doc(u) # None /\ Doc(u)'.environment = Doc(u).environment,
         Serves(u)' /\ lean'[u] # None /\ lean'[u].env # None =>
           Serves(u) /\ lean[u] # None /\ lean'[u].env = lean[u].env
  PROVE  EnvironmentKept(u, m)'
<1>1. UNCHANGED <<head, past, sources>>
  BY DEF branch, workspace
<1>2. EnvironmentKept(u, m)
  BY DEF Files
<1>. QED
  BY <1>1, <1>2 DEF EnvironmentKept, Held

\* Steps that only go on with a request.
LEMMA BridgeFiles ==
  ASSUME Files, UNCHANGED <<branch, session, workspace, observer, native>>,
         custom' = custom \/ custom'.stage # "refreshing"
  PROVE  Files'
<1>1. /\ toLean' = toLean /\ lean' = lean
      /\ \A v : Doc(v)' = Doc(v)
      /\ \A v : Serves(v)' <=> Serves(v)
  BY DEF native, Doc, Serves, Latest
<1>2. \A u \in Docs : \A m \in DepsOf[u] \cap Steady : EnvironmentKept(u, m)'
  BY <1>1, EnvironmentStays
<1>. QED
  BY <1>2, SameFiles

\* Messages of the browser that open nothing.
LEMMA ForwardFiles ==
  ASSUME Types, Types', Files, NEW m, m \in ToLean, Forward(m), m.kind # "open",
         observer'.prepared = observer.prepared,
         \A v \in Docs : Doc(v)' # None =>
           Doc(v) # None /\ Doc(v)'.environment = Doc(v).environment
  PROVE  Files'
<1>1. /\ Sends(m) /\ QueueTypes /\ lean' = lean
      /\ UNCHANGED <<branch, session, workspace, custom>>
  BY TypesParts DEF Forward, Sends
<1>2. ASSUME NEW u \in Docs
      PROVE  Serves(u)' => Serves(u)
  <2>1. /\ ~ Starts(m, u) => \A k \in Nat : Latest(u, k)' <=> Latest(u, k)
        /\ Starts(m, u) => \A k \in Nat : Latest(u, k)' <=> k > Len(toLean)
    BY <1>1, SentLatest
  <2>2. Len(toLean) \in Nat
    BY <1>1 DEF QueueTypes
  <2>3. CASE ~ Starts(m, u)
    <3>1. Latest(u, 0)' <=> Latest(u, 0)
      BY <2>1, <2>3
    <3>. QED
      BY <3>1 DEF Serves
  <2>4. CASE Starts(m, u)
    <3>1. Latest(u, 0)' <=> 0 > Len(toLean)
      BY <2>1, <2>4
    <3>. QED
      BY <2>2, <3>1 DEF Serves
  <2>. QED
    BY <2>3, <2>4
<1>3. \A u \in Docs : \A x \in DepsOf[u] \cap Steady : EnvironmentKept(u, x)'
  BY <1>1, <1>2, EnvironmentStays
<1>. QED
  BY <1>1, <1>3, SameFiles

LEMMA DidOpenFiles ==
  ASSUME Types, Files, NEW u \in Docs, NEW text \in SourcesOf[u], NEW version \in Versions,
         DidOpen(u, text, version)
  PROVE  Files'
<1>. PICK m : m = [kind |-> "open", uri |-> u, text |-> text, version |-> version]
  OBVIOUS
<1>1. /\ observer'.prepared = observer.prepared
      /\ Doc(u)' = Document(text, version, Environment(observer.prepared[u]))
      /\ \A v \in Docs \ {u} : Doc(v)' = Doc(v)
      /\ m \in ToLean
  BY DidOpenFacts
<1>2. /\ Sends(m) /\ QueueTypes /\ lean' = lean
      /\ UNCHANGED <<branch, session, workspace, custom>>
  BY <1>1, TypesParts DEF DidOpen, Forward, Sends
<1>3. Starts(m, u) /\ \A v \in Docs \ {u} : ~ Starts(m, v)
  BY DEF Starts
<1>4. ASSUME NEW v \in Docs, NEW x \in DepsOf[v] \cap Steady
      PROVE  EnvironmentKept(v, x)'
  <2>1. CASE v # u
    <3>1. \A k \in Nat : Latest(v, k)' <=> Latest(v, k)
      BY <1>2, <1>3, <2>1, SentLatest
    <3>2. Serves(v)' <=> Serves(v)
      BY <3>1 DEF Serves
    <3>. QED
      BY <1>1, <1>2, <2>1, <3>2, EnvironmentStays
  <2>2. CASE v = u
    <3>1. \A k \in Nat : Latest(u, k)' <=> k > Len(toLean)
      BY <1>2, <1>3, SentLatest
    <3>2. ~ Serves(u)'
      BY <1>2, <3>1 DEF Serves, QueueTypes
    <3>3. UNCHANGED <<head, past, sources>>
      BY <1>2 DEF branch, workspace
    <3>4. observer.prepared[u] # None /\ observer.prepared[u].node = u
      <4>1. observer.prepared[u] # None
        BY DEF DidOpen
      <4>2. observer.prepared[u] \in Inputs(u)
        BY <4>1 DEF Types, ObserverTypes
      <4>. QED
        BY <4>1, <4>2 DEF Inputs
    <3>5. Doc(u)'.environment[x] = observer.prepared[u].text[x]
      <4>1. Doc(u)'.environment = [y \in DepsOf[u] |-> observer.prepared[u].text[y]]
        BY <1>1, <3>4 DEF Document, Environment
      <4>. QED
        BY <2>2, <4>1
    <3>6. PreparedKept(u, x)
      BY <2>2 DEF Files
    <3>. QED
      BY <2>2, <3>2, <3>3, <3>4, <3>5, <3>6 DEF EnvironmentKept, PreparedKept, Held
  <2>. QED
    BY <2>1, <2>2
<1>. QED
  BY <1>1, <1>2, <1>4, SameFiles

LEMMA ReceiveFiles ==
  ASSUME Types, Files, Receive
  PROVE  Files'
<1>. PICK m : m = toLean[1]
  OBVIOUS
<1>1. /\ Taken(m)
      /\ \/ TakenOpen(m) \/ TakenChange(m) \/ TakenClose(m)
         \/ TakenWait(m) \/ TakenImports(m) \/ TakenError(m)
  BY ReceiveFacts
<1>2. /\ UNCHANGED <<branch, session, workspace, observer, custom>> /\ Shifted /\ QueueTypes
      /\ \A v : Doc(v)' = Doc(v)
      /\ m.uri \in Docs /\ \A v \in Docs \ {m.uri} : lean'[v] = lean[v]
      /\ lean[m.uri] # None => lean[m.uri] \in WorkerState(m.uri)
  BY <1>1, TypesParts DEF Receive, Taken, Shifted, Doc
<1>3. ASSUME NEW v \in Docs, NEW x \in DepsOf[v] \cap Steady
      PROVE  EnvironmentKept(v, x)'
  <2>1. /\ Serves(v)' <=> Latest(v, 1)
        /\ ~ Starts(m, v) => (Serves(v) <=> Latest(v, 1))
    BY <1>2, PoppedLatest DEF Serves
  <2>2. ASSUME Serves(v)', lean'[v] # None, lean'[v].env # None
        PROVE  Serves(v) /\ lean[v] # None /\ lean'[v].env = lean[v].env
    <3>1. CASE v # m.uri
      <4>1. ~ Starts(m, v)
        BY <3>1 DEF Starts
      <4>. QED
        BY <1>2, <2>1, <2>2, <3>1, <4>1
    <3>2. CASE v = m.uri
      <4>1. CASE TakenOpen(m) \/ TakenClose(m)
        BY <1>1, <2>2, <3>2, <4>1, TakenWorker DEF TakenClose
      <4>2. CASE TakenChange(m)
        <5>1. lean[m.uri] # None /\ ~ Starts(m, v)
          BY <4>2 DEF TakenChange, Starts
        <5>. QED
          BY <1>1, <2>1, <2>2, <3>2, <4>2, <5>1, TakenWorker
      <4>3. CASE TakenWait(m)
        <5>1. lean[m.uri] # None /\ ~ Starts(m, v)
          BY <4>3 DEF TakenWait, Starts
        <5>. QED
          BY <1>1, <1>2, <2>1, <2>2, <3>2, <4>3, <5>1, TakenWorker
      <4>4. CASE TakenImports(m) \/ TakenError(m)
        <5>1. lean' = lean /\ ~ Starts(m, v)
          BY <4>4 DEF TakenImports, TakenError, Starts
        <5>. QED
          BY <2>1, <2>2, <5>1
      <4>. QED
        BY <1>1, <4>1, <4>2, <4>3, <4>4
    <3>. QED
      BY <3>1, <3>2
  <2>. QED
    BY <1>2, <2>2, EnvironmentStays
<1>. QED
  BY <1>2, <1>3, SameFiles

\* A worker finds the files that the bridge has written.
LEMMA LoadFiles ==
  ASSUME Types, Files, NEW u \in Docs, Load(u)
  PROVE  Files'
<1>1. /\ lean[u] \in WorkerState(u)
      /\ lean'[u] = [lean[u] EXCEPT !.env = [m \in DepsOf[u] |-> disk[m]]]
      /\ \A v \in Docs \ {u} : lean'[v] = lean[v]
  BY LoadFacts
<1>2. /\ UNCHANGED <<branch, session, workspace, observer, custom>>
      /\ \A v : Doc(v)' = Doc(v)
      /\ \A v : Serves(v)' <=> Serves(v)
  BY DEF Load, Doc, Serves, Latest
<1>3. lean'[u].env = [m \in DepsOf[u] |-> disk[m]]
  BY <1>1 DEF WorkerState
<1>4. ASSUME NEW v \in Docs, NEW x \in DepsOf[v] \cap Steady
      PROVE  EnvironmentKept(v, x)'
  <2>1. CASE v # u
    BY <1>1, <1>2, <2>1, EnvironmentStays
  <2>2. CASE v = u
    <3>1. EnvironmentKept(v, x) /\ FileKept(x)
      BY DEF Files
    <3>2. UNCHANGED <<head, past, sources>>
      BY <1>2 DEF branch, workspace
    <3>3. lean'[v].env[x] = disk[x]
      BY <1>3, <2>2
    <3>. QED
      BY <1>2, <3>1, <3>2, <3>3 DEF EnvironmentKept, FileKept, Held
  <2>. QED
    BY <2>1, <2>2
<1>. QED
  BY <1>2, <1>4, SameFiles

LEMMA PublishFiles ==
  ASSUME Types, Files, NEW u \in Docs, Publish(u)
  PROVE  Files'
<1>1. /\ lean[u] \in WorkerState(u)
      /\ lean'[u] = [lean[u] EXCEPT !.shown = @ + 1]
      /\ \A v \in Docs \ {u} : lean'[v] = lean[v]
  BY PublishFacts
<1>2. /\ UNCHANGED <<branch, session, workspace, observer, custom>>
      /\ \A v : Doc(v)' = Doc(v)
      /\ \A v : Serves(v)' <=> Serves(v)
      /\ lean[u] # None
  BY DEF Publish, Doc, Serves, Latest
<1>3. lean'[u].env = lean[u].env
  BY <1>1 DEF WorkerState
<1>4. \A v \in Docs : \A x \in DepsOf[v] \cap Steady : EnvironmentKept(v, x)'
  BY <1>1, <1>2, <1>3, EnvironmentStays
<1>. QED
  BY <1>2, <1>4, SameFiles

LEMMA AnswerFiles ==
  ASSUME Types, Files, NEW u \in Docs, lean[u] # None, NEW w \in lean[u].waits, Answer(u, w)
  PROVE  Files'
<1>1. /\ lean[u] \in WorkerState(u)
      /\ lean'[u] = [lean[u] EXCEPT !.waits = @ \ {w}]
      /\ \A v \in Docs \ {u} : lean'[v] = lean[v]
  BY AnswerFacts
<1>2. /\ UNCHANGED <<branch, session, workspace, observer, custom>>
      /\ \A v : Doc(v)' = Doc(v)
      /\ \A v : Serves(v)' <=> Serves(v)
  BY DEF Answer, Doc, Serves, Latest
<1>3. lean'[u].env = lean[u].env
  BY <1>1 DEF WorkerState
<1>4. \A v \in Docs : \A x \in DepsOf[v] \cap Steady : EnvironmentKept(v, x)'
  BY <1>1, <1>2, <1>3, EnvironmentStays
<1>. QED
  BY <1>2, <1>4, SameFiles

LEMMA ObserveFiles ==
  ASSUME Types, Files, Observe
  PROVE  Files'
<1>1. PICK m : /\ Read(m)
               /\ \/ ReadPublished(m) \/ ReadUnasked(m)
                  \/ \E asked : ReadReply(m, asked)
  BY ObserveFacts
<1>2. /\ UNCHANGED <<branch, session, workspace, custom>> /\ lean' = lean
      /\ observer'.prepared = observer.prepared
      /\ \A v : Serves(v)' <=> Serves(v)
  BY <1>1 DEF Observe, Read, Serves, Latest
<1>3. ASSUME NEW v \in Docs, Doc(v)' # None
      PROVE  Doc(v) # None /\ Doc(v)'.environment = Doc(v).environment
  <2>. PICK old : old = Doc(v)
    OBVIOUS
  <2>. PICK new : new = Doc(v)'
    OBVIOUS
  <2>1. /\ v \in Nodes /\ None \notin OpenDocument(v)
        /\ old # None => old \in OpenDocument(v)
    BY EditorAssumption, NoneAssumption, TypesParts
  <2>2. \/ new = old
        \/ old # None /\ \E d : new = [old EXCEPT !.diagnostics = d]
        \/ old # None /\ new = [old EXCEPT !.complete = TRUE]
        \/ old # None /\ \E t : new = [old EXCEPT !.imports = t]
    <3>1. CASE ReadPublished(m)
      <4>1. CASE v = m.uri
        <5>1. new = Noted(old, m)
          BY <3>1, <4>1 DEF ReadPublished
        <5>. DEFINE said == IF m.incremental THEN Append(old.diagnostics, m.part)
                            ELSE <<m.part>>
        <5>2. new = IF old = None \/ old.version # m.version THEN old
                    ELSE [old EXCEPT !.diagnostics = said]
          BY <5>1 DEF Noted
        <5>. HIDE DEF said
        <5>. QED
          BY <5>2
      <4>2. CASE v # m.uri
        BY <3>1, <4>2 DEF ReadPublished
      <4>. QED
        BY <4>1, <4>2
    <3>2. CASE ReadUnasked(m)
      BY <3>2 DEF ReadUnasked, Doc
    <3>3. ASSUME NEW asked, ReadReply(m, asked)
          PROVE  \/ new = old
                 \/ old # None /\ new = [old EXCEPT !.complete = TRUE]
                 \/ old # None /\ \E t : new = [old EXCEPT !.imports = t]
      <4>1. CASE v = asked.uri
        <5>1. new = ReplyTo(old, asked, m)
          BY <3>3, <4>1 DEF ReadReply
        <5>. QED
          BY <5>1 DEF ReplyTo, Completed, Imported, ReadyForImports
      <4>2. CASE v # asked.uri
        BY <3>3, <4>2 DEF ReadReply
      <4>. QED
        BY <4>1, <4>2
    <3>. QED
      BY <1>1, <3>1, <3>2, <3>3
  <2>3. old # None
    BY <1>3, <2>2
  <2>4. new.environment = old.environment
    BY <2>1, <2>2, <2>3 DEF OpenDocument
  <2>. QED
    BY <2>3, <2>4
<1>4. \A v \in Docs : \A x \in DepsOf[v] \cap Steady : EnvironmentKept(v, x)'
  BY <1>2, <1>3, EnvironmentStays
<1>. QED
  BY <1>2, <1>4, SameFiles

\* Steps that change the files or what the bridge has prepared, and nothing
\* that is open, said or served.
LEMMA SourcesFiles ==
  ASSUME Files, UNCHANGED <<branch, toLean, lean>>,
         observer'.documents = observer.documents, session' = session,
         session.stage # "reserved", RefreshKept',
         \A m \in Steady :
           /\ SelectKept(m)'
           /\ FileKept(m) => FileKept(m)'
           /\ sources[m] = head[m] => sources'[m] = head[m],
         \A u \in Docs : \A m \in DepsOf[u] \cap Steady : PreparedKept(u, m)'
  PROVE  Files'
<1>1. /\ UNCHANGED <<head, past, returned>> /\ Steady' = Steady
      /\ \A v : Doc(v)' = Doc(v)
      /\ \A v : Serves(v)' <=> Serves(v)
  BY DEF branch, Steady, Doc, Serves, Latest
<1>2. ASSUME NEW u \in Docs, NEW m \in DepsOf[u], m \in Steady
      PROVE  EnvironmentKept(u, m)'
  <2>1. EnvironmentKept(u, m)
    BY <1>2 DEF Files
  <2>2. sources[m] = head[m] => sources'[m] = head[m]
    BY <1>2
  <2>. QED
    BY <1>1, <2>1, <2>2 DEF EnvironmentKept, Held
<1>3. \A m : ReservedKept(m)'
  BY DEF ReservedKept
<1>4. \A m \in Steady : FileKept(m)'
  BY DEF Files
<1>. QED
  BY <1>1, <1>2, <1>3, <1>4 DEF Files

LEMMA SelectFiles ==
  ASSUME Types, Files, NEW u \in Docs, SelectNode(u)
  PROVE  Files'
<1>1. /\ custom'.stage = "refreshing" /\ custom'.left = Chain(u)
      /\ custom'.input.node = u
      /\ \A m \in Chain(u) : custom'.input.text[m] = head[m]
  BY SelectFacts
<1>2. /\ UNCHANGED <<branch, session, workspace, observer, native>>
      /\ session.stage = "connected"
  BY DEF SelectNode, Begin
<1>3. UNCHANGED <<head, past, disk, sources, toLean, lean>>
  BY <1>2 DEF branch, workspace, native
<1>4. RefreshKept'
  BY <1>1 DEF RefreshKept
<1>5. ASSUME NEW m \in Steady
      PROVE  SelectKept(m)' /\ (FileKept(m) => FileKept(m)')
  BY <1>1, <1>3 DEF SelectKept, FileKept, Held
<1>6. ASSUME NEW v \in Docs, NEW m \in DepsOf[v] \cap Steady
      PROVE  PreparedKept(v, m)'
  <2>1. PreparedKept(v, m)
    BY DEF Files
  <2>. QED
    BY <1>2, <1>3, <2>1 DEF PreparedKept, Held
<1>. QED
  BY <1>2, <1>3, <1>4, <1>5, <1>6, SourcesFiles

\* A file that is written has the source that was there when the node was
\* selected, so that what is known to be present stays present.
LEMMA RefreshFiles ==
  ASSUME Types, Files, Refresh
  PROVE  Files'
<1>. PICK n : n = Next1
  OBVIOUS
<1>. PICK text : text = custom.input.text[n]
  OBVIOUS
<1>1. /\ custom'.stage = "refreshing" /\ custom'.input = custom.input
      /\ custom'.left = custom.left \ {n}
      /\ \A m \in Nodes \ {n} : disk'[m] = disk[m] /\ sources'[m] = sources[m]
      /\ sources'[n] = text
      /\ disk'[n] = IF sources[n] = text THEN disk[n] ELSE text
  BY RefreshFacts
<1>2. /\ UNCHANGED <<branch, session, observer, native>> /\ custom.stage = "refreshing"
      /\ n \in Chain(custom.input.node) /\ n \in Nodes /\ n \in custom.left
      /\ session.stage = "connected" /\ custom.input.node \in Docs
  BY NextFile, CustomFields, DocInputFields DEF Refresh
<1>3. UNCHANGED <<head, past, toLean, lean>>
  BY <1>2 DEF branch, native
<1>4. Chain(custom.input.node) \subseteq Nodes
  BY <1>2, EditorAssumption, Chains
<1>5. RefreshKept'
  <2>1. ASSUME NEW m \in Chain(custom.input.node), m \notin custom.left \/ m = n
        PROVE  sources'[m] = custom.input.text[m]
    <3>1. m # n => sources[m] = custom.input.text[m]
      BY <1>2, <2>1 DEF Files, RefreshKept
    <3>. QED
      BY <1>1, <1>4, <3>1
  <2>. QED
    BY <1>1, <2>1 DEF RefreshKept
<1>6. ASSUME NEW m \in Steady
      PROVE  /\ SelectKept(m)' /\ (FileKept(m) => FileKept(m)')
             /\ sources[m] = head[m] => sources'[m] = head[m]
  <2>1. SelectKept(m) /\ m \in Nodes
    BY DEF Files, Steady
  <2>2. CASE m # n
    <3>1. disk'[m] = disk[m] /\ sources'[m] = sources[m]
      BY <1>1, <2>1, <2>2
    <3>. QED
      BY <1>1, <1>2, <1>3, <2>1, <3>1 DEF SelectKept, FileKept, Held
  <2>3. CASE m = n
    <3>1. Held(m, text) /\ (sources[m] = head[m] => text = head[m])
      BY <1>2, <2>1, <2>3 DEF SelectKept
    <3>2. SelectKept(m)'
      BY <1>1, <1>3, <2>3, <3>1 DEF SelectKept, Held
    <3>3. FileKept(m) => FileKept(m)'
      BY <1>1, <1>3, <2>3, <3>1 DEF FileKept, Held
    <3>. QED
      BY <1>1, <2>3, <3>1, <3>2, <3>3
  <2>. QED
    BY <2>2, <2>3
<1>7. ASSUME NEW v \in Docs, NEW m \in DepsOf[v] \cap Steady
      PROVE  PreparedKept(v, m)'
  <2>1. PreparedKept(v, m) /\ m \in Steady
    BY DEF Files
  <2>2. sources[m] = head[m] => sources'[m] = head[m]
    BY <1>6, <2>1
  <2>. QED
    BY <1>2, <1>3, <2>1, <2>2 DEF PreparedKept, Held
<1>8. session.stage # "reserved" /\ session' = session
      /\ observer'.documents = observer.documents /\ UNCHANGED <<branch, toLean, lean>>
  BY <1>2, <1>3
<1>. QED
  BY <1>5, <1>6, <1>7, <1>8, SourcesFiles

LEMMA PrepareFiles ==
  ASSUME Types, Files, Prepare
  PROVE  Files'
<1>. PICK input : input = custom.input
  OBVIOUS
<1>1. /\ custom' = Idle /\ input \in DocInputs
      /\ observer'.documents = observer.documents
      /\ \A u \in Docs : observer'.prepared[u]
           = IF u = input.node THEN input ELSE observer.prepared[u]
  BY PrepareFacts
<1>2. /\ UNCHANGED <<branch, session, workspace, native>> /\ custom.stage = "refreshing"
      /\ custom.left = {} /\ session.stage = "connected"
  BY CustomFields DEF Prepare
<1>3. UNCHANGED <<head, past, disk, sources, toLean, lean>>
  BY <1>2 DEF branch, workspace, native
<1>4. RefreshKept'
  BY <1>1 DEF RefreshKept, Idle
<1>5. ASSUME NEW m \in Steady
      PROVE  SelectKept(m)' /\ (FileKept(m) => FileKept(m)')
  BY <1>1, <1>3 DEF SelectKept, FileKept, Held, Idle
<1>6. ASSUME NEW v \in Docs, NEW m \in DepsOf[v], m \in Steady
      PROVE  PreparedKept(v, m)'
  <2>1. PreparedKept(v, m) /\ SelectKept(m) /\ RefreshKept
    BY <1>6 DEF Files
  <2>2. CASE v = input.node
    <3>1. m \in Chain(input.node)
      BY <1>6, <2>2 DEF Chain
    <3>2. Held(m, input.text[m]) /\ sources[m] = input.text[m]
      BY <1>2, <2>1, <3>1 DEF SelectKept, RefreshKept
    <3>3. observer'.prepared[v] = input
      BY <1>1, <2>2
    <3>. QED
      BY <1>3, <3>2, <3>3 DEF PreparedKept, Held
  <2>3. CASE v # input.node
    BY <1>1, <1>3, <2>1, <2>3 DEF PreparedKept, Held
  <2>. QED
    BY <2>2, <2>3
<1>7. session.stage # "reserved" /\ session' = session
      /\ UNCHANGED <<branch, toLean, lean>>
  BY <1>2, <1>3
<1>. QED
  BY <1>1, <1>3, <1>4, <1>5, <1>6, <1>7, SourcesFiles

\* A request that is cut short may have written a file; it has the source that
\* was there when the node was selected.
LEMMA TimeOutFiles ==
  ASSUME Types, Files, TimeOut
  PROVE  Files'
<1>1. /\ custom' = Idle /\ sources' = sources
      /\ \A m \in Nodes :
           \/ disk'[m] = disk[m]
           \/ /\ custom.stage = "refreshing" /\ m \in Chain(custom.input.node)
              /\ disk'[m] = custom.input.text[m]
  BY TimeOutFacts
<1>2. UNCHANGED <<branch, session, observer, native>> /\ session.stage = "connected"
  BY CustomFields DEF TimeOut
<1>3. UNCHANGED <<head, past, toLean, lean>>
  BY <1>2 DEF branch, native
<1>4. RefreshKept' /\ \A m : SelectKept(m)'
  BY <1>1 DEF RefreshKept, SelectKept, Idle
<1>5. ASSUME NEW m \in Steady, FileKept(m)
      PROVE  FileKept(m)'
  <2>1. SelectKept(m) /\ m \in Nodes
    BY DEF Files, Steady
  <2>2. \/ disk'[m] = disk[m]
        \/ /\ custom.stage = "refreshing" /\ m \in Chain(custom.input.node)
           /\ disk'[m] = custom.input.text[m]
    BY <1>1, <2>1
  <2>. QED
    BY <1>1, <1>3, <1>5, <2>1, <2>2 DEF FileKept, SelectKept, Held
<1>6. ASSUME NEW v \in Docs, NEW m \in DepsOf[v] \cap Steady
      PROVE  PreparedKept(v, m)'
  <2>1. PreparedKept(v, m)
    BY DEF Files
  <2>. QED
    BY <1>1, <1>2, <1>3, <2>1 DEF PreparedKept, Held
<1>7. session.stage # "reserved" /\ session' = session
      /\ observer'.documents = observer.documents /\ UNCHANGED <<branch, toLean, lean>>
  BY <1>2, <1>3
<1>. QED
  BY <1>1, <1>3, <1>4, <1>5, <1>6, <1>7, SourcesFiles

-----------------------------------------------------------------------------
(***************************************************************************)
(* Certificates.                                                           *)
(***************************************************************************)
\* What a complete document has been told is all that its worker has to say
\* of the document's source.
LEMMA CompleteVerdict ==
  ASSUME Types, NEW u \in Docs, Doc(u) # None, DocumentKept(u), Doc(u).complete
  PROVE  /\ Serves(u) /\ lean[u] # None /\ lean[u].env # None
         /\ lean[u].env \in [DepsOf[u] -> Revisions]
         /\ Doc(u).diagnostics = Verdict(Doc(u).source, lean[u].env)
<1>1. Done(u, 0) /\ SaidKept(u) /\ QueueKept(u)
  BY DEF DocumentKept, ReadKept
<1>2. /\ Arrived(u) /\ Serves(u) /\ lean[u] # None /\ lean[u].shown = 2
      /\ lean[u].text = Doc(u).source
  BY <1>1 DEF Done, Arrived, QueueKept, WorkerKept
<1>3. Whole(u, Len(fromLean) + 1) /\ Silent(u, 0, Len(fromLean) + 1)
  BY <1>1, <1>2 DEF SaidKept, Done
<1>4. DOMAIN fromLean = 1 .. Len(fromLean) /\ Len(fromLean) \in Nat
  BY TypesParts
<1>5. \A j \in DOMAIN fromLean : ~ Counts(fromLean[j], u)
  BY <1>3, <1>4 DEF Silent
<1>6. Doc(u).diagnostics = <<PartOf(u, 1), PartOf(u, 2)>>
  BY <1>3, <1>5 DEF Whole
<1>7. lean[u].env # None /\ lean[u].env \in [DepsOf[u] -> Revisions]
  <2>1. lean[u] \in WorkerState(u) /\ lean[u].env # None
    BY <1>2 DEF Types, NativeTypes, LeanTypes
  <2>. QED
    BY <2>1, WorkerFields
<1>8. Verdict(Doc(u).source, lean[u].env) = <<PartOf(u, 1), PartOf(u, 2)>>
  BY <1>2 DEF Verdict, PartOf
<1>. QED
  BY <1>2, <1>6, <1>7, <1>8

LEMMA CertifyCertificate ==
  ASSUME Types, Talk, Files, NEW u \in Docs, NEW version \in Versions, Certify(u, version)
  PROVE  Certificate'
<1>1. /\ custom'.input = InputOf(head, u) /\ custom'.input.node = u
      /\ custom'.diagnostics = Doc(u).diagnostics /\ custom'.imports = Doc(u).imports
      /\ Doc(u) # None /\ Doc(u).complete /\ Doc(u).imports # None
      /\ Doc(u).source = InputOf(head, u).text[u]
      /\ Doc(u).environment = Environment(InputOf(head, u))
      /\ \A m \in Chain(u) : custom'.input.text[m] = head[m]
  BY CertifyFacts
<1>2. DocumentKept(u)
  BY DEF Talk
<1>. PICK env : env = lean[u].env
  OBVIOUS
<1>. PICK text : text = InputOf(head, u).text
  OBVIOUS
<1>3. /\ Serves(u) /\ lean[u] # None /\ env # None /\ env \in [DepsOf[u] -> Revisions]
      /\ Doc(u).diagnostics = Verdict(text[u], env)
  BY <1>1, <1>2, CompleteVerdict
<1>4. Doc(u).imports = text[u]
  BY <1>1, <1>2 DEF DocumentKept, ReadKept
<1>5. Steady' = Steady
  BY DEF Certify, Begin, branch, Steady
<1>6. ASSUME NEW m \in DepsOf[u] \cap Steady
      PROVE  env[m] = text[m]
  <2>1. text[m] = head[m] /\ Doc(u).environment[m] = text[m]
    <3>1. m \in Chain(u)
      BY DEF Chain
    <3>2. Environment(InputOf(head, u)) = [x \in DepsOf[u] |-> text[x]]
      BY <1>1 DEF Environment
    <3>. QED
      BY <1>1, <3>1, <3>2
  <2>2. EnvironmentKept(u, m)
    BY DEF Files
  <2>. QED
    BY <1>1, <1>3, <2>1, <2>2 DEF EnvironmentKept
<1>7. /\ custom'.input.text = text /\ custom'.imports = text[u]
      /\ custom'.diagnostics = Verdict(text[u], env)
  BY <1>1, <1>3, <1>4
<1>8. /\ custom'.imports = custom'.input.text[custom'.input.node]
      /\ \E e \in [DepsOf[custom'.input.node] -> Revisions] :
           /\ custom'.diagnostics = Verdict(custom'.input.text[custom'.input.node], e)
           /\ \A m \in DepsOf[custom'.input.node] \cap Steady' :
                e[m] = custom'.input.text[m]
  BY <1>1, <1>3, <1>5, <1>6, <1>7
<1>. QED
  BY <1>8 DEF Certificate, Verdict

\* A certificate that is being made stays what it is.
LEMMA SameCertificate ==
  ASSUME Certificate, returned \subseteq returned',
         \/ custom' = custom
         \/ custom'.stage \notin {"recording", "recorded"}
         \/ /\ custom.stage = "recording" /\ custom'.input = custom.input
            /\ custom'.diagnostics = custom.diagnostics /\ custom'.imports = custom.imports
  PROVE  Certificate'
<1>1. Steady' \subseteq Steady
  BY DEF Steady
<1>2. SUFFICES ASSUME custom'.stage \in {"recording", "recorded"}
               PROVE  Certificate'
  BY DEF Certificate
<1>3. /\ custom.stage \in {"recording", "recorded"} /\ custom'.input = custom.input
      /\ custom'.diagnostics = custom.diagnostics /\ custom'.imports = custom.imports
  BY <1>2
<1>. PICK u : u = custom.input.node
  OBVIOUS
<1>. PICK text : text = custom.input.text
  OBVIOUS
<1>4. /\ custom.imports = text[u]
      /\ \E env \in [DepsOf[u] -> Revisions] :
           /\ custom.diagnostics = Verdict(text[u], env)
           /\ \A m \in DepsOf[u] \cap Steady : env[m] = text[m]
  BY <1>3 DEF Certificate
<1>5. PICK env \in [DepsOf[u] -> Revisions] :
           /\ custom.diagnostics = Verdict(text[u], env)
           /\ \A m \in DepsOf[u] \cap Steady : env[m] = text[m]
  BY <1>4
<1>6. \A m \in DepsOf[u] \cap Steady' : env[m] = text[m]
  BY <1>1, <1>5
<1>7. /\ custom'.imports = custom'.input.text[custom'.input.node]
      /\ \E e \in [DepsOf[custom'.input.node] -> Revisions] :
           /\ custom'.diagnostics = Verdict(custom'.input.text[custom'.input.node], e)
           /\ \A m \in DepsOf[custom'.input.node] \cap Steady' :
                e[m] = custom'.input.text[m]
  BY <1>3, <1>4, <1>5, <1>6
<1>. QED
  BY <1>7 DEF Certificate, Verdict

-----------------------------------------------------------------------------
(***************************************************************************)
(* The theorems.                                                           *)
(***************************************************************************)
LEMMA InitInductive == Init => Inductive
<1>. SUFFICES ASSUME Init PROVE Inductive
  OBVIOUS
<1>1. Talk
  BY EmptyTalk DEF Init, NoObserver, Doc
<1>2. Certificate
  BY DEF Init, Idle, Certificate
<1>3. reused \in BOOLEAN
  BY DEF Init
<1>. QED
  BY <1>1, <1>2, <1>3, InitTypes, InitFiles DEF Inductive, Exact

\* A step under which no identifier is used again, or its session is over.
LEMMA Stays ==
  ASSUME Inductive, Types', Files', reused' = reused, Exact => Exact'
  PROVE  Inductive'
BY DEF Inductive

\* A request: if its identifier is in use, nothing is claimed any more.
LEMMA Requested ==
  ASSUME Inductive, Types', Files', NEW i \in Ids, reused' = (reused \/ InUse(i)),
         Exact /\ ~ InUse(i) => Exact'
  PROVE  Inductive'
<1>1. reused' \in BOOLEAN
  BY DEF Inductive, InUse
<1>2. ~ reused' => ~ reused /\ ~ InUse(i)
  OBVIOUS
<1>. QED
  BY <1>1, <1>2 DEF Inductive

\* A message of the browser.
LEMMA BrowserInductive ==
  ASSUME Inductive, Browser
  PROVE  Inductive'
<1>1. Types /\ Files /\ (Exact => Talk /\ Certificate)
  BY DEF Inductive, Exact
<1>2. ASSUME NEW m, Forward(m)
      PROVE  Certificate => Certificate'
  BY <1>1, <1>2, SameCertificate DEF Forward, branch
<1>3. ASSUME NEW u \in Docs, NEW text \in SourcesOf[u], NEW version \in Versions,
             DidOpen(u, text, version)
      PROVE  Inductive'
  <2>1. Types' /\ Files' /\ reused' = reused
    BY <1>1, <1>3, DidOpenFacts, DidOpenFiles DEF DidOpen
  <2>2. Exact => Exact'
    BY <1>1, <1>2, <1>3, DidOpenTalk DEF Exact, DidOpen
  <2>. QED
    BY <2>1, <2>2, Stays
<1>4. ASSUME NEW u \in Docs, NEW text \in SourcesOf[u], NEW version \in Versions,
             DidChange(u, text, version)
      PROVE  Inductive'
  <2>. PICK m : m = [kind |-> "change", uri |-> u, text |-> text, version |-> version]
    OBVIOUS
  <2>1. /\ Types' /\ observer'.prepared = observer.prepared
        /\ Doc(u)' = Document(text, version, Doc(u).environment)
        /\ \A v \in Docs \ {u} : Doc(v)' = Doc(v)
        /\ m \in ToLean /\ Forward(m) /\ Doc(u) # None
    BY <1>1, <1>4, DidChangeFacts DEF DidChange, Doc
  <2>2. \A v \in Docs : Doc(v)' # None =>
           Doc(v) # None /\ Doc(v)'.environment = Doc(v).environment
    BY <2>1 DEF Document
  <2>3. Files'
    BY <1>1, <2>1, <2>2, ForwardFiles
  <2>4. Exact => Exact'
    BY <1>1, <1>2, <1>4, <2>1, DidChangeTalk DEF Exact
  <2>. QED
    BY <1>4, <2>1, <2>3, <2>4, Stays DEF DidChange
<1>5. ASSUME NEW u \in Docs, DidClose(u)
      PROVE  Inductive'
  <2>. PICK m : m = [kind |-> "close", uri |-> u]
    OBVIOUS
  <2>1. /\ Types' /\ observer'.prepared = observer.prepared
        /\ Doc(u)' = None /\ \A v \in Docs \ {u} : Doc(v)' = Doc(v)
        /\ m \in ToLean /\ Forward(m)
    BY <1>1, <1>5, DidCloseFacts DEF DidClose
  <2>2. \A v \in Docs : Doc(v)' # None =>
           Doc(v) # None /\ Doc(v)'.environment = Doc(v).environment
    BY <2>1
  <2>3. Files'
    BY <1>1, <2>1, <2>2, ForwardFiles
  <2>4. Exact => Exact'
    BY <1>1, <1>2, <1>5, <2>1, DidCloseTalk DEF Exact
  <2>. QED
    BY <1>5, <2>1, <2>3, <2>4, Stays DEF DidClose
<1>6. ASSUME NEW i \in Ids, NEW u \in Docs, NEW version \in Versions,
             WaitForDiagnostics(i, u, version)
      PROVE  Inductive'
  <2>. PICK m : m = [kind |-> "wait", id |-> i, uri |-> u, version |-> version]
    OBVIOUS
  <2>1. /\ Types' /\ observer'.prepared = observer.prepared
        /\ observer'.documents = observer.documents
        /\ m \in ToLean /\ Forward(m)
    BY <1>1, <1>6, WaitFacts DEF WaitForDiagnostics
  <2>2. Files'
    BY <1>1, <2>1, ForwardFiles DEF Doc
  <2>3. Exact /\ ~ InUse(i) => Exact'
    BY <1>1, <1>2, <1>6, <2>1, WaitTalk DEF Exact
  <2>4. reused' = (reused \/ InUse(i))
    BY <1>6 DEF WaitForDiagnostics
  <2>. QED
    BY <2>1, <2>2, <2>3, <2>4, Requested
<1>7. ASSUME NEW i \in Ids, NEW u \in Docs, ModuleImports(i, u)
      PROVE  Inductive'
  <2>. PICK m : m = [kind |-> "imports", id |-> i, uri |-> u]
    OBVIOUS
  <2>1. /\ Types' /\ observer'.prepared = observer.prepared
        /\ observer'.documents = observer.documents
        /\ m \in ToLean /\ Forward(m)
    BY <1>1, <1>7, ImportsFacts DEF ModuleImports
  <2>2. Files'
    BY <1>1, <2>1, ForwardFiles DEF Doc
  <2>3. Exact /\ ~ InUse(i) => Exact'
    BY <1>1, <1>2, <1>7, <2>1, ImportsTalk DEF Exact
  <2>4. reused' = (reused \/ InUse(i))
    BY <1>7 DEF ModuleImports
  <2>. QED
    BY <2>1, <2>2, <2>3, <2>4, Requested
<1>8. ASSUME NEW u \in Docs, SelectNode(u)
      PROVE  Inductive'
  <2>1. Types' /\ custom'.stage = "refreshing"
    BY <1>1, <1>8, SelectFacts
  <2>2. UNCHANGED <<branch, session, workspace, observer, reused, native>>
    BY <1>8 DEF SelectNode, Begin
  <2>3. Talk => Talk'
    BY <2>2, QuietTalk
  <2>4. Certificate => Certificate'
    BY <2>1, <2>2, SameCertificate DEF branch
  <2>5. Files'
    BY <1>1, <1>8, SelectFiles
  <2>. QED
    BY <2>1, <2>2, <2>3, <2>4, <2>5, Stays DEF Exact
<1>9. ASSUME NEW u \in Docs, NEW version \in Versions, Certify(u, version)
      PROVE  Inductive'
  <2>1. Types' /\ custom'.stage = "recording"
    BY <1>1, <1>9, CertifyFacts
  <2>2. UNCHANGED <<branch, session, workspace, observer, reused, native>>
    BY <1>9 DEF Certify, Begin
  <2>3. Talk => Talk'
    BY <2>2, QuietTalk
  <2>4. Files'
    BY <1>1, <2>1, <2>2, BridgeFiles
  <2>5. Exact => Exact'
    BY <1>1, <1>9, <2>3, CertifyCertificate DEF Exact
  <2>. QED
    BY <2>1, <2>2, <2>4, <2>5, Stays
<1>. QED
  BY <1>3, <1>4, <1>5, <1>6, <1>7, <1>8, <1>9 DEF Browser

\* A step of the native server.
LEMMA ServerInductive ==
  ASSUME Inductive, Server
  PROVE  Inductive'
<1>1. Types /\ Files /\ (Exact => Talk /\ Certificate)
  BY DEF Inductive, Exact
<1>2. ASSUME UNCHANGED <<branch, custom>>
      PROVE  Certificate => Certificate'
  BY <1>2, SameCertificate DEF branch
<1>3. CASE Receive
  <2>1. Types' /\ Files' /\ reused' = reused /\ UNCHANGED <<branch, custom>>
    BY <1>1, <1>3, ReceiveFacts, ReceiveFiles DEF Receive
  <2>2. Exact => Exact'
    BY <1>1, <1>2, <1>3, <2>1, ReceiveTalk DEF Exact
  <2>. QED
    BY <2>1, <2>2, Stays
<1>4. ASSUME NEW u \in Docs, Load(u)
      PROVE  Inductive'
  <2>1. Types' /\ Files' /\ reused' = reused /\ UNCHANGED <<branch, custom>>
    BY <1>1, <1>4, LoadFacts, LoadFiles DEF Load
  <2>2. Exact => Exact'
    BY <1>1, <1>2, <1>4, <2>1, LoadTalk DEF Exact
  <2>. QED
    BY <2>1, <2>2, Stays
<1>5. ASSUME NEW u \in Docs, Publish(u)
      PROVE  Inductive'
  <2>1. Types' /\ Files' /\ reused' = reused /\ UNCHANGED <<branch, custom>>
    BY <1>1, <1>5, PublishFacts, PublishFiles DEF Publish
  <2>2. Exact => Exact'
    BY <1>1, <1>2, <1>5, <2>1, PublishTalk DEF Exact
  <2>. QED
    BY <2>1, <2>2, Stays
<1>6. ASSUME NEW u \in Docs, lean[u] # None, NEW w \in lean[u].waits, Answer(u, w)
      PROVE  Inductive'
  <2>1. Types' /\ Files' /\ reused' = reused /\ UNCHANGED <<branch, custom>>
    BY <1>1, <1>6, AnswerFacts, AnswerFiles DEF Answer
  <2>2. Exact => Exact'
    BY <1>1, <1>2, <1>6, <2>1, AnswerTalk DEF Exact
  <2>. QED
    BY <2>1, <2>2, Stays
<1>. QED
  BY <1>3, <1>4, <1>5, <1>6 DEF Server

\* A step of the bridge.
LEMMA BridgeInductive ==
  ASSUME Inductive, Bridge
  PROVE  Inductive'
<1>1. Types /\ Files /\ (Exact => Talk /\ Certificate)
  BY DEF Inductive, Exact
<1>2. CASE Observe
  <2>1. Types' /\ Files' /\ reused' = reused
    BY <1>1, <1>2, ObserveFacts, ObserveFiles DEF Observe
  <2>2. Certificate => Certificate'
    BY <1>2, SameCertificate DEF Observe, branch
  <2>3. Exact => Exact'
    BY <1>1, <1>2, <2>2, ObserveTalk DEF Exact
  <2>. QED
    BY <2>1, <2>3, Stays
<1>3. CASE Refresh
  <2>1. Types' /\ custom'.stage = "refreshing"
    BY <1>1, <1>3, RefreshFacts
  <2>2. Certificate => Certificate'
    BY <1>1, <1>3, <2>1, SameCertificate DEF Refresh, branch
  <2>3. Talk => Talk'
    BY <1>1, <1>3, QuietTalk DEF Refresh
  <2>4. Files' /\ reused' = reused
    BY <1>1, <1>3, RefreshFiles DEF Refresh
  <2>. QED
    BY <2>1, <2>2, <2>3, <2>4, Stays DEF Exact
<1>4. CASE Prepare
  <2>1. /\ Types' /\ custom' = Idle
        /\ observer'.documents = observer.documents
        /\ observer'.pending = observer.pending
    BY <1>1, <1>4, PrepareFacts
  <2>2. Certificate => Certificate'
    BY <1>1, <1>4, <2>1, SameCertificate DEF Prepare, branch, Idle
  <2>3. Talk => Talk'
    BY <1>1, <1>4, <2>1, QuietTalk DEF Prepare
  <2>4. Files' /\ reused' = reused
    BY <1>1, <1>4, PrepareFiles DEF Prepare
  <2>. QED
    BY <2>1, <2>2, <2>3, <2>4, Stays DEF Exact
<1>5. CASE RecordEditorCheck
  <2>1. /\ Types'
        /\ \/ custom' = Idle
           \/ /\ custom'.stage = "recorded" /\ custom'.input = custom.input
              /\ custom'.diagnostics = custom.diagnostics
              /\ custom'.imports = custom.imports
    BY <1>1, <1>5, RecordFacts
  <2>2. UNCHANGED <<branch, session, workspace, observer, reused, native>>
        /\ custom.stage = "recording"
    BY <1>5 DEF RecordEditorCheck
  <2>3. Certificate => Certificate'
    BY <1>1, <2>1, <2>2, SameCertificate DEF branch, Idle
  <2>4. Talk => Talk'
    BY <1>1, <2>2, QuietTalk
  <2>5. Files'
    BY <1>1, <2>1, <2>2, BridgeFiles DEF Idle
  <2>. QED
    BY <2>1, <2>2, <2>3, <2>4, <2>5, Stays DEF Exact
<1>6. CASE Confirm
  <2>1. Types' /\ custom' \in {Idle, [stage |-> "certified"]}
    BY <1>1, <1>6, ConfirmFacts
  <2>2. UNCHANGED <<branch, session, workspace, observer, reused, native>>
        /\ custom'.stage \in {"idle", "certified"}
    BY <1>6, <2>1 DEF Confirm, Idle
  <2>3. Certificate => Certificate'
    BY <1>1, <2>2, SameCertificate DEF branch
  <2>4. Talk => Talk'
    BY <1>1, <2>2, QuietTalk
  <2>5. Files'
    BY <1>1, <2>2, BridgeFiles
  <2>. QED
    BY <2>1, <2>2, <2>3, <2>4, <2>5, Stays DEF Exact
<1>7. CASE TimeOut
  <2>1. Types' /\ custom' = Idle
    BY <1>1, <1>7, TimeOutFacts
  <2>2. Certificate => Certificate'
    BY <1>1, <1>7, <2>1, SameCertificate DEF TimeOut, branch, Idle
  <2>3. Talk => Talk'
    BY <1>1, <1>7, QuietTalk DEF TimeOut
  <2>4. Files' /\ reused' = reused
    BY <1>1, <1>7, TimeOutFiles DEF TimeOut
  <2>. QED
    BY <2>1, <2>2, <2>3, <2>4, Stays DEF Exact
<1>. QED
  BY <1>2, <1>3, <1>4, <1>5, <1>6, <1>7 DEF Bridge

\* A step of the session, or of another request.
LEMMA SessionInductive ==
  ASSUME Inductive
  PROVE  /\ \A n \in Nodes : \A r \in SourcesOf[n] : Save(n, r) => Inductive'
         /\ \A u \in Docs : Reserve(u) => Inductive'
         /\ Connect \/ Disconnect => Inductive'
         /\ UNCHANGED vars => Inductive'
<1>1. Types /\ Files /\ (Exact => Talk /\ Certificate)
  BY DEF Inductive, Exact
<1>2. ASSUME NEW n \in Nodes, NEW r \in SourcesOf[n], Save(n, r)
      PROVE  Inductive'
  <2>1. UNCHANGED <<session, workspace, observer, reused, custom, native>>
        /\ returned \subseteq returned'
    BY <1>2 DEF Save
  <2>2. Talk => Talk'
    BY <1>1, <2>1, QuietTalk
  <2>3. Certificate => Certificate'
    BY <1>1, <2>1, SameCertificate
  <2>. QED
    BY <1>1, <1>2, <2>1, <2>2, <2>3, SaveTypes, SaveFiles, Stays DEF Exact
<1>3. ASSUME NEW u \in Docs, Reserve(u)
      PROVE  Inductive'
  <2>1. UNCHANGED <<branch, workspace, observer, reused, custom, native>>
    BY <1>3 DEF Reserve
  <2>2. Talk => Talk'
    BY <1>1, <2>1, QuietTalk
  <2>3. Certificate => Certificate'
    BY <1>1, <2>1, SameCertificate DEF branch
  <2>. QED
    BY <1>1, <1>3, <2>1, <2>2, <2>3, ReserveTypes, ReserveFiles, Stays DEF Exact
<1>4. CASE Connect
  <2>1. UNCHANGED <<branch, reused, custom>> /\ session'.stage = "connected"
        /\ observer' = Prepared(NoObserver, session.input)
    BY <1>4 DEF Connect
  <2>2. Talk'
    <3>1. observer'.documents = NoObserver.documents
          /\ observer'.pending = NoObserver.pending
      BY <2>1 DEF Prepared, NoObserver
    <3>2. \A u \in Docs : Doc(u)' = None
      BY <3>1 DEF Doc, NoObserver
    <3>3. \A i \in Ids : observer'.pending[i] = None
      BY <3>1 DEF NoObserver
    <3>. QED
      BY <3>2, <3>3 DEF Talk, DocumentKept, PendingKept
  <2>3. Certificate => Certificate'
    BY <1>1, <2>1, SameCertificate DEF branch
  <2>. QED
    BY <1>1, <1>4, <2>1, <2>2, <2>3, ConnectTypes, ConnectFiles, Stays DEF Exact
<1>5. CASE Disconnect
  <2>1. observer' = NoObserver /\ custom'.stage = "idle" /\ UNCHANGED branch
        /\ reused' = FALSE
    BY <1>5 DEF Disconnect, Idle
  <2>2. Talk'
    <3>1. \A u \in Docs : Doc(u)' = None
      BY <2>1 DEF Doc, NoObserver
    <3>2. \A i \in Ids : observer'.pending[i] = None
      BY <2>1 DEF NoObserver
    <3>. QED
      BY <3>1, <3>2 DEF Talk, DocumentKept, PendingKept
  <2>3. Certificate'
    BY <2>1 DEF Certificate
  <2>. QED
    BY <1>1, <1>5, <2>1, <2>2, <2>3, DisconnectTypes, DisconnectFiles DEF Inductive, Exact
<1>6. CASE UNCHANGED vars
  <2>1. UNCHANGED <<branch, session, workspace, observer, reused, custom, native>>
    BY <1>6 DEF vars
  <2>2. Types'
    <3>1. BranchTypes' /\ WorkspaceTypes' /\ ObserverTypes' /\ NativeTypes' /\ SessionTypes'
      BY <1>1, <2>1, SameTypes
    <3>2. Unconnected'
      BY <1>1, <2>1 DEF Types, Unconnected, native
    <3>. QED
      BY <3>1, <3>2 DEF Types
  <2>3. Talk => Talk'
    BY <1>1, <2>1, QuietTalk
  <2>4. Certificate => Certificate'
    BY <1>1, <2>1, SameCertificate DEF branch
  <2>5. Files'
    BY <1>1, <2>1, BridgeFiles
  <2>. QED
    BY <2>1, <2>2, <2>3, <2>4, <2>5, Stays DEF Exact
<1>. QED
  BY <1>2, <1>3, <1>4, <1>5, <1>6

\* The whole invariant is inductive.
THEOREM InductiveInvariant == Spec => []Inductive
<1>1. Init => Inductive
  BY InitInductive
<1>2. Inductive /\ [Next]_vars => Inductive'
  <2>. SUFFICES ASSUME Inductive, [Next]_vars
                PROVE  Inductive'
    OBVIOUS
  <2>1. Changing \subseteq Nodes
    BY EditorAssumption
  <2>. QED
    BY <2>1, SessionInductive, BrowserInductive, ServerInductive, BridgeInductive DEF Next
<1>. QED
  BY <1>1, <1>2, PTL DEF Spec

\* What the bridge knows has its type: inputs and keys are those of the nodes
\* they are kept for, documents are open for selected modules only, and queues
\* stay within their bounds, whatever the order of messages (Observer::client
\* and Observer::server).
THEOREM TypeCorrect == Spec => []TypeOK
<1>1. Inductive => TypeOK
  <2>. SUFFICES ASSUME Inductive PROVE TypeOK
    OBVIOUS
  <2>1. /\ BranchTypes /\ WorkspaceTypes /\ ObserverTypes
        /\ QueueTypes /\ LeanTypes /\ SessionTypes
    BY DEF Inductive, Types, NativeTypes
  <2>2. /\ session.stage \in {"over", "reserved", "connected"}
        /\ custom.stage \in {"idle", "refreshing", "recording", "recorded", "certified"}
    BY <2>1 DEF SessionTypes, Selecting, Certifying, Idle
  <2>3. /\ head \in [Nodes -> Revisions]
        /\ past \in [Nodes -> SUBSET Revisions] /\ returned \subseteq Nodes
        /\ saves \in 0 .. MaxSaves
        /\ disk \in [Nodes -> Revisions \cup {None}]
        /\ sources \in [Nodes -> Revisions \cup {None}]
    BY <2>1 DEF BranchTypes, WorkspaceTypes
  <2>4. /\ \A u \in Docs :
             /\ observer.prepared[u] \in Inputs(u) \cup {None}
             /\ observer.documents[u] = None \/ observer.documents[u] \in OpenDocument(u)
             /\ observer.documents[u] # None => observer.prepared[u] # None
        /\ \A n \in Nodes : observer.keys[n] \in Inputs(n) \cup {None}
    BY <2>1 DEF ObserverTypes
  <2>5. observer.pending \in [Ids -> PendingRequest \cup {None}]
    BY <2>1 DEF ObserverTypes, ObserverRecords
  <2>6. /\ lean \in [Docs -> (UNION {WorkerState(u) : u \in Docs}) \cup {None}]
        /\ \A u \in Docs : lean[u] # None => lean[u] \in WorkerState(u)
    BY <2>1 DEF LeanTypes, AnyWorker
  <2>7. Len(toLean) <= MaxQueue /\ Len(fromLean) <= MaxQueue
    BY <2>1 DEF QueueTypes
  <2>. QED
    BY <2>2, <2>3, <2>4, <2>5, <2>6, <2>7 DEF TypeOK, Inductive
<1>. QED
  BY <1>1, InductiveInvariant, PTL

\* As long as no request takes the identifier of one under way, a certificate
\* rests on all that the worker had to say about the source it is for and on
\* nothing that was said of another text or version, or by the worker of an
\* earlier document, however many messages are on their way and however many
\* requests are pending (Observer::evidence; "Replies from closed workers
\* cannot certify reopened documents").
THEOREM EvidenceIsExact == Spec => []EvidenceUnlessReused
<1>1. Inductive => EvidenceUnlessReused
  BY DEF Inductive, Exact, Certificate, EvidenceUnlessReused, EvidenceExact
<1>. QED
  BY <1>1, InductiveInvariant, PTL

\* Under the same condition, the worker had loaded the dependencies of the
\* certificate's input, unless one of them went back to a source it had before:
\* neither refreshed workspaces and requests cut short (refresh_editor_sources),
\* nor reopened documents and late connections, make a certificate of another
\* environment.
THEOREM EnvironmentIsBound == Spec => []EnvironmentUnlessReturned
<1>1. Inductive => EnvironmentUnlessReturned
  <2>. SUFFICES ASSUME Inductive, custom.stage = "recorded", ~ reused,
                       DepsOf[custom.input.node] \cap returned = {}
                PROVE  EnvironmentBound
    BY DEF EnvironmentUnlessReturned
  <2>. PICK u : u = custom.input.node
    OBVIOUS
  <2>. PICK text : text = custom.input.text
    OBVIOUS
  <2>1. u \in Docs /\ DepsOf[u] \subseteq Nodes
    BY CustomFields, DocInputFields, EditorAssumption DEF Inductive
  <2>2. PICK env \in [DepsOf[u] -> Revisions] :
          /\ custom.diagnostics = Verdict(text[u], env)
          /\ \A m \in DepsOf[u] \cap Steady : env[m] = text[m]
    BY DEF Inductive, Exact, Certificate
  <2>3. env = Environment(custom.input)
    <3>1. \A m \in DepsOf[u] : env[m] = text[m]
      BY <2>1, <2>2 DEF Steady
    <3>. QED
      BY <3>1 DEF Environment
  <2>4. \A k \in DOMAIN custom.diagnostics : custom.diagnostics[k].env = env
    BY <2>2 DEF Verdict
  <2>. QED
    BY <2>3, <2>4 DEF EnvironmentBound
<1>. QED
  BY <1>1, InductiveInvariant, PTL

=============================================================================
