--------------------------- MODULE EditorObserver ---------------------------
(***************************************************************************)
(* The Lean editor bridge of one browser session (src/lean/editor.rs;      *)
(* bridge_editor in src/service.rs; refresh_editor_sources in              *)
(* src/lean.rs).                                                           *)
(*                                                                         *)
(* The bridge forwards the messages of a browser and of a native Lean      *)
(* server and watches them go by.  From what it has seen it certifies saved *)
(* sources: a browser may ask for a certificate and never supplies one.    *)
(* Browser and server write into queues, so that each answers what the     *)
(* other said some messages ago.  Meanwhile requests of the bridge's own   *)
(* rewrite the workspace from which the server loads dependencies, the     *)
(* branch changes, and documents are closed and opened again under the     *)
(* version numbers of their predecessors.                                  *)
(***************************************************************************)
EXTENDS Naturals, Sequences, FiniteSets

CONSTANTS
  Nodes,
  DepsOf,       \* all that each node depends on, directly or not
  Changing,     \* those whose sources the branch changes
  Docs,         \* the nodes that a browser opens
  Revisions,    \* Lean sources
  SourcesOf,    \* those that a node may be given
  Ids,          \* the identifiers that a browser gives its requests
  MaxVersion,   \* bound: versions of an open document
  MaxQueue,     \* bound: messages on their way in one direction
  MaxSaves,     \* bound: changes of the branch
  None          \* nothing, no file, no document

Versions == 1 .. MaxVersion

ASSUME EditorAssumption ==
  /\ IsFiniteSet(Nodes)
  /\ Docs \subseteq Nodes /\ Changing \subseteq Nodes
  /\ DepsOf \in [Nodes -> SUBSET Nodes]
  /\ \A n \in Nodes : n \notin DepsOf[n]
  /\ \A n \in Nodes : \A m \in DepsOf[n] : DepsOf[m] \subseteq DepsOf[n]
  /\ SourcesOf \in [Nodes -> SUBSET Revisions]
  /\ None \notin Nodes \cup Revisions
  /\ MaxVersion \in Nat \ {0} /\ MaxQueue \in Nat \ {0} /\ MaxSaves \in Nat

VARIABLES
  head,      \* the source of each node of the branch
  past,      \* history: the sources each node had before
  returned,  \* history: nodes that went back to a source they had before
  saves,
  session,   \* reserved with an input, connected, or over
  disk,      \* the session's workspace: the source in each file
  sources,   \* SourceState: what the bridge knows to be there
  observer,  \* Observer
  reused,    \* history: a request had the identifier of one under way
  custom,    \* the request of the bridge's own that is being served
  toLean,    \* messages on their way to the native server
  fromLean,  \* and back
  lean       \* the native server: a worker per open document

branch == <<head, past, returned, saves>>
workspace == <<disk, sources>>
native == <<toLean, fromLean, lean>>
vars == <<branch, session, workspace, observer, reused, custom, native>>

-----------------------------------------------------------------------------
(***************************************************************************)
(* Inputs.                                                                 *)
(***************************************************************************)
Chain(n) == DepsOf[n] \cup {n}

\* Input::capture; the recursive Lean key of a node stands for the same.
InputOf(src, n) == [node |-> n, text |-> [m \in Chain(n) |-> src[m]]]

\* Input::environment_key: the keys of all but the target.
Environment(input) == [m \in DepsOf[input.node] |-> input.text[m]]

Inputs(n) == {[node |-> n, text |-> t] : t \in [Chain(n) -> Revisions]}

\* What a worker finds out about a text in the environment it has loaded,
\* in two messages, the second of which adds to the first.
Part == [part : 1 .. 2, text : Revisions,
         env : UNION {[DepsOf[n] -> Revisions] : n \in Docs}]

Verdict(text, env) == <<[part |-> 1, text |-> text, env |-> env],
                        [part |-> 2, text |-> text, env |-> env]>>

NoObserver == [prepared |-> [u \in Docs |-> None], keys |-> [n \in Nodes |-> None],
               documents |-> [u \in Docs |-> None], pending |-> [i \in Ids |-> None]]
Idle == [stage |-> "idle"]

Init ==
  /\ head \in {h \in [Nodes -> Revisions] : \A n \in Nodes : h[n] \in SourcesOf[n]}
  /\ past = [n \in Nodes |-> {}] /\ returned = {} /\ saves = 0
  /\ session = [stage |-> "over"]
  /\ disk = [n \in Nodes |-> None] /\ sources = [n \in Nodes |-> None]
  /\ observer = NoObserver /\ reused = FALSE
  /\ custom = Idle
  /\ toLean = <<>> /\ fromLean = <<>>
  /\ lean = [u \in Docs |-> None]

\* Another request, or another service, changes a source.
Save(n, r) ==
  /\ saves < MaxSaves /\ r # head[n]
  /\ saves' = saves + 1
  /\ head' = [head EXCEPT ![n] = r]
  /\ past' = [past EXCEPT ![n] = @ \cup {head[n]}]
  /\ returned' = IF r \in past[n] THEN returned \cup {n} ELSE returned
  /\ UNCHANGED <<session, workspace, observer, reused, custom, native>>

-----------------------------------------------------------------------------
(***************************************************************************)
(* The session.                                                            *)
(***************************************************************************)
\* lean_session captures the input that the connection will start from.
Reserve(u) ==
  /\ session.stage = "over"
  /\ session' = [stage |-> "reserved", input |-> InputOf(head, u)]
  /\ UNCHANGED <<branch, workspace, observer, reused, custom, native>>

\* Mutant: every node of the chain is given the key of the target.
PreparedTarget(obs, input) ==
  [obs EXCEPT
     !.prepared[input.node] = input,
     !.keys = [n \in Nodes |-> IF n \in DOMAIN input.text THEN input ELSE obs.keys[n]]]

\* Observer::prepare
Prepared(obs, input) ==
  [obs EXCEPT
     !.prepared[input.node] = input,
     !.keys = [n \in Nodes |-> IF n \in DOMAIN input.text
                               THEN InputOf(input.text, n) ELSE obs.keys[n]]]

\* editor_project writes the sources of the chain into a new directory.
Connect ==
  /\ session.stage = "reserved"
  /\ LET input == session.input
         written == [n \in Nodes |-> IF n \in DOMAIN input.text
                                     THEN input.text[n] ELSE None]
     IN /\ disk' = written /\ sources' = written
        /\ observer' = Prepared(NoObserver, input)
  /\ session' = [stage |-> "connected"]
  /\ UNCHANGED <<branch, reused, custom, native>>

\* The browser leaves, is too slow, breaks a rule, or is told to stop, or the
\* server's reply cannot be read: all of the session goes.
Disconnect ==
  /\ session.stage # "over"
  /\ session' = [stage |-> "over"]
  /\ disk' = [n \in Nodes |-> None] /\ sources' = [n \in Nodes |-> None]
  /\ observer' = NoObserver /\ reused' = FALSE
  /\ custom' = Idle
  /\ toLean' = <<>> /\ fromLean' = <<>>
  /\ lean' = [u \in Docs |-> None]
  /\ UNCHANGED branch

-----------------------------------------------------------------------------
(***************************************************************************)
(* Messages of the browser: Observer::client, then the native input.       *)
(***************************************************************************)
Forward(message) ==
  /\ session.stage = "connected"
  /\ Len(toLean) < MaxQueue
  /\ toLean' = Append(toLean, message)
  /\ UNCHANGED <<branch, session, workspace, custom, fromLean, lean>>

\* Requests about a document that were sent to its worker.
Purged(u) ==
  [i \in Ids |-> IF observer.pending[i] # None /\ observer.pending[i].uri = u
                 THEN None ELSE observer.pending[i]]

Document(text, version, env) ==
  [source |-> text, version |-> version, environment |-> env,
   complete |-> FALSE, diagnostics |-> <<>>, imports |-> None]

\* Mutant: requests to the worker of the former document stay pending.
DidOpenUnpurged(u, text, version) ==
  /\ observer.prepared[u] # None
  /\ observer' = [observer EXCEPT
       !.documents[u] = Document(text, version, Environment(observer.prepared[u]))]
  /\ Forward([kind |-> "open", uri |-> u, text |-> text, version |-> version])
  /\ UNCHANGED reused

\* Only a selected module may be opened, with any text, under any version.
DidOpen(u, text, version) ==
  /\ observer.prepared[u] # None
  /\ observer' = [observer EXCEPT
       !.pending = Purged(u),
       !.documents[u] = Document(text, version, Environment(observer.prepared[u]))]
  /\ Forward([kind |-> "open", uri |-> u, text |-> text, version |-> version])
  /\ UNCHANGED reused

\* The version must increase; the environment stays that of the worker.
DidChange(u, text, version) ==
  /\ observer.documents[u] # None
  /\ version > observer.documents[u].version
  /\ observer' = [observer EXCEPT !.documents[u] =
       Document(text, version, observer.documents[u].environment)]
  /\ Forward([kind |-> "change", uri |-> u, text |-> text, version |-> version])
  /\ UNCHANGED reused

DidClose(u) ==
  /\ observer' = [observer EXCEPT !.pending = Purged(u), !.documents[u] = None]
  /\ Forward([kind |-> "close", uri |-> u])
  /\ UNCHANGED reused

\* A request with this identifier is pending, on its way or being answered.
\* Only the history asks: nothing keeps a browser from using it again.
InUse(i) ==
  \/ observer.pending[i] # None
  \/ \E q \in {toLean, fromLean} : \E k \in DOMAIN q :
       q[k].kind \in {"wait", "imports", "done", "names", "error"} /\ q[k].id = i
  \/ \E u \in Docs : lean[u] # None /\ \E w \in lean[u].waits : w.id = i

\* About whatever version the browser likes, under whatever identifier: what
\* was pending under it is forgotten.
WaitForDiagnostics(i, u, version) ==
  /\ observer' = [observer EXCEPT !.pending[i] =
       [kind |-> "diagnostics", uri |-> u, version |-> version]]
  /\ Forward([kind |-> "wait", id |-> i, uri |-> u, version |-> version])
  /\ reused' = (reused \/ InUse(i))

\* About a document that is not open, the bridge keeps nothing in mind.
ModuleImports(i, u) ==
  /\ observer' = IF observer.documents[u] = None THEN observer
                 ELSE [observer EXCEPT !.pending[i] =
       [kind |-> "imports", uri |-> u, version |-> observer.documents[u].version]]
  /\ Forward([kind |-> "imports", id |-> i, uri |-> u])
  /\ reused' = (reused \/ InUse(i))

-----------------------------------------------------------------------------
(***************************************************************************)
(* The native server.                                                      *)
(***************************************************************************)
Worker(text, version, env) ==
  [text |-> text, version |-> version, env |-> env, shown |-> 0, waits |-> {}]

\* Messages are taken in order.  A document that is opened gets a worker of
\* its own, in place of an earlier one; changes keep the worker and what it
\* has loaded, unless they make it load its imports again.
Receive ==
  /\ toLean # <<>>
  /\ toLean' = Tail(toLean)
  /\ LET m == Head(toLean)
         u == m.uri
     IN \/ /\ m.kind = "open"
           /\ lean' = [lean EXCEPT ![u] = Worker(m.text, m.version, None)]
           /\ UNCHANGED fromLean
        \/ /\ m.kind = "change" /\ lean[u] # None
           /\ \E env \in {lean[u].env, None} :
                lean' = [lean EXCEPT ![u] =
                  [Worker(m.text, m.version, env) EXCEPT !.waits = lean[u].waits]]
           /\ UNCHANGED fromLean
        \/ /\ m.kind = "close"
           /\ lean' = [lean EXCEPT ![u] = None]
           /\ UNCHANGED fromLean
        \/ /\ m.kind = "wait" /\ lean[u] # None
           /\ lean' = [lean EXCEPT ![u].waits = @ \cup {[id |-> m.id, version |-> m.version]}]
           /\ UNCHANGED fromLean
        \/ /\ m.kind = "imports" /\ lean[u] # None /\ Len(fromLean) < MaxQueue
           /\ fromLean' = Append(fromLean,
                [kind |-> "names", id |-> m.id, text |-> lean[u].text])
           /\ UNCHANGED lean
        \/ /\ m.kind \in {"wait", "imports"} /\ lean[u] = None /\ Len(fromLean) < MaxQueue
           /\ fromLean' = Append(fromLean, [kind |-> "error", id |-> m.id])
           /\ UNCHANGED lean
  /\ UNCHANGED <<branch, session, workspace, observer, reused, custom>>

\* A worker loads its imports from the files it finds, when it comes to it.
Load(u) ==
  /\ lean[u] # None /\ lean[u].env = None
  /\ \A m \in DepsOf[u] : disk[m] # None
  /\ lean' = [lean EXCEPT ![u].env = [m \in DepsOf[u] |-> disk[m]]]
  /\ UNCHANGED <<branch, session, workspace, observer, reused, custom, toLean, fromLean>>

\* Diagnostics are published as they come, the first message for all of them.
Publish(u) ==
  /\ lean[u] # None /\ lean[u].env # None /\ lean[u].shown < 2
  /\ Len(fromLean) < MaxQueue
  /\ fromLean' = Append(fromLean,
       [kind |-> "diagnostics", uri |-> u, version |-> lean[u].version,
        incremental |-> lean[u].shown = 1,
        part |-> Verdict(lean[u].text, lean[u].env)[lean[u].shown + 1]])
  /\ lean' = [lean EXCEPT ![u].shown = @ + 1]
  /\ UNCHANGED <<branch, session, workspace, observer, reused, custom, toLean>>

\* waitForDiagnostics is answered when the worker has done the version that
\* was asked for, or a later one.
Answer(u, w) ==
  /\ w.version <= lean[u].version /\ lean[u].shown = 2
  /\ Len(fromLean) < MaxQueue
  /\ fromLean' = Append(fromLean, [kind |-> "done", id |-> w.id])
  /\ lean' = [lean EXCEPT ![u].waits = @ \ {w}]
  /\ UNCHANGED <<branch, session, workspace, observer, reused, custom, toLean>>

-----------------------------------------------------------------------------
(***************************************************************************)
(* Messages of the native server: Observer::server.                        *)
(***************************************************************************)
\* publishDiagnostics counts for the version it names.
Noted(doc, m) ==
  IF doc = None \/ doc.version # m.version THEN doc
  ELSE [doc EXCEPT !.diagnostics =
          IF m.incremental THEN Append(@, m.part) ELSE <<m.part>>]

\* A reply counts for the document and version it was asked for.
Completed(doc, version) ==
  IF doc = None \/ doc.version # version THEN doc
  ELSE [doc EXCEPT !.complete = TRUE]

ReadyForImports(doc, version) ==
  doc # None /\ doc.version = version /\ doc.complete

Imported(doc, version, text) ==
  IF ReadyForImports(doc, version) THEN [doc EXCEPT !.imports = text] ELSE doc

\* Where imports are awaited, a result that is no list ends the session.
Unreadable(m) ==
  /\ m.kind = "done" /\ observer.pending[m.id] # None
  /\ observer.pending[m.id].kind = "imports"
  /\ ReadyForImports(observer.documents[observer.pending[m.id].uri],
                     observer.pending[m.id].version)

Observe ==
  /\ fromLean # <<>> /\ ~ Unreadable(Head(fromLean))
  /\ fromLean' = Tail(fromLean)
  /\ LET m == Head(fromLean) IN
       IF m.kind = "diagnostics"
       THEN observer' = [observer EXCEPT !.documents[m.uri] = Noted(@, m)]
       ELSE IF observer.pending[m.id] = None THEN UNCHANGED observer
       ELSE LET asked == observer.pending[m.id]
                doc == observer.documents[asked.uri]
            IN observer' = [observer EXCEPT
                 !.pending[m.id] = None,
                 !.documents[asked.uri] =
                   IF m.kind = "error" THEN doc
                   ELSE IF asked.kind = "diagnostics" THEN Completed(doc, asked.version)
                   ELSE IF m.kind = "names" THEN Imported(doc, asked.version, m.text)
                   ELSE doc]
  /\ UNCHANGED <<branch, session, workspace, reused, custom, toLean, lean>>

-----------------------------------------------------------------------------
(***************************************************************************)
(* Requests of the bridge's own, one at a time.  The node's revision has   *)
(* to be the present one.  A request is over when its time is, when it     *)
(* fails and when the browser has been told "certified".                   *)
(***************************************************************************)
Begin(request) ==
  /\ session.stage = "connected"
  /\ custom.stage \in {"idle", "certified"}
  /\ custom' = request
  /\ UNCHANGED <<branch, session, workspace, observer, reused, native>>

\* mdc/selectNode
SelectNode(u) ==
  Begin([stage |-> "refreshing", input |-> InputOf(head, u), left |-> Chain(u)])

\* The file that refresh_editor_sources writes next, dependencies first.
Next1 == CHOOSE m \in custom.left : DepsOf[m] \cap custom.left = {}

\* Files that are known to be right are left alone.
Refresh ==
  /\ custom.stage = "refreshing" /\ custom.left # {}
  /\ LET text == custom.input.text[Next1] IN
       /\ disk' = IF sources[Next1] = text THEN disk ELSE [disk EXCEPT ![Next1] = text]
       /\ sources' = [sources EXCEPT ![Next1] = text]
  /\ custom' = [custom EXCEPT !.left = @ \ {Next1}]
  /\ UNCHANGED <<branch, session, observer, reused, native>>

Prepare ==
  /\ custom.stage = "refreshing" /\ custom.left = {}
  /\ observer' = Prepared(observer, custom.input)
  /\ custom' = Idle
  /\ UNCHANGED <<branch, session, workspace, reused, native>>

\* Mutant: the document's environment is taken for that of the input.
ObservedAnywhere(u, input) ==
  /\ observer.documents[u] # None
  /\ observer.documents[u].source = input.text[u]
  /\ \A m \in DepsOf[u] : observer.keys[m] = InputOf(input.text, m)

\* Observer::document
Observed(u, input) ==
  /\ observer.documents[u] # None
  /\ observer.documents[u].source = input.text[u]
  /\ observer.documents[u].environment = Environment(input)
  /\ \A m \in DepsOf[u] : observer.keys[m] = InputOf(input.text, m)

\* Observer::evidence
Evidence(u, input, version) ==
  /\ Observed(u, input)
  /\ observer.documents[u].version = version
  /\ observer.documents[u].complete
  /\ observer.documents[u].imports # None

\* mdc/certify; without evidence it is an error at once.
Certify(u, version) ==
  /\ Evidence(u, InputOf(head, u), version)
  /\ Begin([stage |-> "recording", input |-> InputOf(head, u), version |-> version,
            diagnostics |-> observer.documents[u].diagnostics,
            imports |-> observer.documents[u].imports])

\* record_editor_check saves the certificate.  Dependencies that no other
\* check has certified must have their sources in the workspace.
RecordEditorCheck ==
  /\ custom.stage = "recording"
  /\ \E known \in SUBSET DepsOf[custom.input.node] :
       custom' =
         IF \A m \in DepsOf[custom.input.node] \ known : disk[m] = custom.input.text[m]
         THEN [custom EXCEPT !.stage = "recorded"]
         ELSE Idle
  /\ UNCHANGED <<branch, session, workspace, observer, reused, native>>

\* Before the browser is told, inputs and evidence are compared again: they
\* may have changed while the certificate was made.
Confirm ==
  /\ custom.stage = "recorded"
  /\ custom' = IF /\ InputOf(head, custom.input.node) = custom.input
                  /\ Evidence(custom.input.node, custom.input, custom.version)
               THEN [stage |-> "certified"]
               ELSE Idle
  /\ UNCHANGED <<branch, session, workspace, observer, reused, native>>

\* The time limit of a request, or an error; a file may have been written
\* that the bridge does not know of.
TimeOut ==
  /\ custom.stage \notin {"idle", "certified"}
  /\ \/ UNCHANGED disk
     \/ /\ custom.stage = "refreshing" /\ custom.left # {}
        /\ disk' = [disk EXCEPT ![Next1] = custom.input.text[Next1]]
  /\ custom' = Idle
  /\ UNCHANGED <<branch, session, sources, observer, reused, native>>

-----------------------------------------------------------------------------
Browser ==
  \/ \E u \in Docs : \E text \in SourcesOf[u], version \in Versions :
       DidOpen(u, text, version) \/ DidChange(u, text, version)
  \/ \E u \in Docs : DidClose(u) \/ SelectNode(u)
  \/ \E u \in Docs, version \in Versions : Certify(u, version)
  \/ \E i \in Ids, u \in Docs :
       \/ ModuleImports(i, u)
       \/ \E version \in Versions : WaitForDiagnostics(i, u, version)

Server ==
  \/ Receive
  \/ \E u \in Docs :
       \/ Load(u) \/ Publish(u)
       \/ lean[u] # None /\ \E w \in lean[u].waits : Answer(u, w)

Bridge ==
  \/ Observe \/ Refresh \/ Prepare \/ RecordEditorCheck \/ Confirm \/ TimeOut

Next ==
  \/ \E n \in Changing : \E r \in SourcesOf[n] : Save(n, r)
  \/ \E u \in Docs : Reserve(u)
  \/ Connect \/ Disconnect
  \/ Browser \/ Server \/ Bridge

Spec == Init /\ [][Next]_vars

-----------------------------------------------------------------------------
(***************************************************************************)
(* Properties.                                                             *)
(***************************************************************************)
PendingRequest == [kind : {"diagnostics", "imports"}, uri : Docs, version : Versions]

WorkerState(n) ==
  [text : Revisions, version : Versions, env : [DepsOf[n] -> Revisions] \cup {None},
   shown : 0 .. 2, waits : SUBSET [id : Ids, version : Versions]]

OpenDocument(n) ==
  [source : Revisions, version : Versions, environment : [DepsOf[n] -> Revisions],
   complete : BOOLEAN, diagnostics : Seq(Part), imports : Revisions \cup {None}]

ASSUME NoneAssumption ==
  \A n \in Nodes :
    None \notin Inputs(n) /\ None \notin WorkerState(n) /\ None \notin OpenDocument(n)

\* What the bridge knows has its type: inputs and keys are those of the nodes
\* they are kept for, and documents are open for selected modules only.
TypeOK ==
  /\ head \in [Nodes -> Revisions]
  /\ past \in [Nodes -> SUBSET Revisions] /\ returned \subseteq Nodes
  /\ saves \in 0 .. MaxSaves
  /\ session.stage \in {"over", "reserved", "connected"} /\ reused \in BOOLEAN
  /\ disk \in [Nodes -> Revisions \cup {None}]
  /\ sources \in [Nodes -> Revisions \cup {None}]
  /\ \A u \in Docs :
       /\ observer.prepared[u] \in Inputs(u) \cup {None}
       /\ observer.documents[u] = None \/ observer.documents[u] \in OpenDocument(u)
       /\ observer.documents[u] # None => observer.prepared[u] # None
  /\ \A n \in Nodes : observer.keys[n] \in Inputs(n) \cup {None}
  /\ observer.pending \in [Ids -> PendingRequest \cup {None}]
  /\ custom.stage \in {"idle", "refreshing", "recording", "recorded", "certified"}
  /\ lean \in [Docs -> (UNION {WorkerState(u) : u \in Docs}) \cup {None}]
  /\ \A u \in Docs : lean[u] # None => lean[u] \in WorkerState(u)
  /\ Len(toLean) <= MaxQueue /\ Len(fromLean) <= MaxQueue

\* "Replies from closed workers cannot certify reopened documents": a
\* certificate rests on all that a worker had to say about the source it is
\* for, and on nothing that was said of another text, another version or by
\* the worker of an earlier document.
EvidenceExact ==
  custom.stage = "recorded" =>
    LET text == custom.input.text[custom.input.node] IN
      /\ custom.imports = text
      /\ \E env \in [DepsOf[custom.input.node] -> Revisions] :
           custom.diagnostics = Verdict(text, env)

\* It does in every session whose requests have identifiers of their own, as
\* JSON-RPC has it.  The bridge takes that for granted: a request under an
\* identifier in use replaces what was pending, and has its replies.
EvidenceUnlessReused == ~ reused => EvidenceExact

\* "binds them to the exact saved source, LSP document version and dependency
\* environment": the worker had loaded the dependencies of the input.
EnvironmentBound ==
  custom.stage = "recorded" =>
    \A k \in DOMAIN custom.diagnostics :
      custom.diagnostics[k].env = Environment(custom.input)

\* It had, unless a dependency has gone back to an earlier source or the
\* browser has used an identifier twice at once: neither queues, refreshed
\* workspaces and requests cut short, nor reopened documents and late
\* connections, make a certificate of another environment.
EnvironmentUnlessReturned ==
  /\ custom.stage = "recorded" /\ ~ reused
  /\ DepsOf[custom.input.node] \cap returned = {}
  => EnvironmentBound
=============================================================================
