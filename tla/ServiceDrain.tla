---------------------------- MODULE ServiceDrain ----------------------------
(***************************************************************************)
(* What a branch's service runs besides its transactions, and how it ends  *)
(* (src/service.rs, src/latex/runtime.rs): browsers reserve, connect and   *)
(* close Lean editor sessions, of which there are a few slots; previews are *)
(* rendered one at a time by a LaTeX worker; and shutdown takes all of it  *)
(* away.                                                                   *)
(*                                                                         *)
(* Requests hold the gate for reading and are dropped when the service     *)
(* stops or their client leaves.  Editor connections, expiry timers and    *)
(* previews run in tasks of their own, which nobody waits for long.        *)
(***************************************************************************)
EXTENDS Naturals, Sequences, FiniteSets, Functions

Seqs == INSTANCE SequencesExt

CONSTANTS
  Sessions,      \* editor sessions; one that is over stands for a new one
  EditorSlots,   \* editor_slots
  Previews,      \* preview requests; one that is over stands for a new one
  PreviewSlots,  \* LatexService::slots
  Projects,      \* keys of LaTeX projects
  MaxWork,       \* bound: sessions and previews under way at once
  Main,          \* Service::shutdown
  None           \* no worker, no project

ASSUME DrainAssumption ==
  /\ EditorSlots \in Nat \ {0} /\ PreviewSlots \in Nat \ {0} /\ MaxWork \in Nat
  /\ IsFiniteSet(Sessions) /\ IsFiniteSet(Previews)
  /\ Main \notin Previews /\ None \notin Projects

VARIABLES
  shutdown,    \* where Service::shutdown is
  editors,     \* Service::editors: no entry, an input to be taken, or taken
  reserving,   \* lean_session: its request, and whether it holds a slot
  connecting,  \* editor_socket: requests that have not taken the input
  closing,     \* close_editor: its request
  task,        \* the task of a connection
  told,        \* connections whose `cancelled` has changed
  held,        \* the sessions that shutdown has taken out of the map
  client,      \* preview: its request, and what it was answered
  job,         \* LatexService::request: the spawned task
  line,        \* who holds the worker's lock, and who waits for it
  worker       \* the Python process and its pipes

sessionVars == <<editors, reserving, connecting, closing, task, told>>
previewVars == <<client, job, line, worker>>
vars == <<shutdown, held, sessionVars, previewVars>>

-----------------------------------------------------------------------------
Stages == <<"serving", "closing", "draining", "taking", "cancelling",
            "waiting", "latex", "locking", "dropping", "done">>

Reached(stage) ==
  \E i, j \in DOMAIN Stages : Stages[i] = stage /\ Stages[j] = shutdown /\ i <= j

stopping == Reached("closing")
slotsClosed == Reached("draining")
latexStopping == Reached("locking")

NoClient == [stage |-> "none"]
NoJob == [stage |-> "none"]

\* What the worker says, the worker, and a new one, to which no project has been sent.
Said == [for : Previews, config : Projects \cup {None}]

Process ==
  [sent : Projects \cup {None}, config : Projects \cup {None},
   asked : Seq([for : Previews, key : Projects, project : Projects \cup {None}]),
   said : Seq(Said)]

ASSUME NoneAssumption == None \notin Process

NewWorker == [sent |-> None, config |-> None, asked |-> <<>>, said |-> <<>>]

Init ==
  /\ shutdown = "serving" /\ held = {}
  /\ editors = [e \in Sessions |-> "none"]
  /\ reserving = [e \in Sessions |-> "none"]
  /\ connecting = {}
  /\ closing = [e \in Sessions |-> "none"]
  /\ task = [e \in Sessions |-> "none"]
  /\ told = {}
  /\ client = [p \in Previews |-> NoClient]
  /\ job = [p \in Previews |-> NoJob]
  /\ line = <<>>
  /\ worker = None

-----------------------------------------------------------------------------
(***************************************************************************)
(* What is under way, and what is new.                                     *)
(***************************************************************************)
\* A slot belongs to the request that reserves it, then to the entry of the
\* map, wherever that goes.
HoldsSlot(e) == reserving[e] = "holding" \/ editors[e] # "none" \/ e \in held

Unused(e) ==
  /\ ~ HoldsSlot(e) /\ reserving[e] = "none" /\ task[e] = "none"
  /\ e \notin connecting /\ closing[e] = "none"

Unasked(p) == client[p].stage = "none" /\ job[p].stage = "none"

Room ==
  Cardinality({e \in Sessions : ~ Unused(e)}) + Cardinality({p \in Previews : ~ Unasked(p)})
    < MaxWork

-----------------------------------------------------------------------------
(***************************************************************************)
(* The gate (local_origin).  A request that has passed it is dropped when  *)
(* the service stops, and may be dropped at any await before, when its     *)
(* client goes away.  Its steps are not guarded by `stopping`: the one it  *)
(* is taking goes on.                                                      *)
(***************************************************************************)
Readers ==
  {e \in Sessions : reserving[e] # "none"} \cup connecting
    \cup {e \in Sessions : closing[e] # "none"}
    \cup {p \in Previews : client[p].stage # "none"}

Admit == ~ stopping

DropReserve(e) ==
  /\ reserving[e] # "none"
  /\ reserving' = [reserving EXCEPT ![e] = "none"]
  /\ UNCHANGED <<shutdown, held, editors, connecting, closing, task, told, previewVars>>

DropConnect(e) ==
  /\ e \in connecting
  /\ connecting' = connecting \ {e}
  /\ UNCHANGED <<shutdown, held, editors, reserving, closing, task, told, previewVars>>

\* Also the end of close_editor: the connection is gone, or three seconds are.
DropClose(e) ==
  /\ closing[e] \in {"admitted", "waiting"}
  /\ closing' = [closing EXCEPT ![e] = "none"]
  /\ UNCHANGED <<shutdown, held, editors, reserving, connecting, task, told, previewVars>>

\* Also the end of a preview, and its refusal because the context has changed.
DropPreview(p) ==
  /\ client[p].stage # "none"
  /\ client' = [client EXCEPT ![p] = NoClient]
  /\ UNCHANGED <<shutdown, held, sessionVars, job, line, worker>>

-----------------------------------------------------------------------------
(***************************************************************************)
(* Editor sessions.                                                        *)
(***************************************************************************)
Reserve(e) ==
  /\ Admit /\ Unused(e) /\ Room
  /\ reserving' = [reserving EXCEPT ![e] = "admitted"]
  /\ UNCHANGED <<shutdown, held, editors, connecting, closing, task, told, previewVars>>

TakeSlot(e) ==
  /\ reserving[e] = "admitted"
  /\ reserving' = [reserving EXCEPT ![e] =
       IF ~ slotsClosed /\ Cardinality({s \in Sessions : HoldsSlot(s)}) < EditorSlots
       THEN "holding" ELSE "none"]
  /\ UNCHANGED <<shutdown, held, editors, connecting, closing, task, told, previewVars>>

Insert(e) ==
  /\ reserving[e] = "holding"
  /\ reserving' = [reserving EXCEPT ![e] = "none"]
  /\ editors' = [editors EXCEPT ![e] = "input"]
  /\ UNCHANGED <<shutdown, held, connecting, closing, task, told, previewVars>>

\* Mutant: the timer does not ask whether somebody has connected.
ExpireConnected(e) ==
  /\ editors[e] # "none"
  /\ editors' = [editors EXCEPT ![e] = "none"]
  /\ UNCHANGED <<shutdown, held, reserving, connecting, closing, task, told, previewVars>>

\* Two minutes after the reservation.
Expire(e) ==
  /\ editors[e] = "input"
  /\ editors' = [editors EXCEPT ![e] = "none"]
  /\ UNCHANGED <<shutdown, held, reserving, connecting, closing, task, told, previewVars>>

Connect(e) ==
  /\ Admit /\ e \notin connecting /\ editors[e] # "none"
  /\ connecting' = connecting \cup {e}
  /\ UNCHANGED <<shutdown, held, editors, reserving, closing, task, told, previewVars>>

\* The input is taken once; other connections are refused.
TakeInput(e) ==
  /\ e \in connecting
  /\ connecting' = connecting \ {e}
  /\ IF editors[e] = "input"
     THEN /\ editors' = [editors EXCEPT ![e] = "taken"]
          /\ task' = [task EXCEPT ![e] = "upgrading"]
     ELSE UNCHANGED <<editors, task>>
  /\ UNCHANGED <<shutdown, held, reserving, closing, told, previewVars>>

\* The connection's task.  It stops preparing when it is told to, when it
\* fails and after thirty seconds; it stops forwarding when it is told to,
\* when either side fails or ends.  Server and directory go before the entry.
Follows(stage) ==
  CASE stage = "upgrading" -> {"preparing", "removing"}
    [] stage = "preparing" -> {"bridging", "removing"}
    [] stage = "bridging" -> {"leaving"}
    [] stage = "leaving" -> {"removing"}
    [] OTHER -> {}

Proceed(e) ==
  /\ \E next \in Follows(task[e]) :
       /\ e \in told => next # "bridging"
       /\ task' = [task EXCEPT ![e] = next]
  /\ UNCHANGED <<shutdown, held, editors, reserving, connecting, closing, told, previewVars>>

Remove(e) ==
  /\ task[e] = "removing"
  /\ task' = [task EXCEPT ![e] = "none"]
  /\ editors' = [editors EXCEPT ![e] = "none"]
  /\ told' = told \ {e}
  /\ UNCHANGED <<shutdown, held, reserving, connecting, closing, previewVars>>

CloseEditor(e) ==
  /\ Admit /\ closing[e] = "none" /\ editors[e] # "none"
  /\ closing' = [closing EXCEPT ![e] = "admitted"]
  /\ UNCHANGED <<shutdown, held, editors, reserving, connecting, task, told, previewVars>>

Tell(es) == told' = told \cup {e \in es : task[e] # "none"}

\* The entry leaves the map and its slot is returned, first of all.
CloseEntry(e) ==
  /\ closing[e] = "admitted"
  /\ IF editors[e] = "none"
     THEN closing' = [closing EXCEPT ![e] = "none"] /\ UNCHANGED editors
     ELSE /\ closing' = [closing EXCEPT ![e] = "dropped"]
          /\ editors' = [editors EXCEPT ![e] = "none"]
  /\ UNCHANGED <<shutdown, held, reserving, connecting, task, told, previewVars>>

\* Then the connection is told to end, with no await in between.
CloseTask(e) ==
  /\ closing[e] = "dropped"
  /\ closing' = [closing EXCEPT ![e] = "waiting"]
  /\ Tell({e})
  /\ UNCHANGED <<shutdown, held, editors, reserving, connecting, task, previewVars>>

-----------------------------------------------------------------------------
(***************************************************************************)
(* Previews.  The request captures the project and the context and waits   *)
(* for a task, which goes on without it.                                   *)
(***************************************************************************)
Preview(p, key) ==
  /\ Admit /\ Unasked(p) /\ Room
  /\ client' = [client EXCEPT ![p] = [stage |-> "captured", key |-> key]]
  /\ UNCHANGED <<shutdown, held, sessionVars, job, line, worker>>

\* One permit per task; a request that finds none is refused.
Submit(p) ==
  /\ client[p].stage = "captured"
  /\ IF ~ latexStopping /\ Cardinality({q \in Previews : job[q].stage # "none"}) < PreviewSlots
     THEN /\ client' = [client EXCEPT ![p].stage = "waiting"]
          /\ job' = [job EXCEPT ![p] = [stage |-> "spawned", key |-> client[p].key]]
     ELSE client' = [client EXCEPT ![p] = NoClient] /\ UNCHANGED job
  /\ UNCHANGED <<shutdown, held, sessionVars, line, worker>>

Waiting(p) == client[p].stage = "waiting"

\* What a task that ends without an answer leaves to its client.
Refuse(p) == IF Waiting(p) THEN [client EXCEPT ![p] = NoClient] ELSE client

Check(p) ==
  /\ job[p].stage = "spawned"
  /\ IF latexStopping
     THEN job' = [job EXCEPT ![p] = NoJob] /\ client' = Refuse(p)
     ELSE job' = [job EXCEPT ![p].stage = "checked"] /\ UNCHANGED client
  /\ UNCHANGED <<shutdown, held, sessionVars, line, worker>>

Queue(p) ==
  /\ job[p].stage = "checked"
  /\ job' = [job EXCEPT ![p].stage = "queued"]
  /\ line' = Append(line, p)
  /\ UNCHANGED <<shutdown, held, sessionVars, client, worker>>

\* Mutant: a task that ends keeps the worker locked.
EndJobLocked(p) ==
  /\ job' = [job EXCEPT ![p] = NoJob]
  /\ UNCHANGED line

\* The end of a task, which gives up the lock or its place in the line.
EndJob(p) ==
  /\ job' = [job EXCEPT ![p] = NoJob]
  /\ \E i \in DOMAIN line : line[i] = p /\ line' = Seqs!RemoveAt(line, i)

Owns(p) == line # <<>> /\ Head(line) = p

\* A client that has left needs no worker.
Cancelled(p) ==
  /\ job[p].stage = "queued" /\ Owns(p) /\ ~ Waiting(p)
  /\ EndJob(p)
  /\ UNCHANGED <<shutdown, held, sessionVars, client, worker>>

\* Mutant: the worker is used without its lock.
TurnUnlocked(p) ==
  /\ job[p].stage = "queued" /\ Waiting(p)
  /\ job' = [job EXCEPT ![p].stage = IF worker = None THEN "starting" ELSE "ready"]
  /\ UNCHANGED <<shutdown, held, sessionVars, client, line, worker>>

\* A worker is started for the first request, or after a failure.
Turn(p) ==
  /\ job[p].stage = "queued" /\ Owns(p) /\ Waiting(p)
  /\ job' = [job EXCEPT ![p].stage = IF worker = None THEN "starting" ELSE "ready"]
  /\ UNCHANGED <<shutdown, held, sessionVars, client, line, worker>>

\* Python may have to be installed first.
Spawn(p) ==
  /\ job[p].stage = "starting"
  /\ \/ /\ worker' = NewWorker
        /\ job' = [job EXCEPT ![p].stage = "ready"]
        /\ UNCHANGED <<client, line>>
     \/ EndJob(p) /\ client' = Refuse(p) /\ UNCHANGED worker
  /\ UNCHANGED <<shutdown, held, sessionVars>>

\* The project goes along unless the worker was sent the same one last.
Ask(p) ==
  /\ job[p].stage = "ready"
  /\ LET key == job[p].key
         request == [for |-> p, key |-> key,
                     project |-> IF worker.sent = key THEN None ELSE key]
     IN worker' = [worker EXCEPT !.asked = Append(@, request)]
  /\ job' = [job EXCEPT ![p].stage = "asked"]
  /\ UNCHANGED <<shutdown, held, sessionVars, client, line>>

\* renderer.py remembers the last project; a request for another is an error.
Render ==
  /\ worker # None /\ worker.asked # <<>>
  /\ LET request == Head(worker.asked)
         config == IF request.project # None THEN request.project ELSE worker.config
         answer == [for |-> request.for,
                    config |-> IF config = request.key THEN config ELSE None]
     IN worker' = [worker EXCEPT !.asked = Tail(@), !.config = config, !.said = Append(@, answer)]
  /\ UNCHANGED <<shutdown, held, sessionVars, client, job, line>>

Answer(p) ==
  /\ job[p].stage = "asked" /\ worker.said # <<>>
  /\ worker' = [worker EXCEPT !.said = Tail(@), !.sent = job[p].key]
  /\ client' = IF Waiting(p)
               THEN [client EXCEPT ![p] = [stage |-> "answered", key |-> client[p].key,
                                           answer |-> Head(worker.said)]]
               ELSE client
  /\ EndJob(p)
  /\ UNCHANGED <<shutdown, held, sessionVars>>

\* Mutant: the worker of a preview that took too long is kept.
FailKept(p) ==
  /\ job[p].stage = "asked"
  /\ EndJob(p) /\ client' = Refuse(p)
  /\ UNCHANGED <<shutdown, held, sessionVars, worker>>

\* Ten seconds, or a broken pipe or frame: the worker is dropped.
Fail(p) ==
  /\ job[p].stage = "asked"
  /\ worker' = None
  /\ EndJob(p) /\ client' = Refuse(p)
  /\ UNCHANGED <<shutdown, held, sessionVars>>

\* The select is not biased: what the task does may come before or after.
StopJob(p) ==
  /\ latexStopping
  /\ job[p].stage \in {"queued", "starting", "ready", "asked"}
  /\ EndJob(p) /\ client' = Refuse(p)
  /\ UNCHANGED <<shutdown, held, sessionVars, worker>>

-----------------------------------------------------------------------------
(***************************************************************************)
(* Service::shutdown.                                                      *)
(***************************************************************************)
Advance(from, to) == shutdown = from /\ shutdown' = to

Stop == Advance("serving", "closing") /\ UNCHANGED <<held, sessionVars, previewVars>>

CloseSlots == Advance("closing", "draining") /\ UNCHANGED <<held, sessionVars, previewVars>>

\* Mutant: the requests that are still running are not waited for.
DrainAtOnce == Advance("draining", "taking") /\ UNCHANGED <<held, sessionVars, previewVars>>

\* The gate is held for writing from here on.
Drain ==
  /\ Readers = {}
  /\ Advance("draining", "taking")
  /\ UNCHANGED <<held, sessionVars, previewVars>>

TakeEditors ==
  /\ Advance("taking", "cancelling")
  /\ held' = {e \in Sessions : editors[e] # "none"}
  /\ editors' = [e \in Sessions |-> "none"]
  /\ UNCHANGED <<reserving, connecting, closing, task, told, previewVars>>

Cancel ==
  /\ Advance("cancelling", "waiting")
  /\ Tell(held)
  /\ UNCHANGED <<held, editors, reserving, connecting, closing, task, previewVars>>

\* Each connection is waited for, for at most three seconds; then the Lean
\* workers of checks are ended.
WaitEditors == Advance("waiting", "latex") /\ UNCHANGED <<held, sessionVars, previewVars>>

StopLatex == Advance("latex", "locking") /\ UNCHANGED <<held, sessionVars, previewVars>>

LockWorker ==
  /\ Advance("locking", "dropping")
  /\ line' = Append(line, Main)
  /\ UNCHANGED <<held, sessionVars, client, job, worker>>

DropWorker ==
  /\ Owns(Main)
  /\ Advance("dropping", "done")
  /\ worker' = None
  /\ line' = Tail(line)
  /\ held' = {}
  /\ UNCHANGED <<sessionVars, client, job>>

-----------------------------------------------------------------------------
Leave ==
  \/ \E e \in Sessions : DropReserve(e) \/ DropConnect(e) \/ DropClose(e)
  \/ \E p \in Previews : DropPreview(p)

EditorStep(e) ==
  \/ Reserve(e) \/ TakeSlot(e) \/ Insert(e) \/ Expire(e)
  \/ Connect(e) \/ TakeInput(e) \/ Proceed(e) \/ Remove(e)
  \/ CloseEditor(e) \/ CloseEntry(e) \/ CloseTask(e)

JobStep(p) ==
  \/ Check(p) \/ Queue(p) \/ Cancelled(p) \/ Turn(p) \/ Spawn(p) \/ Ask(p)
  \/ Fail(p) \/ StopJob(p)

ShutdownStep ==
  \/ CloseSlots \/ Drain \/ TakeEditors \/ Cancel \/ WaitEditors
  \/ StopLatex \/ LockWorker \/ DropWorker

Next ==
  \/ Leave
  \/ \E e \in Sessions : EditorStep(e)
  \/ \E p \in Previews :
       \/ \E key \in Projects : Preview(p, key)
       \/ Submit(p) \/ JobStep(p) \/ Answer(p)
  \/ Render
  \/ Stop \/ ShutdownStep

\* Tokio polls every task that can go on; a preview's time limits are kept;
\* requests of a service that stops are dropped, at their next await.  Nobody has to connect, to
\* leave, to ask or to stop, and the renderer need not answer.
Fairness ==
  /\ WF_vars(ShutdownStep)
  /\ WF_vars(stopping /\ Leave)
  /\ WF_vars(\E e \in Sessions : CloseTask(e))
  /\ \A p \in Previews : WF_vars(JobStep(p))

Spec == Init /\ [][Next]_vars /\ Fairness

-----------------------------------------------------------------------------
(***************************************************************************)
(* Properties.                                                             *)
(***************************************************************************)
Keyed(stages) == [stage : stages, key : Projects]

Client ==
  {NoClient} \cup Keyed({"captured", "waiting"})
    \cup [stage : {"answered"}, key : Projects, answer : Said]

Job == {NoJob} \cup Keyed({"spawned", "checked", "queued", "starting", "ready", "asked"})

\* State has its type; the lock's line is made of the tasks that queued, each
\* once, and behind the one at its head nobody touches the worker.
TypeOK ==
  /\ shutdown \in Range(Stages) /\ held \subseteq Sessions
  /\ editors \in [Sessions -> {"none", "input", "taken"}]
  /\ reserving \in [Sessions -> {"none", "admitted", "holding"}]
  /\ connecting \subseteq Sessions /\ told \subseteq Sessions
  /\ closing \in [Sessions -> {"none", "admitted", "dropped", "waiting"}]
  /\ task \in [Sessions -> {"none", "upgrading", "preparing", "bridging", "leaving", "removing"}]
  /\ client \in [Previews -> Client]
  /\ job \in [Previews -> Job]
  /\ worker \in Process \cup {None}
  /\ line \in Seq(Previews \cup {Main}) /\ IsInjective(line)
  /\ \A p \in Previews :
       /\ p \in Range(line) <=> job[p].stage \notin {"none", "spawned", "checked"}
       /\ job[p].stage \in {"starting", "ready", "asked"} => Owns(p)
       /\ job[p].stage \in {"ready", "asked"} => worker # None

\* Sessions that wait for their browser and connections that have not been
\* told to end never outnumber the slots, although slots return by expiry, by
\* close, by the connection's end and by shutdown, in any order.  Only a
\* connection that close_editor is about to tell may be one too many: its slot
\* is returned a statement earlier.
LiveSessionsBounded ==
  Cardinality({e \in Sessions :
    \/ editors[e] = "input"
    \/ /\ task[e] \in {"preparing", "bridging"}
       /\ e \notin told /\ closing[e] # "dropped"}) <= EditorSlots

\* "none can reserve a new editor or continue writing through this branch
\* after shutdown returns": there is no session, no request, no connection
\* that goes on, and no LaTeX worker, not even one that a preview has started
\* which had not yet heard of the shutdown.
NothingAfterShutdown ==
  shutdown = "done" =>
    /\ \A e \in Sessions :
         /\ ~ HoldsSlot(e)
         /\ task[e] \in {"upgrading", "preparing", "bridging"} => e \in told
    /\ Readers = {}
    /\ worker = None

\* A preview is answered with what was rendered for it, in its project, even
\* when a worker was kept, dropped or left in the middle of another request.
AnswersExact ==
  \A p \in Previews :
    client[p].stage = "answered" =>
      client[p].answer = [for |-> p, config |-> client[p].key]

\* The shutdown returns, whatever connections and previews are doing, and a
\* preview's permit and lock come back, whatever the renderer does.
WorkEnds ==
  /\ stopping ~> shutdown = "done"
  /\ \A p \in Previews : job[p].stage # "none" ~> job[p].stage = "none"
=============================================================================
