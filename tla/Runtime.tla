------------------------------- MODULE Runtime ------------------------------
(***************************************************************************)
(* The loop of crates/dbx-rs-daemon/src/runtime.rs over several inputs:    *)
(* finish workers, reload, reconcile the rising inputs, drain the batch    *)
(* segments, launch a wave of workers, sleep.  One action per stage, one   *)
(* step per input where the code awaits or writes between inputs.          *)
(*                                                                         *)
(* Simplifications: what reconcile does inside one rising input is module  *)
(* RisingScan; here an input's durable work is a phase and the revision it *)
(* is fenced to.  The revision fingerprint covers every setting of the     *)
(* input and of HEC (prepared.rs; the HEC token is a file, no setting), so *)
(* it is that pair.  Changes of an identity or of the collection mode, and *)
(* of paths, are refused before anything happens and left out, and so are  *)
(* generations of batch inputs, which only label segments, and deployment  *)
(* credentials.                                                            *)
(***************************************************************************)
EXTENDS Schedule

CONSTANTS
  Rising,      \* the inputs with a cursor; the others are batch inputs
  Capacities,  \* values of configured_worker_capacity
  MaxEvents,   \* bound: failures, signals, crashes and edits of the configuration files
  None         \* no settings, no revision

\* Two enabled settings of an input, and a disabled one.
Setting == {"a", "b", "off"}
Revisions == [hec: BOOLEAN, settings: Setting]

ASSUME RuntimeAssumption ==
  /\ Rising \subseteq Input
  /\ Capacities \subseteq Nat \ {0}
  /\ MaxEvents \in Nat
  /\ None \notin Setting /\ None \notin Revisions

Config == [hec: BOOLEAN, inputs: [Input -> Setting \cup {None}]]
Configured(c) == {i \in Input : c.inputs[i] # None}
Enabled(c) == {i \in Input : c.inputs[i] \in {"a", "b"}}
Revision(c, i) == [hec |-> c.hec, settings |-> c.inputs[i]]

\* A rising input: no state yet; no scan; a scan that needs a page; a page sealed, with more to
\* come or the last one; a scan whose collection is complete.  A batch input: nothing, a ready
\* segment, or a delivered one.
RisingPhase == {"missing", "idle", "started", "page", "last", "done"}
BatchPhase == {"idle", "ready", "delivered"}

VARIABLES
  wanted,     \* the configuration files
  config,     \* the configuration the process runs on
  candidate,  \* the configuration a reload has read
  work,       \* per input: durable work and the revision it is fenced to
  quarantined, \* the rising inputs of which quarantine holds a segment
  pc,         \* the stage of the loop
  reloading,  \* whether the backlog is worked off for a reload
  pass,       \* reconcile: inputs left, and the summary
  drained,    \* whether the last drain succeeded
  schedule, launching, tasks,
  cancelled,  \* the shutdown token
  capacity,   \* configured_worker_capacity
  events      \* what MaxEvents bounds
durable == <<wanted, work, quarantined>>
stage == <<candidate, pc, reloading, pass, drained>>
bounds == <<capacity, events>>
vars == <<durable, config, stage, schedule, launching, tasks, cancelled, bounds>>

NoTasks == [i \in Input |-> "none"]
NoPass == [left |-> <<>>, needs |-> {}, committed |-> {}]
Active == {i \in Input : tasks[i] # "none"}

Init ==
  /\ wanted = [hec |-> TRUE, inputs |-> [i \in Input |-> "a"]]
  /\ config = wanted /\ candidate = wanted
  /\ work = [i \in Input |-> [phase |-> IF i \in Rising THEN "missing" ELSE "idle",
                              revision |-> None]]
  /\ quarantined = {}
  /\ pc = "down" /\ reloading = FALSE /\ pass = NoPass /\ drained = FALSE
  /\ schedule = EmptySchedule /\ launching = <<>> /\ tasks = NoTasks
  /\ cancelled = FALSE /\ events = 0 /\ capacity \in Capacities

Event == events < MaxEvents /\ events' = events + 1 /\ UNCHANGED capacity
At(place) == pc = place
Goto(place) == pc' = place
SetPhase(i, phase) == work' = [work EXCEPT ![i].phase = phase]

-----------------------------------------------------------------------------
(* The process.                                                            *)

\* Work that no change of revision may happen under.
Fenced(w, c, i) ==
  w[i].phase \in {"started", "page", "last", "done", "ready"} =>
     /\ i \in Configured(c)
     /\ w[i].revision = Revision(c, i)

\* ensure_input accepts: work has the configured revision; a missing or idle state may take it,
\* unless the spool holds bytes of the input, and between scans only quarantine does.
Ensurable(c, i) ==
  /\ Fenced(work, c, i)
  /\ work[i].phase \in {"missing", "idle"} /\ i \in quarantined => work[i].revision = Revision(c, i)

\* ensure_input, where it accepts: an idle state takes the configured revision.
Ensured(w, c, i) ==
  IF w[i].phase = "idle" THEN [w EXCEPT ![i].revision = Revision(c, i)] ELSE w

\* preflight_startup: every state has its input, and ensure_input accepts each.
Startable ==
  \A i \in Rising : /\ work[i].phase # "missing" => i \in Configured(wanted)
                    /\ i \in Configured(wanted) => Ensurable(wanted, i)

Start ==
  /\ At("down") /\ Startable
  /\ Goto("finish")
  /\ config' = wanted
  /\ work' = [i \in Input |-> IF i \in Rising THEN Ensured(work, wanted, i)[i] ELSE work[i]]
  /\ schedule' = Sync(EmptySchedule, Enabled(wanted))
  /\ UNCHANGED <<wanted, quarantined, candidate, reloading, pass, drained, launching, tasks,
                 cancelled, bounds>>

\* Splunk starts the daemon again and again.
StartRefused == At("down") /\ ~Startable /\ UNCHANGED vars

\* The process ends, and what it held with it.
Down ==
  /\ Goto("down")
  /\ reloading' = FALSE /\ pass' = NoPass /\ drained' = FALSE
  /\ config' = wanted /\ candidate' = wanted
  /\ schedule' = EmptySchedule /\ launching' = <<>> /\ tasks' = NoTasks
  /\ cancelled' = FALSE
  /\ UNCHANGED <<wanted, work>>

\* A page in flight may leave its open segment, which the next start moves to quarantine.
Crash ==
  /\ pc # "down" /\ Event /\ Down
  /\ \E open \in SUBSET {i \in Rising : tasks[i] = "running"} :
       quarantined' = quarantined \cup open

\* shutdown_signal cancels the token at once; the loop notices it when it sleeps.
Signal ==
  /\ pc # "down" /\ ~cancelled /\ Event
  /\ cancelled' = TRUE
  /\ UNCHANGED <<durable, config, stage, schedule, launching, tasks>>

\* The loop ends for a signal, or because splunkd is another process.
Quit ==
  /\ \/ At("sleep") /\ cancelled /\ UNCHANGED bounds
     \/ At("reload") /\ ~reloading /\ Event
  /\ Goto("quitting") /\ cancelled' = TRUE
  /\ UNCHANGED <<durable, config, candidate, reloading, pass, drained, schedule, launching,
                 tasks>>

\* stop_workers, at the end of run_inner
QuitStopped ==
  /\ At("quitting") /\ \A i \in Input : tasks[i] # "running"
  /\ Down
  /\ UNCHANGED <<quarantined, bounds>>

-----------------------------------------------------------------------------
(* Administrator and clock.                                                *)

EditConfiguration ==
  /\ Event
  /\ \/ wanted' = [wanted EXCEPT !.hec = ~@]
     \/ \E i \in Input, s \in Setting \cup {None} :
          s # wanted.inputs[i] /\ wanted' = [wanted EXCEPT !.inputs[i] = s]
  /\ UNCHANGED <<work, quarantined, config, stage, schedule, launching, tasks, cancelled>>

\* The due time of an input passes.
Elapse(i) ==
  /\ i \in schedule.waiting
  /\ schedule' = ComeDue(schedule, i)
  /\ UNCHANGED <<durable, config, stage, launching, tasks, cancelled, bounds>>

-----------------------------------------------------------------------------
(* Workers.                                                                *)

\* run_input: a sealed segment.  A failure after the rename leaves the segment and reports the
\* error all the same.
WorkerSeals(i) ==
  /\ tasks[i] = "running"
  /\ \/ tasks' = [tasks EXCEPT ![i] = "sealed"] /\ UNCHANGED bounds
     \/ tasks' = [tasks EXCEPT ![i] = "failed"] /\ Event
  /\ IF i \in Rising
     THEN \E phase \in {"page", "last"} : SetPhase(i, phase)
     ELSE work' = [work EXCEPT ![i] = [phase |-> "ready", revision |-> Revision(config, i)]]
  /\ UNCHANGED <<wanted, quarantined, config, stage, schedule, launching, cancelled>>

\* A page without rows: the segment is aborted, and nothing is durable until the loop records it.
WorkerEmpty(i) ==
  /\ tasks[i] = "running" /\ i \in Rising
  /\ tasks' = [tasks EXCEPT ![i] = "empty"]
  /\ UNCHANGED <<durable, config, stage, schedule, launching, cancelled, bounds>>

\* The collection fails, or its token is cancelled.
WorkerFails(i) ==
  /\ tasks[i] = "running"
  /\ IF cancelled \/ At("stopping") THEN UNCHANGED bounds ELSE Event
  /\ tasks' = [tasks EXCEPT ![i] = "failed"]
  /\ UNCHANGED <<durable, config, stage, schedule, launching, cancelled>>

\* Mutant: an input that failed is not completed.
FinishWorkersOnSuccess ==
  /\ At("finish") /\ Goto("reload")
  /\ LET done == {i \in Input : tasks[i] \in {"sealed", "empty", "failed"}}
         good == {i \in done : tasks[i] # "failed"} IN
     /\ tasks' = [i \in Input |-> IF i \in done THEN "none" ELSE tasks[i]]
     /\ schedule' = CompleteLater(CompleteOut(schedule, good \cap Rising), good \ Rising)
  /\ UNCHANGED <<durable, config, candidate, reloading, pass, drained, launching, cancelled,
                 bounds>>

\* finish_workers: an empty last page is recorded, or the record fails.  A rising input that
\* succeeded leaves the schedule until the reconcile has seen it.
FinishWorkers ==
  /\ At("finish") /\ Goto("reload")
  /\ LET done == {i \in Input : tasks[i] \in {"sealed", "empty", "failed"}}
         empty == {i \in done : tasks[i] = "empty"} IN
     \E lost \in SUBSET empty :
       LET good == {i \in done : tasks[i] # "failed"} \ lost IN
       /\ IF lost = {} THEN UNCHANGED bounds ELSE Event
       /\ tasks' = [i \in Input |-> IF i \in done THEN "none" ELSE tasks[i]]
       /\ work' = [i \in Input |->
                     IF i \in empty \ lost THEN [work[i] EXCEPT !.phase = "done"] ELSE work[i]]
       /\ schedule' = CompleteLater(CompleteOut(schedule, good \cap Rising),
                                    done \ (good \cap Rising))
  /\ UNCHANGED <<wanted, quarantined, config, candidate, reloading, pass, drained, launching,
                 cancelled>>

-----------------------------------------------------------------------------
(* Reconcile and drain.                                                    *)

RisingLeft(c) == Only(Order, Rising \cap Configured(c))

BeginPass(forReload) ==
  /\ Goto("pass") /\ reloading' = forReload
  /\ pass' = [NoPass EXCEPT !.left = RisingLeft(config)]

\* reconcile_and_drain_backlogs: not while a worker is active.
EnterBacklog ==
  /\ At("backlog")
  /\ \/ Active = {} /\ BeginPass(FALSE) /\ UNCHANGED drained
     \/ Active # {} /\ Goto("launch") /\ drained' = FALSE /\ UNCHANGED <<reloading, pass>>
  /\ UNCHANGED <<durable, config, candidate, schedule, launching, tasks, cancelled, bounds>>

Deliverable == config.hec /\ ~cancelled

\* reconcile of the next rising input.
ReconcileInput ==
  /\ At("pass") /\ pass.left # <<>>
  /\ LET i == Head(pass.left)
         phase == work[i].phase
         rest == [pass EXCEPT !.left = Tail(@)] IN
     /\ Ensurable(config, i)
     /\ phase \in {"page", "last"} => Deliverable
     /\ work' = [Ensured(work, config, i) EXCEPT ![i].phase =
                   CASE phase = "page" -> "started"
                     [] phase \in {"last", "done"} -> "idle"
                     [] OTHER -> phase]
     /\ pass' = CASE phase \in {"missing", "idle"} -> rest
                  [] phase \in {"started", "page"} -> [rest EXCEPT !.needs = @ \cup {i}]
                  [] OTHER -> [rest EXCEPT !.committed = @ \cup {i}]
  /\ UNCHANGED <<wanted, quarantined, config, candidate, pc, reloading, drained, schedule, launching,
                 tasks, cancelled, bounds>>

\* A backlog that could not be worked off: a reload is given up, and the loop goes on.
GiveUp ==
  \/ reloading /\ Goto("backlog") /\ reloading' = FALSE /\ UNCHANGED drained
  \/ ~reloading /\ Goto("launch") /\ drained' = FALSE /\ UNCHANGED reloading

\* The first error ends the pass, and its summary is dropped.
ReconcileFails ==
  /\ At("pass") /\ pass.left # <<>>
  /\ LET phase == work[Head(pass.left)].phase
         refused == \/ ~Ensurable(config, Head(pass.left))
                    \/ phase \in {"page", "last"} /\ ~Deliverable IN
     IF refused THEN UNCHANGED bounds ELSE Event
  /\ GiveUp /\ pass' = NoPass
  /\ UNCHANGED <<durable, config, candidate, schedule, launching, tasks, cancelled>>

\* runnable_intervals
Runnable(needs) == Enabled(config) \cup (Configured(config) \cap needs)

\* reconcile_and_drain_backlogs: the summary enters the schedule.
PassDone ==
  /\ At("pass") /\ pass.left = <<>> /\ ~reloading
  /\ Goto("drain")
  /\ schedule' = Sync(CompleteOut(CompleteLater(schedule, pass.committed \cap Enabled(config)),
                                  pass.committed \ Enabled(config)),
                      Runnable(pass.needs))
  /\ UNCHANGED <<durable, config, candidate, reloading, pass, drained, launching, tasks,
                 cancelled, bounds>>

\* Mutant: the scans that still need pages do not block a reload.
ReloadPassIgnoresNeeds ==
  /\ At("pass") /\ pass.left = <<>> /\ reloading
  /\ Goto("drain") /\ UNCHANGED <<reloading, drained, pass>>
  /\ UNCHANGED <<durable, config, candidate, schedule, launching, tasks, cancelled, bounds>>

\* apply_reload: blocked until the active rising scans complete.
ReloadPassDone ==
  /\ At("pass") /\ pass.left = <<>> /\ reloading
  /\ \/ pass.needs # {} /\ GiveUp /\ pass' = NoPass
     \/ pass.needs = {} /\ Goto("drain") /\ UNCHANGED <<reloading, drained, pass>>
  /\ UNCHANGED <<durable, config, candidate, schedule, launching, tasks, cancelled, bounds>>

Batch(phases) == {i \in Input \ Rising : work[i].phase \in phases}

\* validate_replay_fences
ReplayFenced == \A i \in Batch({"ready"}) : Fenced(work, config, i)

\* drain_ready_segments_sync: what is delivered is compacted whatever its configuration.
DrainCompact(i) ==
  /\ At("drain") /\ i \in Batch({"delivered"}) /\ ReplayFenced
  /\ work' = [work EXCEPT ![i] = [phase |-> "idle", revision |-> None]]
  /\ UNCHANGED <<wanted, quarantined, config, stage, schedule, launching, tasks, cancelled, bounds>>

DrainDeliver(i) ==
  /\ At("drain") /\ i \in Batch({"ready"}) /\ ReplayFenced /\ Deliverable
  /\ Batch({"delivered"}) = {}
  /\ SetPhase(i, "delivered")
  /\ UNCHANGED <<wanted, quarantined, config, stage, schedule, launching, tasks, cancelled, bounds>>

DrainFails ==
  /\ At("drain")
  /\ IF ~ReplayFenced \/ (Batch({"ready"}) # {} /\ ~Deliverable) THEN UNCHANGED bounds ELSE Event
  /\ GiveUp /\ pass' = NoPass
  /\ UNCHANGED <<durable, config, candidate, schedule, launching, tasks, cancelled>>

DrainDone ==
  /\ At("drain") /\ ~reloading
  /\ Batch({"ready", "delivered"}) = {}
  /\ Goto("launch") /\ drained' = TRUE /\ pass' = NoPass
  /\ UNCHANGED <<durable, config, candidate, reloading, schedule, launching, tasks, cancelled,
                 bounds>>

-----------------------------------------------------------------------------
(* Reload.                                                                 *)

\* reload_configuration, with the identities apply_reload validates: HEC and inputs change
\* separately, and a rising input with state stays.
Reloadable ==
  /\ wanted # config
  /\ wanted.hec = config.hec \/ wanted.inputs = config.inputs
  /\ \A i \in Rising : work[i].phase # "missing" => i \in Configured(wanted)

SkipReload ==
  /\ At("reload") /\ Goto("backlog")
  /\ UNCHANGED <<durable, config, candidate, reloading, pass, drained, schedule, launching, tasks,
                 cancelled, bounds>>

\* stop_workers: the tokens are cancelled.
BeginReload ==
  /\ At("reload") /\ Reloadable
  /\ Goto("stopping") /\ candidate' = wanted
  /\ UNCHANGED <<durable, config, reloading, pass, drained, schedule, launching, tasks, cancelled,
                 bounds>>

\* stop_workers_for_reload: what the workers report is dropped.
WorkersStopped ==
  /\ At("stopping") /\ \A i \in Input : tasks[i] # "running"
  /\ tasks' = NoTasks /\ schedule' = ReleaseAll(schedule)
  /\ BeginPass(TRUE)
  /\ UNCHANGED <<durable, config, candidate, drained, launching, cancelled, bounds>>

\* Mutant: a reload does not wait for the drain.
ActivateUndrained ==
  /\ At("drain") /\ reloading
  /\ config' = candidate
  /\ schedule' = Sync(schedule, Enabled(candidate))
  /\ Goto("backlog") /\ reloading' = FALSE /\ pass' = NoPass
  /\ UNCHANGED <<durable, candidate, drained, launching, tasks, cancelled, bounds>>

\* apply_reload: the new configuration takes effect.
Activate ==
  /\ At("drain") /\ reloading
  /\ Batch({"ready", "delivered"}) = {}
  /\ config' = candidate
  /\ schedule' = Sync(schedule, Enabled(candidate))
  /\ Goto("backlog") /\ reloading' = FALSE /\ pass' = NoPass
  /\ UNCHANGED <<durable, candidate, drained, launching, tasks, cancelled, bounds>>

-----------------------------------------------------------------------------
(* A wave.                                                                 *)

\* Mutant: a wave starts although the backlog was not drained.
MayLaunchUndrained == ~cancelled /\ Active = {} /\ config.hec

\* collection_wave_may_start, and the early returns of launch_collection_wave
MayLaunch == ~cancelled /\ Active = {} /\ drained /\ config.hec

Launch ==
  /\ At("launch")
  /\ \/ /\ MayLaunch
        /\ launching' = Due(schedule, capacity)
        /\ schedule' = Run(schedule, Range(launching'))
        /\ Goto("spawn")
     \/ ~MayLaunch /\ Goto("sleep") /\ UNCHANGED <<launching, schedule>>
  /\ UNCHANGED <<durable, config, candidate, reloading, pass, drained, tasks, cancelled, bounds>>

\* spawn_due_workers: a rising input starts or resumes its scan first, and one that has to be
\* reconciled is put back.
SpawnWorker ==
  /\ At("spawn") /\ launching # <<>>
  /\ LET i == Head(launching) IN
     /\ i \in Rising => Ensurable(config, i)
     /\ IF i \in Rising /\ work[i].phase \in {"page", "last", "done"}
        THEN schedule' = CompleteNow(schedule, {i}) /\ UNCHANGED <<work, tasks>>
        ELSE /\ tasks' = [tasks EXCEPT ![i] = "running"]
             /\ work' = IF i \in Rising
                        THEN [work EXCEPT ![i] = [phase |-> "started",
                                                  revision |-> Revision(config, i)]]
                        ELSE work
             /\ UNCHANGED schedule
  /\ launching' = Tail(launching)
  /\ UNCHANGED <<wanted, quarantined, config, stage, cancelled, bounds>>

\* prepare_rising_contract or start_or_resume_page fails.
SpawnFails ==
  /\ At("spawn") /\ launching # <<>> /\ Head(launching) \in Rising
  /\ IF Ensurable(config, Head(launching)) THEN Event ELSE UNCHANGED bounds
  /\ schedule' = CompleteLater(schedule, {Head(launching)})
  /\ launching' = Tail(launching)
  /\ UNCHANGED <<durable, config, stage, tasks, cancelled>>

SpawnDone ==
  /\ At("spawn") /\ launching = <<>> /\ Goto("sleep")
  /\ UNCHANGED <<durable, config, candidate, reloading, pass, drained, schedule, launching, tasks,
                 cancelled, bounds>>

Sleep ==
  /\ At("sleep") /\ ~cancelled /\ Goto("finish")
  /\ UNCHANGED <<durable, config, candidate, reloading, pass, drained, schedule, launching, tasks,
                 cancelled, bounds>>

Loop ==
  \/ FinishWorkers \/ EnterBacklog \/ ReconcileInput \/ PassDone \/ ReloadPassDone
  \/ (\E i \in Input : DrainCompact(i) \/ DrainDeliver(i))
  \/ DrainDone \/ Activate \/ WorkersStopped
  \/ Launch \/ SpawnWorker \/ SpawnDone \/ Sleep \/ Quit \/ QuitStopped

WorkerStep(i) == WorkerSeals(i) \/ WorkerEmpty(i) \/ WorkerFails(i)

Next ==
  \/ Start \/ StartRefused \/ Crash \/ Signal
  \/ EditConfiguration
  \/ \E i \in Input : Elapse(i) \/ WorkerStep(i)
  \/ Loop
  \/ SkipReload \/ BeginReload
  \/ ReconcileFails \/ DrainFails \/ SpawnFails

Spec == Init /\ [][Next]_vars

\* The loop and its tasks are scheduled, time passes, every query ends (it has a timeout), and
\* Splunk restarts the process.
Fairness ==
  /\ WF_vars(Start) /\ WF_vars(Loop)
  /\ WF_vars(SkipReload) /\ WF_vars(ReconcileFails) /\ WF_vars(DrainFails)
  /\ WF_vars(SpawnFails)
  /\ \A i \in Input : WF_vars(Elapse(i)) /\ WF_vars(WorkerStep(i))

FairSpec == Spec /\ Fairness

-----------------------------------------------------------------------------
(* Properties.                                                             *)

\* The types of the variables, with the shape of the schedule.
TypeOK ==
  /\ wanted \in Config /\ config \in Config /\ candidate \in Config
  /\ \A i \in Input :
       /\ work[i].phase \in IF i \in Rising THEN RisingPhase ELSE BatchPhase
       /\ work[i].revision \in Revisions \cup {None}
  /\ quarantined \subseteq Rising
  /\ pc \in {"down", "finish", "reload", "stopping", "backlog", "pass", "drain", "launch",
             "spawn", "sleep", "quitting"}
  /\ reloading \in BOOLEAN /\ drained \in BOOLEAN /\ cancelled \in BOOLEAN
  /\ Range(pass.left) \subseteq Rising /\ pass.needs \subseteq Rising /\ pass.committed \subseteq Rising
  /\ IsSchedule(schedule)
  /\ launching \in Seq(Input)
  /\ tasks \in [Input -> {"none", "running", "sealed", "empty", "failed"}]
  /\ capacity \in Capacities /\ events \in 0 .. MaxEvents

\* dbxrs_inputs.conf.spec: "A stanza never overlaps with its own previous run."  What the schedule
\* calls running is what has a task or is about to get one, on every path of spawn_due_workers,
\* finish_workers and stop_workers_for_reload, and never more than the capacity: an input that
\* stayed marked would never run again.
RunningHaveTasks ==
  /\ schedule.running = Active \cup Range(launching)
  /\ Cardinality(Active) <= capacity

\* The loop's expect calls: an input that is launched, runs or is finished is configured, whatever
\* a reload removed meanwhile.
NoInputMissing == Active \cup Range(launching) \subseteq Configured(config)

\* The gate of collection_wave_may_start and reconcile_and_drain_backlogs: durable work is
\* reconciled, drained and re-fenced only while no worker can change it.
BacklogIsQuiet == pc \in {"pass", "drain"} => Active = {}

\* TA-dbx-rs/README.md: ready segments are replayed "before scheduling more database work".  When a
\* worker starts, every segment that waits for delivery comes from its own wave.
Undelivered == {i \in Input : work[i].phase \in {"page", "last", "ready"}}
WaveStartsDrained ==
  [][\A i \in Input : (tasks[i] = "none" /\ tasks'[i] = "running") => Undelivered \subseteq Active]_vars

\* While the process runs, the work of a rising input is fenced to the configuration it runs on:
\* preflight_startup, apply_reload and reconcile agree, and ensure_input refuses no input that has
\* work.  One without work whose segment is in quarantine may be refused (see EveryInputRuns).
RisingFenced == pc # "down" => \A i \in Rising : Fenced(work, config, i)

\* A reload strands no work: no step of a running process puts work, batch segments included, under
\* a configuration that refuses it.
ReloadStrandsNothing ==
  [][(pc # "down" /\ pc' # "down") =>
       \A i \in Input : Fenced(work, config, i) => Fenced(work', config', i)]_vars

\* dbxrs_inputs.conf.spec on disabled: a disabled input is not collected.  runnable_intervals would
\* schedule a disabled one whose scan needs a page; as disabling is a revision of its own, no such
\* scan exists.
DisabledNeverRuns == Active \subseteq Enabled(config)

\* What the loop relies on between its stages.
LoopConsistent ==
  TypeOK /\ RunningHaveTasks /\ NoInputMissing /\ BacklogIsQuiet /\ DisabledNeverRuns

\* The process is up with the configuration that is on disk, and nothing is left from another one.
\* After an edit beside such work, a restart or every later drain is refused.  After an edit of a
\* rising input whose quarantine holds a segment, every reconcile pass is refused, for all inputs:
\* apply_reload does not ask ensure_input.
Settled(i) ==
  /\ pc # "down" /\ wanted = config /\ config.hec /\ i \in Enabled(config)
  /\ \A j \in Input : Fenced(work, config, j)
  /\ \A j \in Rising \cap Configured(config) : Ensurable(config, j)

\* Every enabled input is collected again and again, with fewer workers than inputs and one input
\* that is due at once after each of its pages, also after crashes that left segments in quarantine
\* under the revision that stays.
EveryInputRuns ==
  \A i \in Input :
    <>[]Settled(i) => []<>(tasks[i] = "running")

=============================================================================
