# A formal model of the Knorvia Studio runtime

This directory holds TLA+ specifications of the Studio runtime of Knorvia
(`src/packages/services/src/studio-runtime`, called SR below), TLC
configurations that check them on small instances, and TLAPS proofs of the
properties that hold for every instance.  The runtime lets one or more *Host*
processes (desktop windows, servers) work on one SQLite database: users queue
chats, group tasks and workflows, one Host at a time holds the executor lease and
executes them by calling native agent kernels, and every Host may die or quit at
any moment.  Beside the runtime proper the project models the two engines that
execute a run, the tools with which a running agent dispatches child runs, and
the application of reviewed changes to a user's project.

## 1. Inventory

The repository is a desktop application, a command line agent and a set of
services.  The Studio runtime is the part with its own concurrency and recovery
protocol.  `PROJECT.json` lists every component, modelled or not.

### Parts of the Studio runtime

| Part | State it keeps | Operations | What makes it correct |
|---|---|---|---|
| Store (`adapters/studioDatabase.ts`) | entities (`run`, `active`, `turn`, `step-result`, `interaction`, `steering`, ...), executor lease, revision | IMMEDIATE transactions; `claim`, `owns`, `release` | one owner at a time; indexes agree with the records |
| Command admission (`app/commandAdmission.ts`, `commandReceipts.ts`) | none of its own | `send`, `steer`, `cancel`, `resume`, `answer`, definitions, receipts | limits, barriers, idempotence |
| Scheduler (`app/studioRuntimeService.ts`) | `active` map of executors, lifecycle | `tick`, `recover`, `failRun`, `disposeAllAndWait` | one run per target, no orphans, no lost stop, recovery tells lost calls from calls never made |
| Run executor (`app/runExecutor.ts`) | the engine's promise | steering acknowledgement, checkpoints, settlement | late results are fenced off |
| Turn executor (`app/turnExecutor.ts`) | permit, turn record, call | dispatch, settlement of a step | a step is called once per attempt |
| Questions (`app/runtimeInteractions.ts`) | `interaction`, `interaction-link` | open, wait, expire | answers are kept, no answer is not consent |
| Permits (`app/executionLimiter.ts`) | counter, keys, waiters | acquire, release, abort | limits, no lost wakeup |
| Workflow engine (`app/workflowExecutor.ts`, `workflowSteps.ts`, `domain/workflowGraph.ts`) | outcomes, running nodes, abandoned nodes | launch, settle, joins, retries | order, unknown results stop what follows |
| Group engine (`app/groupExecutor.ts`, `groupSteps.ts`, `groupSteering.ts`) | plan checkpoint, rounds | plan, tasks, review, steering | every steering message is planned in once |
| Agent tools and outbox (`app/agentDispatch.ts`, `agentOutbox.ts`, `agentToolRuntime.ts`) | child runs, budgets, events | dispatch, record, receive, deadlines | a command takes effect once, every end of a child is told once |
| Workspace apply (`adapters/workspaceApply.ts`, `workspaceLocks.ts`, `workspaceRecovery.ts`) | journal, project locks, files | apply, recover, lock | a change is applied whole or undone, the user's files and edits survive |
| Review, previews, images, projections | records and child processes | see the component list | |

### How they interact

A user command is one transaction on the store, committed by whichever process
received it.  Every Host's scheduler ticks on a timer: it claims the lease, after a
new claim recovers the runs nobody executes any more, aborts executors of stopped
runs, reads the queue and dispatches.  An executor runs an engine, the engine runs
steps, an agent step takes a permit, prepares a workspace, writes a turn record and
calls the kernel; a confirmation step opens a question and polls for the answer.
A running agent may itself
send commands, through tools that the Host binds to its native turn.  Reviewed changes are
applied to the project by whichever process the user asked, under a lock of claim files.
All of them share nothing but the store and, within one Host, the abort signals and
the limiter.  What protects the store from executors that are too late is a *fence*,
`assertStudioRunOwned`, evaluated in the same transaction as the write.

### What is hard here

* Several processes over one database: a record read before a transaction is stale
  inside it (`tick`, between `queuedRuns` and the dispatch transaction).
* A lease that runs out while its owner is alive: the owner claims it again and is
  told "acquired", with its own executors still running.
* Crashes between any two transactions, and quitting, which records results as
  unknown while calls still come back.
* Native calls have effects outside the database, so they are not to be repeated.
* Stops, answers and steering messages committed while the executor is at any await.
* Engines that wait for several calls, timers and signals at once, and start again from
  checkpoints in the middle of a join, a backoff or a plan.
* Records read before an await and written back after it (tool calls).
* File operations without transactions: every rename may be the last one before a crash,
  and the user edits the same files.

The `hazards` of `PROJECT.json` name each of these at its line, with the properties
that would show it going wrong.

## 2. Modules

```
StudioStore  <-  StudioCommands  <-  StudioHost  <-  StudioProperties  <-  MCStudioHost
                                                           ^     |  INSTANCE
                                                           |     v
                                            StudioHost_proofs   RunLifecycle
                                                           ^
                        StudioLifecycle_proofs  ->  StudioCalls_proofs
ExecutionLimiter  <-  MCExecutionLimiter,  ExecutionLimiter_proofs

EngineRun  <-  WorkflowEngine, GroupTask  <-  StudioEngines  <-  MCStudioEngines,  StudioEngines_proofs

WorkspaceLocks  <-  WorkspaceApply  <-  WorkspaceProject  <-  MCWorkspaceProject
      ^                                        ^
WorkspaceLocks_proofs  <----------  WorkspaceProject_proofs
      |  INSTANCE
      v
ProjectLock

AgentTools  <-  MCAgentTools,  AgentTools_proofs
```

* **StudioStore** - the database: records, queries and the ownership fence.
  Time is only "the lease has run out or not".
* **StudioCommands** - one action per user command, each with the whole
  transaction: the guards are the code's exceptions, which roll back.
* **StudioHost** - Hosts: the tick as the sequence of transactions it is
  (`TickClaim`, `Recover`, `TickScan`, then one of `TickStart`, `TickSkip`,
  `TickThrows` per queued run), the executor of a run, the task of each step, questions,
  shutdown, crash, lease expiry.  A Host is one JavaScript thread: its tasks do
  not move during its own tick (`Free`), other processes do.  Code between two awaits is
  one action.
* **StudioProperties** - what has to hold, and the mapping to RunLifecycle.
* **RunLifecycle** - the abstract promise: a run is queued, executes at most
  once at a time and beside no other run of its target, hands each step to a kernel at most
  once per attempt, and ends with a definite result only when all calls came back.  A shutdown may
  give up a run that is queued again: when the executor of a requeued run comes late, the closing
  Host still ends what it was asked to do (`Abandon`).  A withdrawn run may be started all the same, once in its
  attempt (`Wake`, finding 1); it looks at its target as others do, but nobody waits for it, and nobody
  recovers it.
* **ExecutionLimiter** - the permits, alone: in StudioHost a step that waits
  for a permit may get one at any time, which over-approximates every limiter.
* **EngineRun** - what an engine sees of the runtime: one stored run, and the calls it
  makes through `port.agent` with their phases (permit, preparation, call, result), aborts
  and stored results.  One Host executes the run at a time and may die with it.
* **WorkflowEngine** - `executeStudioWorkflow` over an arbitrary graph: the pass over the
  nodes in topological order, edges that are pending, active, skipped or failed, joins, the
  losers of an any-join, conditions, retries with persisted deadlines, and resuming from the
  checkpoint.  A step ends where the code awaits.
* **GroupTask** - the task mode of the group engine: plan, rounds of tasks, review,
  steering messages with their batch and acknowledgement, as checkpoints.
* **StudioEngines** - one run of either kind with the user's commands, the death of its
  Host and the retry.
* **ProjectLock** - the abstract lock; **WorkspaceLocks** - its implementation with claim files
  of processes that may die.
* **WorkspaceApply** - the journalled application of a change and the recovery, one step per
  file operation; **WorkspaceProject** - composes it with the lock, the user who edits the files,
  failing operations and deaths.
* **AgentTools** - tool calls of a running agent with their receipts, its turns, the child
  runs, and the event that each end of a child leaves in the outbox; the user's commands with
  theirs.
* **MC...** - instances for TLC.  **..._proofs** - theorems.

### State

| Model | Code |
|---|---|
| `run[r]` | `run` entity: state, owner, attempt, resultKnown (`known`), cancelRequested (`cancel`) |
| `active` | `active` entities |
| `lease` | row `executor` of `studio_meta`, `until` reduced to `live` |
| `results[r][s]` | what `readStudioStep` (or, for a confirmation, `workflowCached`) returns |
| `turns` | `turn` entities in state `running` |
| `asked[r][s][a]` | `interaction` behind the `interaction-link` of run, step and attempt |
| `steering[r]` | `steering` entities in state `pending` |
| `host[h]` | `StudioRuntimeLifecycle` and the progress of `disposeAllAndWait` |
| `tick[h]` | local variables of the `tick` in progress: `queuedRuns`, `activeTargets` |
| `exec[h][r]` | entry of the `active` map: attempt, abort signal, the engine's result once it returned |
| `task[h][r][s]` | where the promise of a step stands |
| `stored`, `turn` (EngineRun) | `readStudioStep` of a call; how far its `executeStudioTurn` is |
| `value`, `wait` (WorkflowEngine) | `checkpoint.steps`, the retry deadlines |
| `engine`, `node`, `outcome`, `abandoned` | locals of `executeStudioWorkflow`: place in the loop, `running`, `outcomes`, losers |
| `plan`, `inbox` (GroupTask) | `checkpoint.plan`, the `steering` entities |
| `desk`, `output`, `busy` | locals of `task()` and `studioGroupTasks` |
| `at`, `claims`, `toScan` (WorkspaceLocks) | place in `withWorkspaceLock`, claim files, listed claims still to be looked at |
| `files`, `journal`, `session` (WorkspaceApply) | project, staging, backup and rollback file of each change; newest journal; locals of apply and recovery |
| `caller`, `op` (AgentTools) | turn and ownership behind `assertStudioAgentCaller`; a tool call between `mutate`'s first transaction and its last |
| `receipt`, `command` | `agent-operation` and `command` entities |
| `tasks`, `runs`, `event` | `agent-task`, the runs with an `agent-run-link`, `agent-event` |
| `queue` (AgentTools) | `queuedRuns` of the tick in progress |
| `planned`, `shown`, `touched`, `edited`, `removed`, `told`, `done` | history variables of the engines, the project and the tools |
| `calls`, `expiries` | history variables: calls made in this attempt; late renewals so far |
| `woken` (StudioHost, AgentTools, RunLifecycle) | history variable: runs started in this attempt after they had been withdrawn |

### Abstractions worth knowing

* A recovered or retried run is planned anew by its engine; the model keeps a fixed set
  of steps per run and the rules the engines share: what may start, that an unknown or
  cancelled outcome aborts the siblings, how outcomes combine.  Order among steps is free,
  which allows more than any graph or plan.
* The call of an executor runs up to its first await inside the tick that starts
  it.  The model lets other processes in before that; the fence is evaluated again anyway.
* The checks in front of a dispatch and its transaction are one step, as is the claim with the
  scan when the lease was already held; that another process may commit between the
  *reading of the queue* and the dispatch is modelled.  `CommandsDuringScan` is a bound on it: the
  runs, with their attempts, which such a command may change.
* A call asks at most one question per step and attempt.  Steering messages are a set; the
  same message sent again after it was read is a new one.
* In StudioHost apply locks, agent deadlines, the outbox, messages and native sessions are
  left out.  `MaxQueued` and `MaxPerTarget` are the code's limits on admission.
* StudioEngines has no lease: takeovers are StudioHost's.  A crash drops every local variable
  of the engine and every call that is under way, whose turn record makes recovery end the run
  as interrupted.
* Conditions say yes or no, host members answer with a valid plan, a completion, a revision or
  rubbish; what plans and tasks say is left out, so every round has the same tasks.
* A file is an inode and its content; a hard link gives one inode two names, so an edit in
  place shows under both.  Hashes are the contents themselves.
* Children of an agent are runs with their state only; StudioHost has the rest of their life.
  A tool call may be refused for any reason the code has.  A deadline may pass at any time.
  `mutations` serialises the calls of one conversation within a Host; two Hosts do not
  share it, and the model lets any two grants overlap.  The loop of a tick is modelled as in StudioHost:
  `ScanQueue` reads, `StartRun` writes back what was read, commands of other processes and the recovery by another
  Host come in between.  Which Host executes a child is not followed, so a child that was woken may let another run of its
  target go while it executes, and may settle after its Host is gone; both allow more than the code.
* The settling transaction of a step does not fail; that of a run may (`FailRun`), and then the transaction of
  `failRun` itself does not.

## 3. Runs

In the `host_` runs there are two Hosts, interchangeable (symmetry, except in the liveness run).
A Host that quit or died does not come back: the second Host is the next incarnation, and a
new process takes a new owner token (`clock.id()`).  `CHECK_DEADLOCK FALSE` where the
system may really stop: all Hosts may quit, both processes of a project may be dead or nobody
opens a session, and an agent's turns may be over.  The engines must not come to rest before
their run has ended, so `engines` checks deadlock.

| Run | Instance | Properties |
|---|---|---|
| `host_calls` | a chat, two attempts, its call may ask, one late renewal, in the first attempt commands in the middle of a scan | `TypeOK`, `AtMostOneCall`, `NoOrphan`, `FinalUntilRetry` |
| `host_confirm` | a workflow with one confirmation, two attempts, one late renewal, commands in the middle of a scan | `ConsentGiven`, `QuestionsSettled`, `AnswerKept` |
| `host_queue` | two inputs of one group, one a task with a steering message, two attempts, two executors per Host, for the first attempt of the task commands in the middle of a scan | `ActiveIndex`, `OneExecutingPerTarget`, `SteeringRead`, `UnknownBarrier`, `RefinesLifecycle` |
| `host_live` | two inputs of one conversation, one attempt, fairness | `StopEnds`, `QueueMoves` |
| `limiter` | five requests, three conversations, two permits, aborts | `TypeOK`, `PermitsCounted`, `OnePerKey`, `NoLostWakeup`, `SleepersServed` |
| `workspace_apply` | two processes, three changes (rewritten, added, deleted), one edit, two faults | `TypeOK`, `MutualExclusion`, `AllOrNone`, `OriginalKept`, `EditSurvives`, `DeletionKept`, `ReceiptIsCommit`, `RecoverySettles`, `FinalStays` |
| `engines` | two workflows and a group task, two answers of the host per stage, two attempts, one crash | `TypeOK`, `NeverStuck`, `LosersOut`, `SuccessReachesEnd`, `RetryOnTime`, `UnknownStops`, `PlannedOnce`, `OneCallPerMember`, `CompletionIsEarned` |
| `agent_tools` | four tool calls, two turns, two commands of the user, a child with up to two runs | `CommandOnce`, `EndsTold` |
| `agent_stale` | violation | `EndToldAsItWas` |
| `engine_unknown` | violation | `UnknownShown` |
| `host_cancel_race` | violation | `CancelledIsFinal` |
| `host_cancel_question` | violation | `CancelExpiresQuestions` |

Why the bounds are enough to be interesting.  Two attempts are what it takes for a result
of the first to arrive in the second.  One late renewal is what it takes for an owner to
lose its lease to the other Host and for a Host to recover its own runs.  Two runs of one
target are what mutual exclusion, the barrier and the queue are about.  A retry after a
takeover, a second takeover and a late result fit together in one behaviour.  Runs of
different targets meet only at the number of executors.

`workspace_apply`: three kinds of change, and two faults so that a recovery can fail or die as
well; the state graph has 723 thousand states (to depth 87).  By hand also with two edits and one
fault (2.3 million states, no error).

`engines`: `RaceGraph` has two branches that race to an any-join, the longer one ending in a
condition; `ChoiceGraph` has an agent with a retry beside a condition, an any-join and an
all-join behind a branch that may be skipped.  The group has three tasks, of which the first needs the
second (the order of tasks need not be topological) and shares its member with the third, and two messages with batches
of one, so that a message is always left for the next plan.  The host may be asked twice for each plan or review, as in the code
(`HostResponses`), so a second answer meets crashes and messages.  1.13 million states (to depth 116).

By hand also `LateGraph` (`Graphs <- LateOnly`), with one attempt, one crash and two results of a call (118 thousand states, no
error): two branches lead to both of two any-joins, so they are no losers of the second one, and the first of them
may succeed after the loop has chosen the winner of the second.  The loop keeps the winner it
began with (`engine.won`); the predecessor that a fresh look would choose has other losers, which may still run.
`LosersOut` therefore says that *there is* an active predecessor whose losers are out.

`agent_tools`: one dispatch, two messages and one cancel, so that messages of two grants compete
for the last round; the user resumes the first run or stops the second, also while a loop is about to start it.  1.22 million
states.  One child is enough
for both properties, each of which speaks of one child; with it the limits on the number of
children never bite.

Commands of another process come in the middle of a scan and its dispatch loop without a bound in `host_confirm` and the two
violation runs; in `host_calls` and `host_queue` they may change a run there in its first attempt, which a retry then follows
(806 thousand and 396 thousand states; without this bound 1.39 million and 871 thousand, checked by hand without an error); in
`host_live` they wait for the end of the loop, to keep its 34 thousand states within reach of the liveness check.  The proofs
need no such bound.  What the properties say of the `active` index, of targets and of final states they say of the runs
that were not started after their withdrawal, with `FinalUntilRetry` and `RefinesLifecycle` naming the one start that finding 1
is about.  Woken runs are in the model with all they do, and `AtMostOneCall`, `ConsentGiven`, `QuestionsSettled`,
`AnswerKept` and `SteeringRead` make no exception for them.

Next to some definitions stands a second one marked `Mutant`: the same operation with a
plausible slip (a dropped guard, a missing reset).  No specification uses them.
`PROJECT.json` pairs every property of a passing run with a mutant; with the mutant in place
of its original TLC finds the property violated, which shows that the run can tell.

### Findings

1. **A cancelled run starts** (`host_cancel_race`).  Host A reads the queue; Host B
   commits a cancel of a queued run; A's dispatch transaction checks the lease, not the run,
   and writes the record it read: the run is `running`, the stop request is gone and the run
   has no entry in the `active` index.  `specs/knorvia-backend.md`
   (lines 40 and 44) says that late events do not change a final state and that a stop is
   not undone by an old queue entry.  Outside the index such a run is found by no recovery: after a crash it stays
   `running` for ever, and a stop never ends it; an owner that lost and regained its lease may give it a definite end with a
   call still open; late steering may put it back as `queued`, where no scan sees it; and another input of its target may
   start beside it on the next Host.  What the run does to its own record and to no other one is what
   `StudioProperties` shows.
2. **A cancelled run goes on asking** (`host_cancel_question`).  A Host dies with a
   confirmation open; the next one requeues the run and keeps the question, as it should; a
   cancel then ends the queued run without expiring it.  Line 47 of the same document says that
   cancelling invalidates unanswered requests.

3. **A loser's unknown result disappears** (`engine_unknown`).  The call of a branch ends with an unknown
   result, which is stored, and the Host dies before its node is settled.  The next execution finds
   the winner of the any-join in its checkpoint, abandons the branch before it reads the stored result, and the
   workflow ends as succeeded.  The comment at `app/workflowExecutor.ts` line 48 says that an unknown
   side effect is always shown, even if its branch has lost.
4. **A child's end is not told** (`agent_stale`).  As in finding 1, a child is cancelled by another process
   while a Host is about to start it.  The cancel records its event; the child executes in spite of it, and its real end finds
   an event of this run and attempt (`app/agentOutbox.ts`, line 59) and is dropped.  The parent is told
   `cancelled` of a child that may have succeeded, failed or ended as unknown.  `specs/knorvia-studio-agent-tools.md`
   (line 19) says that the terminal transition and its entry commit in one transaction, and that a result freezes all steps of the attempt.

Observations that no run claims, because no document clearly forbids them: a chat stopped while it waits for a permit
ends as interrupted with an unknown result although no call was made (the rejected
`acquire` leaves `executeStudioTurn` as an exception); and a stopped run whose
Host dies before the executor was aborted is requeued with its stop request, dispatched
again, and ends as interrupted rather than cancelled if its step is an agent step.

Of the engines:

* `resume` deletes the stored results of failed steps (`commandAdmission.ts`, lines 203-205), the
  first call of a node among them.  A node whose *retry* had succeeded, but whose outcome was
  not saved when the Host died, begins with the first call again.  `specs/knorvia-backend.md` (lines 46-47)
  says that completed nodes are not executed again; whether such a node is completed is a matter
  of reading.
* After a user's retry a loser that had failed is started again beside what follows the join;
  `LosersOut` speaks of the first attempt only.
* Two deaths of the Host can do the same without a retry.  A branch of an agent `p`, an all-join `k` and an agent `m` lost at
  an any-join because `p` failed, so `k` and `m` were settled as failed.  The first restart executes `p` again, and before its
  failure is read from the store a later any-join abandons the branch, which shows `p` as skipped; the Host dies before
  `k` and `m` are.  To the second restart a skipped predecessor of `k` is no obstacle: `k` goes ahead and `m`, which was
  never called, gets a permit beside what follows the first join, until the pass comes to the later join and
  aborts it.  TLC finds this on a graph of 18 nodes with `MaxCrashes = 2`; `LosersOut` speaks of at most one death.
* A loser or a group task that waits for a permit when it is aborted counts as unknown, which ends
  the whole run as interrupted although nothing was called.
* A stored `cancelled` of a loser, replayed after a crash, may cancel the whole workflow.
* A retry deadline that passed during an earlier attempt makes a later attempt skip its backoff.
* A message committed between the two looks at the inbox (`groupSteps.ts`, lines 82 and 86) lets a
  round find nothing to start and nothing running: the run fails with "dependencies cannot progress".

Of the project:

* A staging file torn by a crash or a full disk is "preserved" by every later recovery, which
  therefore never finishes, and the project stays closed until somebody removes the file.  `RecoverySettles` leaves this case out.
* A published file that the user deletes between its link and the unlink of its staging name
  (`workspaceApply.ts`, lines 131 and 132) is put back if the process dies there or the unlink fails: recovery finds no project file and a
  staging file, which is also what an apply leaves that died before the link, so the test at
  `workspaceRecovery.ts`, lines 71-78, passes and line 109 links the backup.  `DeletionKept` speaks of deletions after the unlink, and of those
  before an unlink that then takes place.

Of the agent tools: `message_task` does not look at the number of children at work
(`agentDispatch.ts`, line 277), so messages to finished children put more of them to work than
`maxActive`; and a resumed child whose deadline has passed is stopped at the next tick, because a
resume does not renew it.

## 4. Fairness

The engines, the project and the agent tools are checked for safety, and the engines for
deadlock.  Liveness is stated of the Hosts and the limiter.

`FairSpec` assumes no more than the code's scheduling gives:

* `WF` of a Host's tick (an interval timer), of recording what a shutdown cuts off, and of
  closing once all executors are done (both are continuations of one promise chain).
* `SF` of the continuations of a step and of a run's settlement: they run whenever the
  thread returns to its event loop, and a tick disables them for its duration.  A native
  call is only assumed to end once it is aborted: an adapter must honour its signal.  A call
  left alone may go on for ever, a user may never answer.
* `WF` of the lease running out when its owner is gone.  A living owner need never be late.
* Nothing of users, crashes, quitting or starting.

`StopEnds` and `QueueMoves` therefore name the cases in which nothing has to happen: no open Host,
an unresolved run that waits for the user, an unanswered question, a call that goes on.

## 5. Proofs

All for any number of Hosts, runs, steps and attempts, sessions, changes, calls and children, from the
named assumptions on the constants (`StoreConstants`, `HostConstants`, `LimiterConstants`, `PortConstants`,
`GroupConstants`, `GraphsValid`, `ProjectConstants`, `ToolConstants`), which TLC evaluates on the instances.  No
theorem depends on `CommandsDuringScan`: commands may come in at any moment.

The Hosts and their store:

* `StudioHost_proofs!TypeCorrect`: `Spec => []TypeOK`.  `TypeOK` alone is not
  inductive: the attempt written to a turn record or used to index `asked` is the
  executor's, which may be 0 when there is none.  `TypeInv` adds
  `TaskHasExecutor`: a task that has begun belongs to an executor, so its attempt is one.
  One lemma per action.
* `StudioHost_proofs!AnswerKeptAlways`: the four places that change `asked` (a command, an
  expiry, the opening and the closing of a question) leave an answer alone.
* `StudioHost_proofs!ConsentGivenAlways`: `Spec => []ConsentGiven`.  A result is stored
  long after the answer was read, so the invariant has to carry the consent along:
  `ConsentHeld` says that a confirmation task that is about to be saved as succeeded, or is done
  so, belongs to a step the user allowed; `ConfirmKinds` that a confirmation task is
  never in a place of agent steps.  `AnswerKept` shows that the consent stays.
* `StudioCalls_proofs!QuestionsSettledAlways`, `SteeringReadAlways`: the first is inductive once it is
  known what each action does to the records (the lemmas `...Records`); the second needs that the
  engine of a task never ends as skipped.
* `StudioCalls_proofs!AtMostOneCallAlways`: `Spec => []AtMostOneCall`, with commands in the middle of a
  scan or without.  Nothing in the code counts calls; that a step about to be called was not called in this
  attempt follows from how executors, turn records and stored results hang together.  `CallInv` says
  that a call of the attempt is still open as a turn record or has left a result (`CallsRecorded`); that
  the open calls of a run are made by the executor that is its recorded owner (`HeldTurns`), unless the
  owner has lost its lease on the way (`DoneSettled`); that nobody queues a run with an open call
  (`QueuedSettled`, `QueueKept`); and that a task about to call has seen no result, and there is
  still none (`PreparedFresh`).
* `StudioLifecycle_proofs`: `ActiveIndexAlways`, `NoOrphanAlways`, `OneExecutingAlways`,
  `UnknownBarrierAlways`, `FinalUntilRetryAlways` and `LifecycleRefined`, for commands at any time.  `LifeInv` says what the
  lease holder knows: what it has read of the queue is so, or was withdrawn meanwhile (`QueueRead`); once it has recovered, it
  executes every run of the index that is recorded as executing (`Regular`) and no such run shares its target (`HeldByOwner`,
  `LocalTargets`, `OneLocal`, `OneRegular`); and nothing of the index executes beside a run whose
  effects are unknown (`Barrier`).  A dispatch makes a run either regular or woken, and finds the target free in both cases
  (`StartAlone`), a woken run of an executor of the same Host included.  `LifecycleRefined` proves the refinement of RunLifecycle step by step: one
  lemma per action names the abstract step it is (`SendRefines`, `DispatchRefines`, `InterruptRefines`, ...) or
  shows that it is a stutter; the dispatch of a withdrawn run is `Wake`.

The limiter:

* `ExecutionLimiter_proofs`: `LimiterTyped`, `PermitsCountedAlways`, `OnePerKeyAlways`, `NoLostWakeupAlways`, from
  one inductive invariant (types, the count as a cardinality, one holder per
  key, sleepers registered and blocked).

The project:

* `WorkspaceLocks_proofs!LockExcludes`: `LockSpec => []MutualExclusion`, for any number of processes and of dead
  claims.  Exclusion itself is not inductive: what makes the protocol right is that of two living
  sessions that have both listed the directory, one has still to look at the other's claim
  (`OneStillLooks`).  `LockImplements` shows that the lock implements ProjectLock, step by step:
  entering is `Acquire`, leaving and dying are `Release`, everything else is a stutter.
* `WorkspaceProject_proofs!ProjectFollowsLock`, `ProjectExcludes`: the composition does only steps of the lock, so
  exclusion holds of it, and one call at most works on the files.
* `WorkspaceProject_proofs`: all the other properties of the project, for any finite set of changes and any number of
  sessions, edits and faults (`TypeOKAlways`, `AllOrNoneAlways`, `OriginalKeptAlways`, `EditSurvivesAlways`,
  `DeletionKeptAlways`, `ReceiptIsCommitAlways`, `RecoverySettlesAlways`, `FinalStaysAlways`), from one invariant in two
  parts.  `FilesInv` is what is left when no call is at work, wherever the last one died: only the changes of
  the newest journal have recovery files (`OthersBare`), what the user deleted cannot be put back
  (`DeletedForGood`: no original, or neither a staging nor a captured file; an unlink establishes it for what was deleted since the link), what the user wrote is under some name (`EditsKept`), and for a change nobody touched the
  original stays until the commit, and a file that apply took away is announced by its staged or captured
  successor (`AllLegal`).  `CallInv` is what the living call knows at each of its places: which
  changes are staged, published or undone, and what is under the names of the one it works on.
  The lemmas show it for every place, every fault and every death, and that an edit of the user at any
  moment takes a change out of what is said of untouched ones.  `Calm` carries along that nothing has
  disturbed a recovery, for `RecoverySettles`, which is about sessions without a fault, files the user has not touched, and
  no torn staging file.  The loops take the first or the last path that is left, which
  exist because the changes are finitely many numbers (`SmallestNat`, `Bounded`, `LargestNat`).
  `ProjectConstants` says in addition that a missing file is no content and a torn file is neither the old
  nor the new one.  TLC checked the invariant on the instance of the run, and on one with two edits that
  may be the new content itself.

The agent tools:

* `AgentTools_proofs!CommandOnceAlways`, `EndsToldAlways`: for any number of tool calls, turns, children, attempts
  and user commands, from `ToolConstants`.  The invariant says of every call in progress that its receipt is still
  `sent` and that no other grant makes it (`OpInv`); of a call that may still take effect, that the child's record
  it read before its awaits is the one in the store (`Current`), which is what makes the
  write-back of `messageStudioAgent` right; and of the outbox that no event belongs to a run or
  attempt that has not been (`EventKeys`).  That every transaction which writes runs tells their ends is
  proved once (`WriteTells`) for any *legal* change of runs (one that goes on with an attempt, or
  begins the next after an end), and each action is shown to be legal.  The exception is the start of a run that was
  withdrawn after the loop had read it (`QueueRead`): its attempt already has an event, which says cancelled and stays (`woken`).

The engines:

* `StudioEngines_proofs`: `EngineInvariance`, `EnginesTypeOK`, `OneCallPerMemberAlways`, `PlannedOnceAlways`, `CompletionIsEarnedAlways`,
  `RetryOnTimeAlways`, `UnknownStopsAlways`, for any graphs, any tasks, any set of messages and any number of
  retries and deaths.  The store and the runtime's calls come first: a result that came back is
  the one in the store (`StoreOK`), and an engine has no more calls under way than its host stage, its busy tasks
  or its agent nodes account for (`DeskOK`, `EngineOK`), busy tasks being of different members (`RoundOK`).
  `EngineInv` collects this, and implies `OneCallPerMember`.  On it rest, each with an invariant of its own:
  - where a message is (`MessageInv`): in the inbox, in the fixed batch, taken in by one saved plan that has
    still to acknowledge it, consumed; and at which places of the engine the plan may have something to
    acknowledge.  That a batch keeps its limit is shown by counting the messages before each of
    it, so the set of messages need not be finite;
  - which batch an answer is about (`ShownOK`): a stored or open steering call of the plan's revision was made with
    exactly the plan's batch, although the call may be replayed from the store after a crash;
  - what success rests on (`DeskDone`, `EarnedOK`): outputs are stored results, the drain begins with
    all tasks done or something to give up, and only an accepted review over an empty inbox completes;
  - what a node knows of its earlier calls (`RetriesOK`): a second call has a stored failure and a passed
    deadline before it, which survive the restart as both are checkpointed before the next call; a call that is made has no
    stored result, and its number is within `retryCount` (`RetryCounts`);
  - where an unknown result is (`UnknownSeen`): returned and unread, or the engine is fatal, as long as no
    Host has died.  With a crash this is false, which is finding 3.

* In the same module, of the loop over the graph:
  `LoopInvariance`, `NeverStuckAlways`, `LosersOutAlways`, `SuccessReachesEndAlways`, for any valid graph.
  The recursive functions of the model (`Ancestors`) are shown to have their defining equation by building them up
  along the topological order (`AboveAll`, `AncestorsAre`), which gives that ancestors come before their
  descendants and are transitive; `Losers` need not be unfolded.  Then:
  - `PassOK`: a pass is at its beginning, or has made progress, or stands at a join whose losers it abandons.  If nothing
    is left to do and nothing runs, the first node without an outcome would wait for a predecessor before it
    (`NotStuck`), so `NeverStuck`;
  - `JoinsOK`: the join that goes ahead has a predecessor that won, whose losers all have their outcome
    (`LaunchAlone`), and outcomes stay as long as the Host lives.  Hence `LosersOut`, which the theorem
    states for `crashes = 0`: after a death a loser that had failed is executed again.  With one death the run still finds
    no violation, with two there is one (see the observations);
  - `ResultsOK` and `ReasonsOK`: why a node has its outcome.  A skipped node has only ways in that were ruled out, or lies
    above an any-join with a winner; a node that ran has only finished predecessors; an any-join fails
    only without an open way in.  A success means that the loop is complete and no end failed.  The last node
    among those which failed and are above no succeeded join would have a successor of the same kind
    (`FailuresCovered`), and the last node that went well is an end (`EndReached`).

  TLC checked these invariants on the instance of the run `engines` and on `LateGraph` before they were proved.

Only model-checked: `LosersOut` after one death of the Host (see above); and all liveness (`StopEnds`, `QueueMoves`,
`SleepersServed`), which under fairness is out of the prover's reach.

## 6. Not modelled

See `PROJECT.json`, each with its reason.  In the Studio runtime: creation nodes, the manual mode of
groups, children of children, the reading and acknowledging of events and the checks of kernels and
permissions of the agent tools, previews, review, images and projections.  Outside it: the creation
service, the command line agent, RPC, servers, desktop shell, and the user interface.  Most of the
repository's lines are of the last kind: views, adapters, texts and protocol tables.

## 7. Plan

In order of weight; every module keeps its parameters as CONSTANTS with named assumptions, one
action per operation, and no RECURSIVE operator where proofs are meant.

Done so far: the Hosts and their store, the limiter, both engines, the project, the agent tools.  Left:

1. **WorkspaceReview**: the commands that list, accept and apply changes, over WorkspaceProject, with the
   apply lock of the store.
2. **Previews**: one process per workspace, its start, stop and death.
3. A proof of `LosersOut` across one death: a loser that had failed fails again from the store, and what is below it
   is not reached either.
4. Children of children with the limit on depth, and the manual mode of groups.
