------------------------ MODULE StudioLifecycle_proofs ------------------------
(***************************************************************************)
(* The life of runs under any number of Hosts, crashes, expired leases,    *)
(* retries and commands at any time.                                       *)
(*                                                                         *)
(* The invariant says what the lease holder knows: after its recovery it   *)
(* executes every run of the index that is recorded as executing, none of  *)
(* them shares a target with another of its executors or with a run whose  *)
(* effects are unknown; what it has read of the queue is still so, but for *)
(* runs that were withdrawn meanwhile.  Those it may wake up; a woken run   *)
(* is outside the index, and all that is known of it is that its dispatch   *)
(* found its target free.                                                  *)
(***************************************************************************)
EXTENDS StudioCalls_proofs

\* h holds the lease and has recovered what it found when it took it.
Settled(h) == host[h] \in {"open", "stopping", "draining"} /\ Owns(h) /\ tick[h].pc # "recover"

\* A process that has not started owns nothing.
NewOwnsNothing == \A h \in Hosts : host[h] = "new" => lease.owner # h

QueuedFree == \A r \in Runs : run[r].state \in {"queued", "absent"} => run[r].owner = NoHost

\* A run is admitted with its first attempt.
Admitted == \A r \in Runs : run[r].state # "absent" => run[r].attempt # 0

AbsentFresh ==
  \A r \in Runs : run[r].state = "absent" =>
    r \notin woken /\ \A s \in Steps : calls[r][s] = 0

\* A run that executes and is in the index.
Regular(r) == r \notin woken /\ run[r].state \in Executing

\* What the dispatching owner has not reached of the queue it read is still queued, or was
\* withdrawn.
QueueRead ==
  \A h \in Hosts : Owns(h) /\ tick[h].pc = "dispatch" =>
    \A r \in tick[h].queue :
      /\ r \notin woken
      /\ run[r].state \in {"queued", "cancelled"}

\* The lease holder is the owner of all that executes, and executes it until it quits.
HeldByOwner ==
  \A h \in Hosts, r \in Runs :
    Settled(h) /\ Regular(r) =>
      run[r].owner = h /\ (host[h] = "open" => Executes(h, r))

\* None of its executors shares a target with a run that executes.
LocalTargets ==
  \A h \in Hosts, q, r \in Runs :
    /\ Settled(h) /\ Regular(r)
    /\ Executes(h, q) /\ TargetOf[q] = TargetOf[r]
    => q = r

OneLocal ==
  \A h \in Hosts, q, r \in Runs :
    Executes(h, q) /\ Executes(h, r) /\ TargetOf[q] = TargetOf[r] => q = r

\* Nothing executes next to a run whose effects are unknown.
Barrier == \A r \in Runs : Regular(r) => ~HasUnknown(TargetOf[r], {})

OneRegular ==
  \A q, r \in Runs : Regular(q) /\ Regular(r) /\ TargetOf[q] = TargetOf[r] => q = r

Owners == HeldByOwner /\ LocalTargets /\ OneLocal /\ OneRegular
Records == NewOwnsNothing /\ QueuedFree /\ Admitted /\ AbsentFresh
LifeInv == Records /\ ActiveIndex /\ QueueRead /\ Owners /\ Barrier

LEMMA InitLife == Init => LifeInv
<1> SUFFICES ASSUME Init PROVE LifeInv
    OBVIOUS
<1>1. /\ active = {} /\ woken = {} /\ lease.owner = NoHost
      /\ \A h \in Hosts : tick[h].pc = "idle"
      /\ \A h \in Hosts, r \in Runs : exec[h][r].attempt = 0
      /\ \A r \in Runs : run[r].state = "absent" /\ run[r].owner = NoHost
      /\ \A r \in Runs, s \in Steps : calls[r][s] = 0
      BY DEF Init, StoreInit, NoTick, NoExec, Absent
<1>2. Records
      BY <1>1, StoreConstants DEF Records, NewOwnsNothing, QueuedFree, Admitted, AbsentFresh
<1>3. ActiveIndex /\ QueueRead /\ Barrier
      BY <1>1 DEF ActiveIndex, QueueRead, Barrier, Regular, ActiveStates, Executing
<1>4. Owners
      BY <1>1
      DEF Owners, HeldByOwner, LocalTargets, OneLocal, OneRegular, Regular, Executes, Executing
<1> QED
    BY <1>2, <1>3, <1>4 DEF LifeInv

(***************************************************************************)
(* Frames.                                                                 *)
(***************************************************************************)
\* No run of the index begins to execute and no executor begins; a Host settles only by
\* starting or recovering; an open owner ends an executor only when its run ends too.
NothingStarts ==
  /\ \A q \in Runs : Regular(q)' => Regular(q) /\ run'[q].owner = run[q].owner
  /\ \A k \in Hosts, q \in Runs : Executes(k, q)' => Executes(k, q)
  /\ \A k \in Hosts : Settled(k)' => Settled(k) /\ (host'[k] = "open" => host[k] = "open")
  /\ \A k \in Hosts, q \in Runs :
       Settled(k)' /\ host'[k] = "open" /\ Regular(q)' /\ Executes(k, q) => Executes(k, q)'

LEMMA OwnersFrame ==
  ASSUME Owners, NothingStarts
  PROVE  Owners'
<1>1. HeldByOwner'
      BY DEF Owners, HeldByOwner, NothingStarts
<1>2. LocalTargets' /\ OneLocal' /\ OneRegular'
      BY DEF Owners, LocalTargets, OneLocal, OneRegular, NothingStarts
<1> QED
    BY <1>1, <1>2 DEF Owners

\* A run becomes unknown only where nothing of the index executes afterwards.
UnknownAlone ==
  \A q \in Runs : IsUnknown(q)' =>
    IsUnknown(q) \/ \A r \in Runs : TargetOf[r] = TargetOf[q] => ~Regular(r)'

LEMMA BarrierFrame ==
  ASSUME Barrier, UnknownAlone, \A q \in Runs : Regular(q)' => Regular(q)
  PROVE  Barrier'
BY DEF Barrier, UnknownAlone, HasUnknown

\* The loops go on with what they have read, or end; what they have not reached is as it
\* was, or withdrawn.
QueuesKept ==
  \A k \in Hosts : Owns(k)' /\ tick'[k].pc = "dispatch" =>
    /\ Owns(k) /\ tick[k].pc = "dispatch" /\ tick'[k].queue \subseteq tick[k].queue
    /\ \A r \in tick'[k].queue :
         /\ r \in woken' => r \in woken
         /\ run'[r] = run[r] \/ run'[r].state = "cancelled"

LEMMA QueueReadFrame ==
  ASSUME QueueRead, QueuesKept
  PROVE  QueueRead'
BY DEF QueueRead, QueuesKept

LEMMA QueueRecords ==
  ASSUME TypeInv, QueueRead, NEW k \in Hosts, Owns(k), tick[k].pc = "dispatch"
  PROVE  \A q \in tick[k].queue :
           q \in Runs /\ q \notin woken /\ run[q].state \in {"queued", "cancelled"}
BY DEF QueueRead, TypeInv, TypeOK, TickState

RecordsKept ==
  /\ \A k \in Hosts : host'[k] = "new" =>
       host[k] = "new" /\ lease'.owner \in {lease.owner, NoHost}
  /\ \A q \in Runs : run'[q].state \in {"queued", "absent"} =>
       run'[q].owner = NoHost \/ (run'[q].state = run[q].state /\ run'[q].owner = run[q].owner)
  /\ \A q \in Runs : run'[q].state # "absent" =>
       run'[q].attempt # 0 \/ (run[q].state # "absent" /\ run'[q].attempt = run[q].attempt)
  /\ \A q \in Runs : run'[q].state = "absent" =>
       run[q].state = "absent" /\ calls'[q] = calls[q] /\ (q \in woken' => q \in woken)

LEMMA RecordsFrame ==
  ASSUME Records, RecordsKept
  PROVE  Records'
<1>1. NewOwnsNothing'
      BY StoreConstants DEF Records, RecordsKept, NewOwnsNothing
<1>2. QueuedFree'
      BY DEF Records, RecordsKept, QueuedFree
<1>3. Admitted'
      BY DEF Records, RecordsKept, Admitted
<1>4. AbsentFresh'
      BY DEF Records, RecordsKept, AbsentFresh
<1> QED
    BY <1>1, <1>2, <1>3, <1>4 DEF Records

\* Where no stored run changes, the processes decide.
LEMMA SameRunsLife ==
  ASSUME LifeInv, UNCHANGED <<run, active, calls, woken>>, NothingStarts, NewOwnsNothing',
         QueueRead'
  PROVE  LifeInv'
<1>1. Records'
      BY DEF LifeInv, Records, QueuedFree, Admitted, AbsentFresh
<1>2. ActiveIndex'
      BY DEF LifeInv, ActiveIndex
<1>3. Barrier'
  <2>1. UnknownAlone
        BY DEF UnknownAlone, IsUnknown
  <2>2. \A q \in Runs : Regular(q)' => Regular(q)
        BY DEF NothingStarts
  <2> QED
      BY <2>1, <2>2, BarrierFrame DEF LifeInv
<1> QED
    BY <1>1, <1>2, <1>3, OwnersFrame DEF LifeInv

(***************************************************************************)
(* Commands.                                                               *)
(***************************************************************************)
\* Whoever opens an attempt is no longer a woken run.
WokenFollow == woken' = {r \in woken : run'[r].attempt = run[r].attempt}

\* A command leaves a queued or a cancelled run alone, or withdraws it.
LEMMA CommandQueue ==
  ASSUME TypeInv, Command, NEW q \in Runs, run[q].state \in {"queued", "cancelled"}
  PROVE  run'[q] = run[q] \/ run'[q].state = "cancelled"
<1>1. ASSUME NEW r \in Runs, Send(r) PROVE run'[q] = run[q]
      BY <1>1 DEF Send, Absent, TypeInv, TypeOK, StoreTypeOK
<1>2. ASSUME NEW r \in Runs, NEW confirmed \in BOOLEAN, Resume(r, confirmed)
      PROVE  run'[q] = run[q]
      BY <1>2 DEF Resume, TypeInv, TypeOK, StoreTypeOK
<1>3. ASSUME NEW r \in Runs, Cancel(r) PROVE run'[q] = run[q] \/ run'[q].state = "cancelled"
  <2>1. q \in Withdrawn(r) => run'[q].state = "cancelled"
    <3>1. run[q] \in RunRecords
          BY DEF TypeInv, TypeOK, StoreTypeOK
    <3> QED
        BY <1>3, <3>1 DEF Cancel, RunRecords
  <2>2. q \notin Withdrawn(r) /\ q # r => run'[q] = run[q]
        BY <1>3 DEF Cancel
  <2>3. q = r => q \in Withdrawn(r)
        BY <1>3 DEF Cancel, Withdrawn, ActiveStates
  <2> QED
      BY <2>1, <2>2, <2>3
<1> QED
    BY <1>1, <1>2, <1>3 DEF Command, Answer, Steer

LEMMA CommandLife ==
  ASSUME TypeInv, TypeInv', LifeInv, UserCommand
  PROVE  LifeInv'
<1>1. /\ UNCHANGED <<host, tick, exec, lease>> /\ CallsFollow /\ WokenFollow /\ Command
      BY DEF UserCommand, CallsFollow, WokenFollow, local, Command, Send, Cancel, Resume, Answer,
             Steer
<1>2. QueueRead'
  <2>1. ASSUME NEW k \in Hosts, Owns(k), tick[k].pc = "dispatch", NEW q \in tick[k].queue
        PROVE  run'[q] = run[q] \/ run'[q].state = "cancelled"
        BY <1>1, <2>1, QueueRecords, CommandQueue DEF LifeInv
  <2>2. QueuesKept
        BY <1>1, <2>1 DEF QueuesKept, WokenFollow, Owns
  <2> QED
      BY <2>2, QueueReadFrame DEF LifeInv
\* Every run is as it was, or new in the queue, or withdrawn from it, or asked to stop.
<1>3. \A q \in Runs :
        /\ \/ /\ run'[q].state = run[q].state /\ run'[q].owner = run[q].owner
              /\ run'[q].known = run[q].known /\ (q \in active' <=> q \in active)
              /\ run'[q].attempt = run[q].attempt
           \/ /\ run'[q].state = "queued" /\ run'[q].owner = NoHost /\ q \in active'
              /\ run'[q].attempt # 0 /\ run'[q].attempt # run[q].attempt
           \/ /\ run'[q].state = "cancelled" /\ q \notin active'
              /\ run[q].state # "absent" /\ run'[q].attempt = run[q].attempt
  <2>1. ASSUME NEW r \in Runs, NEW a, run' = [run EXCEPT ![r] = Queued(a)],
               active' = active \cup {r}, NEW q \in Runs, a # 0, a # run[r].attempt
        PROVE  \/ run'[q] = run[q] /\ (q \in active' <=> q \in active)
               \/ /\ run'[q].state = "queued" /\ run'[q].owner = NoHost /\ q \in active'
                  /\ run'[q].attempt # 0 /\ run'[q].attempt # run[q].attempt
        BY <2>1 DEF Queued, TypeInv, TypeOK, StoreTypeOK
  <2>2. CASE \/ \E r \in Runs : Send(r)
             \/ \E r \in Runs, confirmed \in BOOLEAN : Resume(r, confirmed)
    <3>1. ASSUME NEW r \in Runs
          PROVE  run[r].attempt + 1 # 0 /\ run[r].attempt + 1 # run[r].attempt
      <4>1. run[r].attempt \in Nat
        <5>1. run[r] \in RunRecords
              BY DEF TypeInv, TypeOK, StoreTypeOK
        <5> QED
            BY <5>1, StoreConstants DEF RunRecords
      <4> QED
          BY <4>1
    <3>2. \E r \in Runs : \E a : /\ run' = [run EXCEPT ![r] = Queued(a)] /\ a # 0
                                 /\ active' = active \cup {r} /\ a # run[r].attempt
      <4>1. ASSUME NEW r \in Runs, Send(r)
            PROVE  \E a : /\ run' = [run EXCEPT ![r] = Queued(a)] /\ a # 0
                          /\ active' = active \cup {r} /\ a # run[r].attempt
        <5>1. run[r].attempt = 0
              BY <4>1 DEF Send, Absent
        <5>2. 1 # 0 /\ 1 # run[r].attempt
              BY <5>1
        <5> QED
            BY <4>1, <5>2 DEF Send
      <4>2. ASSUME NEW r \in Runs, NEW confirmed \in BOOLEAN, Resume(r, confirmed)
            PROVE  \E a : /\ run' = [run EXCEPT ![r] = Queued(a)] /\ a # 0
                          /\ active' = active \cup {r} /\ a # run[r].attempt
            BY <3>1, <4>2 DEF Resume
      <4> QED
          BY <2>2, <4>1, <4>2
    <3>3. PICK r \in Runs : \E a : /\ run' = [run EXCEPT ![r] = Queued(a)] /\ a # 0
                                   /\ active' = active \cup {r} /\ a # run[r].attempt
          BY <3>2
    <3>4. PICK a : /\ run' = [run EXCEPT ![r] = Queued(a)] /\ a # 0
                   /\ active' = active \cup {r} /\ a # run[r].attempt
          BY <3>3
    <3> QED
        BY <2>1, <3>4
  <2>3. ASSUME NEW r \in Runs, Cancel(r), NEW q \in Runs
        PROVE  \/ /\ run'[q].state = run[q].state /\ run'[q].owner = run[q].owner
                  /\ run'[q].known = run[q].known /\ (q \in active' <=> q \in active)
                  /\ run'[q].attempt = run[q].attempt
               \/ /\ run'[q].state = "cancelled" /\ q \notin active'
                  /\ run[q].state # "absent" /\ run'[q].attempt = run[q].attempt
        BY <2>3, CancelRecords
  <2>4. CASE UNCHANGED <<run, active>>
        BY <2>4
  <2> QED
      BY <1>1, <2>2, <2>3, <2>4 DEF Command, Answer, Steer
<1>4. Records'
  <2>1. \A q \in Runs : run'[q].state = "absent" =>
          run[q].state = "absent" /\ calls'[q] = calls[q] /\ (q \in woken' => q \in woken)
        BY <1>1, <1>3 DEF CallsFollow, WokenFollow
  <2>2. RecordsKept
        BY <1>1, <1>3, <2>1 DEF RecordsKept
  <2> QED
      BY <2>2, RecordsFrame DEF LifeInv
<1>5. ActiveIndex'
  <2>1. active' \subseteq Runs /\ active \subseteq Runs
        BY DEF TypeInv, TypeOK, StoreTypeOK
  <2>2. \A q \in Runs : q \in active <=> run[q].state \in ActiveStates /\ q \notin woken
        BY DEF LifeInv, ActiveIndex
  <2>3. \A q \in Runs : q \in active' <=> run'[q].state \in ActiveStates /\ q \notin woken'
        BY <1>1, <1>3, <2>2 DEF ActiveStates, WokenFollow
  <2> QED
      BY <2>1, <2>3 DEF ActiveIndex
<1>6. NothingStarts
  <2>1. \A q \in Runs : Regular(q)' => Regular(q) /\ run'[q].owner = run[q].owner
        BY <1>1, <1>3 DEF Regular, Executing, WokenFollow
  <2> QED
      BY <1>1, <2>1 DEF NothingStarts, Executes, Settled, Owns
<1>7. UnknownAlone
      BY <1>3 DEF UnknownAlone, IsUnknown
<1>8. \A q \in Runs : Regular(q)' => Regular(q)
      BY <1>6 DEF NothingStarts
<1> QED
    BY <1>2, <1>4, <1>5, <1>6, <1>7, <1>8, OwnersFrame, BarrierFrame DEF LifeInv

(***************************************************************************)
(* Executors.                                                              *)
(***************************************************************************)
\* Steps within an executor move their run between "running" and "waiting" at most.
LEMMA MovesLife ==
  ASSUME TypeInv, TypeInv', LifeInv, StatesMove, UNCHANGED <<active, lease, host, tick, woken>>,
         \A k \in Hosts, q \in Runs : exec'[k][q].attempt = exec[k][q].attempt,
         \A q \in Runs : run[q].state = "absent" => calls'[q] = calls[q]
  PROVE  LifeInv'
<1>1. \A q \in Runs :
        /\ run'[q].owner = run[q].owner /\ run'[q].attempt = run[q].attempt
        /\ run'[q] = run[q] \/ (run[q].state \in Executing /\ run'[q].state \in Executing)
      BY DEF StatesMove
<1>2. RecordsKept
      BY <1>1 DEF RecordsKept, Executing
<1>3. ActiveIndex'
  <2>1. \A q \in Runs : run'[q].state \in ActiveStates <=> run[q].state \in ActiveStates
        BY <1>1 DEF ActiveStates, Executing
  <2> QED
      BY <2>1 DEF LifeInv, ActiveIndex
<1>4. NothingStarts
  <2>1. \A q \in Runs : Regular(q)' => Regular(q) /\ run'[q].owner = run[q].owner
        BY <1>1 DEF Regular
  <2> QED
      BY <2>1 DEF NothingStarts, Executes, Settled, Owns
<1>5. UnknownAlone
      BY <1>1 DEF UnknownAlone, IsUnknown, Executing
<1>6. QueuesKept
  <2>1. ASSUME NEW k \in Hosts, Owns(k), tick[k].pc = "dispatch", NEW q \in tick[k].queue
        PROVE  run'[q] = run[q]
        BY <1>1, <2>1, QueueRecords DEF LifeInv, Executing
  <2> QED
      BY <2>1 DEF QueuesKept, Owns
<1>7. \A q \in Runs : Regular(q)' => Regular(q)
      BY <1>4 DEF NothingStarts
<1> QED
    BY <1>2, <1>3, <1>4, <1>5, <1>6, <1>7, RecordsFrame, OwnersFrame, BarrierFrame, QueueReadFrame
    DEF LifeInv

LEMMA StepLife ==
  ASSUME TypeInv, TypeInv', LifeInv, NEW h \in Hosts, NEW r \in Runs, NEW s \in Steps,
         Step(h, r, s)
  PROVE  LifeInv'
<1>1. UNCHANGED <<active, lease, host, tick, exec, woken>>
      BY DEF Step, BeginStep, AcquireRefused, Acquired, PrepareFails, Dispatch, DispatchRefused,
             CallEnds, SettleStep, Ask, AskEnds, BeginConfirm, ConfirmEnds, SaveConfirm, store
<1>2. StatesMove
  <2>1. \/ CloseQuestion(h, r, s) \/ \E pc : OpenQuestion(h, r, s, pc) /\ OwnedBy(h, r, FALSE)
        \/ UNCHANGED run
        BY DEF Step, BeginStep, AcquireRefused, Acquired, PrepareFails, Dispatch, DispatchRefused,
               CallEnds, SettleStep, Ask, AskEnds, BeginConfirm, ConfirmEnds, SaveConfirm, MustAsk,
               store
  <2> QED
      BY <2>1, QuestionRecords DEF StatesMove
<1>3. \A q \in Runs : run[q].state = "absent" => calls'[q] = calls[q]
  <2>1. CASE UNCHANGED calls
        BY <2>1
  <2>2. CASE Dispatch(h, r, s)
        BY <2>2 DEF Dispatch, Owned, Executing, TypeInv, TypeOK
  <2> QED
      BY <2>1, <2>2
      DEF Step, BeginStep, AcquireRefused, Acquired, PrepareFails, DispatchRefused,
          CallEnds, SettleStep, Ask, AskEnds, BeginConfirm, ConfirmEnds, SaveConfirm
<1> QED
    BY <1>1, <1>2, <1>3, MovesLife

LEMMA EngineLife ==
  ASSUME TypeInv, TypeInv', LifeInv, NEW h \in Hosts, NEW r \in Runs,
         EngineReturns(h, r) \/ \E read \in SUBSET Notes : AckSteering(h, r, read)
  PROVE  LifeInv'
<1>1. UNCHANGED <<run, active, lease, host, tick, calls, woken>>
      BY DEF EngineReturns, AckSteering, store, local
<1>2. \A k \in Hosts, q \in Runs : exec'[k][q].attempt = exec[k][q].attempt
  <2>1. CASE EngineReturns(h, r)
    <3>1. exec[h][r] \in Executor
          BY DEF TypeInv, TypeOK, ExecTable
    <3>2. exec' = [exec EXCEPT ![h][r].result = EngineOutcome(h, r)]
          BY <2>1 DEF EngineReturns
    <3> QED
        BY <3>1, <3>2 DEF Executor, TypeInv, TypeOK, ExecTable
  <2>2. CASE UNCHANGED exec
        BY <2>2
  <2> QED
      BY <2>1, <2>2 DEF AckSteering, local
<1>3. StatesMove
      BY <1>1 DEF StatesMove
<1> QED
    BY <1>1, <1>2, <1>3, MovesLife

\* An executor ends: its run leaves the executing states if it is in the index and its
\* Host is the open owner, and what it leaves as unknown had its target for itself.
LEMMA EndLife ==
  ASSUME TypeInv, TypeInv', LifeInv, NEW h \in Hosts, NEW r \in Runs, EndExec(h, r),
         UNCHANGED <<lease, host, tick, calls, woken>>, Executes(h, r),
         \A q \in Runs : q # r => run'[q] = run[q], run'[r].attempt = run[r].attempt,
         \/ UNCHANGED <<run, active>> /\ ~(host[h] = "open" /\ Settled(h) /\ Regular(r))
         \/ /\ run[r].state \in Executing /\ Settled(h)
            /\ \/ run'[r].state = "queued" /\ run'[r].owner = NoHost /\ UNCHANGED active
               \/ run'[r].state \in RunStates \ ActiveStates /\ active' = active \ {r}
  PROVE  LifeInv'
<1>1. \A k \in Hosts, q \in Runs :
        exec'[k][q].attempt = exec[k][q].attempt \/ (k = h /\ q = r /\ exec'[k][q].attempt = 0)
      BY DEF EndExec, NoExec, TypeInv, TypeOK, ExecTable
<1>2. run'[r] = run[r] \/ run'[r].state \notin Executing
      BY DEF Executing, ActiveStates
<1>3. \A q \in Runs : Regular(q)' => Regular(q) /\ run'[q] = run[q]
      BY <1>2 DEF Regular
<1>4. NothingStarts
  <2>1. \A k \in Hosts, q \in Runs : Executes(k, q)' => Executes(k, q)
        BY <1>1 DEF Executes
  <2>2. ASSUME NEW k \in Hosts, NEW q \in Runs, Settled(k), host[k] = "open",
               Regular(q)', Executes(k, q)
        PROVE  Executes(k, q)'
    <3>1. CASE <<k, q>> # <<h, r>>
          BY <1>1, <2>2, <3>1 DEF Executes
    <3>2. CASE k = h /\ q = r
          BY <1>2, <1>3, <2>2, <3>2 DEF Regular, Executing, ActiveStates
    <3> QED
        BY <3>1, <3>2
  <2>3. \A k \in Hosts : Settled(k)' <=> Settled(k)
        BY DEF Settled, Owns
  <2> QED
      BY <1>3, <2>1, <2>2, <2>3 DEF NothingStarts
<1>5. UnknownAlone
  <2>1. ASSUME NEW q \in Runs, IsUnknown(q)', ~IsUnknown(q), NEW p \in Runs,
               TargetOf[p] = TargetOf[q], Regular(p)'
        PROVE  FALSE
    <3>1. q = r /\ run'[r] # run[r]
          BY <2>1 DEF IsUnknown
    <3>2. Settled(h) /\ Regular(p) /\ p # r
          BY <1>2, <1>3, <2>1, <3>1 DEF Regular
    <3> QED
        BY <2>1, <3>1, <3>2 DEF LifeInv, Owners, LocalTargets
  <2> QED
      BY <2>1 DEF UnknownAlone
<1>6. RecordsKept
      BY <1>2 DEF RecordsKept, Executing, RunStates, ActiveStates
<1>7. ActiveIndex'
  <2>1. active' \subseteq Runs /\ active = {q \in Runs : run[q].state \in ActiveStates} \ woken
        BY DEF TypeInv, TypeOK, StoreTypeOK, LifeInv, ActiveIndex
  <2>2. \A q \in Runs : q \in active' <=> run'[q].state \in ActiveStates /\ q \notin woken
        BY <2>1 DEF ActiveStates, Executing
  <2> QED
      BY <2>1, <2>2 DEF ActiveIndex
<1>8. QueuesKept
  <2>1. ASSUME NEW k \in Hosts, Owns(k), tick[k].pc = "dispatch", NEW q \in tick[k].queue
        PROVE  run'[q] = run[q]
    <3>1. q \in Runs /\ run[q].state \in {"queued", "cancelled"}
          BY <2>1, QueueRecords DEF LifeInv
    <3> QED
        BY <3>1 DEF Executing
  <2> QED
      BY <2>1 DEF QueuesKept, Owns
<1> QED
    BY <1>3, <1>4, <1>5, <1>6, <1>7, <1>8, RecordsFrame, OwnersFrame, BarrierFrame, QueueReadFrame
    DEF LifeInv

\* An open owner that has recovered settles what it executes.
LEMMA OwnerSettles ==
  ASSUME TypeInv, CallInv, LifeInv, NEW h \in Hosts, NEW r \in Runs,
         exec[h][r].result # NoOutcome, host[h] = "open", Settled(h), Regular(r)
  PROVE  Settles(h, r) /\ run[r].attempt = exec[h][r].attempt
<1>1. Executes(h, r) /\ run[r].owner = h
      BY DEF CallInv, ResultLast, LifeInv, Owners, HeldByOwner
<1>2. exec[h][r].attempt = run[r].attempt
      BY <1>1 DEF CallInv, HeldAttempt, Holds
<1> QED
    BY <1>1, <1>2 DEF Settles, Current, Owned, Settled, Regular

LEMMA SettleRunLife ==
  ASSUME TypeInv, TypeInv', CallInv, LifeInv, NEW h \in Hosts, NEW r \in Runs, SettleRun(h, r)
  PROVE  LifeInv'
<1>1. /\ EndExec(h, r) /\ UNCHANGED <<lease, host, tick, calls, woken>>
      /\ Free(h) /\ exec[h][r].result # NoOutcome /\ Executes(h, r)
      BY DEF SettleRun, CallInv, ResultLast
<1>2. run'[r].attempt = run[r].attempt /\ \A q \in Runs : q # r => run'[q] = run[q]
      BY SettleRecords
<1>3. CASE ~Settles(h, r)
  <2>1. UNCHANGED <<run, active>>
        BY <1>3 DEF SettleRun, Settles
  <2> QED
      BY <1>1, <1>2, <1>3, <2>1, OwnerSettles, EndLife
<1>4. CASE Settles(h, r)
  <2>1. run[r].state \in Executing /\ Settled(h)
        BY <1>1, <1>4 DEF Settles, Current, Owned, Settled, Free, Live
  <2>2. exec[h][r].result \in Outcomes
        BY DEF TypeInv, TypeOK, ExecTable, Executor
  <2>3. \/ run'[r].state = "queued" /\ run'[r].owner = NoHost /\ UNCHANGED active
        \/ run'[r].state \in RunStates \ ActiveStates /\ active' = active \ {r}
    <3>1. CASE Requeues(h, r)
          BY <3>1, SettleRecords
    <3>2. CASE ~Requeues(h, r)
      <4>1. run'[r].state = FinalState(r, exec[h][r].result) /\ active' = active \ {r}
            BY <1>4, <3>2, SettleRecords
      <4> QED
          BY <1>1, <2>2, <4>1, FinalEnds
    <3> QED
        BY <3>1, <3>2
  <2> QED
      BY <1>1, <1>2, <2>1, <2>3, EndLife
<1> QED
    BY <1>3, <1>4

LEMMA FailRunLife ==
  ASSUME TypeInv, TypeInv', CallInv, LifeInv, NEW h \in Hosts, NEW r \in Runs, FailRun(h, r)
  PROVE  LifeInv'
<1>1. /\ EndExec(h, r) /\ UNCHANGED <<lease, host, tick, calls, woken>>
      /\ Free(h) /\ exec[h][r].result # NoOutcome /\ Executes(h, r)
      BY DEF FailRun, CallInv, ResultLast
<1>2. run'[r].attempt = run[r].attempt /\ \A q \in Runs : q # r => run'[q] = run[q]
  <2>1. run'[r].attempt = run[r].attempt
        BY FailRecords
  <2> QED
      BY <2>1 DEF FailRun, GiveUp, TypeInv, TypeOK, StoreTypeOK
<1> DEFINE fails == /\ host[h] = "open"
                    /\ Owns(h)
                    /\ run[r].owner = h
                    /\ run[r].attempt = exec[h][r].attempt
                    /\ run[r].state \in ActiveStates
<1>3. CASE ~fails
  <2>1. UNCHANGED <<run, active>>
        BY <1>3 DEF FailRun
  <2>2. ~(host[h] = "open" /\ Settled(h) /\ Regular(r))
        BY <1>1, <1>3, OwnerSettles
        DEF Settles, Current, Owned, Executing, ActiveStates
  <2> QED
      BY <1>1, <1>2, <2>1, <2>2, EndLife
<1>4. CASE fails
  <2>1. run[r].state \in Executing /\ Settled(h)
        BY <1>1, <1>4, StoreConstants
        DEF ActiveStates, Executing, LifeInv, Records, QueuedFree, Settled, Free, Live
  <2>2. run' = GiveUp(r) /\ active' = active \ {r}
        BY <1>4 DEF FailRun
  <2>3. run'[r].state = "interrupted"
    <3>1. run[r] \in RunRecords
          BY DEF TypeInv, TypeOK, StoreTypeOK
    <3> QED
        BY <2>2, <3>1 DEF GiveUp, RunRecords, TypeInv, TypeOK, StoreTypeOK
  <2>4. run'[r].state \in RunStates \ ActiveStates
        BY <2>3 DEF RunStates, ActiveStates
  <2> QED
      BY <1>1, <1>2, <2>1, <2>2, <2>4, EndLife
<1> QED
    BY <1>3, <1>4

(***************************************************************************)
(* Ticks.                                                                  *)
(***************************************************************************)
\* What an owner reads of the queue is so when it reads it.
LEMMA ScanLife ==
  ASSUME TypeInv, TypeInv', LifeInv, NEW h \in Hosts, Scan(h), tick[h].pc # "recover",
         UNCHANGED <<run, active, calls, woken, host>>, \A k \in Hosts : Owns(k)' => Owns(k),
         NewOwnsNothing'
  PROVE  LifeInv'
<1>1. \A k \in Hosts : k # h => tick'[k] = tick[k]
      BY DEF Scan, TypeInv, TypeOK
<1>2. \/ tick'[h].pc = "idle"
      \/ /\ tick'[h].pc = "dispatch" /\ tick'[h].queue = QueuedRuns
         /\ \A r \in QueuedRuns : r \notin woken /\ run[r].state = "queued"
  <2>1. \A r \in QueuedRuns : r \notin woken /\ run[r].state = "queued"
        BY DEF QueuedRuns, LifeInv, ActiveIndex
  <2> QED
      BY <2>1 DEF Scan, NoTick, TypeInv, TypeOK
<1>3. \A k \in Hosts, q \in Runs : exec'[k][q].attempt = exec[k][q].attempt
      BY AbortKeepsResults DEF Scan
<1>4. \A k \in Hosts : Settled(k)' => Settled(k)
      BY <1>1 DEF Settled
<1>5. NothingStarts
      BY <1>3, <1>4 DEF NothingStarts, Executes, Regular
<1>6. QueueRead'
      BY <1>1, <1>2 DEF QueueRead, LifeInv, Owns
<1> QED
    BY <1>5, <1>6, SameRunsLife

LEMMA ClaimLife ==
  ASSUME TypeInv, TypeInv', CallInv, LifeInv, NEW h \in Hosts, TickClaim(h)
  PROVE  LifeInv'
<1>1. UNCHANGED <<run, active, host, calls, woken>> /\ tick[h].pc = "idle" /\ host[h] = "open"
      BY DEF TickClaim
<1>2. Claim(h) \in {"busy", "owner", "acquired"}
      BY DEF Claim
<1>3. NewOwnsNothing'
  <2>1. UNCHANGED lease \/ lease' = [owner |-> h, live |-> TRUE]
    <3>1. CASE Claim(h) = "busy"
          BY <3>1 DEF TickClaim
    <3>2. CASE Claim(h) = "owner"
          BY <3>2 DEF TickClaim
    <3>3. CASE Claim(h) = "acquired"
          BY <3>3 DEF TickClaim
    <3> QED
        BY <1>2, <3>1, <3>2, <3>3
  <2> QED
      BY <1>1, <2>1 DEF LifeInv, Records, NewOwnsNothing
<1>4. CASE Claim(h) = "busy"
  <2>1. exec' = Abort(h, Runs) /\ UNCHANGED <<lease, tick>>
        BY <1>4 DEF TickClaim
  <2>2. \A k \in Hosts, q \in Runs : exec'[k][q].attempt = exec[k][q].attempt
        BY <2>1, AbortKeepsResults
  <2>3. NothingStarts
        BY <1>1, <2>1, <2>2 DEF NothingStarts, Executes, Settled, Owns, Regular
  <2>4. QueueRead'
        BY <1>1, <2>1 DEF LifeInv, QueueRead, Owns
  <2> QED
      BY <1>1, <1>3, <2>3, <2>4, SameRunsLife
<1>5. CASE Claim(h) = "owner"
  <2>1. lease' = [owner |-> h, live |-> TRUE] /\ Scan(h) /\ Owns(h)
        BY <1>5 DEF TickClaim, Claim
  <2>2. \A k \in Hosts : Owns(k)' => Owns(k)
        BY <2>1 DEF Owns
  <2> QED
      BY <1>1, <1>3, <2>1, <2>2, ScanLife
<1>6. CASE Claim(h) = "acquired"
  <2>1. /\ lease' = [owner |-> h, live |-> TRUE]
        /\ tick' = [tick EXCEPT ![h].pc = "recover"] /\ UNCHANGED exec
        BY <1>6 DEF TickClaim
  <2>2. \A k \in Hosts : k # h => ~Owns(k)'
        BY <2>1 DEF Owns
  <2>3. tick'[h].pc = "recover"
        BY <2>1 DEF TypeInv, TypeOK, TickState
  <2>4. NothingStarts
        BY <1>1, <2>1, <2>2, <2>3 DEF NothingStarts, Executes, Settled, Regular
  <2>5. QueueRead'
        BY <2>2, <2>3 DEF QueueRead
  <2> QED
      BY <1>1, <1>3, <2>4, <2>5, SameRunsLife
<1> QED
    BY <1>2, <1>4, <1>5, <1>6

\* After a recovery nothing of the index is recorded as executing.
LEMMA RecoverLife ==
  ASSUME TypeInv, TypeInv', LifeInv, NEW h \in Hosts, Recover(h)
  PROVE  LifeInv'
<1>1. /\ UNCHANGED <<lease, host, calls, woken>> /\ exec' = Abort(h, Runs)
      /\ active' = active \ LostRuns /\ tick' = [tick EXCEPT ![h].pc = "scan"]
      BY DEF Recover, LostRuns, Orphans
<1>2. \A q \in Runs : q \in Orphans <=> Regular(q)
      BY DEF Orphans, LifeInv, ActiveIndex, Regular, Executing, ActiveStates
<1>3. \A q \in Runs : ~Regular(q)'
  <2>1. ASSUME NEW q \in Runs PROVE ~Regular(q)'
    <3>1. CASE q \in LostRuns
          BY <2>1, <3>1, RecoverRecords DEF Executing, Regular
    <3>2. CASE q \in Orphans \ LostRuns
          BY <2>1, <3>2, RecoverRecords DEF Executing, Regular
    <3>3. CASE q \notin Orphans
          BY <1>1, <1>2, <2>1, <3>3, RecoverRecords DEF Regular
    <3> QED
        BY <3>1, <3>2, <3>3 DEF LostRuns
  <2> QED
      BY <2>1
<1>4. Records'
  <2>1. \A q \in Runs :
          \/ run'[q] = run[q]
          \/ /\ run'[q].state # "absent" /\ run'[q].owner = NoHost
             /\ run[q].state # "absent" /\ run'[q].attempt = run[q].attempt
    <3>1. ASSUME NEW q \in Runs, q \in Orphans
          PROVE  /\ run'[q].state # "absent" /\ run'[q].owner = NoHost
                 /\ run[q].state # "absent" /\ run'[q].attempt = run[q].attempt
          BY <3>1, RecoverRecords DEF Orphans, Executing
    <3> QED
        BY <3>1, RecoverRecords
  <2>2. RecordsKept
        BY <1>1, <2>1 DEF RecordsKept
  <2> QED
      BY <2>2, RecordsFrame DEF LifeInv
<1>5. ActiveIndex'
  <2>1. active' \subseteq Runs /\ active = {q \in Runs : run[q].state \in ActiveStates} \ woken
        BY DEF TypeInv, TypeOK, StoreTypeOK, LifeInv, ActiveIndex
  <2>2. ASSUME NEW q \in Runs
        PROVE  q \in active' <=> run'[q].state \in ActiveStates /\ q \notin woken
    <3>1. CASE q \in LostRuns
          BY <1>1, <3>1, RecoverRecords DEF ActiveStates
    <3>2. CASE q \in Orphans \ LostRuns
          BY <1>1, <2>1, <3>2, RecoverRecords DEF ActiveStates, Orphans
    <3>3. CASE q \notin Orphans
          BY <1>1, <2>1, <3>3, RecoverRecords DEF LostRuns
    <3> QED
        BY <3>1, <3>2, <3>3 DEF LostRuns
  <2> QED
      BY <1>1, <2>1, <2>2 DEF ActiveIndex
<1>6. QueueRead'
  <2>1. \A k \in Hosts : k # h => tick'[k] = tick[k]
        BY <1>1 DEF TypeInv, TypeOK
  <2>2. tick'[h].pc = "scan"
        BY <1>1 DEF TypeInv, TypeOK, TickState
  <2>3. ASSUME NEW k \in Hosts, k # h, Owns(k), tick[k].pc = "dispatch", NEW q \in tick[k].queue
        PROVE  run'[q] = run[q]
    <3>1. q \in Runs /\ run[q].state \in {"queued", "cancelled"}
          BY <2>3, QueueRecords DEF LifeInv
    <3>2. q \notin Orphans
          BY <1>2, <3>1 DEF Regular, Executing
    <3> QED
        BY <3>1, <3>2, RecoverRecords
  <2>4. QueuesKept
        BY <1>1, <2>1, <2>2, <2>3 DEF QueuesKept, Owns
  <2> QED
      BY <2>4, QueueReadFrame DEF LifeInv
<1>7. Owners'
  <2>1. \A k \in Hosts, q \in Runs : exec'[k][q].attempt = exec[k][q].attempt
        BY <1>1, AbortKeepsResults
  <2>2. OneLocal'
        BY <2>1 DEF LifeInv, Owners, OneLocal, Executes
  <2> QED
      BY <1>3, <2>2 DEF Owners, HeldByOwner, LocalTargets, OneRegular
<1>8. Barrier'
      BY <1>3 DEF Barrier
<1> QED
    BY <1>4, <1>5, <1>6, <1>7, <1>8 DEF LifeInv

\* A dispatch starts a run that nothing else of the index executes, here or in the store.
LEMMA StartAlone ==
  ASSUME TypeInv, CallInv, LifeInv, NEW h \in Hosts, NEW r \in Runs, TickStart(h, r)
  PROVE  /\ Settled(h) /\ host[h] = "open"
         /\ r \notin woken /\ run[r].state \in {"queued", "cancelled"}
         /\ run[r].attempt = tick[h].seen[r].attempt
         /\ \A q \in Runs : TargetOf[q] = TargetOf[r] => ~Executes(h, q) /\ ~Regular(q)
<1>1. /\ Owns(h) /\ tick[h].pc = "dispatch" /\ r \in tick[h].queue
      /\ TargetOf[r] \notin tick[h].busy
      BY DEF TickStart, InTurn, Dispatchable
<1>2. Settled(h) /\ host[h] = "open"
      BY <1>1 DEF CallInv, TickOpen, Settled
<1>3. r \notin woken /\ run[r].state \in {"queued", "cancelled"}
      BY <1>1, QueueRecords DEF LifeInv
<1>4. run[r].attempt = tick[h].seen[r].attempt
      BY <1>1 DEF CallInv, QueueKept
<1>5. \A q \in Runs : TargetOf[q] = TargetOf[r] => ~Executes(h, q)
      BY <1>1 DEF CallInv, BusyTargets
<1>6. \A q \in Runs : TargetOf[q] = TargetOf[r] => ~Regular(q)
      BY <1>2, <1>5 DEF LifeInv, Owners, HeldByOwner
<1> QED
    BY <1>2, <1>3, <1>4, <1>5, <1>6

LEMMA TickStartLife ==
  ASSUME TypeInv, TypeInv', CallInv, LifeInv, NEW h \in Hosts, NEW r \in Runs, TickStart(h, r)
  PROVE  LifeInv'
<1>1. /\ UNCHANGED <<active, lease, host, calls>>
      /\ Owns(h) /\ tick[h].pc = "dispatch" /\ r \in tick[h].queue
      /\ Advance(h, r, {TargetOf[r]}) /\ ~HasUnknown(TargetOf[r], {})
      /\ woken' = IF run[r].state = "queued" THEN woken ELSE woken \cup {r}
      BY DEF TickStart, InTurn, Dispatchable
<1>2. /\ Settled(h) /\ host[h] = "open"
      /\ r \notin woken /\ run[r].state \in {"queued", "cancelled"}
      /\ run[r].attempt = tick[h].seen[r].attempt
      /\ \A q \in Runs : TargetOf[q] = TargetOf[r] => ~Executes(h, q) /\ ~Regular(q)
      BY StartAlone
<1>3. /\ run'[r].state = "running" /\ run'[r].owner = h /\ run'[r].attempt = run[r].attempt
      /\ \A q \in Runs : q # r => run'[q] = run[q]
      BY <1>2, StartRecords
<1>4. \A k \in Hosts, q \in Runs : <<k, q>> # <<h, r>> => exec'[k][q] = exec[k][q]
      BY DEF TickStart, TypeInv, TypeOK, ExecTable
<1>5. Executes(h, r)'
  <2>1. run[r].attempt # 0
        BY <1>2 DEF LifeInv, Records, Admitted
  <2> QED
      BY <1>2, <2>1 DEF TickStart, Executes, NoExec, TypeInv, TypeOK, ExecTable
<1>6. /\ \A k \in Hosts : k # h => tick'[k] = tick[k] /\ ~Owns(k) /\ ~Owns(k)'
      /\ \/ tick'[h].pc = "idle"
         \/ tick'[h].pc = "dispatch" /\ tick'[h].queue = tick[h].queue \ {r}
      /\ Owns(h)' <=> Owns(h)
      BY <1>1, AdvanceTick DEF Owns
<1>7. \A q \in Runs : q # r /\ Regular(q)' => Regular(q)
      BY <1>1, <1>3 DEF Regular
<1>8. Records'
  <2>1. RecordsKept
        BY <1>1, <1>2, <1>3 DEF RecordsKept
  <2> QED
      BY <2>1, RecordsFrame DEF LifeInv
<1>9. ActiveIndex'
  <2>1. active = {q \in Runs : run[q].state \in ActiveStates} \ woken
        BY DEF LifeInv, ActiveIndex
  <2>2. ASSUME NEW q \in Runs
        PROVE  q \in active <=> run'[q].state \in ActiveStates /\ q \notin woken'
    <3>1. CASE q # r
          BY <1>1, <1>3, <2>1, <3>1
    <3>2. CASE q = r
          BY <1>1, <1>2, <1>3, <2>1, <3>2 DEF ActiveStates
    <3> QED
        BY <3>1, <3>2
  <2> QED
      BY <1>1, <2>1, <2>2 DEF ActiveIndex
<1>10. QueueRead'
  <2>1. tick[h].queue \subseteq Runs
        BY DEF TypeInv, TypeOK, TickState
  <2>2. QueuesKept
        BY <1>1, <1>3, <1>6, <2>1 DEF QueuesKept
  <2> QED
      BY <2>2, QueueReadFrame DEF LifeInv
<1>11. HeldByOwner'
  <2>1. ASSUME NEW k \in Hosts, NEW q \in Runs, Settled(k)', Regular(q)'
        PROVE  run'[q].owner = k /\ (host'[k] = "open" => Executes(k, q)')
    <3>1. k = h
          BY <1>6, <2>1 DEF Settled
    <3>2. CASE q = r
          BY <1>3, <1>5, <3>1, <3>2
    <3>3. CASE q # r
          BY <1>1, <1>2, <1>3, <1>4, <1>7, <2>1, <3>1, <3>3
          DEF LifeInv, Owners, HeldByOwner, Executes
    <3> QED
        BY <3>2, <3>3
  <2> QED
      BY <2>1 DEF HeldByOwner
<1>12. LocalTargets'
  <2>1. ASSUME NEW k \in Hosts, NEW p \in Runs, NEW q \in Runs, Settled(k)',
               Regular(q)', Executes(k, p)', TargetOf[p] = TargetOf[q], p # q
        PROVE  FALSE
    <3>1. k = h
          BY <1>6, <2>1 DEF Settled
    <3>2. p = r \/ Executes(h, p)
          BY <1>4, <2>1, <3>1 DEF Executes
    <3>3. q = r \/ Regular(q)
          BY <1>7, <2>1
    <3>4. p # r /\ q # r
          BY <1>2, <2>1, <3>2, <3>3
    <3> QED
        BY <1>2, <2>1, <3>2, <3>3, <3>4 DEF LifeInv, Owners, LocalTargets
  <2> QED
      BY <2>1 DEF LocalTargets
<1>13. OneLocal'
  <2>1. ASSUME NEW k \in Hosts, NEW p \in Runs, NEW q \in Runs, Executes(k, p)', Executes(k, q)',
               TargetOf[p] = TargetOf[q], p # q
        PROVE  FALSE
    <3>1. CASE k = h
          BY <1>2, <1>4, <2>1, <3>1 DEF Executes, LifeInv, Owners, OneLocal
    <3>2. CASE k # h
          BY <1>4, <2>1, <3>2 DEF Executes, LifeInv, Owners, OneLocal
    <3> QED
        BY <3>1, <3>2
  <2> QED
      BY <2>1 DEF OneLocal
<1>14. OneRegular'
      BY <1>2, <1>7 DEF LifeInv, Owners, OneRegular
<1>15. Barrier'
  <2>1. \A q \in Runs : IsUnknown(q)' => IsUnknown(q)
        BY <1>3 DEF IsUnknown
  <2>2. \A q \in Runs : Regular(q)' => ~HasUnknown(TargetOf[q], {})
        BY <1>1, <1>7 DEF LifeInv, Barrier
  <2> QED
      BY <2>1, <2>2 DEF Barrier, HasUnknown
<1> QED
    BY <1>8, <1>9, <1>10, <1>11, <1>12, <1>13, <1>14, <1>15 DEF LifeInv, Owners

LEMMA TickLife ==
  ASSUME TypeInv, TypeInv', CallInv, LifeInv, NEW h \in Hosts, Tick(h)
  PROVE  LifeInv'
<1>1. CASE TickScan(h)
  <2>1. UNCHANGED <<run, active, calls, woken, host, lease>> /\ tick[h].pc = "scan" /\ Scan(h)
        BY <1>1 DEF TickScan, store
  <2>2. NewOwnsNothing'
        BY <2>1 DEF LifeInv, Records, NewOwnsNothing
  <2> QED
      BY <2>1, <2>2, ScanLife DEF Owns
<1>2. ASSUME NEW r \in Runs, TickSkip(h, r) \/ TickThrows(h, r) PROVE LifeInv'
  <2>1. UNCHANGED <<run, active, calls, woken, host, lease, exec>> /\ tick[h].pc = "dispatch"
        BY <1>2 DEF TickSkip, TickThrows, InTurn, store
  <2>2. /\ \A k \in Hosts : k # h => tick'[k] = tick[k]
        /\ \/ tick'[h].pc = "idle"
           \/ tick'[h].pc = "dispatch" /\ tick'[h].queue \subseteq tick[h].queue
    <3>1. CASE TickSkip(h, r)
          BY <2>1, <3>1, AdvanceTick DEF TickSkip
    <3>2. CASE TickThrows(h, r)
          BY <3>2 DEF TickThrows, NoTick, TypeInv, TypeOK
    <3> QED
        BY <1>2, <3>1, <3>2
  <2>3. QueueRead'
    <3>1. QueuesKept
          BY <2>1, <2>2 DEF QueuesKept, Owns
    <3> QED
        BY <3>1, QueueReadFrame DEF LifeInv
  <2>4. NothingStarts
        BY <2>1, <2>2 DEF NothingStarts, Executes, Settled, Owns, Regular
  <2>5. NewOwnsNothing'
        BY <2>1 DEF LifeInv, Records, NewOwnsNothing
  <2> QED
      BY <2>1, <2>3, <2>4, <2>5, SameRunsLife
<1> QED
    BY <1>1, <1>2, ClaimLife, RecoverLife, TickStartLife DEF Tick

(***************************************************************************)
(* Processes.                                                              *)
(***************************************************************************)
\* A shutdown gives up runs that had their targets for themselves.
LEMMA InterruptLife ==
  ASSUME TypeInv, TypeInv', CallInv, LifeInv, NEW h \in Hosts, Interrupt(h)
  PROVE  LifeInv'
<1>1. /\ UNCHANGED <<lease, tick, calls, woken>> /\ exec' = Abort(h, Runs)
      /\ host[h] = "stopping" /\ host' = [host EXCEPT ![h] = "draining"]
      BY DEF Interrupt
<1>2. \A k \in Hosts, q \in Runs : exec'[k][q].attempt = exec[k][q].attempt
      BY <1>1, AbortKeepsResults
<1>3. tick[h].pc = "idle"
      BY <1>1 DEF CallInv, TickOpen
<1>4. \A k \in Hosts : host'[k] = IF k = h THEN "draining" ELSE host[k]
      BY <1>1 DEF TypeInv, TypeOK
<1>5. \A q \in Runs :
        \/ run'[q] = run[q] /\ q \notin Cut(h)
        \/ /\ q \in Cut(h) /\ run'[q].state = "interrupted" /\ run'[q].attempt = run[q].attempt
           /\ run[q].state \in ActiveStates /\ Executes(h, q) /\ Owns(h)
      BY InterruptRecords DEF Cut, LocalRuns
<1>6. Records'
  <2>1. RecordsKept
        BY <1>1, <1>4, <1>5 DEF RecordsKept, ActiveStates
  <2> QED
      BY <2>1, RecordsFrame DEF LifeInv
<1>7. ActiveIndex'
  <2>1. /\ active' = active \ Cut(h)
        /\ active = {q \in Runs : run[q].state \in ActiveStates} \ woken
        BY DEF LifeInv, ActiveIndex, Interrupt, Cut
  <2> QED
      BY <1>1, <1>5, <2>1 DEF ActiveIndex, ActiveStates
<1>8. \A k \in Hosts : Settled(k)' => Settled(k) /\ (host'[k] = "open" => host[k] = "open")
      BY <1>1, <1>4 DEF Settled, Owns
<1>9. NothingStarts
  <2>1. \A q \in Runs : Regular(q)' => Regular(q) /\ run'[q].owner = run[q].owner
        BY <1>1, <1>5 DEF Regular, Executing
  <2> QED
      BY <1>2, <1>8, <2>1 DEF NothingStarts, Executes
<1>10. UnknownAlone
  <2>1. ASSUME NEW q \in Runs, IsUnknown(q)', ~IsUnknown(q), NEW p \in Runs,
               TargetOf[p] = TargetOf[q], Regular(p)'
        PROVE  FALSE
    <3>1. Executes(h, q) /\ Owns(h) /\ run'[q].state = "interrupted"
          BY <1>5, <2>1 DEF IsUnknown
    <3>2. Settled(h) /\ Regular(p)
          BY <1>1, <1>3, <1>9, <2>1, <3>1 DEF Settled, NothingStarts
    <3>3. p = q
          BY <2>1, <3>1, <3>2 DEF LifeInv, Owners, LocalTargets
    <3> QED
        BY <2>1, <3>1, <3>3 DEF Regular, Executing
  <2> QED
      BY <2>1 DEF UnknownAlone
<1>11. QueueRead'
  <2>1. \A k \in Hosts : Owns(k) /\ tick[k].pc = "dispatch" => ~Owns(h)
        BY <1>3 DEF Owns
  <2>2. \A k \in Hosts : tick[k].queue \subseteq Runs
        BY DEF TypeInv, TypeOK, TickState
  <2>3. QueuesKept
        BY <1>1, <1>5, <2>1, <2>2 DEF QueuesKept, Owns
  <2> QED
      BY <2>3, QueueReadFrame DEF LifeInv
<1>12. \A q \in Runs : Regular(q)' => Regular(q)
      BY <1>9 DEF NothingStarts
<1> QED
    BY <1>6, <1>7, <1>9, <1>10, <1>11, <1>12, OwnersFrame, BarrierFrame DEF LifeInv

LEMMA ProcessLife ==
  ASSUME TypeInv, TypeInv', CallInv, LifeInv,
         \/ \E h \in Hosts : Start(h) \/ Crash(h) \/ Stop(h) \/ Interrupt(h) \/ Close(h)
         \/ LeaseExpires \/ UNCHANGED vars
  PROVE  LifeInv'
<1>1. ASSUME UNCHANGED <<run, active, calls, woken, tick, exec>>,
             \A k \in Hosts : Owns(k)' => Owns(k),
             \A k \in Hosts : Settled(k)' => Settled(k) /\ (host'[k] = "open" => host[k] = "open"),
             NewOwnsNothing'
      PROVE  LifeInv'
  <2>1. NothingStarts
        BY <1>1 DEF NothingStarts, Executes, Regular
  <2>2. QueueRead'
        BY <1>1 DEF LifeInv, QueueRead, Owns
  <2> QED
      BY <1>1, <2>1, <2>2, SameRunsLife
<1>2. ASSUME NEW h \in Hosts, Start(h) PROVE LifeInv'
  <2>1. UNCHANGED <<run, active, calls, woken, tick, exec, lease>> /\ host[h] = "new"
        /\ host' = [host EXCEPT ![h] = "open"]
        BY <1>2 DEF Start, store
  <2>2. ~Owns(h)
        BY <2>1 DEF LifeInv, Records, NewOwnsNothing, Owns
  <2>3. \A k \in Hosts : k # h => host'[k] = host[k]
        BY <2>1 DEF TypeInv, TypeOK
  <2>4. host'[h] = "open"
        BY <2>1 DEF TypeInv, TypeOK
  <2>5. NewOwnsNothing'
        BY <2>1, <2>3, <2>4 DEF LifeInv, Records, NewOwnsNothing
  <2> QED
      BY <1>1, <2>1, <2>2, <2>3, <2>5 DEF Settled, Owns
<1>3. ASSUME NEW h \in Hosts, Stop(h) PROVE LifeInv'
  <2>1. UNCHANGED <<run, active, calls, woken, tick, exec, lease>> /\ host[h] = "open"
        /\ host' = [host EXCEPT ![h] = "stopping"]
        BY <1>3 DEF Stop, store
  <2>2. \A k \in Hosts : host'[k] = IF k = h THEN "stopping" ELSE host[k]
        BY <2>1 DEF TypeInv, TypeOK
  <2>3. NewOwnsNothing'
        BY <2>1, <2>2 DEF LifeInv, Records, NewOwnsNothing
  <2> QED
      BY <1>1, <2>1, <2>2, <2>3 DEF Settled, Owns
<1>4. ASSUME NEW h \in Hosts, Close(h) PROVE LifeInv'
  <2>1. UNCHANGED <<run, active, calls, woken, tick, exec>> /\ host' = [host EXCEPT ![h] = "gone"]
        /\ lease' = IF lease.owner = h THEN [owner |-> NoHost, live |-> FALSE] ELSE lease
        BY <1>4 DEF Close
  <2>2. \A k \in Hosts : host'[k] = IF k = h THEN "gone" ELSE host[k]
        BY <2>1 DEF TypeInv, TypeOK
  <2>3. \A k \in Hosts : Owns(k)' => Owns(k)
        BY <2>1, StoreConstants DEF Owns
  <2>4. NewOwnsNothing'
        BY <2>1, <2>2, StoreConstants DEF LifeInv, Records, NewOwnsNothing
  <2>5. \A k \in Hosts : Settled(k)' => Settled(k) /\ (host'[k] = "open" => host[k] = "open")
        BY <2>1, <2>2, <2>3 DEF Settled
  <2> QED
      BY <1>1, <2>1, <2>3, <2>4, <2>5
<1>5. CASE LeaseExpires
  <2>1. UNCHANGED <<run, active, calls, woken, tick, exec, host>>
        /\ lease' = [lease EXCEPT !.live = FALSE]
        BY <1>5 DEF LeaseExpires, local
  <2>2. lease'.owner = lease.owner /\ ~lease'.live
        BY <2>1 DEF TypeInv, TypeOK, StoreTypeOK
  <2>3. NewOwnsNothing'
        BY <2>1, <2>2 DEF LifeInv, Records, NewOwnsNothing
  <2> QED
      BY <1>1, <2>1, <2>2, <2>3 DEF Settled, Owns
<1>6. ASSUME NEW h \in Hosts, Crash(h) PROVE LifeInv'
  <2>1. UNCHANGED <<run, active, calls, woken, lease>>
        BY <1>6 DEF Crash, store
  <2>2. /\ host'[h] = "gone" /\ tick'[h].pc = "idle" /\ \A q \in Runs : exec'[h][q].attempt = 0
        /\ \A k \in Hosts : k # h =>
             host'[k] = host[k] /\ tick'[k] = tick[k] /\ exec'[k] = exec[k]
        BY <1>6 DEF Crash, NoTick, NoExec, TypeInv, TypeOK, ExecTable
  <2>3. \A k \in Hosts : Settled(k)' => k # h
        BY <2>2 DEF Settled
  <2>4. NothingStarts
        BY <2>1, <2>2, <2>3 DEF NothingStarts, Executes, Settled, Owns, Regular
  <2>5. QueueRead'
        BY <2>1, <2>2 DEF LifeInv, QueueRead, Owns
  <2>6. NewOwnsNothing'
        BY <2>1, <2>2 DEF LifeInv, Records, NewOwnsNothing
  <2> QED
      BY <2>1, <2>4, <2>5, <2>6, SameRunsLife
<1>7. CASE UNCHANGED vars
  <2>1. UNCHANGED <<run, active, calls, woken, tick, exec, host, lease>>
        BY <1>7 DEF vars, store, local
  <2>2. NewOwnsNothing'
        BY <2>1 DEF LifeInv, Records, NewOwnsNothing
  <2> QED
      BY <1>1, <2>1, <2>2 DEF Settled, Owns
<1> QED
    BY <1>2, <1>3, <1>4, <1>5, <1>6, <1>7, InterruptLife

LEMMA NextLife ==
  ASSUME TypeInv, TypeInv', CallInv, LifeInv, [Next]_vars
  PROVE  LifeInv'
<1>1. ASSUME NEW h \in Hosts, NEW r \in Runs, Execute(h, r) PROVE LifeInv'
      BY <1>1, StepLife, EngineLife, SettleRunLife, FailRunLife DEF Execute
<1> QED
    BY <1>1, CommandLife, TickLife, ProcessLife DEF Next

LEMMA LifeInvAlways == Spec => []LifeInv
<1>1. TypeInv /\ TypeInv' /\ CallInv /\ LifeInv /\ [Next]_vars => LifeInv'
      BY NextLife
<1> QED
    BY <1>1, InitLife, TypeInvAlways, CallInvAlways, PTL DEF Spec

(***************************************************************************)
(* The properties.                                                         *)
(***************************************************************************)
\* studioDatabase.ts (`active`): the index holds exactly the unfinished runs, but for
\* those that were started after their withdrawal.
THEOREM ActiveIndexAlways == Spec => []ActiveIndex
<1>1. LifeInv => ActiveIndex
      BY DEF LifeInv
<1> QED
    BY <1>1, LifeInvAlways, PTL

\* studioRuntimeService.ts (tick, recover): what is recorded as executed by the lease
\* holder is executed there.
THEOREM NoOrphanAlways == Spec => []NoOrphan
<1>1. LifeInv => NoOrphan
      BY DEF LifeInv, Owners, HeldByOwner, NoOrphan, Settled, Regular
<1> QED
    BY <1>1, LifeInvAlways, PTL

\* studioRuntimeService.ts (tick, activeTargets): one conversation, group or workflow
\* executes one run of the index at a time, over all Hosts.
THEOREM OneExecutingAlways == Spec => []OneExecutingPerTarget
<1>1. LifeInv => OneExecutingPerTarget
      BY DEF LifeInv, Owners, OneRegular, OneExecutingPerTarget, Regular
<1> QED
    BY <1>1, LifeInvAlways, PTL

\* Only a dispatch makes a call: the new attempts of a command count from 0.
LEMMA NextCounts ==
  ASSUME TypeInv, ConsentInv, CallInv, CallInv', [Next]_vars,
         NEW r \in Runs, NEW s \in Steps, calls'[r][s] > calls[r][s]
  PROVE  run[r].state \in Executing
<1>1. CASE UserCommand
  <2>1. calls'[r] = calls[r] \/ calls'[r] = [t \in Steps |-> 0]
        BY <1>1 DEF UserCommand
  <2>2. calls[r][s] \in Nat
        BY DEF TypeInv, TypeOK
  <2> QED
      BY <2>1, <2>2
<1>2. ASSUME NEW h \in Hosts, NEW q \in Runs, NEW t \in Steps, Dispatch(h, q, t)
      PROVE  run[r].state \in Executing
  <2>1. run[q].state \in Executing /\ calls' = [calls EXCEPT ![q][t] = @ + 1]
        BY <1>2 DEF Dispatch, Owned
  <2>2. calls[r][s] \in Nat
        BY DEF TypeInv, TypeOK
  <2>3. q = r
        BY <2>1, <2>2 DEF TypeInv, TypeOK
  <2> QED
      BY <2>1, <2>3
<1>3. CASE UNCHANGED calls
  <2>1. calls[r][s] \in Nat
        BY DEF TypeInv, TypeOK
  <2> QED
      BY <1>3, <2>1
<1>4. ASSUME NEW h \in Hosts, Tick(h) PROVE UNCHANGED calls
      BY <1>4
      DEF Tick, TickClaim, Recover, TickScan, TickStart, TickSkip, TickThrows
<1>5. ASSUME NEW h \in Hosts, NEW q \in Runs, Execute(h, q)
      PROVE  UNCHANGED calls \/ \E t \in Steps : Dispatch(h, q, t)
      BY <1>5
      DEF Execute, Step, BeginStep, AcquireRefused, Acquired, PrepareFails, DispatchRefused,
          CallEnds, SettleStep, Ask, AskEnds, BeginConfirm, ConfirmEnds, SaveConfirm,
          AckSteering, EngineReturns, SettleRun, FailRun
<1>6. ASSUME \/ \E h \in Hosts : Start(h) \/ Crash(h) \/ Stop(h) \/ Interrupt(h) \/ Close(h)
             \/ LeaseExpires \/ UNCHANGED vars
      PROVE  UNCHANGED calls
      BY <1>6 DEF Start, Crash, Stop, Interrupt, Close, LeaseExpires, vars
<1> QED
    BY <1>1, <1>2, <1>3, <1>4, <1>5, <1>6 DEF Next

\* turnExecutor.ts and studioRuntimeService.ts (tick): while the effects of an earlier run
\* of the target are unresolved no native call is made for it by a run of the index, even
\* one that was in the queue, or that another Host executed, when they became so.
THEOREM UnknownBarrierAlways == Spec => UnknownBarrier
<1>1. TypeInv /\ ConsentInv /\ CallInv /\ CallInv' /\ LifeInv /\ [Next]_vars =>
        [\A r \in Runs \ woken, s \in Steps :
           calls'[r][s] > calls[r][s] => ~HasUnknown(TargetOf[r], {})]_vars
  <2>1. ASSUME TypeInv, ConsentInv, CallInv, CallInv', LifeInv, [Next]_vars,
               NEW r \in Runs \ woken, NEW s \in Steps, calls'[r][s] > calls[r][s]
        PROVE  ~HasUnknown(TargetOf[r], {})
        BY <2>1, NextCounts DEF LifeInv, Barrier, Regular
  <2> QED
      BY <2>1
<1>2. TypeInv /\ ConsentInv /\ [Next]_vars => ConsentInv'
      BY NextConsent
<1> QED
    BY <1>1, <1>2, InitConsent, TypeInvAlways, CallInvAlways, LifeInvAlways, PTL
    DEF Spec, UnknownBarrier

\* The only step of a Host that touches a finished run is a dispatch that wakes it.
LEMMA FinalStays ==
  ASSUME TypeInv, CallInv, LifeInv, [Next]_vars,
         NEW r \in Runs, run[r].state \in RunStates \ ActiveStates, run'[r] # run[r]
  PROVE  \/ run[r].state \in {"failed", "interrupted"} /\ run'[r].attempt > run[r].attempt
         \/ run[r].state = "cancelled" /\ r \in woken' \ woken
<1> USE DEF RunStates, ActiveStates, Executing
<1>1. CASE UserCommand
  <2>1. ASSUME NEW q \in Runs, Send(q) PROVE FALSE
        BY <2>1 DEF Send, Absent, TypeInv, TypeOK, StoreTypeOK
  <2>2. ASSUME NEW q \in Runs, Cancel(q) PROVE FALSE
    <3>1. q # r
          BY <2>2 DEF Cancel
    <3> QED
        BY <2>2, <3>1, CancelRecords
  <2>3. ASSUME NEW q \in Runs, NEW confirmed \in BOOLEAN, Resume(q, confirmed)
        PROVE  run[r].state \in {"failed", "interrupted"} /\ run'[r].attempt > run[r].attempt
    <3>1. run' = [run EXCEPT ![q] = Queued(run[q].attempt + 1)]
          /\ run[q].state \in {"failed", "interrupted"}
          BY <2>3 DEF Resume
    <3>2. q = r
          BY <3>1 DEF TypeInv, TypeOK, StoreTypeOK
    <3>3. run[r].attempt \in Nat
      <4>1. run[r] \in RunRecords
            BY DEF TypeInv, TypeOK, StoreTypeOK
      <4> QED
          BY <4>1, StoreConstants DEF RunRecords
    <3>4. run'[r].attempt = run[r].attempt + 1
          BY <3>1, <3>2 DEF Queued, TypeInv, TypeOK, StoreTypeOK
    <3> QED
        BY <3>1, <3>2, <3>3, <3>4
  <2> QED
      BY <1>1, <2>1, <2>2, <2>3 DEF UserCommand, Command, Answer, Steer
<1>2. ASSUME NEW h \in Hosts, Tick(h)
      PROVE  run[r].state = "cancelled" /\ r \in woken' \ woken
  <2>1. ASSUME Recover(h) PROVE FALSE
        BY <2>1, RecoverRecords DEF Orphans
  <2>2. ASSUME NEW q \in Runs, TickStart(h, q)
        PROVE  run[r].state = "cancelled" /\ r \in woken' \ woken
    <3>1. q = r
          BY <2>2, StartRecords
    <3>2. r \notin woken /\ run[r].state \in {"queued", "cancelled"}
          BY <2>2, <3>1, StartAlone
    <3> QED
        BY <2>2, <3>1, <3>2 DEF TickStart
  <2> QED
      BY <1>2, <2>1, <2>2 DEF Tick, TickClaim, TickScan, TickSkip, TickThrows, store
<1>3. ASSUME NEW h \in Hosts, NEW q \in Runs, Execute(h, q) PROVE FALSE
  <2>1. CASE SettleRun(h, q)
    <3>1. q = r
          BY <2>1, SettleRecords
    <3>2. Settles(h, r)
          BY <2>1, <3>1, SettleRecords
    <3> QED
        BY <3>2 DEF Settles, Current, Owned
  <2>2. CASE FailRun(h, q)
        BY <2>2 DEF FailRun, GiveUp, TypeInv, TypeOK, StoreTypeOK
  <2>3. ASSUME NEW s \in Steps, Step(h, q, s) PROVE FALSE
    <3>1. \/ CloseQuestion(h, q, s) \/ \E pc : OpenQuestion(h, q, s, pc) /\ OwnedBy(h, q, FALSE)
          \/ UNCHANGED run
          BY <2>3
          DEF Step, BeginStep, AcquireRefused, Acquired, PrepareFails, Dispatch, DispatchRefused,
              CallEnds, SettleStep, Ask, AskEnds, BeginConfirm, ConfirmEnds, SaveConfirm, MustAsk,
              store
    <3> QED
        BY <3>1, QuestionRecords
  <2> QED
      BY <1>3, <2>1, <2>2, <2>3 DEF Execute, EngineReturns, AckSteering, store
<1>4. ASSUME NEW h \in Hosts, Interrupt(h) PROVE FALSE
      BY <1>4, InterruptRecords DEF Cut
<1> QED
    BY <1>1, <1>2, <1>3, <1>4 DEF Next, Start, Crash, Stop, Close, LeaseExpires, vars, store

\* runExecutor.ts (settle, failRun) and studioRuntimeService.ts: a finished run changes only
\* by an explicit retry, which opens a new attempt, or by a dispatch that wakes it, once.
THEOREM FinalUntilRetryAlways == Spec => FinalUntilRetry
<1>1. TypeInv /\ CallInv /\ LifeInv /\ [Next]_vars =>
        [\A r \in Runs :
           run[r].state \in RunStates \ ActiveStates /\ run'[r] # run[r] =>
             \/ run[r].state \in {"failed", "interrupted"} /\ run'[r].attempt > run[r].attempt
             \/ run[r].state = "cancelled" /\ r \in woken' \ woken]_vars
      BY FinalStays
<1> QED
    BY <1>1, TypeInvAlways, CallInvAlways, LifeInvAlways, PTL DEF Spec, FinalUntilRetry

(***************************************************************************)
(* The runtime implements RunLifecycle.  First the two views of a state.   *)
(***************************************************************************)
LEMMA Views ==
  /\ TypeInv => \A q \in Runs :
       /\ Phase(q) = "executing" <=> run[q].state \in Executing
       /\ Phase(q) = "unknown" <=> IsUnknown(q)
       /\ \A p \in {"absent", "queued", "succeeded", "failed", "cancelled"} :
            Phase(q) = p <=> run[q].state = p
       /\ Phase(q) = "interrupted" <=> run[q].state = "interrupted" /\ ~IsUnknown(q)
  /\ TypeInv' => \A q \in Runs :
       /\ Phase(q)' = "executing" <=> run'[q].state \in Executing
       /\ Phase(q)' = "unknown" <=> IsUnknown(q)'
       /\ \A p \in {"absent", "queued", "succeeded", "failed", "cancelled"} :
            Phase(q)' = p <=> run'[q].state = p
       /\ Phase(q)' = "interrupted" <=> run'[q].state = "interrupted" /\ ~IsUnknown(q)'
<1> USE DEF Phase, IsUnknown, Executing, RunStates, ActiveStates
<1>1. ASSUME TypeInv, NEW q \in Runs PROVE run[q].state \in RunStates \cup {"absent"}
      BY <1>1 DEF TypeInv, TypeOK, StoreTypeOK, RunRecords
<1>2. ASSUME TypeInv', NEW q \in Runs PROVE run'[q].state \in RunStates \cup {"absent"}
      BY <1>2 DEF TypeInv, TypeOK, StoreTypeOK, RunRecords
<1> QED
    BY <1>1, <1>2

\* A step that makes or closes no call.
CallsSame ==
  \A q \in Runs : /\ \A s \in Steps : calls'[q][s] > 0 <=> calls[q][s] > 0
                  /\ OpenSteps(q)' = OpenSteps(q)

LEMMA SameMade ==
  ASSUME CallsSame
  PROVE  UNCHANGED <<[r \in Runs |-> {s \in Steps : calls[r][s] > 0}],
                     [r \in Runs |-> OpenSteps(r)]>>
<1>1. \A q \in Runs : {s \in Steps : calls'[q][s] > 0} = {s \in Steps : calls[q][s] > 0}
      BY DEF CallsSame
<1> QED
    BY <1>1 DEF CallsSame

LEMMA SetPhase ==
  ASSUME NEW S, NEW p, \A q \in Runs : Phase(q)' = IF q \in S THEN p ELSE Phase(q)
  PROVE  Lifecycle!Set(S, p)
BY DEF Lifecycle!Set

LEMMA AbstractStutter ==
  ASSUME CallsSame, UNCHANGED woken, \A q \in Runs : Phase(q)' = Phase(q)
  PROVE  UNCHANGED Lifecycle!vars
BY SameMade DEF Lifecycle!vars

LEMMA BarredIs ==
  ASSUME TypeInv, NEW r \in Runs
  PROVE  Lifecycle!Barred(r) <=> HasUnknown(TargetOf[r], {r})
BY Views DEF Lifecycle!Barred, Lifecycle!Peers, HasUnknown

LEMMA AbstractInit ==
  ASSUME Init
  PROVE  Lifecycle!Init
<1>1. \A r \in Runs : /\ Phase(r) = "absent" /\ OpenSteps(r) = {}
                      /\ {s \in Steps : calls[r][s] > 0} = {}
      BY DEF Init, StoreInit, Absent, Phase, IsUnknown, Executing, OpenSteps
<1>2. woken = {}
      BY DEF Init
<1> QED
    BY <1>1, <1>2 DEF Lifecycle!Init

(***************************************************************************)
(* Commands.                                                               *)
(***************************************************************************)
\* A new attempt has no open call.
LEMMA NewAttemptOpen ==
  ASSUME TypeInv, CallInv, NEW r \in Runs, UNCHANGED turns,
         run[r].attempt \in Nat, run'[r].attempt = run[r].attempt + 1
  PROVE  OpenSteps(r)' = {}
<1>1. ASSUME NEW s \in Steps, NEW h \in Hosts, <<h, r, s, run'[r].attempt>> \in turns
      PROVE  FALSE
  <2>1. run'[r].attempt \in Attempts
        BY <1>1 DEF TypeInv, TypeOK, StoreTypeOK
  <2>2. run'[r].attempt <= run[r].attempt
        BY <1>1, <2>1 DEF CallInv, TurnsKnown
  <2> QED
      BY <2>2
<1> QED
    BY <1>1 DEF OpenSteps

LEMMA AttemptNat ==
  ASSUME TypeInv, NEW r \in Runs
  PROVE  run[r].attempt \in Nat
<1>1. run[r] \in RunRecords
      BY DEF TypeInv, TypeOK, StoreTypeOK
<1> QED
    BY <1>1, StoreConstants DEF RunRecords

LEMMA SendRefines ==
  ASSUME TypeInv, TypeInv', CallInv, LifeInv, CallsFollow, WokenFollow, NEW r \in Runs, Send(r)
  PROVE  Lifecycle!Next
<1>1. /\ run[r].state = "absent" /\ run[r].attempt = 0
      /\ run'[r].state = "queued" /\ run'[r].attempt = 1
      /\ \A q \in Runs : q # r => run'[q] = run[q]
      /\ ~HasUnknown(TargetOf[r], {}) /\ UNCHANGED turns
      BY DEF Send, Absent, Queued, TypeInv, TypeOK, StoreTypeOK
<1>2. OpenSteps(r) = {}
  <2>1. ASSUME NEW s \in Steps, NEW h \in Hosts, <<h, r, s, 0>> \in turns PROVE FALSE
        BY <2>1 DEF TypeInv, TypeOK, StoreTypeOK, Attempts
  <2> QED
      BY <1>1, <2>1 DEF OpenSteps
<1>3. OpenSteps(r)' = {}
      BY <1>1, NewAttemptOpen
<1>4. CallsSame
  <2>1. \A s \in Steps : calls[r][s] = 0 /\ calls'[r][s] = 0
        BY <1>1 DEF CallsFollow, LifeInv, Records, AbsentFresh
  <2>2. ASSUME NEW q \in Runs, q # r
        PROVE  calls'[q] = calls[q] /\ OpenSteps(q)' = OpenSteps(q)
        BY <1>1, <2>2 DEF CallsFollow, OpenSteps
  <2> QED
      BY <1>2, <1>3, <2>1, <2>2 DEF CallsSame
<1>5. Lifecycle!Set({r}, "queued")
  <2>1. \A q \in Runs : Phase(q)' = IF q \in {r} THEN "queued" ELSE Phase(q)
        BY <1>1 DEF Phase, IsUnknown, Executing
  <2> QED
      BY <2>1, SetPhase
<1>6. Phase(r) = "absent" /\ ~Lifecycle!Barred(r)
  <2>1. ~HasUnknown(TargetOf[r], {r})
        BY <1>1 DEF HasUnknown
  <2> QED
      BY <1>1, <2>1, Views, BarredIs
<1>7. woken' = woken
      BY <1>1 DEF WokenFollow, LifeInv, Records, AbsentFresh, TypeInv, TypeOK
<1>8. Lifecycle!Accept(r)
      BY <1>4, <1>5, <1>6, <1>7, SameMade DEF Lifecycle!Accept
<1> QED
    BY <1>8 DEF Lifecycle!Next

LEMMA ResumeRefines ==
  ASSUME TypeInv, TypeInv', CallInv, CallsFollow, WokenFollow, NEW r \in Runs,
         NEW confirmed \in BOOLEAN, Resume(r, confirmed)
  PROVE  Lifecycle!Next
<1>1. /\ run[r].state \in {"failed", "interrupted"}
      /\ IsUnknown(r) \/ ~HasUnknown(TargetOf[r], {r})
      /\ run'[r].state = "queued" /\ run'[r].attempt = run[r].attempt + 1
      /\ \A q \in Runs : q # r => run'[q] = run[q]
      /\ UNCHANGED turns
      BY DEF Resume, Queued, TypeInv, TypeOK, StoreTypeOK
<1>2. OpenSteps(r)' = {} /\ calls'[r] = [s \in Steps |-> 0]
      BY <1>1, NewAttemptOpen, AttemptNat DEF CallsFollow
<1>3. ASSUME NEW q \in Runs, q # r
      PROVE  calls'[q] = calls[q] /\ OpenSteps(q)' = OpenSteps(q)
      BY <1>1, <1>3 DEF CallsFollow, OpenSteps
<1>4. Lifecycle!Set({r}, "queued")
  <2>1. \A q \in Runs : Phase(q)' = IF q \in {r} THEN "queued" ELSE Phase(q)
        BY <1>1 DEF Phase, IsUnknown, Executing
  <2> QED
      BY <2>1, SetPhase
<1>5. Phase(r) \in {"failed", "interrupted", "unknown"}
      BY <1>1, Views
<1>6. Phase(r) # "unknown" => ~Lifecycle!Barred(r)
      BY <1>1, Views, BarredIs
<1>7. Lifecycle!Retry(r)
  <2>1. {s \in Steps : calls'[r][s] > 0} = {}
        BY <1>2
  <2>2. run'[r].attempt # run[r].attempt
        BY <1>1, AttemptNat
  <2>3. woken' = woken \ {r}
        BY <1>1, <2>2 DEF WokenFollow, TypeInv, TypeOK
  <2> QED
      BY <1>2, <1>3, <1>4, <1>5, <1>6, <2>1, <2>3 DEF Lifecycle!Retry
<1> QED
    BY <1>7 DEF Lifecycle!Next

LEMMA CancelRefines ==
  ASSUME TypeInv, TypeInv', CallsFollow, WokenFollow, NEW r \in Runs, Cancel(r)
  PROVE  Lifecycle!Next
<1> DEFINE S == {q \in Runs : run[q].state = "queued" /\ run'[q].state = "cancelled"}
<1>1. \A q \in Runs : run'[q].attempt = run[q].attempt
      BY CancelRecords
<1>2. CallsSame
  <2>1. ASSUME NEW q \in Runs PROVE calls'[q] = calls[q] /\ OpenSteps(q)' = OpenSteps(q)
        BY <1>1, SameOpen DEF CallsFollow, Cancel
  <2> QED
      BY <2>1 DEF CallsSame
<1>3. \A q \in Runs : Phase(q)' = IF q \in S THEN "cancelled" ELSE Phase(q)
  <2>1. ASSUME NEW q \in Runs
        PROVE  \/ q \in S
               \/ q \notin S /\ run'[q].state = run[q].state /\ run'[q].known = run[q].known
        BY CancelRecords
  <2> QED
      BY <2>1 DEF Phase, IsUnknown, Executing
<1>4. S \in SUBSET Lifecycle!In("queued")
      BY Views DEF Lifecycle!In
<1>5. woken' = woken
      BY <1>1 DEF WokenFollow, TypeInv, TypeOK
<1>6. Lifecycle!Withdraw(S)
  <2> HIDE DEF S
  <2> QED
      BY <1>2, <1>3, <1>5, SetPhase, SameMade DEF Lifecycle!Withdraw
<1> QED
    BY <1>4, <1>6 DEF Lifecycle!Next

(***************************************************************************)
(* Steps that change no attempt and no turn leave the calls as they are.   *)
(***************************************************************************)
LEMMA KeptCalls ==
  ASSUME UNCHANGED <<turns, calls>>, \A q \in Runs : run'[q].attempt = run[q].attempt
  PROVE  CallsSame
<1>1. ASSUME NEW q \in Runs PROVE OpenSteps(q)' = OpenSteps(q)
      BY <1>1, SameOpen
<1> QED
    BY <1>1 DEF CallsSame

\* So does every step that leaves the records alone but for "running" and "waiting".
LEMMA MovesPhase ==
  ASSUME StatesMove, NEW q \in Runs
  PROVE  Phase(q)' = Phase(q)
<1>1. CASE run'[q] = run[q]
      BY <1>1 DEF Phase, IsUnknown
<1>2. CASE run[q].state \in Executing /\ run'[q].state \in Executing
      BY <1>2 DEF Phase, IsUnknown, Executing
<1> QED
    BY <1>1, <1>2 DEF StatesMove

(***************************************************************************)
(* The scheduler loop and the shutdown.                                    *)
(***************************************************************************)
LEMMA RecoverRefines ==
  ASSUME TypeInv, TypeInv', NEW h \in Hosts, Recover(h)
  PROVE  Lifecycle!Next
<1>1. CallsSame
      BY RecoverRecords, KeptCalls DEF Recover
<1>2. \A q \in Runs : Phase(q)' = IF q \notin Orphans THEN Phase(q)
                                  ELSE IF OpenSteps(q) = {} THEN "queued" ELSE "unknown"
  <2>1. ASSUME NEW q \in Runs, q \in LostRuns PROVE Phase(q)' = "unknown"
        BY <2>1, RecoverRecords DEF Phase, IsUnknown, Executing
  <2>2. ASSUME NEW q \in Runs, q \in Orphans \ LostRuns PROVE Phase(q)' = "queued"
        BY <2>2, RecoverRecords DEF Phase, IsUnknown, Executing
  <2>3. ASSUME NEW q \in Runs, q \notin Orphans PROVE Phase(q)' = Phase(q)
        BY <2>3, RecoverRecords DEF Phase, IsUnknown
  <2> QED
      BY <2>1, <2>2, <2>3 DEF LostRuns, Uncertain
<1>3. Orphans \in SUBSET Lifecycle!In("executing")
      BY Views DEF Lifecycle!In, Orphans, TypeInv, TypeOK, StoreTypeOK
<1>4. Lifecycle!Recover(Orphans)
  <2>1. woken' = woken
        BY DEF Recover
  <2> QED
      BY <1>1, <1>2, <2>1, SameMade DEF Lifecycle!Recover
<1> QED
    BY <1>3, <1>4 DEF Lifecycle!Next

LEMMA TickStartRefines ==
  ASSUME TypeInv, TypeInv', CallInv, LifeInv, NEW h \in Hosts, NEW r \in Runs, TickStart(h, r)
  PROVE  Lifecycle!Next
<1>1. /\ ~HasUnknown(TargetOf[r], {}) /\ UNCHANGED <<turns, calls>>
      /\ woken' = IF run[r].state = "queued" THEN woken ELSE woken \cup {r}
      BY DEF TickStart, Dispatchable
<1>2. /\ r \notin woken /\ run[r].state \in {"queued", "cancelled"}
      /\ run[r].attempt = tick[h].seen[r].attempt
      /\ \A q \in Runs : TargetOf[q] = TargetOf[r] => ~Regular(q)
      BY StartAlone
<1>3. /\ run'[r].state = "running" /\ run'[r].attempt = run[r].attempt
      /\ \A q \in Runs : q # r => run'[q] = run[q]
      BY <1>2, StartRecords
<1>4. CallsSame
      BY <1>1, <1>3, KeptCalls
<1>5. Lifecycle!Set({r}, "executing")
  <2>1. \A q \in Runs : Phase(q)' = IF q \in {r} THEN "executing" ELSE Phase(q)
        BY <1>3 DEF Phase, IsUnknown, Executing
  <2> QED
      BY <2>1, SetPhase
<1>6. ~Lifecycle!Barred(r)
  <2>1. ~HasUnknown(TargetOf[r], {r})
        BY <1>1 DEF HasUnknown
  <2> QED
      BY <2>1, BarredIs
<1>7. Lifecycle!Alone(r)
  <2>1. ASSUME NEW q \in Runs, q # r, TargetOf[q] = TargetOf[r], q \notin woken
        PROVE  Phase(q) # "executing"
        BY <1>2, <2>1, Views DEF Regular
  <2> QED
      BY <2>1 DEF Lifecycle!Alone, Lifecycle!Peers
<1>8. CASE run[r].state = "queued"
  <2>1. Lifecycle!Start(r)
        BY <1>1, <1>4, <1>5, <1>6, <1>7, <1>8, SameMade, Views DEF Lifecycle!Start
  <2> QED
      BY <2>1 DEF Lifecycle!Next
<1>9. CASE run[r].state = "cancelled"
  <2>1. Lifecycle!Wake(r)
        BY <1>1, <1>2, <1>4, <1>5, <1>6, <1>7, <1>9, SameMade, Views DEF Lifecycle!Wake
  <2> QED
      BY <2>1 DEF Lifecycle!Next
<1> QED
    BY <1>2, <1>8, <1>9

LEMMA InterruptRefines ==
  ASSUME TypeInv, TypeInv', NEW h \in Hosts, Interrupt(h)
  PROVE  Lifecycle!Next
<1>1. CallsSame
      BY InterruptRecords, KeptCalls DEF Interrupt
<1>2. \A q \in Runs : Phase(q)' = IF q \in Cut(h) THEN "unknown" ELSE Phase(q)
  <2>1. ASSUME NEW q \in Runs, q \in Cut(h) PROVE Phase(q)' = "unknown"
        BY <2>1, InterruptRecords DEF Phase, IsUnknown, Executing
  <2>2. ASSUME NEW q \in Runs, q \notin Cut(h) PROVE Phase(q)' = Phase(q)
        BY <2>2, InterruptRecords DEF Phase, IsUnknown
  <2> QED
      BY <2>1, <2>2
<1>3. Cut(h) \in SUBSET (Lifecycle!In("executing") \cup Lifecycle!In("queued"))
  <2>1. ASSUME NEW q \in Cut(h)
        PROVE  q \in Runs /\ Phase(q) \in {"executing", "queued"}
        BY <2>1, Views DEF Cut, LocalRuns, ActiveStates, Executing
  <2> QED
      BY <2>1 DEF Lifecycle!In
<1>4. Lifecycle!Abandon(Cut(h))
  <2>1. woken' = woken
        BY DEF Interrupt
  <2> QED
      BY <1>1, <1>2, <2>1, SetPhase, SameMade DEF Lifecycle!Abandon
<1> QED
    BY <1>3, <1>4 DEF Lifecycle!Next

(***************************************************************************)
(* Calls and their results.                                                *)
(***************************************************************************)
LEMMA DispatchRefines ==
  ASSUME TypeInv, TypeInv', ConsentInv, CallInv, CallInv', NEW h \in Hosts, NEW r \in Runs,
         NEW s \in Steps, Dispatch(h, r, s)
  PROVE  Lifecycle!Next
<1>1. /\ run[r].owner = h /\ run[r].state \in Executing /\ task[h][r][s].pc = "prepare"
      /\ turns' = turns \cup {<<h, r, s, exec[h][r].attempt>>}
      /\ calls' = [calls EXCEPT ![r][s] = @ + 1] /\ UNCHANGED <<run, woken>>
      BY DEF Dispatch, At, Owned
<1>2. exec[h][r].attempt = run[r].attempt
      BY <1>1, UnderWay DEF Holds, HeldAttempt, CallInv
<1>3. calls[r][s] = 0
      BY DispatchCalls DEF CallInv
<1>4. /\ {t \in Steps : calls'[r][t] > 0} = {t \in Steps : calls[r][t] > 0} \cup {s}
      /\ \A q \in Runs : q # r => calls'[q] = calls[q]
      BY <1>1, <1>3 DEF TypeInv, TypeOK
<1>5. OpenSteps(r)' = OpenSteps(r) \cup {s}
      BY <1>1, <1>2 DEF OpenSteps
<1>6. ASSUME NEW q \in Runs, q # r PROVE OpenSteps(q)' = OpenSteps(q)
      BY <1>1, <1>6 DEF OpenSteps
<1>7. \A q \in Runs : Phase(q)' = Phase(q)
      BY <1>1 DEF Phase, IsUnknown
<1>8. Phase(r) = "executing" /\ ~(calls[r][s] > 0)
      BY <1>1, <1>3, Views
<1>9. Lifecycle!Call(r, s)
      BY <1>1, <1>4, <1>5, <1>6, <1>7, <1>8 DEF Lifecycle!Call
<1> QED
    BY <1>9 DEF Lifecycle!Next

LEMMA SettleStepRefines ==
  ASSUME TypeInv, TypeInv', CallInv, NEW h \in Hosts, NEW r \in Runs, NEW s \in Steps,
         SettleStep(h, r, s)
  PROVE  Lifecycle!Next \/ UNCHANGED Lifecycle!vars
<1>1. UNCHANGED <<run, calls, woken>> /\ task[h][r][s].pc = "ended"
      BY DEF SettleStep, At
<1>2. \A q \in Runs : Phase(q)' = Phase(q)
      BY <1>1 DEF Phase, IsUnknown
<1>3. CASE UNCHANGED turns
      BY <1>1, <1>2, <1>3, KeptCalls, AbstractStutter
<1>4. CASE Settles(h, r)
  <2>1. turns' = turns \ {<<h, r, s, exec[h][r].attempt>>}
        BY <1>4 DEF SettleStep, Settles
  <2>2. Holds(h, r) /\ exec[h][r].attempt = run[r].attempt /\ run[r].state \in Executing
        BY <1>1, <1>4, UnderWay DEF Settles, Current, Owned, Holds, HeldAttempt, CallInv
  <2>3. OpenSteps(r)' = OpenSteps(r) \ {s}
    <3>1. \A k \in Hosts : <<k, r, s, run[r].attempt>> \in turns => k = h
          BY <2>2 DEF HeldTurns, CallInv
    <3> QED
        BY <1>1, <2>1, <2>2, <3>1 DEF OpenSteps
  <2>4. ASSUME NEW q \in Runs, q # r PROVE OpenSteps(q)' = OpenSteps(q)
        BY <1>1, <2>1, <2>4 DEF OpenSteps
  <2>5. CASE s \in OpenSteps(r)
    <3>1. Phase(r) = "executing"
          BY <2>2, Views
    <3>2. Lifecycle!Return(r, s)
          BY <1>1, <1>2, <2>3, <2>4, <2>5, <3>1 DEF Lifecycle!Return
    <3> QED
        BY <3>2 DEF Lifecycle!Next
  <2>6. CASE s \notin OpenSteps(r)
    <3>1. CallsSame
          BY <1>1, <2>3, <2>4, <2>6 DEF CallsSame
    <3> QED
        BY <1>1, <1>2, <3>1, AbstractStutter
  <2> QED
      BY <2>5, <2>6
<1> QED
    BY <1>3, <1>4 DEF SettleStep, Settles

LEMMA StepRefines ==
  ASSUME TypeInv, TypeInv', ConsentInv, CallInv, CallInv', NEW h \in Hosts, NEW r \in Runs,
         NEW s \in Steps, Step(h, r, s)
  PROVE  Lifecycle!Next \/ UNCHANGED Lifecycle!vars
<1>1. CASE UNCHANGED <<turns, calls>>
  <2>1. \/ CloseQuestion(h, r, s) \/ \E pc : OpenQuestion(h, r, s, pc) /\ OwnedBy(h, r, FALSE)
        \/ UNCHANGED run
        BY DEF Step, BeginStep, AcquireRefused, Acquired, PrepareFails, Dispatch, DispatchRefused,
               CallEnds, SettleStep, Ask, AskEnds, BeginConfirm, ConfirmEnds, SaveConfirm, MustAsk,
               store
  <2>2. StatesMove
        BY <2>1, QuestionRecords DEF StatesMove
  <2>3. CallsSame
        BY <1>1, <2>2, KeptCalls DEF StatesMove
  <2>4. UNCHANGED woken
        BY DEF Step, BeginStep, AcquireRefused, Acquired, PrepareFails, Dispatch, DispatchRefused,
               CallEnds, SettleStep, Ask, AskEnds, BeginConfirm, ConfirmEnds, SaveConfirm
  <2> QED
      BY <2>2, <2>3, <2>4, MovesPhase, AbstractStutter
<1>2. \/ UNCHANGED <<turns, calls>>
      \/ Dispatch(h, r, s) \/ SettleStep(h, r, s)
      BY DEF Step, BeginStep, AcquireRefused, Acquired, PrepareFails, DispatchRefused,
             CallEnds, Ask, AskEnds, BeginConfirm, ConfirmEnds, SaveConfirm, store
<1> QED
    BY <1>1, <1>2, DispatchRefines, SettleStepRefines

(***************************************************************************)
(* The end of an executor.                                                 *)
(***************************************************************************)
LEMMA SettleRunRefines ==
  ASSUME TypeInv, TypeInv', CallInv, LifeInv, NEW h \in Hosts, NEW r \in Runs, SettleRun(h, r)
  PROVE  Lifecycle!Next \/ UNCHANGED Lifecycle!vars
<1>1. /\ \A q \in Runs : q # r => run'[q] = run[q]
      /\ UNCHANGED <<turns, calls, woken>> /\ Free(h) /\ exec[h][r].result # NoOutcome
      BY SettleRecords DEF SettleRun
<1>2. CallsSame
      BY <1>1, SettleRecords, KeptCalls
<1>3. \A q \in Runs : q # r => Phase(q)' = Phase(q)
      BY <1>1 DEF Phase, IsUnknown
<1>4. CASE ~Settles(h, r)
  <2>1. Phase(r)' = Phase(r)
        BY <1>4, SettleRecords DEF Phase, IsUnknown
  <2> QED
      BY <1>1, <1>2, <1>3, <2>1, AbstractStutter
<1>5. CASE Settles(h, r)
  <2>1. run[r].state \in Executing
        BY <1>5 DEF Settles, Current, Owned
  <2>2. OpenSteps(r) = {} \/ r \in woken
    <3>1. r \notin woken => r \in active
          BY <2>1 DEF LifeInv, ActiveIndex, ActiveStates, Executing
    <3> QED
        BY <1>1, <1>5, <3>1, SettledCalls
  <2>3. Phase(r) = "executing"
        BY <2>1, Views
  <2>4. CASE Requeues(h, r)
    <3>1. Phase(r)' = "queued"
          BY <2>4, SettleRecords DEF Phase, IsUnknown, Executing
    <3>2. Lifecycle!Set({r}, "queued")
          BY <1>3, <3>1, SetPhase
    <3>3. Lifecycle!End(r, "queued")
          BY <1>1, <1>2, <2>2, <2>3, <3>2, SameMade DEF Lifecycle!End
    <3> QED
        BY <3>3 DEF Lifecycle!Next
  <2>5. CASE ~Requeues(h, r)
    <3>1. run'[r].state \in RunStates \ ActiveStates
      <4>1. exec[h][r].result \in Outcomes
            BY DEF TypeInv, TypeOK, ExecTable, Executor
      <4>2. run'[r].state = FinalState(r, exec[h][r].result)
            BY <1>5, <2>5, SettleRecords
      <4> QED
          BY <1>1, <4>1, <4>2, FinalEnds
    <3>2. Phase(r)' \in Lifecycle!Ended
          BY <3>1 DEF Phase, IsUnknown, RunStates, ActiveStates, Executing, Lifecycle!Ended
    <3>3. PICK p \in Lifecycle!Ended : Phase(r)' = p
          BY <3>2
    <3>4. Lifecycle!Set({r}, p)
          BY <1>3, <3>3, SetPhase
    <3>5. Lifecycle!End(r, p)
          BY <1>1, <1>2, <2>2, <2>3, <3>4, SameMade DEF Lifecycle!End
    <3> QED
        BY <3>5 DEF Lifecycle!Next
  <2> QED
      BY <2>4, <2>5
<1> QED
    BY <1>4, <1>5

LEMMA FailRunRefines ==
  ASSUME TypeInv, TypeInv', NEW h \in Hosts, NEW r \in Runs, FailRun(h, r)
  PROVE  Lifecycle!Next \/ UNCHANGED Lifecycle!vars
<1>1. /\ \A q \in Runs : q # r => run'[q] = run[q]
      /\ run'[r] = run[r] \/ (/\ run'[r].state = "interrupted" /\ run'[r].known = "no"
                              /\ run[r].state \in ActiveStates)
  <2>1. \A q \in Runs : q # r => run'[q] = run[q]
        BY DEF FailRun, GiveUp, TypeInv, TypeOK, StoreTypeOK
  <2>2. run'[r] = run[r] \/ (/\ run'[r].state = "interrupted" /\ run'[r].known = "no"
                            /\ run[r].state \in ActiveStates)
        BY FailRecords
  <2> QED
      BY <2>1, <2>2
<1>2. CallsSame
      BY FailRecords, KeptCalls DEF FailRun
<1>3. \A q \in Runs : q # r => Phase(q)' = Phase(q)
      BY <1>1 DEF Phase, IsUnknown
<1>4. UNCHANGED woken
      BY DEF FailRun
<1>6. CASE run'[r] = run[r]
  <2>1. Phase(r)' = Phase(r)
        BY <1>6 DEF Phase, IsUnknown
  <2> QED
      BY <1>2, <1>3, <1>4, <2>1, AbstractStutter
<1>5. CASE /\ run'[r].state = "interrupted" /\ run'[r].known = "no"
           /\ run[r].state \in ActiveStates
  <2>1. Phase(r)' = "unknown"
        BY <1>5 DEF Phase, IsUnknown, Executing
  <2>2. Phase(r) \in {"executing", "queued"}
        BY <1>5, Views DEF ActiveStates, Executing
  <2>3. Lifecycle!Abandon({r})
        BY <1>2, <1>3, <1>4, <2>1, SetPhase, SameMade DEF Lifecycle!Abandon
  <2>4. {r} \in SUBSET (Lifecycle!In("executing") \cup Lifecycle!In("queued"))
        BY <2>2 DEF Lifecycle!In
  <2> QED
      BY <2>3, <2>4 DEF Lifecycle!Next
<1> QED
    BY <1>1, <1>5, <1>6

(***************************************************************************)
(* Every step.                                                             *)
(***************************************************************************)
LEMMA QuietRefines ==
  ASSUME UNCHANGED <<run, turns, calls, woken>>
  PROVE  UNCHANGED Lifecycle!vars
<1>1. \A q \in Runs : Phase(q)' = Phase(q)
      BY DEF Phase, IsUnknown
<1> QED
    BY <1>1, KeptCalls, AbstractStutter

LEMMA NextRefines ==
  ASSUME TypeInv, TypeInv', ConsentInv, CallInv, CallInv', LifeInv, LifeInv', [Next]_vars
  PROVE  [Lifecycle!Next]_(Lifecycle!vars)
<1>1. CASE UserCommand
  <2>1. CallsFollow /\ WokenFollow /\ Command
        BY <1>1 DEF UserCommand, CallsFollow, WokenFollow
  <2>2. CASE UNCHANGED <<run, turns>>
    <3>1. \A q \in Runs : calls'[q] = calls[q]
          BY <2>1, <2>2 DEF CallsFollow
    <3>2. \A q \in Runs : Phase(q)' = Phase(q) /\ OpenSteps(q)' = OpenSteps(q)
          BY <2>2, SameOpen DEF Phase, IsUnknown
    <3>3. CallsSame
          BY <3>1, <3>2 DEF CallsSame
    <3>4. woken' = woken
          BY <2>1, <2>2 DEF WokenFollow
    <3> QED
        BY <3>2, <3>3, <3>4, AbstractStutter
  <2> QED
      BY <2>1, <2>2, SendRefines, ResumeRefines, CancelRefines DEF Command, Answer, Steer
<1>2. ASSUME NEW h \in Hosts, Tick(h) PROVE [Lifecycle!Next]_(Lifecycle!vars)
  <2>1. CASE UNCHANGED <<run, turns, calls, woken>>
        BY <2>1, QuietRefines
  <2> QED
      BY <1>2, <2>1, RecoverRefines, TickStartRefines
      DEF Tick, TickClaim, TickScan, TickSkip, TickThrows, store
<1>3. ASSUME NEW h \in Hosts, NEW r \in Runs, Execute(h, r)
      PROVE  [Lifecycle!Next]_(Lifecycle!vars)
  <2>1. CASE UNCHANGED <<run, turns, calls, woken>>
        BY <2>1, QuietRefines
  <2> QED
      BY <1>3, <2>1, StepRefines, SettleRunRefines, FailRunRefines
      DEF Execute, EngineReturns, AckSteering, store, local
<1>4. CASE UNCHANGED <<run, turns, calls, woken>>
      BY <1>4, QuietRefines
<1> QED
    BY <1>1, <1>2, <1>3, <1>4, InterruptRefines
    DEF Next, Start, Crash, Stop, Close, LeaseExpires, vars, store, local

\* The store and its Hosts (studioRuntimeService.ts, runExecutor.ts, turnExecutor.ts)
\* implement the lifecycle that RunLifecycle states.
THEOREM LifecycleRefined == Spec => RefinesLifecycle
<1>1. TypeInv /\ TypeInv' /\ ConsentInv /\ CallInv /\ CallInv' /\ LifeInv /\ LifeInv'
        /\ [Next]_vars => [Lifecycle!Next]_(Lifecycle!vars)
      BY NextRefines
<1>2. TypeInv /\ ConsentInv /\ [Next]_vars => ConsentInv'
      BY NextConsent
<1> QED
    BY <1>1, <1>2, AbstractInit, InitConsent, TypeInvAlways, CallInvAlways, LifeInvAlways, PTL
    DEF Spec, RefinesLifecycle, Lifecycle!Spec
=============================================================================
