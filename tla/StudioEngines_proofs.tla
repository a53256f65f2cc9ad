-------------------------- MODULE StudioEngines_proofs --------------------------
(***************************************************************************)
(* One run and its engine, over any graph, any round of tasks, any         *)
(* messages, retries and deaths of the Host.                               *)
(*                                                                         *)
(* What both engines rest on is that a result that came back is the one    *)
(* in the store (StoreOK) and that an engine has no more calls under way   *)
(* than it knows of (DeskOK, EngineOK); EngineInv collects this.  On it    *)
(* rest, each with an invariant of its own:                                *)
(*   MessageInv   where a message is: inbox, batch, saved plan, consumed   *)
(*   ShownOK      which batch a stored steering result answers             *)
(*   DeskDone, EarnedOK   what the end of a group task rests on            *)
(*   RetriesOK    what a node knows of its earlier calls                   *)
(*   UnknownSeen  where an unknown result is on its way to the engine      *)
(*   PassOK       how far a pass of the loop over the graph has come       *)
(*   ResultsOK, ReasonsOK   why a node has the outcome it has              *)
(*   JoinsOK      who lost at a join that has gone ahead has its outcome   *)
(***************************************************************************)
EXTENDS StudioEngines, TLAPS, NaturalsInduction, WellFoundedInduction, FiniteSetTheorems, Functions

LEMMA LeastNat ==
  ASSUME NEW S \in SUBSET Nat, S # {}
  PROVE  \E p \in S : \A q \in S : p <= q
<1>1. \E p \in S : \A q \in S : <<q, p>> \notin OpToRel(<, Nat)
      BY NatLessThanWellFounded, WFMin
<1>2. \A p, q \in Nat : <<q, p>> \notin OpToRel(<, Nat) => p <= q
      BY DEF OpToRel
<1> QED
    BY <1>1, <1>2

(***************************************************************************)
(* The store and the calls.                                                *)
(***************************************************************************)
Results == (Bad \cup Good) \ {"skipped"}

\* A result the engine gets is the stored one, unless no call was made for it.
StoreOK ==
  /\ \A c \in DOMAIN stored : stored[c] \in Results
  /\ \A c \in DOMAIN turn :
       /\ turn[c] \in Phases \cup Bad \cup Good
       /\ turn[c] \in Phases => c \notin DOMAIN stored
       /\ turn[c] \notin Phases \cup {"unknown", "skipped"} =>
            c \in DOMAIN stored /\ stored[c] = turn[c]

LEMMA EmptyFunction == DOMAIN Nothing = {}
BY DEF Nothing

LEMMA AskedKeeps ==
  ASSUME StoreOK, NEW c, turn' = Put(turn, c, Asked(c)), UNCHANGED stored
  PROVE  StoreOK'
BY DEF Put, StoreOK, Asked, Results, Phases, Bad, Good

LEMMA DropKeeps ==
  ASSUME StoreOK, NEW c, turn' = Drop(turn, c), UNCHANGED stored
  PROVE  StoreOK'
BY DEF Drop, StoreOK

LEMMA EmptyKeeps ==
  ASSUME StoreOK, DOMAIN turn' = {},
         \A c \in DOMAIN stored' : c \in DOMAIN stored /\ stored'[c] = stored[c]
  PROVE  StoreOK'
BY DEF StoreOK

\* What the runtime does with the call c: nothing to other calls, and its result is new.
Moves(c) ==
  /\ c \in DOMAIN turn /\ turn[c] \in Phases
  /\ DOMAIN turn' = DOMAIN turn
  /\ \A d \in DOMAIN turn : d # c => turn'[d] = turn[d]
  /\ DOMAIN stored' \subseteq DOMAIN stored \cup {c}
  /\ \A d \in DOMAIN stored : d # c => d \in DOMAIN stored' /\ stored'[d] = stored[d]

LEMMA ReturnMoves ==
  ASSUME StoreOK, NEW c, c \in DOMAIN turn, turn[c] \in Phases, NEW r \in Results, Return(c, r)
  PROVE  StoreOK' /\ Moves(c)
BY DEF Put, StoreOK, Moves, Return, Results, Phases, Bad, Good

LEMMA PhaseMoves ==
  ASSUME StoreOK, NEW c, c \in DOMAIN turn, turn[c] \in Phases,
         NEW r \in {"unknown", "skipped"} \cup Phases, turn' = Put(turn, c, r), UNCHANGED stored
  PROVE  StoreOK' /\ Moves(c)
BY DEF Put, StoreOK, Moves, Results, Phases, Bad, Good

LEMMA CallMoves ==
  ASSUME StoreOK, NEW c, NEW off, NEW superseded, NEW answers \in SUBSET Results,
         \/ Refused(c, off) \/ Granted(c, off, superseded) \/ NotPrepared(c, off)
         \/ Dispatched(c, off) \/ \E r \in answers : CallEnds(c, r)
  PROVE  StoreOK' /\ Moves(c)
<1>1. CASE Refused(c, off) \/ Dispatched(c, off) \/ (Granted(c, off, superseded) /\ ~(off \/ run.stop))
  <2>1. c \in DOMAIN turn /\ turn[c] \in Phases
        BY <1>1 DEF Refused, Dispatched, Granted, In, Phases
  <2>2. PICK r \in {"unknown", "skipped"} \cup Phases : turn' = Put(turn, c, r) /\ UNCHANGED stored
        BY <1>1 DEF Refused, Dispatched, Granted, Phases
  <2> QED
      BY <2>1, <2>2, PhaseMoves
<1>2. CASE \/ NotPrepared(c, off) \/ (Granted(c, off, superseded) /\ (off \/ run.stop))
           \/ \E r \in answers : CallEnds(c, r)
  <2>1. c \in DOMAIN turn /\ turn[c] \in Phases
        BY <1>2 DEF NotPrepared, CallEnds, Granted, In, Phases
  <2>2. PICK r \in Results : Return(c, r)
        BY <1>2 DEF NotPrepared, CallEnds, Granted, Results, Bad, Good
  <2> QED
      BY <2>1, <2>2, ReturnMoves
<1> QED
    BY <1>1, <1>2

(***************************************************************************)
(* The desk of the group engine.                                           *)
(***************************************************************************)
Rounds == {"woken", "pass", "race", "drain"}
DeskPcs == {"plan", "steer", "review", "woken", "pass", "race", "drain",
            "idle", "finish", "top", "acked", "open"}
Pos == Nat \ {0}
Desks == {d \in [pc : DeskPcs, next : Pos, advanced : BOOLEAN, halted : BOOLEAN,
                  result : {"none", "succeeded"} \cup Bad] :
             d.pc = "finish" => d.result # "none"}

RunOK ==
  /\ run \in [kind : Kinds,
              state : {"queued", "running", "succeeded", "failed", "cancelled", "interrupted"},
              attempt : 1..MaxAttempts, stop : BOOLEAN]
  /\ heard \in BOOLEAN
  /\ heard => run.stop /\ run.state = "running"
  /\ crashes \in 0..MaxCrashes
  /\ run.state # "running" => turn = Nothing

\* What may be under way: one call of the host, or a call for each busy task.
CallsNow == IF desk.pc \in HostStages THEN {HostCall} ELSE {TaskCall(i) : i \in busy}

DeskOK ==
  /\ desk \in Desks
  /\ desk.pc # "idle" <=> run.kind = "group" /\ run.state = "running"
  /\ desk.pc = "idle" => desk = Away /\ output = Nothing /\ busy = {}
  /\ run.kind = "group" => DOMAIN turn \subseteq CallsNow

RoundOK ==
  /\ busy # {} => desk.pc \in Rounds
  /\ DOMAIN output # {} => desk.pc \in Rounds \cup {"review", "finish"}
  /\ DOMAIN output \subseteq DOMAIN Tasks
  /\ busy \subseteq DOMAIN Tasks \ DOMAIN output
  /\ \A i, j \in busy : i # j => Tasks[i].member # Tasks[j].member

DeskInv == StoreOK /\ RunOK /\ DeskOK /\ RoundOK

LEMMA Texting == Texts \subseteq Results /\ KernelResults \subseteq Results
BY PortConstants DEF Texts, Results, Bad, Good

LEMMA One == 1 \in Pos
BY DEF Pos

LEMMA Fails == {"unknown", "cancelled", "failed", "final"} = Bad
BY DEF Bad

LEMMA AwayFields ==
  /\ Away \in Desks
  /\ Away.result = "none" /\ ~Away.halted /\ Away.next = 1 /\ Away.pc = "idle"
BY One DEF Away, Desks, DeskPcs, Bad

LEMMA FinishIs ==
  ASSUME NEW r \in {"succeeded"} \cup Bad
  PROVE  /\ Finish(r) \in Desks
         /\ Finish(r).pc = "finish" /\ Finish(r).result = r /\ ~Finish(r).halted
BY AwayFields DEF Finish, Desks, DeskPcs, Bad

\* The first task that may start.
LEMMA NextTaskIs ==
  ASSUME DeskInv, Startable # {}
  PROVE  /\ NextTask \in DOMAIN Tasks /\ NextTask \in Pos
         /\ NextTask \notin DOMAIN output /\ MayStart(NextTask)
<1>1. Len(Tasks) \in Nat /\ DOMAIN Tasks = 1..Len(Tasks) /\ desk.next \in Nat \ {0}
      BY GroupConstants DEF DeskInv, DeskOK, Desks, Pos
<1>2. Startable \in SUBSET Nat
      BY <1>1 DEF Startable
<1>3. \E i \in Startable : \A j \in Startable : i <= j
      BY <1>2, LeastNat
<1>4. NextTask \in Startable
      BY <1>3 DEF NextTask
<1> QED
    BY <1>1, <1>4 DEF Startable, Pos

(***************************************************************************)
(* Calls of the host.                                                      *)
(***************************************************************************)
LEMMA CallHostKeeps ==
  ASSUME DeskInv, NEW stage \in HostStages, NEW n \in Pos, CallHost(stage, n),
         run.kind = "group", run'.kind = "group", run'.state = "running",
         DOMAIN turn = {}, UNCHANGED <<plan, stored>>
  PROVE  /\ StoreOK' /\ desk' \in Desks /\ DOMAIN turn' \subseteq {HostCall'}
         /\ \/ heard /\ desk' = Finish("cancelled") /\ UNCHANGED <<turn, shown>>
            \/ ~heard /\ desk' = [desk EXCEPT !.pc = stage, !.next = n]
               /\ turn' = Put(turn, HostCall', Asked(HostCall'))
         /\ desk'.pc \in HostStages \cup {"finish"}
         /\ desk'.pc = "finish" => turn' = turn
<1> DEFINE c == <<stage, Subject(stage), n>>
<1>1. CASE heard
      BY <1>1, FinishIs DEF CallHost, DeskInv, StoreOK, Bad, HostStages
<1>2. CASE ~heard
  <2>1. desk' = [desk EXCEPT !.pc = stage, !.next = n] /\ turn' = Put(turn, c, Asked(c))
        BY <1>2 DEF CallHost
  <2>2. desk' \in Desks /\ desk'.pc = stage /\ desk'.next = n
        BY <2>1 DEF DeskInv, DeskOK, Desks, DeskPcs, HostStages
  <2>3. HostCall' = c
        BY <2>2 DEF HostCall, Subject
  <2>4. StoreOK'
        BY <2>1, AskedKeeps DEF DeskInv
  <2>5. DOMAIN turn' \subseteq {c}
        BY <2>1 DEF Put
  <2> QED
      BY <1>2, <2>1, <2>2, <2>3, <2>4, <2>5 DEF HostStages
<1> QED
    BY <1>1, <1>2

(***************************************************************************)
(* The steps of the group engine keep the desk.                            *)
(***************************************************************************)
LEMMA DeskFrame ==
  ASSUME DeskInv, desk.pc # "idle", UNCHANGED <<run, heard, crashes>>,
         StoreOK', desk' \in Desks, desk'.pc # "idle", DOMAIN turn' \subseteq CallsNow', RoundOK'
  PROVE  DeskInv'
BY DEF DeskInv, RunOK, DeskOK

\* A busy engine is that of a running group task.
LEMMA AtWork ==
  ASSUME DeskInv, desk.pc # "idle"
  PROVE  run.kind = "group" /\ run.state = "running" /\ DOMAIN turn \subseteq CallsNow
BY DEF DeskInv, DeskOK

\* Outside a round nothing is under way but a call of the host.
LEMMA NothingBusy ==
  ASSUME DeskInv, desk.pc \notin Rounds, run.kind = "group"
  PROVE  busy = {} /\ (desk.pc \notin HostStages => DOMAIN turn = {})
BY DEF DeskInv, DeskOK, RoundOK, CallsNow

LEMMA PlanApart ==
  /\ Rounds \cap HostStages = {}
  /\ {"idle", "finish", "top", "acked", "open"} \cap (Rounds \cup HostStages) = {}
BY DEF Rounds, HostStages

LEMMA BeginGroupDesk ==
  ASSUME DeskInv, BeginGroup
  PROVE  DeskInv'
<1>1. /\ run.kind = "group" /\ run.state = "queued" /\ run' = [run EXCEPT !.state = "running"]
      /\ UNCHANGED <<stored, heard, crashes, plan, inbox, output, busy, planned>>
      BY DEF BeginGroup
<1>2. /\ desk.pc = "idle" /\ output = Nothing /\ busy = {} /\ turn = Nothing
      /\ run'.kind = "group" /\ run'.state = "running"
      BY <1>1 DEF DeskInv, DeskOK, RunOK
<1>3. RunOK' /\ RoundOK'
      BY <1>1, <1>2, EmptyFunction DEF DeskInv, RunOK, RoundOK
<1>4. CASE plan.phase = "none"
  <2>1. CallHost("plan", 1) /\ 1 \in Pos /\ "plan" \in HostStages
        BY <1>4, One DEF BeginGroup, HostStages
  <2>2. DOMAIN turn = {}
        BY <1>2, EmptyFunction
  <2>3. /\ StoreOK' /\ desk' \in Desks /\ DOMAIN turn' \subseteq {HostCall'}
        /\ desk'.pc \in HostStages \cup {"finish"} /\ (desk'.pc = "finish" => turn' = turn)
        BY <1>1, <1>2, <2>1, <2>2, CallHostKeeps
  <2>4. DOMAIN turn' \subseteq CallsNow' /\ desk'.pc # "idle"
        BY <2>2, <2>3, PlanApart DEF CallsNow
  <2> QED
      BY <1>1, <1>2, <1>3, <2>3, <2>4 DEF DeskInv, DeskOK
<1>5. CASE plan.phase # "none"
  <2>1. desk' = [Away EXCEPT !.pc = "top"] /\ turn' = Nothing /\ UNCHANGED stored
        BY <1>2, <1>5, <1>1 DEF BeginGroup
  <2>2. desk' \in Desks /\ desk'.pc = "top"
        BY <2>1, AwayFields DEF Desks, DeskPcs
  <2>3. StoreOK' /\ DOMAIN turn' \subseteq CallsNow'
        BY <2>1, EmptyFunction, EmptyKeeps DEF DeskInv
  <2> QED
      BY <1>1, <1>2, <1>3, <2>2, <2>3 DEF DeskInv, DeskOK
<1> QED
    BY <1>4, <1>5

LEMMA HostFailsDesk ==
  ASSUME DeskInv, HostFails
  PROVE  DeskInv'
<1>1. /\ desk.pc \in HostStages /\ HostCall \in DOMAIN turn /\ turn[HostCall] \notin Phases
      /\ ~Accepted(desk.pc) /\ turn' = Drop(turn, HostCall)
      /\ UNCHANGED <<run, stored, heard, crashes, plan, inbox, output, busy, shown, planned>>
      BY DEF HostFails, Returned
<1>2. desk.pc # "idle" /\ desk.pc # "finish" /\ desk.pc \notin Rounds
      BY <1>1 DEF HostStages, Rounds
<1>3. DOMAIN turn \subseteq {HostCall} /\ busy = {}
      BY <1>1, <1>2, AtWork, NothingBusy DEF CallsNow
<1>4. StoreOK' /\ DOMAIN turn' = {}
      BY <1>1, <1>3, DropKeeps DEF DeskInv, Drop
<1>5. Answer \in Bad \cup {"invalid"} \/ heard
      BY <1>1 DEF Accepted, Answered, Answer, Returned, DeskInv, StoreOK, Good
<1>6. \/ \E r \in {"succeeded"} \cup Bad : desk' = Finish(r)
      \/ desk' = [desk EXCEPT !.next = @ + 1]
  <2>1. {"unknown", "cancelled", "failed"} \subseteq Bad
        BY DEF Bad
  <2> QED
      BY <1>5, <2>1 DEF HostFails
<1>7. desk' \in Desks /\ desk'.pc # "idle" /\ desk'.pc \in {"finish", desk.pc}
  <2>1. desk.next + 1 \in Pos
        BY DEF DeskInv, DeskOK, Desks, Pos
  <2> QED
      BY <1>6, <1>2, <2>1, FinishIs DEF DeskInv, DeskOK, Desks
<1>8. RoundOK'
      BY <1>1, <1>3, <1>7, <1>2 DEF DeskInv, RoundOK, HostStages
<1> QED
    BY <1>1, <1>2, <1>4, <1>7, <1>8, DeskFrame

LEMMA HostAgainDesk ==
  ASSUME DeskInv, HostAgain
  PROVE  DeskInv'
<1>1. /\ desk.pc \in HostStages /\ HostCall \notin DOMAIN turn /\ CallHost(desk.pc, desk.next)
      /\ UNCHANGED <<run, stored, heard, crashes, plan, inbox, output, busy, planned>>
      BY DEF HostAgain
<1>2. desk.pc # "idle" /\ desk.pc # "finish" /\ desk.pc \notin Rounds
      BY <1>1 DEF HostStages, Rounds
<1>3. DOMAIN turn = {} /\ busy = {} /\ desk.next \in Pos
      BY <1>1, <1>2, AtWork, NothingBusy DEF CallsNow, DeskInv, DeskOK, Desks
<1>4. run.kind = "group" /\ run.state = "running"
      BY <1>2, AtWork
<1>5. /\ StoreOK' /\ desk' \in Desks /\ DOMAIN turn' \subseteq {HostCall'}
      /\ \/ desk' = Finish("cancelled") /\ turn' = turn
         \/ desk' = [desk EXCEPT !.pc = desk.pc, !.next = desk.next]
      /\ desk'.pc \in HostStages \cup {"finish"} /\ (desk'.pc = "finish" => turn' = turn)
      BY <1>1, <1>3, <1>4, CallHostKeeps
<1>6. DOMAIN turn' \subseteq CallsNow' /\ desk'.pc \in {"finish", desk.pc}
      BY <1>1, <1>3, <1>5, PlanApart, FinishIs, Fails DEF CallsNow, DeskInv, DeskOK, Desks, DeskPcs
<1>7. RoundOK'
      BY <1>1, <1>3, <1>6, <1>2 DEF DeskInv, RoundOK, HostStages
<1> QED
    BY <1>1, <1>2, <1>5, <1>6, <1>7, DeskFrame

\* The host's answer ends its stage.
LEMMA StageDone ==
  ASSUME DeskInv, desk.pc \in HostStages, HostCall \in DOMAIN turn,
         turn' = Drop(turn, HostCall), UNCHANGED <<run, heard, crashes, busy>>,
         stored' \in {stored, Nothing}, desk' \in Desks, desk'.pc \in {"top", "finish"},
         (output' = output /\ desk.pc # "review") \/ output' = Nothing
  PROVE  DeskInv'
<1>1. desk.pc # "idle" /\ desk.pc # "finish" /\ desk.pc \notin Rounds
      BY DEF HostStages, Rounds
<1>2. DOMAIN turn \subseteq {HostCall} /\ busy = {}
      BY <1>1, AtWork, NothingBusy DEF CallsNow
<1>3. DOMAIN turn' = {}
      BY <1>2 DEF Drop
<1>4. StoreOK'
      BY <1>3, EmptyKeeps, EmptyFunction DEF DeskInv
<1>5. DOMAIN output' = {}
      BY <1>1, EmptyFunction DEF DeskInv, RoundOK
<1>6. RoundOK'
      BY <1>2, <1>5 DEF RoundOK
<1> QED
    BY <1>1, <1>3, <1>4, <1>6, DeskFrame

LEMMA PlannedDesk ==
  ASSUME DeskInv, Planned
  PROVE  DeskInv'
<1>1. desk.pc = "plan" /\ HostCall \in DOMAIN turn /\ desk' = [Away EXCEPT !.pc = "top"]
      BY DEF Planned, Accepted, Answered, Returned
<1> QED
    BY <1>1, StageDone, AwayFields DEF Planned, HostStages, Desks, DeskPcs

LEMMA SteeredDesk ==
  ASSUME DeskInv, Steered
  PROVE  DeskInv'
<1>1. desk.pc = "steer" /\ HostCall \in DOMAIN turn /\ desk' = [Away EXCEPT !.pc = "top"]
      BY DEF Steered, Accepted, Answered, Returned
<1> QED
    BY <1>1, StageDone, AwayFields DEF Steered, HostStages, Desks, DeskPcs

LEMMA ReviewedDesk ==
  ASSUME DeskInv, Reviewed
  PROVE  DeskInv'
<1>1. /\ desk.pc = "review" /\ HostCall \in DOMAIN turn /\ output' = Nothing
      /\ turn' = Drop(turn, HostCall) /\ UNCHANGED <<run, heard, crashes, busy>>
      BY DEF Reviewed, Accepted, Answered, Returned
<1>2. desk' = Finish("failed") \/ desk' = [Away EXCEPT !.pc = "top"]
      BY DEF Reviewed
<1>3. stored' \in {stored, Nothing}
      BY DEF Reviewed
<1>4. desk' \in Desks /\ desk'.pc \in {"top", "finish"} /\ desk.pc \in HostStages
      BY <1>1, <1>2, AwayFields, FinishIs, Fails DEF HostStages, Desks, DeskPcs
<1> QED
    BY <1>1, <1>3, <1>4, StageDone

\* The head of the loop: no call is under way.
LEMMA HeadDesk ==
  ASSUME DeskInv, desk.pc \in {"top", "acked", "open"},
         UNCHANGED <<run, stored, turn, heard, crashes, output, busy>>,
         desk' \in Desks, desk'.pc \in {"top", "acked", "open", "woken", "finish"}
  PROVE  DeskInv'
<1>1. desk.pc # "idle" /\ desk.pc \notin Rounds /\ desk.pc \notin HostStages
      BY DEF HostStages, Rounds
<1>2. busy = {} /\ DOMAIN turn = {} /\ DOMAIN output = {}
      BY <1>1, AtWork, NothingBusy DEF DeskInv, RoundOK
<1>3. UNCHANGED <<run, heard, crashes>> /\ StoreOK' /\ DOMAIN turn' \subseteq CallsNow'
      BY <1>2 DEF DeskInv, StoreOK
<1>4. RoundOK'
      BY <1>2 DEF RoundOK
<1> QED
    BY <1>1, <1>3, <1>4, DeskFrame

LEMMA HeadSteps ==
  ASSUME DeskInv, Acknowledge \/ Acknowledged \/ FixBatch \/ Proceed
  PROVE  DeskInv'
<1>1. CASE Acknowledge
  <2>1. \/ desk' = Finish("cancelled") \/ desk' = Finish("failed")
        \/ desk' = [desk EXCEPT !.pc = "open"] \/ desk' = [desk EXCEPT !.pc = "acked"]
        BY <1>1 DEF Acknowledge
  <2>2. desk' \in Desks /\ desk'.pc \in {"top", "acked", "open", "woken", "finish"}
        BY <2>1, FinishIs, Fails DEF DeskInv, DeskOK, Desks, DeskPcs
  <2> QED
      BY <1>1, <2>2, HeadDesk DEF Acknowledge, portVars
<1>2. CASE Acknowledged
  <2>1. desk' \in Desks /\ desk'.pc = "open"
        BY <1>2 DEF Acknowledged, DeskInv, DeskOK, Desks, DeskPcs
  <2> QED
      BY <1>2, <2>1, HeadDesk DEF Acknowledged, portVars
<1>3. CASE FixBatch
      BY <1>3, HeadDesk DEF FixBatch, portVars, DeskInv, DeskOK
<1>4. CASE Proceed
  <2>1. \/ desk' = Finish("cancelled") \/ desk' = Finish("failed") \/ desk' = Finish("succeeded")
        \/ desk' = [Away EXCEPT !.pc = "woken"]
        BY <1>4 DEF Proceed
  <2>2. desk' \in Desks /\ desk'.pc \in {"woken", "finish"}
        BY <2>1, FinishIs, Fails, AwayFields DEF Desks, DeskPcs
  <2> QED
      BY <1>4, <2>2, HeadDesk DEF Proceed, portVars
<1> QED
    BY <1>1, <1>2, <1>3, <1>4

LEMMA SteerDesk ==
  ASSUME DeskInv, Steer
  PROVE  DeskInv'
<1>1. /\ desk.pc = "open" /\ CallHost("steer", 1)
      /\ UNCHANGED <<run, stored, heard, crashes, plan, inbox, output, busy, planned>>
      BY DEF Steer
<1>2. desk.pc # "idle" /\ desk.pc \notin Rounds /\ desk.pc \notin HostStages
      BY <1>1 DEF HostStages, Rounds
<1>3. run.kind = "group" /\ run.state = "running"
      BY <1>2, AtWork
<1>4. busy = {} /\ DOMAIN turn = {} /\ DOMAIN output = {} /\ "steer" \in HostStages
      BY <1>1, <1>2, <1>3, NothingBusy DEF DeskInv, RoundOK, HostStages
<1>5. /\ StoreOK' /\ desk' \in Desks /\ DOMAIN turn' \subseteq {HostCall'}
      /\ desk'.pc \in HostStages \cup {"finish"} /\ (desk'.pc = "finish" => turn' = turn)
      BY <1>1, <1>3, <1>4, CallHostKeeps, One
<1>6. DOMAIN turn' \subseteq CallsNow' /\ desk'.pc # "idle"
      BY <1>4, <1>5, PlanApart DEF CallsNow
<1>7. RoundOK'
      BY <1>1, <1>4 DEF RoundOK
<1> QED
    BY <1>1, <1>2, <1>5, <1>6, <1>7, DeskFrame

\* Within a round, when no call changes.
LEMMA RoundDesk ==
  ASSUME DeskInv, desk.pc \in Rounds,
         UNCHANGED <<run, stored, turn, heard, crashes, plan, busy>>,
         desk' \in Desks, RoundOK', desk'.pc \in Rounds \/ (desk'.pc = "finish" /\ busy = {})
  PROVE  DeskInv'
<1>1. desk.pc # "idle" /\ desk.pc \notin HostStages /\ desk'.pc # "idle" /\ desk'.pc \notin HostStages
      BY PlanApart
<1>2. CallsNow' = CallsNow
      BY <1>1 DEF CallsNow, TaskCall
<1>3. UNCHANGED <<run, heard, crashes>> /\ StoreOK' /\ DOMAIN turn' \subseteq CallsNow'
      BY <1>1, <1>2, AtWork DEF DeskInv, StoreOK
<1> QED
    BY <1>1, <1>3, DeskFrame

LEMMA TasksLoopDesk ==
  ASSUME DeskInv, TasksLoop
  PROVE  DeskInv'
<1>1. \/ desk' = [desk EXCEPT !.pc = "drain"]
      \/ desk' = [desk EXCEPT !.pc = "pass", !.next = 1, !.advanced = FALSE]
      BY DEF TasksLoop
<1>2. desk' \in Desks /\ desk'.pc \in Rounds /\ desk.pc \in Rounds
      BY <1>1, One DEF TasksLoop, DeskInv, DeskOK, Desks, DeskPcs, Rounds
<1>3. RoundOK' /\ UNCHANGED <<run, stored, turn, heard, crashes, plan, busy>>
      BY <1>2 DEF portVars, TasksLoop, RoundOK, DeskInv
<1> QED
    BY <1>2, <1>3, RoundDesk

LEMMA TaskBlockedDesk ==
  ASSUME DeskInv, TaskBlocked
  PROVE  DeskInv'
<1>1. /\ NextTask \in DOMAIN Tasks /\ NextTask \in Pos
      /\ NextTask \notin DOMAIN output /\ NextTask \notin busy
      BY NextTaskIs DEF TaskBlocked, MayStart
<1>2. NextTask + 1 \in Pos
      BY <1>1 DEF Pos
<1>3. /\ desk.pc = "pass" /\ desk' = [desk EXCEPT !.next = NextTask + 1, !.advanced = TRUE]
      /\ output' = Put(output, NextTask, "failed")
      /\ UNCHANGED <<run, stored, turn, heard, crashes, plan, busy>>
      BY DEF TaskBlocked, portVars
<1>4. desk' \in Desks /\ desk'.pc \in Rounds /\ desk.pc \in Rounds
      BY <1>2, <1>3 DEF DeskInv, DeskOK, Desks, DeskPcs, Rounds
<1>5. RoundOK'
      BY <1>1, <1>3, <1>4 DEF RoundOK, DeskInv, Put
<1> QED
    BY <1>3, <1>4, <1>5, RoundDesk

LEMMA TaskStartsDesk ==
  ASSUME DeskInv, TaskStarts
  PROVE  DeskInv'
<1>1. /\ NextTask \in DOMAIN Tasks /\ NextTask \in Pos
      /\ NextTask \notin DOMAIN output /\ MayStart(NextTask)
      BY NextTaskIs DEF TaskStarts
<1>2. NextTask + 1 \in Pos
      BY <1>1 DEF Pos
<1>3. /\ desk.pc = "pass" /\ desk' = [desk EXCEPT !.next = NextTask + 1, !.advanced = TRUE]
      /\ busy' = busy \cup {NextTask}
      /\ turn' = Put(turn, TaskCall(NextTask), Asked(TaskCall(NextTask)))
      /\ UNCHANGED <<run, stored, heard, crashes, plan, output>>
      BY DEF TaskStarts
<1>4. desk' \in Desks /\ desk'.pc \in Rounds /\ desk.pc \in Rounds
      BY <1>2, <1>3 DEF DeskInv, DeskOK, Desks, DeskPcs, Rounds
<1>5. RoundOK'
      BY <1>1, <1>3, <1>4 DEF RoundOK, DeskInv, MayStart
<1>6. StoreOK'
      BY <1>3, AskedKeeps DEF DeskInv
<1>7. desk.pc # "idle" /\ desk.pc \notin HostStages /\ desk'.pc # "idle" /\ desk'.pc \notin HostStages
      BY <1>4, PlanApart
<1>8. DOMAIN turn' \subseteq CallsNow'
      BY <1>3, <1>7, AtWork DEF CallsNow, TaskCall, Put
<1> QED
    BY <1>3, <1>4, <1>5, <1>6, <1>7, <1>8, DeskFrame

LEMMA TasksPassedDesk ==
  ASSUME DeskInv, TasksPassed
  PROVE  DeskInv'
<1>1. \/ desk' = [desk EXCEPT !.pc = "race", !.next = 1, !.advanced = FALSE]
      \/ desk' = [desk EXCEPT !.pc = "woken"]
      \/ busy = {} /\ (desk' = Finish("cancelled") \/ desk' = Finish("failed"))
      BY DEF TasksPassed
<1>2. desk' \in Desks /\ desk.pc \in Rounds /\ (desk'.pc \in Rounds \/ (desk'.pc = "finish" /\ busy = {}))
      BY <1>1, FinishIs, Fails, One DEF TasksPassed, DeskInv, DeskOK, Desks, DeskPcs, Rounds
<1>3. RoundOK' /\ UNCHANGED <<run, stored, turn, heard, crashes, plan, busy>>
      BY <1>2 DEF portVars, TasksPassed, RoundOK, DeskInv
<1> QED
    BY <1>2, <1>3, RoundDesk

LEMMA TaskEndsDesk ==
  ASSUME DeskInv, NEW i \in DOMAIN Tasks, TaskEnds(i)
  PROVE  DeskInv'
<1>1. /\ desk.pc \in {"race", "drain", "woken"} /\ i \in busy /\ busy' = busy \ {i}
      /\ TaskCall(i) \in DOMAIN turn /\ turn' = Drop(turn, TaskCall(i))
      /\ output' = Put(output, i, TaskResult(i))
      /\ UNCHANGED <<run, stored, heard, crashes, plan, inbox, shown, planned>>
      BY DEF TaskEnds, Returned
<1>2. desk' = [desk EXCEPT
        !.halted = @ \/ (TaskResult(i) \in {"unknown", "final"} \/ (TaskResult(i) = "cancelled" /\ ~desk.halted)),
        !.result = IF TaskResult(i) = "unknown"
                      \/ ((TaskResult(i) \in {"unknown", "final"} \/ (TaskResult(i) = "cancelled" /\ ~desk.halted)) /\ @ = "none")
                   THEN TaskResult(i) ELSE @,
        !.pc = IF @ = "race" THEN "woken" ELSE @]
      BY DEF TaskEnds
<1>3. desk' \in Desks /\ desk'.pc \in {"drain", "woken"} /\ desk.pc \in Rounds
      BY <1>1, <1>2 DEF DeskInv, DeskOK, Desks, DeskPcs, Bad, Rounds
<1>4. desk.pc # "idle" /\ desk.pc \notin HostStages /\ desk'.pc # "idle" /\ desk'.pc \notin HostStages
      BY <1>1, <1>3 DEF HostStages
<1>5. DOMAIN turn' \subseteq CallsNow'
  <2>1. DOMAIN turn \subseteq {TaskCall(j) : j \in busy}
        BY <1>4, AtWork DEF CallsNow
  <2>2. DOMAIN turn' = DOMAIN turn \ {TaskCall(i)}
        BY <1>1 DEF Drop
  <2> QED
      BY <1>1, <1>4, <2>1, <2>2 DEF CallsNow, TaskCall
<1>6. RoundOK'
      BY <1>1, <1>3 DEF RoundOK, DeskInv, Put, Rounds
<1>7. StoreOK'
      BY <1>1, DropKeeps DEF DeskInv
<1> QED
    BY <1>1, <1>3, <1>4, <1>5, <1>6, <1>7, DeskFrame

LEMMA TasksDoneDesk ==
  ASSUME DeskInv, AllExited, TasksDone
  PROVE  DeskInv'
<1>1. /\ desk.pc = "drain" /\ busy = {}
      /\ UNCHANGED <<run, stored, heard, crashes, plan, inbox, busy, planned>>
      BY DEF TasksDone, AllExited
<1>2. desk.pc # "idle" /\ desk.pc \in Rounds /\ desk.pc \notin HostStages
      BY <1>1 DEF HostStages, Rounds
<1>3. run.kind = "group" /\ run.state = "running" /\ DOMAIN turn = {}
      BY <1>1, <1>2, AtWork DEF CallsNow
<1>4. CASE desk.result # "none" \/ heard
  <2>1. desk' = Finish(desk.result) \/ desk' = Finish("cancelled")
        BY <1>4 DEF TasksDone
  <2>2. desk' \in Desks /\ desk'.pc = "finish" /\ UNCHANGED <<turn, output>>
        BY <1>4, <2>1, FinishIs, Fails DEF TasksDone, DeskInv, DeskOK, Desks
  <2>3. RoundOK' /\ StoreOK' /\ DOMAIN turn' \subseteq CallsNow'
        BY <1>1, <1>3, <2>2 DEF RoundOK, StoreOK, DeskInv
  <2> QED
      BY <1>1, <1>2, <2>2, <2>3, DeskFrame
<1>5. CASE ~(desk.result # "none" \/ heard) /\ HasSteering
  <2>1. desk' = [Away EXCEPT !.pc = "top"] /\ output' = Nothing /\ UNCHANGED turn
        BY <1>5 DEF TasksDone
  <2>2. desk' \in Desks /\ desk'.pc = "top"
        BY <2>1, AwayFields DEF Desks, DeskPcs
  <2>3. RoundOK' /\ StoreOK' /\ DOMAIN turn' \subseteq CallsNow'
        BY <1>1, <1>3, <2>1, <2>2, EmptyFunction DEF RoundOK, StoreOK, DeskInv
  <2> QED
      BY <1>1, <1>2, <2>2, <2>3, DeskFrame
<1>6. CASE ~(desk.result # "none" \/ heard) /\ ~HasSteering
  <2>1. CallHost("review", 1) /\ UNCHANGED output /\ "review" \in HostStages
        BY <1>6 DEF TasksDone, HostStages
  <2>2. /\ StoreOK' /\ desk' \in Desks /\ DOMAIN turn' \subseteq {HostCall'}
        /\ desk' = [desk EXCEPT !.pc = "review", !.next = 1]
        BY <1>1, <1>3, <1>6, <2>1, CallHostKeeps, One
  <2>3. desk'.pc = "review"
        BY <2>2 DEF DeskInv, DeskOK, Desks
  <2>4. DOMAIN turn' \subseteq CallsNow' /\ desk'.pc # "idle"
        BY <2>1, <2>2, <2>3 DEF CallsNow
  <2>5. RoundOK'
        BY <1>1, <2>1, <2>3 DEF RoundOK, DeskInv
  <2> QED
      BY <1>1, <1>2, <2>2, <2>4, <2>5, DeskFrame
<1> QED
    BY <1>4, <1>5, <1>6

\* The engine and its calls are gone.
LEMMA GoneDesk ==
  ASSUME DeskInv, run.kind = "group", run'.kind = "group", run'.state # "running",
         run' \in [kind : Kinds,
                   state : {"queued", "running", "succeeded", "failed", "cancelled", "interrupted"},
                   attempt : 1..MaxAttempts, stop : BOOLEAN],
         heard' = FALSE, crashes' \in 0..MaxCrashes, turn' = Nothing, UNCHANGED stored,
         desk' = Away, output' = Nothing, busy' = {}
  PROVE  DeskInv'
<1>1. StoreOK'
      BY EmptyKeeps, EmptyFunction DEF DeskInv
<1>2. RunOK'
      BY DEF RunOK
<1>3. DeskOK'
      BY AwayFields, EmptyFunction DEF DeskOK
<1>4. RoundOK'
      BY EmptyFunction DEF RoundOK
<1> QED
    BY <1>1, <1>2, <1>3, <1>4 DEF DeskInv

LEMMA SettledIs ==
  ASSUME RunOK, NEW r \in {"succeeded"} \cup Bad, NEW more \in BOOLEAN, Settled(r, more)
  PROVE  /\ run' \in [kind : Kinds,
                   state : {"queued", "running", "succeeded", "failed", "cancelled", "interrupted"},
                     attempt : 1..MaxAttempts, stop : BOOLEAN]
         /\ run'.kind = run.kind /\ run'.state # "running"
BY DEF RunOK, Settled, Outcome, Bad

LEMMA FinishGroupDesk ==
  ASSUME DeskInv, FinishGroup
  PROVE  DeskInv'
<1>1. /\ desk.pc = "finish" /\ Settled(desk.result, Pending # {})
      /\ desk' = Away /\ output' = Nothing /\ UNCHANGED <<busy, plan>>
      BY DEF FinishGroup
<1>2. desk.result \in {"succeeded"} \cup Bad /\ desk.pc \notin Rounds /\ desk.pc # "idle"
      BY <1>1 DEF DeskInv, DeskOK, Desks, Rounds
<1>3. run.kind = "group" /\ busy = {}
      BY <1>2, AtWork, NothingBusy
<1>4. /\ run' \in [kind : Kinds,
                state : {"queued", "running", "succeeded", "failed", "cancelled", "interrupted"},
                attempt : 1..MaxAttempts, stop : BOOLEAN]
      /\ run'.kind = run.kind /\ run'.state # "running"
      BY <1>1, <1>2, SettledIs DEF DeskInv
<1>5. heard' = FALSE /\ crashes' \in 0..MaxCrashes /\ turn' = Nothing /\ UNCHANGED stored
      BY <1>1 DEF Settled, DeskInv, RunOK
<1> QED
    BY <1>1, <1>3, <1>4, <1>5, GoneDesk

LEMMA CrashedIs ==
  ASSUME RunOK, Crashed
  PROVE  /\ run' \in [kind : Kinds,
                state : {"queued", "running", "succeeded", "failed", "cancelled", "interrupted"},
                attempt : 1..MaxAttempts, stop : BOOLEAN]
         /\ run'.kind = run.kind /\ run'.state \in {"queued", "interrupted"}
         /\ crashes' \in 0..MaxCrashes /\ crashes' # 0
         /\ heard' = FALSE /\ turn' = Nothing /\ UNCHANGED stored
BY PortConstants DEF RunOK, Crashed

LEMMA CrashGroupDesk ==
  ASSUME DeskInv, CrashGroup
  PROVE  DeskInv'
<1>1. /\ run.kind = "group" /\ Crashed /\ desk' = Away /\ output' = Nothing /\ busy' = {}
      BY DEF CrashGroup
<1> QED
    BY <1>1, CrashedIs, GoneDesk DEF DeskInv

\* The desk does not move.
LEMMA StillDesk ==
  ASSUME DeskInv, UNCHANGED <<desk, output, busy>>, CallsNow' = CallsNow,
         StoreOK', RunOK', run'.kind = run.kind, run'.state = "running" <=> run.state = "running",
         DOMAIN turn' \subseteq DOMAIN turn \/ run.kind # "group"
  PROVE  DeskInv'
<1>1. RoundOK'
      BY DEF RoundOK, DeskInv
<1>2. DeskOK'
      BY DEF DeskOK, DeskInv
<1> QED
    BY <1>1, <1>2 DEF DeskInv

LEMMA SameCalls ==
  ASSUME UNCHANGED <<desk, busy>>, plan'.round = plan.round, plan'.revision = plan.revision
  PROVE  CallsNow' = CallsNow
BY DEF CallsNow, HostCall, Subject, TaskCall

LEMMA TurningDesk ==
  ASSUME DeskInv, NEW c, NEW off, NEW answers \in SUBSET Results, Turning(c, off, answers)
  PROVE  DeskInv' /\ Moves(c)
<1>1. UNCHANGED <<run, heard, crashes, groupVars>>
      BY DEF Turning
<1>2. \/ Refused(c, off) \/ Granted(c, off, c[1] = "task" /\ Pending # {}) \/ NotPrepared(c, off)
      \/ Dispatched(c, off) \/ \E r \in answers : CallEnds(c, r)
      BY DEF Turning
<1>3. StoreOK' /\ Moves(c)
      BY <1>2, CallMoves DEF DeskInv
<1>4. RunOK'
  <2>1. turn # Nothing
        BY <1>3, EmptyFunction DEF Moves
  <2> QED
      BY <1>1, <2>1 DEF RunOK, DeskInv
<1>5. UNCHANGED <<desk, busy, plan, output>> /\ DOMAIN turn' \subseteq DOMAIN turn
      BY <1>1, <1>3 DEF groupVars, Moves
<1> QED
    BY <1>1, <1>3, <1>4, <1>5, SameCalls, StillDesk

LEMMA HostTurnDesk ==
  ASSUME DeskInv, HostTurn
  PROVE  DeskInv' /\ Moves(HostCall)
<1>1. (KernelResults \ {"succeeded"}) \cup Texts \in SUBSET Results
      BY Texting
<1> QED
    BY <1>1, TurningDesk DEF HostTurn

LEMMA TaskTurnDesk ==
  ASSUME DeskInv, NEW i \in DOMAIN Tasks, TaskTurn(i)
  PROVE  DeskInv' /\ Moves(TaskCall(i))
<1>1. KernelResults \in SUBSET Results
      BY Texting
<1> QED
    BY <1>1, TurningDesk DEF TaskTurn

LEMMA HearIs ==
  ASSUME RunOK, Hear
  PROVE  RunOK' /\ UNCHANGED <<run, stored, turn, crashes>> /\ heard'
BY DEF RunOK, Hear

LEMMA HearGroupDesk ==
  ASSUME DeskInv, HearGroup
  PROVE  DeskInv'
<1>1. Hear /\ UNCHANGED <<desk, output, busy, plan>>
      BY DEF HearGroup, groupVars
<1>2. RunOK' /\ UNCHANGED <<run, stored, turn, crashes>>
      BY <1>1, HearIs DEF DeskInv
<1>3. StoreOK'
      BY <1>2 DEF DeskInv, StoreOK
<1> QED
    BY <1>1, <1>2, <1>3, SameCalls, StillDesk

LEMMA SendDesk ==
  ASSUME DeskInv, NEW m \in Messages, Send(m)
  PROVE  DeskInv'
<1>1. UNCHANGED <<run, stored, turn, heard, crashes, desk, output, busy, plan>>
      BY DEF Send, portVars
<1>2. RunOK' /\ StoreOK'
      BY <1>1 DEF DeskInv, StoreOK, RunOK
<1> QED
    BY <1>1, <1>2, SameCalls, StillDesk

LEMMA GroupDesk ==
  ASSUME DeskInv, GroupNext
  PROVE  DeskInv'
<1>1. CASE TasksDone
      BY <1>1, TasksDoneDesk DEF TasksDone
<1>2. CASE \E i \in DOMAIN Tasks : TaskEnds(i) \/ TaskTurn(i)
      BY <1>2, TaskEndsDesk, TaskTurnDesk
<1>3. CASE \E m \in Messages : Send(m)
      BY <1>3, SendDesk
<1>4. CASE \/ BeginGroup \/ HostFails \/ HostAgain \/ Planned \/ Steered \/ Reviewed
           \/ Acknowledge \/ Acknowledged \/ FixBatch \/ Steer \/ Proceed
           \/ TasksLoop \/ TaskBlocked \/ TaskStarts \/ TasksPassed \/ FinishGroup
           \/ HostTurn \/ HearGroup \/ CrashGroup
      BY <1>4, BeginGroupDesk, HostFailsDesk, HostAgainDesk, PlannedDesk, SteeredDesk, ReviewedDesk,
         HeadSteps, SteerDesk, TasksLoopDesk, TaskBlockedDesk, TaskStartsDesk, TasksPassedDesk,
         FinishGroupDesk, HostTurnDesk, HearGroupDesk, CrashGroupDesk
<1> QED
    BY <1>1, <1>2, <1>3, <1>4 DEF GroupNext

(***************************************************************************)
(* The local state of the workflow engine.                                 *)
(***************************************************************************)
AllNodes == UNION {DOMAIN g.kind : g \in Graphs}
Engines == [pc : {"idle", "visit", "await", "race", "woken", "drain"}, next : Pos,
            advanced : BOOLEAN, fatal : {"none", "stuck", "cancelled", "unknown"}, scope : BOOLEAN,
            won : SUBSET AllNodes]
Outcomes == {"succeeded", "yes", "no", "skipped"} \cup Bad

\* The calls of agent nodes that are on their way.
AgentCalls == {CallOf(n) : n \in {m \in DOMAIN node : node[m].at = "agent"}}

EngineOK ==
  /\ engine \in Engines
  /\ engine.pc # "idle" <=> run.kind = "workflow" /\ run.state = "running"
  /\ engine.pc = "idle" => engine = Idle /\ node = Nothing /\ outcome = Nothing /\ abandoned = {}
  /\ run.kind = "workflow" =>
       /\ DOMAIN turn \subseteq AgentCalls
       /\ \A c \in DOMAIN stored : stored[c] \in {"succeeded"} \cup Bad
       /\ \A c \in DOMAIN turn : turn[c] \in {"succeeded"} \cup Bad \cup Phases

NodesOK ==
  /\ graph \in Graphs
  /\ \A n \in DOMAIN node : n \in Nodes /\ node[n] \in [at : {"launched", "agent", "backoff"}, k : Nat]
  /\ \A n \in DOMAIN outcome :
       n \notin DOMAIN node /\ n \in DOMAIN value /\ value[n] = outcome[n]
  /\ \A n \in DOMAIN value : n \in Nodes /\ value[n] \in Outcomes
  /\ \A c \in DOMAIN wait : wait[c] \in {"ahead", "passed"}
  /\ abandoned \subseteq Nodes

FlowInv == EngineOK /\ NodesOK
EngineInv == DeskInv /\ FlowInv

LEMMA IdleFields == Idle \in Engines /\ Idle.pc = "idle" /\ ~Idle.scope /\ Idle.fatal = "none" /\ Idle.won = {}
BY One DEF Idle, Engines

LEMMA FirstIs ==
  ASSUME EngineInv, Todo # {}
  PROVE  /\ First \in Pos /\ First + 1 \in Pos /\ First \in DOMAIN graph.order /\ graph.order[First] \in Nodes
         /\ graph.order[First] \notin DOMAIN outcome /\ graph.order[First] \notin DOMAIN node
<1>1. graph \in Graphs /\ engine.next \in Nat \ {0}
      BY DEF EngineInv, FlowInv, NodesOK, EngineOK, Engines, Pos
<1>2. graph.order \in Seq(Nodes)
      BY <1>1, GraphsValid DEF Nodes
<1>3. Len(graph.order) \in Nat /\ DOMAIN graph.order = 1..Len(graph.order)
      BY <1>2
<1>4. Todo \in SUBSET Nat
      BY <1>1, <1>3 DEF Todo
<1>5. \E i \in Todo : \A j \in Todo : i <= j
      BY <1>4, LeastNat
<1>6. First \in Todo
      BY <1>5 DEF First
<1> QED
    BY <1>1, <1>2, <1>3, <1>6 DEF Todo, Pos

\* The edges are numbered, and lead from one node to another.
LEMMA EdgesAre ==
  ASSUME EngineInv
  PROVE  /\ DOMAIN graph.edges \in SUBSET Nat
         /\ \A i \in DOMAIN graph.edges : graph.edges[i].from \in Nodes /\ graph.edges[i].to \in Nodes
<1>1. graph \in Graphs
      BY DEF EngineInv, FlowInv, NodesOK
<1>2. graph.edges \in Seq({graph.edges[i] : i \in DOMAIN graph.edges})
      BY <1>1, GraphsValid
<1>3. \A i \in DOMAIN graph.edges : {graph.edges[i].from, graph.edges[i].to} \subseteq DOMAIN graph.kind
      BY <1>1, GraphsValid
<1> QED
    BY <1>2, <1>3 DEF Nodes

\* The first active edge is one.
LEMMA FirstActive ==
  ASSUME EngineInv, NEW n, InState(n, "active") # {}
  PROVE  \E i \in InState(n, "active") :
           Winner(n) = IF engine.won # {} /\ n = graph.order[engine.next]
                       THEN CHOOSE w \in engine.won : TRUE ELSE graph.edges[i].from
<1> DEFINE first == CHOOSE i \in InState(n, "active") : \A j \in InState(n, "active") : i <= j
<1>1. InState(n, "active") \in SUBSET Nat
      BY EdgesAre DEF InState, Into
<1>2. \E i \in InState(n, "active") : \A j \in InState(n, "active") : i <= j
      BY <1>1, LeastNat
<1>3. first \in InState(n, "active")
      BY <1>2
<1> QED
    BY <1>3 DEF Winner

LEMMA WinnerIs ==
  ASSUME EngineInv, NEW n, InState(n, "active") # {}
  PROVE  Winner(n) \in AllNodes
<1>1. engine.won \subseteq AllNodes /\ graph \in Graphs
      BY DEF EngineInv, FlowInv, EngineOK, Engines, NodesOK
<1>2. Nodes \subseteq AllNodes
      BY <1>1 DEF Nodes, AllNodes
<1>3. engine.won # {} => (CHOOSE w \in engine.won : TRUE) \in AllNodes
      BY <1>1
<1>4. \A i \in InState(n, "active") : graph.edges[i].from \in AllNodes
      BY <1>2, EdgesAre DEF InState, Into
<1> QED
    BY <1>3, <1>4, FirstActive

LEMMA DroppingIs ==
  ASSUME NEW n, Decision(n) = "drop"
  PROVE  graph.kind[n] = "any" /\ InState(n, "active") # {} /\ n \notin abandoned
BY DEF Decision

\* The group's desk is empty while a workflow runs.
LEMMA DeskAway ==
  ASSUME DeskInv, run.kind = "workflow", run'.kind = "workflow", UNCHANGED groupVars, StoreOK', RunOK'
  PROVE  DeskInv'
BY DEF DeskInv, DeskOK, RoundOK, groupVars

LEMMA AtNode ==
  ASSUME EngineInv, engine.pc # "idle" \/ DOMAIN node # {}
  PROVE  run.kind = "workflow" /\ run.state = "running" /\ engine.pc # "idle"
BY EmptyFunction DEF EngineInv, FlowInv, EngineOK

\* The engine moves and makes no call.
LEMMA EngineMoves ==
  ASSUME EngineInv, engine.pc # "idle", UNCHANGED <<run, stored, turn, heard, crashes, groupVars>>,
         engine' \in Engines, engine'.pc # "idle", NodesOK', AgentCalls \subseteq AgentCalls'
  PROVE  EngineInv'
<1>1. run.kind = "workflow" /\ run.state = "running"
      BY AtNode
<1>2. StoreOK' /\ RunOK'
      BY DEF EngineInv, DeskInv, StoreOK, RunOK
<1>3. DeskInv'
      BY <1>1, <1>2, DeskAway DEF EngineInv
<1>4. EngineOK'
      BY <1>1 DEF EngineInv, FlowInv, EngineOK
<1> QED
    BY <1>3, <1>4 DEF EngineInv, FlowInv

LEMMA LoopingIs ==
  ASSUME NEW e \in Engines
  PROVE  Looping(e) \in Engines /\ Looping(e).pc \in {"drain", "visit"}
         /\ Looping(e).fatal = e.fatal /\ (Looping(e).scope <=> e.scope)
BY One DEF Looping, Engines

LEMMA BeginFlowInv ==
  ASSUME EngineInv, BeginFlow, UNCHANGED groupVars
  PROVE  EngineInv'
<1>1. /\ run.kind = "workflow" /\ run.state = "queued" /\ run' = [run EXCEPT !.state = "running"]
      /\ UNCHANGED <<stored, turn, heard, crashes, graph, value, wait, node, abandoned>>
      /\ outcome' = [n \in Cached |-> value[n]] /\ engine' = [Idle EXCEPT !.pc = "woken"]
      BY DEF BeginFlow, Begun
<1>2. engine.pc = "idle" /\ node = Nothing /\ turn = Nothing
      BY <1>1 DEF EngineInv, FlowInv, EngineOK, DeskInv, RunOK
<1>3. RunOK' /\ run'.kind = "workflow" /\ run'.state = "running"
      BY <1>1 DEF EngineInv, DeskInv, RunOK
<1>4. StoreOK'
      BY <1>1 DEF EngineInv, DeskInv, StoreOK
<1>5. DeskInv'
      BY <1>1, <1>3, <1>4, DeskAway DEF EngineInv
<1>6. engine' \in Engines /\ engine'.pc = "woken"
      BY <1>1, IdleFields DEF Engines
<1>7. EngineOK'
      BY <1>1, <1>2, <1>3, <1>6, EmptyFunction DEF EngineInv, FlowInv, EngineOK
<1>8. NodesOK'
      BY <1>1, <1>2, EmptyFunction DEF EngineInv, FlowInv, NodesOK, Cached, Nodes
<1> QED
    BY <1>5, <1>7, <1>8 DEF EngineInv, FlowInv

LEMMA LoopFlow ==
  ASSUME EngineInv, Loop, UNCHANGED groupVars
  PROVE  EngineInv'
<1>1. /\ engine' = Looping(engine) \/ engine' = [engine EXCEPT !.pc = "visit"]
      /\ engine.pc # "idle"
      /\ UNCHANGED <<run, stored, turn, heard, crashes, graph, value, wait, node, outcome, abandoned>>
      BY DEF Loop, portVars
<1>2. engine' \in Engines /\ engine'.pc # "idle"
      BY <1>1, LoopingIs DEF EngineInv, FlowInv, EngineOK, Engines
<1>3. NodesOK' /\ AgentCalls' = AgentCalls
      BY <1>1 DEF EngineInv, FlowInv, NodesOK, AgentCalls, CallOf, Nodes
<1> QED
    BY <1>1, <1>2, <1>3, EngineMoves

LEMMA SettleHereFlow ==
  ASSUME EngineInv, SettleHere, UNCHANGED groupVars
  PROVE  EngineInv'
<1>1. /\ engine.pc = "visit" /\ Todo # {}
      /\ engine' = [engine EXCEPT !.pc = "await", !.next = First + 1, !.advanced = TRUE, !.won = {}]
      /\ \E r \in {"skipped", "failed"} : Record(graph.order[First], r)
      /\ UNCHANGED <<run, stored, turn, heard, crashes, graph, wait, node, abandoned>>
      BY DEF SettleHere, portVars
<1>2. engine' \in Engines /\ engine'.pc # "idle" /\ engine.pc # "idle"
      BY <1>1, FirstIs DEF EngineInv, FlowInv, EngineOK, Engines
<1>3. NodesOK' /\ AgentCalls' = AgentCalls
      BY <1>1, FirstIs
      DEF EngineInv, FlowInv, NodesOK, AgentCalls, CallOf, Nodes, Record, Put, Outcomes, Bad
<1> QED
    BY <1>1, <1>2, <1>3, EngineMoves

LEMMA DropLoserFlow ==
  ASSUME EngineInv, DropLoser, UNCHANGED groupVars
  PROVE  EngineInv'
<1>1. engine.pc = "visit" /\ Todo # {}
      BY DEF DropLoser
<1>2. PICK l \in LosersToDrop(graph.order[First]) :
         /\ abandoned' = abandoned \cup {l}
         /\ engine' = [engine EXCEPT !.pc = IF l \in DOMAIN node THEN "visit" ELSE "await",
                                     !.next = First, !.won = {Winner(graph.order[First])}]
         /\ IF l \in DOMAIN node THEN UNCHANGED <<value, outcome>> ELSE Record(l, "skipped")
      BY DEF DropLoser
<1>3. UNCHANGED <<run, stored, turn, heard, crashes, graph, wait, node>>
      BY DEF DropLoser, portVars
<1>4. Decision(graph.order[First]) = "drop"
      BY DEF DropLoser
<1>7. Winner(graph.order[First]) \in AllNodes
      BY <1>4, DroppingIs, WinnerIs
<1>8. {Winner(graph.order[First])} \in SUBSET AllNodes
      BY <1>7
<1>9. engine' \in Engines /\ engine'.pc # "idle" /\ engine.pc # "idle"
      BY <1>1, <1>2, <1>8, FirstIs DEF EngineInv, FlowInv, EngineOK, Engines
<1>5. l \in Nodes /\ l \notin DOMAIN outcome
      BY <1>2 DEF LosersToDrop, Losers
<1>6. NodesOK' /\ AgentCalls' = AgentCalls
      BY <1>2, <1>3, <1>5
      DEF EngineInv, FlowInv, NodesOK, AgentCalls, CallOf, Nodes, Record, Put, Outcomes
<1> QED
    BY <1>3, <1>9, <1>6, EngineMoves

LEMMA LaunchFlow ==
  ASSUME EngineInv, Launch, UNCHANGED groupVars
  PROVE  EngineInv'
<1>1. /\ engine.pc = "visit" /\ Todo # {}
      /\ engine' = [engine EXCEPT !.next = First + 1, !.advanced = TRUE, !.won = {}]
      /\ node' = Put(node, graph.order[First], [at |-> "launched", k |-> 0])
      /\ UNCHANGED <<run, stored, turn, heard, crashes, graph, value, wait, outcome, abandoned>>
      BY DEF Launch, portVars
<1>2. engine' \in Engines /\ engine'.pc # "idle" /\ engine.pc # "idle"
      BY <1>1, FirstIs DEF EngineInv, FlowInv, EngineOK, Engines
<1>3. NodesOK' /\ AgentCalls \subseteq AgentCalls'
      BY <1>1, FirstIs
      DEF EngineInv, FlowInv, NodesOK, AgentCalls, CallOf, Nodes, Put
<1> QED
    BY <1>1, <1>2, <1>3, EngineMoves

LEMMA EndPassFlow ==
  ASSUME EngineInv, EndPass, UNCHANGED groupVars
  PROVE  EngineInv'
<1>1. /\ engine.pc = "visit"
      /\ \/ engine' = [engine EXCEPT !.pc = "race", !.next = 1, !.advanced = FALSE, !.won = {}]
         \/ engine' = [engine EXCEPT !.pc = "drain", !.scope = TRUE, !.won = {},
                                     !.fatal = IF @ = "none" THEN "stuck" ELSE @]
         \/ engine' = Looping(engine)
      /\ UNCHANGED <<run, stored, turn, heard, crashes, graph, value, wait, node, outcome, abandoned>>
      BY DEF EndPass, portVars
<1>2. engine' \in Engines /\ engine'.pc # "idle" /\ engine.pc # "idle"
      BY <1>1, LoopingIs, One DEF EngineInv, FlowInv, EngineOK, Engines
<1>3. NodesOK' /\ AgentCalls' = AgentCalls
      BY <1>1 DEF EngineInv, FlowInv, NodesOK, AgentCalls, CallOf, Nodes
<1> QED
    BY <1>1, <1>2, <1>3, EngineMoves

\* The engine and its calls are gone.
LEMMA GoneFlow ==
  ASSUME EngineInv, run.kind = "workflow", run'.kind = "workflow", run'.state # "running",
         RunOK', turn' = Nothing, UNCHANGED <<stored, graph, value, wait, groupVars>>,
         engine' = Idle, node' = Nothing, outcome' = Nothing, abandoned' = {}
  PROVE  EngineInv'
<1>1. StoreOK'
      BY EmptyKeeps, EmptyFunction DEF EngineInv, DeskInv
<1>2. DeskInv'
      BY <1>1, DeskAway DEF EngineInv
<1>3. EngineOK'
      BY IdleFields, EmptyFunction DEF EngineOK, EngineInv, FlowInv
<1>4. NodesOK'
      BY EmptyFunction DEF NodesOK, EngineInv, FlowInv, Nodes
<1> QED
    BY <1>2, <1>3, <1>4 DEF EngineInv, FlowInv

LEMMA FinishFlowInv ==
  ASSUME EngineInv, FinishFlow, UNCHANGED groupVars
  PROVE  EngineInv'
<1>1. /\ engine.pc = "drain" /\ node = Nothing /\ Settled(FlowResult, FALSE)
      /\ engine' = Idle /\ outcome' = Nothing /\ abandoned' = {}
      /\ UNCHANGED <<graph, value, wait, node>>
      BY DEF FinishFlow
<1>2. run.kind = "workflow"
      BY <1>1, AtNode
<1>3. FlowResult \in {"succeeded"} \cup Bad
  <2>1. engine.fatal \in {"none", "stuck", "cancelled", "unknown"}
        BY DEF EngineInv, FlowInv, EngineOK, Engines
  <2> QED
      BY <2>1 DEF FlowResult, Bad
<1>4. /\ run' \in [kind : Kinds,
                state : {"queued", "running", "succeeded", "failed", "cancelled", "interrupted"},
                attempt : 1..MaxAttempts, stop : BOOLEAN]
      /\ run'.kind = run.kind /\ run'.state # "running"
      BY <1>1, <1>3, SettledIs DEF EngineInv, DeskInv
<1>5. RunOK' /\ turn' = Nothing /\ UNCHANGED stored
      BY <1>1, <1>4 DEF Settled, EngineInv, DeskInv, RunOK
<1> QED
    BY <1>1, <1>2, <1>4, <1>5, GoneFlow

LEMMA CrashFlowInv ==
  ASSUME EngineInv, CrashFlow, UNCHANGED groupVars
  PROVE  EngineInv'
<1>1. /\ run.kind = "workflow" /\ Crashed
      /\ engine' = Idle /\ outcome' = Nothing /\ node' = Nothing /\ abandoned' = {}
      /\ UNCHANGED <<graph, value, wait>>
      BY DEF CrashFlow
<1>2. RunOK' /\ turn' = Nothing /\ UNCHANGED stored /\ run'.kind = run.kind /\ run'.state # "running"
      BY <1>1, CrashedIs DEF EngineInv, DeskInv, RunOK
<1> QED
    BY <1>1, <1>2, GoneFlow

(***************************************************************************)
(* One node.                                                               *)
(***************************************************************************)
\* A node takes a step, and perhaps its call with it.
LEMMA NodeMoves ==
  ASSUME EngineInv, engine.pc # "idle", UNCHANGED <<run, heard, crashes, groupVars>>, StoreOK',
         engine' \in Engines, engine'.pc # "idle", NodesOK', DOMAIN turn' \subseteq AgentCalls',
         \A c \in DOMAIN stored' : stored'[c] \in {"succeeded"} \cup Bad,
         \A c \in DOMAIN turn' : turn'[c] \in {"succeeded"} \cup Bad \cup Phases
  PROVE  EngineInv'
<1>1. run.kind = "workflow" /\ run.state = "running"
      BY AtNode
<1>2. RunOK'
      BY <1>1 DEF EngineInv, DeskInv, RunOK
<1>3. DeskInv'
      BY <1>1, <1>2, DeskAway DEF EngineInv
<1>4. EngineOK'
      BY <1>1 DEF EngineInv, FlowInv, EngineOK
<1> QED
    BY <1>3, <1>4 DEF EngineInv, FlowInv

\* The stored results of a workflow and those it works with.
LEMMA FlowCalls ==
  ASSUME EngineInv, engine.pc # "idle"
  PROVE  /\ DOMAIN turn \subseteq AgentCalls
         /\ \A c \in DOMAIN stored : stored[c] \in {"succeeded"} \cup Bad
         /\ \A c \in DOMAIN turn : turn[c] \in {"succeeded"} \cup Bad \cup Phases
BY AtNode DEF EngineInv, FlowInv, EngineOK

LEMMA NodeEndsIs ==
  ASSUME EngineInv, NEW n \in DOMAIN node, NEW r \in Outcomes, NodeEnds(n, r)
  PROVE  /\ engine' \in Engines /\ engine'.pc # "idle" /\ NodesOK'
         /\ node' = Drop(node, n)
<1>1. engine.pc # "idle" /\ engine \in Engines
      BY AtNode DEF EngineInv, FlowInv, EngineOK
<1>2. \E f \in {"unknown", "cancelled", engine.fatal}, s \in BOOLEAN, p \in {"woken", engine.pc} :
         engine' = [engine EXCEPT !.fatal = f, !.scope = s, !.pc = p]
  <2>1. (CASE r = "unknown" -> r
           [] r = "cancelled" /\ ~Off(n) /\ engine.fatal = "none" -> r
           [] OTHER -> engine.fatal) \in {"unknown", "cancelled", engine.fatal}
        OBVIOUS
  <2>2. (engine.scope \/ r = "unknown" \/ (r = "cancelled" /\ ~Off(n))) \in BOOLEAN
        OBVIOUS
  <2> QED
      BY <2>1, <2>2 DEF NodeEnds
<1>3. engine' \in Engines /\ engine'.pc # "idle"
      BY <1>1, <1>2 DEF Engines
<1>4. Shown(n, r) \in Outcomes
      BY DEF Shown, Outcomes
<1>5. /\ value' = Put(value, n, Shown(n, r)) /\ outcome' = Put(outcome, n, Shown(n, r))
      /\ node' = Drop(node, n) /\ UNCHANGED <<graph, wait, abandoned>>
      BY DEF NodeEnds, Record
<1>6. NodesOK'
      BY <1>4, <1>5 DEF NodesOK, Put, Drop, EngineInv, FlowInv, Nodes
<1> QED
    BY <1>3, <1>5, <1>6

LEMMA NodeGone ==
  ASSUME NEW n \in DOMAIN node, node' = Drop(node, n)
  PROVE  /\ AgentCalls \ {CallOf(n)} \subseteq AgentCalls'
         /\ node[n].at # "agent" => AgentCalls \subseteq AgentCalls'
BY DEF Drop, AgentCalls, CallOf

LEMMA NodeAsks ==
  ASSUME NEW n \in DOMAIN node, NEW k, node' = Put(node, n, [at |-> "agent", k |-> k])
  PROVE  /\ AgentCalls \ {CallOf(n)} \subseteq AgentCalls'
         /\ <<n, k>> \in AgentCalls'
         /\ node[n].at # "agent" => AgentCalls \subseteq AgentCalls'
BY DEF Put, AgentCalls, CallOf

\* A node ends and no call with it.
LEMMA NodeStops ==
  ASSUME EngineInv, NEW n \in DOMAIN node, NEW r \in Outcomes, node[n].at # "agent",
         NodeEnds(n, r), UNCHANGED portVars, UNCHANGED groupVars
  PROVE  EngineInv'
<1>1. UNCHANGED <<run, stored, turn, heard, crashes>> /\ engine.pc # "idle"
      BY AtNode DEF portVars
<1>2. engine' \in Engines /\ engine'.pc # "idle" /\ NodesOK' /\ node' = Drop(node, n)
      BY NodeEndsIs
<1>3. AgentCalls \subseteq AgentCalls'
      BY <1>2, NodeGone
<1> QED
    BY <1>1, <1>2, <1>3, EngineMoves

LEMMA AttemptFlow ==
  ASSUME EngineInv, NEW n \in DOMAIN node, NEW k \in Nat, node[n].at # "agent",
         Attempt(n, k), UNCHANGED groupVars
  PROVE  EngineInv'
<1>1. CASE Off(n)
      BY <1>1, NodeStops, Fails DEF Attempt, Outcomes
<1>2. CASE ~Off(n)
  <2>1. /\ node' = Put(node, n, [at |-> "agent", k |-> k])
        /\ turn' = Put(turn, <<n, k>>, Asked(<<n, k>>))
        /\ UNCHANGED <<run, stored, heard, crashes, graph, value, wait, engine, outcome, abandoned>>
        BY <1>2 DEF Attempt
  <2>2. engine.pc # "idle" /\ engine' \in Engines /\ StoreOK'
        BY <2>1, AtNode, AskedKeeps DEF EngineInv, FlowInv, EngineOK, DeskInv
  <2>3. NodesOK'
        BY <2>1 DEF NodesOK, EngineInv, FlowInv, Put, Nodes
  <2>4. DOMAIN turn' \subseteq AgentCalls'
    <3>1. DOMAIN turn \subseteq AgentCalls
          BY <2>2, FlowCalls
    <3>2. AgentCalls \subseteq AgentCalls' /\ <<n, k>> \in AgentCalls'
          BY <2>1, NodeAsks
    <3> QED
        BY <2>1, <3>1, <3>2 DEF Put
  <2>5. /\ \A c \in DOMAIN stored' : stored'[c] \in {"succeeded"} \cup Bad
        /\ \A c \in DOMAIN turn' : turn'[c] \in {"succeeded"} \cup Bad \cup Phases
        BY <2>1, <2>2, FlowCalls DEF Put, Asked, Bad, Phases
  <2> QED
      BY <2>1, <2>2, <2>3, <2>4, <2>5, NodeMoves
<1> QED
    BY <1>1, <1>2

LEMMA ExecuteFlow ==
  ASSUME EngineInv, NEW n \in Nodes, Execute(n), UNCHANGED groupVars
  PROVE  EngineInv'
<1>1. n \in DOMAIN node /\ node[n].at # "agent"
      BY DEF Execute
<1>2. CASE Attempt(n, 0)
      BY <1>1, <1>2, AttemptFlow
<1>3. CASE (\E r \in Outcomes : NodeEnds(n, r)) /\ UNCHANGED portVars
      BY <1>1, <1>3, NodeStops
<1> QED
    BY <1>2, <1>3, Fails DEF Execute, Outcomes

LEMMA RetryFlow ==
  ASSUME EngineInv, NEW n \in Nodes, Retry(n), UNCHANGED groupVars
  PROVE  EngineInv'
<1>1. n \in DOMAIN node /\ node[n].at # "agent" /\ Attempt(n, node[n].k + 1)
      BY DEF Retry, RetryDue
<1>2. node[n].k + 1 \in Nat
      BY <1>1 DEF EngineInv, FlowInv, NodesOK
<1> QED
    BY <1>1, <1>2, AttemptFlow

LEMMA BackoffAbortedFlow ==
  ASSUME EngineInv, NEW n \in Nodes, BackoffAborted(n), UNCHANGED groupVars
  PROVE  EngineInv'
<1>1. n \in DOMAIN node /\ node[n].at # "agent" /\ NodeEnds(n, "cancelled") /\ UNCHANGED portVars
      BY DEF BackoffAborted
<1> QED
    BY <1>1, NodeStops, Fails DEF Outcomes

\* The two ways in which a node goes on from a result.
LEMMA JudgeIs ==
  ASSUME EngineInv, NEW n \in Nodes, Judge(n)
  PROVE  /\ n \in DOMAIN node /\ node[n].at = "agent" /\ CallOf(n) \in DOMAIN turn
         /\ turn' = Drop(turn, CallOf(n)) /\ UNCHANGED <<run, stored, heard, crashes>>
         /\ \/ /\ \E r \in Bad \cup {"succeeded"} :
                    /\ NodeEnds(n, r)
                    /\ turn[CallOf(n)] = "unknown" => r = "unknown"
               /\ UNCHANGED wait
            \/ /\ turn[CallOf(n)] = "failed" /\ wait' = Deadline(CallOf(n)) /\ UNCHANGED <<graph, abandoned>>
               /\ \/ /\ engine' = [engine EXCEPT !.pc = IF @ = "race" THEN "woken" ELSE @]
                     /\ Record(n, Shown(n, "failed")) /\ node' = Drop(node, n)
                  \/ /\ node' = Put(node, n, [at |-> "backoff", k |-> node[n].k])
                     /\ UNCHANGED <<value, engine, outcome>>
<1>1. n \in DOMAIN node /\ node[n].at = "agent" /\ CallOf(n) \in DOMAIN turn /\ turn[CallOf(n)] \notin Phases
      BY DEF Judge, Returned
<1>2. turn[CallOf(n)] \in {"succeeded"} \cup Bad
      BY <1>1, AtNode, FlowCalls
<1>3. turn' = Drop(turn, CallOf(n)) /\ UNCHANGED <<run, stored, heard, crashes>>
      BY DEF Judge
<1> DEFINE r == turn[CallOf(n)]
<1>4. CASE r # "unknown" /\ ~Off(n) /\ Retriable(n, r)
      BY <1>1, <1>3, <1>4 DEF Judge, Retriable
<1>5. CASE ~(r # "unknown" /\ ~Off(n) /\ Retriable(n, r))
  <2>1. NodeEnds(n, IF r = "unknown" THEN r ELSE IF Off(n) THEN "cancelled"
                    ELSE IF r = "final" THEN "failed" ELSE r)
        BY <1>5 DEF Judge
  <2>2. UNCHANGED wait
        BY <2>1 DEF NodeEnds
  <2>3. (IF r = "unknown" THEN r ELSE IF Off(n) THEN "cancelled"
         ELSE IF r = "final" THEN "failed" ELSE r) \in Bad \cup {"succeeded"}
        BY <1>2, Fails
  <2> QED
      BY <1>1, <1>3, <2>1, <2>2, <2>3
<1> QED
    BY <1>4, <1>5

LEMMA JudgeFlow ==
  ASSUME EngineInv, NEW n \in Nodes, Judge(n), UNCHANGED groupVars
  PROVE  EngineInv'
<1>1. /\ n \in DOMAIN node /\ node[n].at = "agent" /\ CallOf(n) \in DOMAIN turn
      /\ turn' = Drop(turn, CallOf(n)) /\ UNCHANGED <<run, stored, heard, crashes>>
      BY JudgeIs
<1>2. engine.pc # "idle" /\ engine \in Engines
      BY <1>1, AtNode DEF EngineInv, FlowInv, EngineOK
<1>3. StoreOK' /\ DOMAIN turn' = DOMAIN turn \ {CallOf(n)}
      BY <1>1, DropKeeps DEF EngineInv, DeskInv, Drop
<1>4. /\ \A c \in DOMAIN stored' : stored'[c] \in {"succeeded"} \cup Bad
      /\ \A c \in DOMAIN turn' : turn'[c] \in {"succeeded"} \cup Bad \cup Phases
      BY <1>1, <1>2, FlowCalls DEF Drop
<1>5. CASE \E r \in Bad \cup {"succeeded"} : NodeEnds(n, r)
  <2>1. engine' \in Engines /\ engine'.pc # "idle" /\ NodesOK' /\ node' = Drop(node, n)
        BY <1>1, <1>5, NodeEndsIs DEF Outcomes
  <2>2. DOMAIN turn' \subseteq AgentCalls'
        BY <1>1, <1>2, <1>3, <2>1, NodeGone, FlowCalls
  <2> QED
      BY <1>1, <1>2, <1>3, <1>4, <2>1, <2>2, NodeMoves
<1>6. CASE /\ engine' = [engine EXCEPT !.pc = IF @ = "race" THEN "woken" ELSE @]
           /\ wait' = Deadline(CallOf(n)) /\ UNCHANGED <<graph, abandoned>>
           /\ Record(n, Shown(n, "failed")) /\ node' = Drop(node, n)
  <2>1. engine' \in Engines /\ engine'.pc # "idle"
        BY <1>2, <1>6 DEF Engines
  <2>2. Shown(n, "failed") \in Outcomes
        BY Fails DEF Shown, Outcomes
  <2>3. NodesOK'
        BY <1>1, <1>6, <2>2 DEF NodesOK, Put, Drop, EngineInv, FlowInv, Nodes, Record, Deadline
  <2>4. DOMAIN turn' \subseteq AgentCalls'
        BY <1>1, <1>2, <1>3, <1>6, NodeGone, FlowCalls
  <2> QED
      BY <1>1, <1>2, <1>3, <1>4, <2>1, <2>3, <2>4, NodeMoves
<1>7. CASE /\ node' = Put(node, n, [at |-> "backoff", k |-> node[n].k])
           /\ wait' = Deadline(CallOf(n)) /\ UNCHANGED <<graph, abandoned, value, engine, outcome>>
  <2>1. NodesOK'
        BY <1>1, <1>7 DEF NodesOK, Put, EngineInv, FlowInv, Nodes, Deadline
  <2>2. AgentCalls \ {CallOf(n)} \subseteq AgentCalls'
        BY <1>1, <1>7 DEF AgentCalls, CallOf, Put
  <2>3. DOMAIN turn' \subseteq AgentCalls'
        BY <1>2, <1>3, <2>2, FlowCalls
  <2> QED
      BY <1>1, <1>2, <1>3, <1>4, <1>7, <2>1, <2>3, NodeMoves
<1> QED
    BY <1>5, <1>6, <1>7, JudgeIs

LEMMA FlowTurnIs ==
  ASSUME EngineInv, NEW n \in Nodes, FlowTurn(n)
  PROVE  /\ n \in DOMAIN node /\ node[n].at = "agent"
         /\ StoreOK' /\ Moves(CallOf(n)) /\ UNCHANGED <<run, heard, crashes, flowVars>>
<1>1. /\ n \in DOMAIN node /\ node[n].at = "agent"
      /\ \/ Refused(CallOf(n), Off(n)) \/ Granted(CallOf(n), Off(n), FALSE) \/ NotPrepared(CallOf(n), Off(n))
         \/ Dispatched(CallOf(n), Off(n)) \/ \E r \in KernelResults : CallEnds(CallOf(n), r)
      /\ UNCHANGED <<run, heard, crashes, flowVars>>
      BY DEF FlowTurn
<1>2. KernelResults \in SUBSET Results
      BY Texting
<1> QED
    BY <1>1, <1>2, CallMoves DEF EngineInv, DeskInv

LEMMA FlowTurnFlow ==
  ASSUME EngineInv, NEW n \in Nodes, FlowTurn(n), UNCHANGED groupVars
  PROVE  EngineInv'
<1> DEFINE c == CallOf(n)
<1>1. /\ n \in DOMAIN node /\ node[n].at = "agent"
      /\ StoreOK' /\ Moves(c) /\ UNCHANGED <<run, heard, crashes, flowVars>>
      BY FlowTurnIs
<1>2. engine.pc # "idle" /\ engine \in Engines /\ UNCHANGED <<graph, value, wait, engine, node, outcome, abandoned>>
      BY <1>1, AtNode DEF EngineInv, FlowInv, EngineOK, flowVars
<1>3. engine' \in Engines /\ engine'.pc # "idle" /\ NodesOK' /\ AgentCalls' = AgentCalls
      BY <1>2 DEF NodesOK, EngineInv, FlowInv, Nodes, AgentCalls, CallOf
<1>4. DOMAIN turn' \subseteq AgentCalls'
      BY <1>1, <1>2, <1>3, FlowCalls DEF Moves
<1>5. turn'[c] \in {"succeeded"} \cup Bad \cup Phases /\ (c \in DOMAIN stored' => stored'[c] \in {"succeeded"} \cup Bad)
  <2>1. c \in DOMAIN stored => stored[c] \in {"succeeded"} \cup Bad
        BY <1>2, FlowCalls
  <2>2. \/ \E r \in {"succeeded"} \cup Bad : Return(c, r)
        \/ \E r \in {"unknown", "preparing", "calling"} : turn' = Put(turn, c, r) /\ UNCHANGED stored
        BY PortConstants, Fails DEF FlowTurn, Refused, Granted, NotPrepared, Dispatched, CallEnds, Bad
  <2> QED
      BY <2>1, <2>2 DEF Return, Put, Phases, Bad
<1>6. /\ \A d \in DOMAIN stored' : stored'[d] \in {"succeeded"} \cup Bad
      /\ \A d \in DOMAIN turn' : turn'[d] \in {"succeeded"} \cup Bad \cup Phases
      BY <1>1, <1>2, <1>5, FlowCalls DEF Moves
<1> QED
    BY <1>1, <1>2, <1>3, <1>4, <1>6, NodeMoves

LEMMA HearFlowInv ==
  ASSUME EngineInv, HearFlow, UNCHANGED groupVars
  PROVE  EngineInv'
<1>1. run.kind = "workflow" /\ Hear /\ UNCHANGED flowVars
      BY DEF HearFlow
<1>2. RunOK' /\ UNCHANGED <<run, stored, turn, crashes>>
      BY <1>1, HearIs DEF EngineInv, DeskInv
<1>3. StoreOK'
      BY <1>2 DEF EngineInv, DeskInv, StoreOK
<1>4. DeskInv'
      BY <1>1, <1>2, <1>3, DeskAway DEF EngineInv
<1>5. NodesOK' /\ AgentCalls' = AgentCalls
      BY <1>1 DEF EngineInv, FlowInv, NodesOK, AgentCalls, CallOf, Nodes, flowVars
<1>6. EngineOK'
      BY <1>1, <1>2, <1>5 DEF EngineInv, FlowInv, EngineOK, flowVars
<1> QED
    BY <1>4, <1>5, <1>6 DEF EngineInv, FlowInv

\* What neither engine is touched by.
LEMMA StillFlow ==
  ASSUME EngineInv, DeskInv', UNCHANGED <<graph, value, engine, node, outcome, abandoned>>,
         \A c \in DOMAIN wait' : wait'[c] \in {"ahead", "passed"},
         run'.kind = run.kind, run'.state = "running" <=> run.state = "running",
         run.kind = "workflow" =>
           /\ DOMAIN turn' \subseteq DOMAIN turn
           /\ \A c \in DOMAIN stored' : stored'[c] \in {"succeeded"} \cup Bad
           /\ \A c \in DOMAIN turn' : turn'[c] = turn[c]
  PROVE  EngineInv'
<1>1. NodesOK' /\ AgentCalls' = AgentCalls
      BY DEF EngineInv, FlowInv, NodesOK, AgentCalls, CallOf, Nodes
<1>2. EngineOK'
      BY <1>1 DEF EngineInv, FlowInv, EngineOK
<1> QED
    BY <1>1, <1>2 DEF EngineInv, FlowInv

LEMMA TimePassesInv ==
  ASSUME EngineInv, TimePasses, UNCHANGED groupVars
  PROVE  EngineInv'
<1>1. UNCHANGED <<run, stored, turn, heard, crashes, graph, value, engine, node, outcome, abandoned>>
      BY DEF TimePasses, portVars
<1>2. \A c \in DOMAIN wait' : wait'[c] \in {"ahead", "passed"}
      BY DEF TimePasses, Put, EngineInv, FlowInv, NodesOK
<1>3. RunOK' /\ StoreOK'
      BY <1>1 DEF EngineInv, DeskInv, RunOK, StoreOK
<1>4. CallsNow' = CallsNow
      BY <1>1 DEF CallsNow, HostCall, Subject, TaskCall, groupVars
<1>5. DeskInv'
      BY <1>1, <1>3, <1>4, StillDesk DEF EngineInv, groupVars
<1>6. run.kind = "workflow" => \A c \in DOMAIN stored' : stored'[c] \in {"succeeded"} \cup Bad
      BY <1>1 DEF EngineInv, FlowInv, EngineOK
<1> QED
    BY <1>1, <1>2, <1>5, <1>6, StillFlow

LEMMA FlowSteps ==
  ASSUME EngineInv, FlowNext, UNCHANGED groupVars
  PROVE  EngineInv'
<1>1. CASE \E n \in Nodes : NodeStep(n)
      BY <1>1, ExecuteFlow, JudgeFlow, BackoffAbortedFlow, RetryFlow, FlowTurnFlow DEF NodeStep
<1>2. CASE \/ BeginFlow \/ Loop \/ SettleHere \/ DropLoser \/ Launch \/ EndPass \/ FinishFlow
           \/ HearFlow \/ TimePasses \/ CrashFlow
      BY <1>2, BeginFlowInv, LoopFlow, SettleHereFlow, DropLoserFlow, LaunchFlow, EndPassFlow,
         FinishFlowInv, HearFlowInv, TimePassesInv, CrashFlowInv
<1> QED
    BY <1>1, <1>2 DEF FlowNext

(***************************************************************************)
(* The whole run.                                                          *)
(***************************************************************************)
LEMMA GroupOnly ==
  ASSUME DeskInv, GroupNext
  PROVE  run.kind = "group" /\ run'.kind = "group"
<1>1. CASE BeginGroup
      BY <1>1 DEF BeginGroup, DeskInv, RunOK
<1>2. CASE HearGroup
      BY <1>2 DEF HearGroup, Hear
<1>3. CASE CrashGroup
      BY <1>3 DEF CrashGroup, Crashed, DeskInv, RunOK
<1>4. CASE FinishGroup
      BY <1>4, AtWork DEF FinishGroup, Settled, DeskInv, RunOK
<1>5. CASE \E m \in Messages : Send(m)
      BY <1>5 DEF Send, portVars
<1>6. CASE \E i \in DOMAIN Tasks : TaskEnds(i) \/ TaskTurn(i)
      BY <1>6, AtWork DEF TaskEnds, TaskTurn, Turning, DeskInv, RoundOK, DeskOK, Rounds
<1>7. CASE HostFails \/ HostAgain \/ Planned \/ Steered \/ Reviewed \/ HostTurn
      BY <1>7, AtWork
      DEF HostFails, HostAgain, Planned, Steered, Reviewed, HostTurn, Turning, HostStages, Accepted, Answered
<1>8. CASE \/ Acknowledge \/ Acknowledged \/ FixBatch \/ Steer \/ Proceed
           \/ TasksLoop \/ TaskBlocked \/ TaskStarts \/ TasksPassed \/ TasksDone
      BY <1>8, AtWork
      DEF Acknowledge, Acknowledged, FixBatch, Steer, Proceed, TasksLoop, TaskBlocked, TaskStarts,
          TasksPassed, TasksDone, portVars
<1> QED
    BY <1>1, <1>2, <1>3, <1>4, <1>5, <1>6, <1>7, <1>8 DEF GroupNext

LEMMA GroupSteps ==
  ASSUME EngineInv, GroupNext, UNCHANGED flowVars
  PROVE  EngineInv'
<1>1. run.kind = "group" /\ run'.kind = "group" /\ DeskInv'
      BY GroupOnly, GroupDesk DEF EngineInv
<1>2. NodesOK'
      BY DEF EngineInv, FlowInv, NodesOK, Nodes, flowVars
<1>3. EngineOK'
      BY <1>1 DEF EngineInv, FlowInv, EngineOK, flowVars
<1> QED
    BY <1>1, <1>2, <1>3 DEF EngineInv, FlowInv

LEMMA CommandStep ==
  ASSUME EngineInv, Command
  PROVE  EngineInv'
<1>1. /\ UNCHANGED <<graph, value, wait, engine, node, outcome, abandoned>>
      /\ UNCHANGED <<plan, inbox, desk, output, busy, shown, planned>>
      BY DEF Command, flowVars, groupVars
<1>2. RunOK' /\ run'.kind = run.kind /\ (run'.state = "running" <=> run.state = "running") /\ UNCHANGED turn
  <2>1. CASE Stop
        BY <2>1 DEF Stop, Live, EngineInv, DeskInv, RunOK
  <2>2. CASE Resume
    <3>1. run.attempt \in Nat /\ MaxAttempts \in Nat
          BY PortConstants DEF EngineInv, DeskInv, RunOK
    <3>2. run.attempt + 1 \in 1..MaxAttempts
          BY <2>2, <3>1 DEF Resume
    <3> QED
        BY <2>2, <3>2 DEF Resume, EngineInv, DeskInv, RunOK
  <2> QED
      BY <2>1, <2>2 DEF Command
<1>3. \A c \in DOMAIN stored' : c \in DOMAIN stored /\ stored'[c] = stored[c]
      BY DEF Command, Stop, Resume
<1>4. StoreOK'
  <2>1. CASE Stop
        BY <2>1 DEF Stop, EngineInv, DeskInv, StoreOK
  <2>2. CASE Resume
    <3>1. DOMAIN turn' = {}
          BY <1>2, <2>2, EmptyFunction DEF Resume, EngineInv, DeskInv, RunOK
    <3> QED
        BY <1>3, <3>1, EmptyKeeps DEF EngineInv, DeskInv
  <2> QED
      BY <2>1, <2>2 DEF Command
<1>5. DeskInv'
      BY <1>1, <1>2, <1>4, SameCalls, StillDesk DEF EngineInv
<1>6. run.kind = "workflow" => \A c \in DOMAIN stored' : stored'[c] \in {"succeeded"} \cup Bad
      BY <1>3 DEF EngineInv, FlowInv, EngineOK
<1>7. \A c \in DOMAIN wait' : wait'[c] \in {"ahead", "passed"}
      BY <1>1 DEF EngineInv, FlowInv, NodesOK
<1> QED
    BY <1>1, <1>2, <1>5, <1>6, <1>7, StillFlow

LEMMA EngineStutter ==
  ASSUME EngineInv, UNCHANGED vars
  PROVE  EngineInv'
<1> USE DEF vars, portVars, flowVars, groupVars
<1>1. StoreOK' /\ RunOK' /\ RoundOK'
      BY DEF EngineInv, DeskInv, StoreOK, RunOK, RoundOK
<1>2. DeskOK'
      BY DEF EngineInv, DeskInv, DeskOK, CallsNow, HostCall, Subject, TaskCall
<1>3. FlowInv'
      BY DEF EngineInv, FlowInv, EngineOK, NodesOK, AgentCalls, CallOf, Nodes
<1> QED
    BY <1>1, <1>2, <1>3 DEF EngineInv, DeskInv

LEMMA EngineStep ==
  ASSUME EngineInv, [Next]_vars
  PROVE  EngineInv'
<1>1. CASE FlowNext /\ UNCHANGED groupVars
      BY <1>1, FlowSteps
<1>2. CASE GroupNext /\ UNCHANGED flowVars
      BY <1>2, GroupSteps
<1>3. CASE Command
      BY <1>3, CommandStep
<1>4. CASE UNCHANGED vars
      BY <1>4, EngineStutter
<1> QED
    BY <1>1, <1>2, <1>3, <1>4 DEF Next, Ended

LEMMA EngineStart == Init => EngineInv
<1> SUFFICES ASSUME Init PROVE EngineInv
    OBVIOUS
<1>1. /\ run.state = "queued" /\ stored = Nothing /\ turn = Nothing /\ heard = FALSE
      /\ desk = Away /\ output = Nothing /\ busy = {} /\ desk.pc = "idle"
      /\ engine = Idle /\ engine.pc = "idle" /\ node = Nothing /\ outcome = Nothing
      /\ value = Nothing /\ wait = Nothing /\ abandoned = {} /\ graph \in Graphs
      BY AwayFields, IdleFields DEF Init, PortInit, FlowInit, GroupInit
<1>2. StoreOK /\ RoundOK
      BY <1>1, EmptyFunction DEF StoreOK, RoundOK
<1>3. RunOK
  <2>1. 1 \in 1..MaxAttempts /\ 0 \in 0..MaxCrashes
        BY PortConstants
  <2>2. run \in [kind : Kinds, state : {"queued"}, attempt : {1}, stop : {FALSE}] /\ crashes = 0
        BY DEF Init, PortInit
  <2> QED
      BY <1>1, <2>1, <2>2 DEF RunOK
<1>4. DeskOK
      BY <1>1, AwayFields, EmptyFunction DEF DeskOK
<1>5. EngineOK /\ NodesOK
      BY <1>1, IdleFields, EmptyFunction DEF EngineOK, NodesOK
<1> QED
    BY <1>2, <1>3, <1>4, <1>5 DEF EngineInv, DeskInv, FlowInv

\* A returned call has the stored result, an engine has no more calls under way
\* than its host stage, its busy tasks or its agent nodes account for, and what a
\* node ended with is in its checkpoint (workflowExecutor.ts, groupExecutor.ts).
THEOREM EngineInvariance == Spec => []EngineInv
<1>1. Init => EngineInv
      BY EngineStart
<1>2. EngineInv /\ [Next]_vars => EngineInv'
      BY EngineStep
<1> QED
    BY <1>1, <1>2, PTL DEF Spec

(***************************************************************************)
(* What the plan and the inbox say of the messages.                        *)
(***************************************************************************)
Earlier(m) == {o \in Pending : o < m}

LEMMA Numbered == Messages \subseteq Nat /\ Pending \subseteq Messages /\ Pending \subseteq Nat
<1>1. Messages \subseteq Nat
      BY GroupConstants
<1>2. Pending \subseteq Messages
      BY DEF Pending
<1> QED
    BY <1>1, <1>2

LEMMA EarlierFinite ==
  ASSUME NEW m \in Messages
  PROVE  IsFiniteSet(Earlier(m)) /\ Cardinality(Earlier(m)) \in Nat
<1>1. m \in Nat /\ Earlier(m) \in SUBSET Nat /\ \A o \in Earlier(m) : o <= m
  <2>1. \A o \in Pending : o \in Nat
        BY Numbered
  <2>2. m \in Nat
        BY Numbered
  <2> QED
      BY <2>1, <2>2 DEF Earlier
<1> QED
    BY <1>1, FS_BoundedSetOfNaturals, FS_CardinalityType

LEMMA EarlierGrows ==
  ASSUME NEW m \in Pending, NEW n \in Pending, m < n
  PROVE  Cardinality(Earlier(m)) < Cardinality(Earlier(n))
<1>1. m \in Messages /\ n \in Messages /\ m \in Nat /\ n \in Nat
      BY Numbered
<1>2. m \notin Earlier(m) /\ Earlier(m) \cup {m} \in SUBSET Earlier(n)
  <2>1. \A o \in Earlier(m) : o \in Pending /\ o \in Nat /\ o < m
        BY Numbered DEF Earlier
  <2>2. \A o \in Earlier(m) : o < n
        BY <1>1, <2>1
  <2>3. Earlier(m) \cup {m} \subseteq Earlier(n)
        BY <1>1, <2>1, <2>2 DEF Earlier
  <2>4. ~(m < m)
        BY <1>1
  <2>5. m \notin Earlier(m)
        BY <2>4 DEF Earlier
  <2> QED
      BY <2>3, <2>5
<1>3. /\ IsFiniteSet(Earlier(m)) /\ Cardinality(Earlier(m)) \in Nat
      /\ IsFiniteSet(Earlier(n)) /\ Cardinality(Earlier(n)) \in Nat
      BY <1>1, EarlierFinite
<1>4. Cardinality(Earlier(m) \cup {m}) = Cardinality(Earlier(m)) + 1
      BY <1>2, <1>3, FS_AddElement
<1>5. Cardinality(Earlier(m) \cup {m}) <= Cardinality(Earlier(n))
      BY <1>2, <1>3, FS_Subset
<1> QED
    BY <1>3, <1>4, <1>5

\* The batch is never larger than the host may be shown, however many messages wait.
LEMMA SnapshotBound == IsFiniteSet(Snapshot) /\ Cardinality(Snapshot) <= BatchMessages
<1> DEFINE rank == [m \in Snapshot |-> Cardinality(Earlier(m))]
<1>1. \A m \in Snapshot : m \in Pending /\ m \in Messages /\ m \in Nat /\ Cardinality(Earlier(m)) < BatchMessages
      BY Numbered DEF Snapshot, Earlier
<1>2. \A m \in Snapshot : Cardinality(Earlier(m)) \in 0..(BatchMessages - 1)
      BY <1>1, EarlierFinite, GroupConstants
<1>3. \A m, n \in Snapshot : m # n => Cardinality(Earlier(m)) # Cardinality(Earlier(n))
  <2> SUFFICES ASSUME NEW m \in Snapshot, NEW n \in Snapshot, m # n
               PROVE  Cardinality(Earlier(m)) # Cardinality(Earlier(n))
      OBVIOUS
  <2>1. m \in Nat /\ n \in Nat /\ m \in Pending /\ n \in Pending /\ m \in Messages /\ n \in Messages
        BY <1>1
  <2>2. m < n \/ n < m
        BY <2>1
  <2>3. Cardinality(Earlier(m)) \in Nat /\ Cardinality(Earlier(n)) \in Nat
        BY <2>1, EarlierFinite
  <2>4. Cardinality(Earlier(m)) < Cardinality(Earlier(n)) \/ Cardinality(Earlier(n)) < Cardinality(Earlier(m))
        BY <2>1, <2>2, EarlierGrows
  <2> QED
      BY <2>3, <2>4
<1>4. rank \in Injection(Snapshot, 0..(BatchMessages - 1))
      BY <1>2, <1>3 DEF Injection, IsInjective
<1>5. 0 \in Int /\ BatchMessages - 1 \in Int /\ BatchMessages \in Nat /\ BatchMessages # 0
      BY GroupConstants
<1>6. IsFiniteSet(0..(BatchMessages - 1)) /\ Cardinality(0..(BatchMessages - 1)) = BatchMessages
      BY <1>5, FS_Interval
<1>7. IsFiniteSet(Snapshot) /\ Cardinality(Snapshot) <= Cardinality(0..(BatchMessages - 1))
      BY <1>4, <1>6, FS_Injection
<1> QED
    BY <1>6, <1>7

\* The oldest message is in every batch.
LEMMA SnapshotSome ==
  ASSUME Pending # {}
  PROVE  Snapshot # {} /\ Snapshot \subseteq Pending
<1>1. Pending \in SUBSET Nat /\ Pending \subseteq Messages
      BY Numbered
<1>2. PICK m \in Pending : \A o \in Pending : m <= o
      BY <1>1, LeastNat
<1>3. Earlier(m) = {}
  <2>1. \A o \in Pending : o \in Nat /\ m \in Nat /\ m <= o
        BY <1>1, <1>2
  <2>2. \A o \in Pending : ~(o < m)
        BY <2>1
  <2> QED
      BY <2>2 DEF Earlier
<1>4. Cardinality(Earlier(m)) < BatchMessages
      BY <1>3, FS_EmptySet, GroupConstants
<1> QED
    BY <1>4 DEF Snapshot, Earlier

Counts == Nat
Batches == SUBSET Messages
Plans == [round : Counts, phase : {"none", "tasks", "steering", "complete"}, revision : Counts,
          pending : Batches, ack : Batches]

PlanOK ==
  /\ plan \in Plans
  /\ plan.phase = "steering" <=> plan.pending # {}
  /\ Cardinality(plan.pending) <= BatchMessages
  /\ inbox \in [Messages -> {"unsent", "pending", "consumed"}]
  /\ planned \in [Messages -> 0..1]

\* A message is in the inbox, then in the fixed batch, then taken in by a saved
\* plan that has still to acknowledge it, and then consumed.
TakenOK ==
  /\ \A m \in Messages :
       /\ inbox[m] = "unsent" => planned[m] = 0
       /\ inbox[m] = "consumed" => planned[m] = 1
       /\ planned[m] = 1 => inbox[m] = "consumed" \/ m \in plan.ack
  /\ \A m \in plan.ack : planned[m] = 1
  /\ \A m \in plan.pending : inbox[m] = "pending" /\ planned[m] = 0
  /\ plan.phase \in {"none", "steering"} => plan.ack = {}

\* Where the engine stands with the plan it has.
StageOK ==
  /\ desk.pc \in {"open", "steer"} /\ ~heard => plan.ack = {}
  /\ desk.pc = "acked" => \A m \in plan.ack : inbox[m] = "consumed"
  /\ desk.pc = "steer" => plan.phase = "steering"
  /\ desk.pc = "plan" => plan.phase = "none"
  /\ plan.phase = "steering" => desk.pc \in {"idle", "finish", "top", "open", "steer"}

MessageInv == DeskInv /\ PlanOK /\ TakenOK /\ StageOK

LEMMA NoPlanFields ==
  /\ NoPlan \in Plans /\ NoPlan.phase = "none"
  /\ NoPlan.pending = {} /\ NoPlan.ack = {} /\ NoPlan.round = 0 /\ NoPlan.revision = 0
BY DEF NoPlan, Plans, Counts, Batches

LEMMA PlanFields ==
  /\ \A n \in Counts : n + 1 \in Counts
  /\ {} \in Batches
  /\ \A b \in Batches : b \subseteq Messages
BY DEF Counts, Batches

\* The desk moves and the plan does not.
LEMMA StageKeeps ==
  ASSUME MessageInv, DeskInv', UNCHANGED <<plan, inbox, planned>>,
         \/ desk'.pc \in {"idle", "finish", "top"}
         \/ desk'.pc = desk.pc /\ (heard => heard')
         \/ desk'.pc \in Rounds \cup {"review"} /\ (desk.pc \in Rounds \/ plan.phase # "steering")
         \/ desk'.pc = "plan" /\ plan.phase = "none"
         \/ desk'.pc = "steer" /\ desk.pc = "open" /\ plan.phase = "steering" /\ ~heard
  PROVE  MessageInv'
<1>1. PlanOK' /\ TakenOK'
      BY DEF MessageInv, PlanOK, TakenOK
<1>2. plan.phase # "steering" \/ desk.pc \notin Rounds
      BY DEF MessageInv, StageOK, Rounds
<1>3. StageOK'
  <2>1. CASE desk'.pc \in {"idle", "finish", "top"}
        BY <2>1 DEF MessageInv, StageOK
  <2>2. CASE desk'.pc = desk.pc /\ (heard => heard')
        BY <2>2 DEF MessageInv, StageOK
  <2>3. CASE desk'.pc \in Rounds \cup {"review"} /\ (desk.pc \in Rounds \/ plan.phase # "steering")
        BY <2>3, <1>2 DEF MessageInv, StageOK, Rounds
  <2>4. CASE desk'.pc = "steer" /\ desk.pc = "open" /\ plan.phase = "steering" /\ ~heard
        BY <2>4 DEF MessageInv, StageOK
  <2>5. CASE desk'.pc = "plan" /\ plan.phase = "none"
        BY <2>5 DEF StageOK
  <2> QED
      BY <2>1, <2>2, <2>3, <2>4, <2>5
<1> QED
    BY <1>1, <1>3 DEF MessageInv

LEMMA CallHostPc ==
  ASSUME DeskInv, NEW stage \in HostStages, NEW n \in Pos, CallHost(stage, n)
  PROVE  desk'.pc = "finish" \/ (desk'.pc = stage /\ ~heard)
<1>1. CASE heard
      BY <1>1, FinishIs, Fails DEF CallHost
<1>2. CASE ~heard
  <2>1. desk' = [desk EXCEPT !.pc = stage, !.next = n]
        BY <1>2 DEF CallHost
  <2> QED
      BY <1>2, <2>1 DEF DeskInv, DeskOK, Desks
<1> QED
    BY <1>1, <1>2

LEMMA StageSteps ==
  ASSUME MessageInv, DeskInv',
         \/ BeginGroup \/ HostFails \/ HostAgain \/ Steer \/ Proceed
         \/ TasksLoop \/ TaskBlocked \/ TaskStarts \/ TasksPassed \/ TasksDone \/ FinishGroup
         \/ HostTurn \/ HearGroup \/ CrashGroup
         \/ \E i \in DOMAIN Tasks : TaskEnds(i) \/ TaskTurn(i)
  PROVE  MessageInv'
<1> DEFINE Move ==
         \/ desk'.pc \in {"idle", "finish", "top"}
         \/ desk'.pc = desk.pc /\ (heard => heard')
         \/ desk'.pc \in Rounds \cup {"review"} /\ (desk.pc \in Rounds \/ plan.phase # "steering")
         \/ desk'.pc = "plan" /\ plan.phase = "none"
         \/ desk'.pc = "steer" /\ desk.pc = "open" /\ plan.phase = "steering" /\ ~heard
<1>1. DeskInv /\ desk \in Desks /\ DOMAIN desk = {"pc", "next", "advanced", "halted", "result"}
      BY DEF MessageInv, DeskInv, DeskOK, Desks
<1>2. CASE BeginGroup
  <2>1. UNCHANGED <<plan, inbox, planned>>
        BY <1>2 DEF BeginGroup
  <2>2. Move
        BY <1>1, <1>2, One, CallHostPc, AwayFields DEF BeginGroup, HostStages, Desks
  <2> QED
      BY <2>1, <2>2, StageKeeps
<1>3. CASE HostFails
  <2>1. \/ \E r \in {"succeeded"} \cup Bad : desk' = Finish(r)
        \/ desk' = [desk EXCEPT !.next = @ + 1]
    <3>1. Answer \in Bad \cup {"invalid"} \/ heard
          BY <1>1, <1>3 DEF HostFails, Accepted, Answered, Answer, Returned, DeskInv, StoreOK, Good
    <3> QED
        BY <1>3, <3>1, Fails DEF HostFails
  <2>2. Move
        BY <1>1, <1>3, <2>1, FinishIs DEF HostFails
  <2> QED
      BY <1>3, <2>2, StageKeeps DEF HostFails
<1>4. CASE HostAgain
  <2>1. desk.next \in Pos
        BY <1>1 DEF Desks
  <2>2. Move
        BY <1>1, <1>4, <2>1, CallHostPc DEF HostAgain
  <2> QED
      BY <1>4, <2>2, StageKeeps DEF HostAgain
<1>5. CASE Steer
  <2>1. Move
        BY <1>1, <1>5, One, CallHostPc DEF Steer, HostStages
  <2> QED
      BY <1>5, <2>1, StageKeeps DEF Steer
<1>6. CASE Proceed
  <2>1. \/ \E r \in {"succeeded"} \cup Bad : desk' = Finish(r)
        \/ desk' = [Away EXCEPT !.pc = "woken"]
        BY <1>6, Fails DEF Proceed
  <2>2. Move
        BY <1>1, <1>6, <2>1, FinishIs, AwayFields DEF Proceed, Rounds, Desks
  <2> QED
      BY <1>6, <2>2, StageKeeps DEF Proceed
<1>7. CASE TasksLoop \/ TaskBlocked \/ TaskStarts \/ TasksPassed
  <2>1. /\ desk.pc \in Rounds
        /\ \/ \E r \in Bad : desk' = Finish(r)
           \/ desk'.pc \in Rounds
        BY <1>1, <1>7, Fails DEF TasksLoop, TaskBlocked, TaskStarts, TasksPassed, Rounds
  <2>2. Move
        BY <2>1, FinishIs
  <2> QED
      BY <1>7, <2>2, StageKeeps DEF TasksLoop, TaskBlocked, TaskStarts, TasksPassed
<1>8. CASE TasksDone
  <2>1. desk.pc \in Rounds
        BY <1>8 DEF TasksDone, Rounds
  <2>2. \/ \E r \in {"succeeded"} \cup Bad : desk' = Finish(r)
        \/ desk' = [Away EXCEPT !.pc = "top"]
        \/ CallHost("review", 1)
        BY <1>1, <1>8, Fails DEF TasksDone, Desks
  <2>3. Move
        BY <1>1, <2>1, <2>2, FinishIs, AwayFields, One, CallHostPc DEF HostStages, Desks
  <2> QED
      BY <1>8, <2>3, StageKeeps DEF TasksDone
<1>9. CASE FinishGroup
      BY <1>9, AwayFields, StageKeeps DEF FinishGroup
<1>10. CASE HostTurn
      BY <1>10, StageKeeps DEF HostTurn, Turning, groupVars
<1>11. CASE HearGroup
      BY <1>11, StageKeeps DEF HearGroup, Hear, groupVars
<1>12. CASE CrashGroup
      BY <1>12, AwayFields, StageKeeps DEF CrashGroup
<1>13. CASE \E i \in DOMAIN Tasks : TaskTurn(i)
      BY <1>13, StageKeeps DEF TaskTurn, Turning, groupVars
<1>14. CASE \E i \in DOMAIN Tasks : TaskEnds(i)
  <2>1. desk.pc \in Rounds /\ desk'.pc \in Rounds
        BY <1>1, <1>14 DEF TaskEnds, Rounds
  <2> QED
      BY <1>14, <2>1, StageKeeps DEF TaskEnds
<1> QED
    BY <1>2, <1>3, <1>4, <1>5, <1>6, <1>7, <1>8, <1>9, <1>10, <1>11, <1>12, <1>13, <1>14

(***************************************************************************)
(* The steps that change the plan or the inbox.                            *)
(***************************************************************************)
LEMMA PlannedMessages ==
  ASSUME MessageInv, DeskInv', Planned
  PROVE  MessageInv'
<1>1. /\ desk.pc = "plan" /\ plan' = [NoPlan EXCEPT !.phase = "tasks"]
      /\ desk' = [Away EXCEPT !.pc = "top"] /\ UNCHANGED <<inbox, planned>>
      BY DEF Planned, Accepted, Answered
<1>2. plan' \in Plans /\ plan'.phase = "tasks" /\ plan'.pending = {} /\ plan'.ack = {} /\ desk'.pc = "top"
      BY <1>1, NoPlanFields, AwayFields DEF Plans, Desks
<1>3. plan.phase # "steering"
      BY <1>1 DEF MessageInv, StageOK
<1>4. Cardinality(plan'.pending) <= BatchMessages
      BY <1>2, FS_EmptySet, GroupConstants
<1>5. PlanOK'
      BY <1>1, <1>2, <1>4 DEF MessageInv, PlanOK
<1>6. TakenOK' /\ StageOK'
  <2>1. plan.ack = {}
        BY <1>1 DEF MessageInv, TakenOK, StageOK
  <2> QED
      BY <1>1, <1>2, <2>1 DEF MessageInv, TakenOK, StageOK
<1> QED
    BY <1>5, <1>6 DEF MessageInv

LEMMA SteeredMessages ==
  ASSUME MessageInv, DeskInv', Steered
  PROVE  MessageInv'
<1>1. /\ desk.pc = "steer" /\ plan.phase = "steering" /\ plan.ack = {}
      /\ plan' = [plan EXCEPT !.round = @ + 1, !.phase = "tasks", !.pending = {}, !.ack = plan.pending]
      /\ planned' = [m \in Messages |-> planned[m] + (IF m \in plan.pending THEN 1 ELSE 0)]
      /\ desk' = [Away EXCEPT !.pc = "top"] /\ UNCHANGED inbox
      BY DEF Steered, Accepted, Answered, MessageInv, StageOK, TakenOK
<1>2. /\ plan' \in Plans /\ plan'.phase = "tasks" /\ plan'.pending = {} /\ plan'.ack = plan.pending
      /\ desk'.pc = "top"
  <2>1. plan \in Plans
        BY DEF MessageInv, PlanOK
  <2> QED
      BY <1>1, <2>1, AwayFields, PlanFields DEF Plans, Desks
<1>3. Cardinality(plan'.pending) <= BatchMessages
      BY <1>2, FS_EmptySet, GroupConstants
<1>4. \A m \in Messages : planned[m] \in 0..1 /\ (m \in plan.pending => planned[m] = 0)
      BY DEF MessageInv, PlanOK, TakenOK
<1>5. \A m \in Messages : planned'[m] = IF m \in plan.pending THEN 1 ELSE planned[m]
      BY <1>1, <1>4
<1>6. planned' \in [Messages -> 0..1]
      BY <1>1, <1>4, <1>5
<1>7. PlanOK'
      BY <1>1, <1>2, <1>3, <1>6 DEF MessageInv, PlanOK
<1>8. TakenOK'
      BY <1>1, <1>2, <1>5 DEF MessageInv, TakenOK, PlanOK, Plans, Batches
<1>9. StageOK'
      BY <1>2 DEF StageOK
<1> QED
    BY <1>7, <1>8, <1>9 DEF MessageInv

LEMMA ReviewedMessages ==
  ASSUME MessageInv, DeskInv', Reviewed
  PROVE  MessageInv'
<1>1. /\ desk.pc = "review" /\ UNCHANGED <<inbox, planned>>
      /\ desk' = Finish("failed") \/ desk' = [Away EXCEPT !.pc = "top"]
      /\ \/ UNCHANGED plan
         \/ plan' = [plan EXCEPT !.phase = "complete"]
         \/ plan' = [plan EXCEPT !.round = @ + 1, !.phase = "tasks"]
      BY DEF Reviewed, Accepted, Answered
<1>2. desk'.pc \in {"finish", "top"}
      BY <1>1, FinishIs, Fails, AwayFields DEF Desks
<1>3. plan.phase # "steering"
      BY <1>1 DEF MessageInv, StageOK
<1>4. CASE UNCHANGED plan
      BY <1>1, <1>2, <1>4, StageKeeps
<1>5. CASE \/ plan' = [plan EXCEPT !.phase = "complete"]
           \/ plan' = [plan EXCEPT !.round = @ + 1, !.phase = "tasks"]
  <2>1. plan' \in Plans /\ plan'.phase \notin {"none", "steering"}
        /\ plan'.pending = plan.pending /\ plan'.ack = plan.ack
    <3>1. plan \in Plans
          BY DEF MessageInv, PlanOK
    <3> QED
        BY <1>5, <3>1, PlanFields DEF Plans
  <2>2. PlanOK' /\ TakenOK'
        BY <1>1, <1>3, <2>1 DEF MessageInv, PlanOK, TakenOK
  <2>3. StageOK'
        BY <1>2, <2>1 DEF StageOK
  <2> QED
      BY <2>2, <2>3 DEF MessageInv
<1> QED
    BY <1>1, <1>4, <1>5

LEMMA AcknowledgeMessages ==
  ASSUME MessageInv, DeskInv', Acknowledge
  PROVE  MessageInv'
<1>1. /\ desk.pc = "top" /\ UNCHANGED <<run, stored, turn, heard, crashes, planned>>
      /\ desk \in Desks
      BY DEF Acknowledge, portVars, MessageInv, DeskInv, DeskOK
<1>2. CASE /\ desk' = Finish("cancelled") \/ desk' = Finish("failed")
           /\ UNCHANGED <<inbox, plan>>
      BY <1>1, <1>2, FinishIs, Fails, StageKeeps
<1>3. CASE ~heard /\ plan.ack = {} /\ desk' = [desk EXCEPT !.pc = "open"] /\ UNCHANGED <<inbox, plan>>
  <2>1. desk'.pc = "open"
        BY <1>1, <1>3 DEF Desks
  <2>2. PlanOK' /\ TakenOK'
        BY <1>1, <1>3 DEF MessageInv, PlanOK, TakenOK
  <2>3. StageOK'
        BY <1>3, <2>1 DEF MessageInv, StageOK
  <2> QED
      BY <2>2, <2>3 DEF MessageInv
<1>4. CASE ~heard /\ plan.ack # {} /\ desk' = [desk EXCEPT !.pc = "acked"] /\ Ack
  <2>1. desk'.pc = "acked"
        BY <1>1, <1>4 DEF Desks
  <2>2. /\ inbox' = [m \in Messages |-> IF m \in plan.ack /\ inbox[m] = "pending" THEN "consumed" ELSE inbox[m]]
        /\ UNCHANGED plan
        BY <1>4 DEF Ack
  <2>3. plan.ack \subseteq Messages /\ inbox \in [Messages -> {"unsent", "pending", "consumed"}]
        BY DEF MessageInv, PlanOK, Plans, Batches
  <2>4. inbox' \in [Messages -> {"unsent", "pending", "consumed"}]
        BY <2>2, <2>3
  <2>5. PlanOK'
        BY <1>1, <2>2, <2>4 DEF MessageInv, PlanOK
  <2>6. plan.phase # "steering" /\ plan.pending = {}
        BY <1>4 DEF MessageInv, TakenOK, PlanOK
  <2>7. TakenOK'
        BY <1>1, <2>2, <2>3, <2>6 DEF MessageInv, TakenOK
  <2>8. \A m \in plan.ack : inbox'[m] = "consumed"
        BY <2>2, <2>3 DEF MessageInv, TakenOK
  <2>9. StageOK'
        BY <2>1, <2>2, <2>6, <2>8 DEF StageOK
  <2> QED
      BY <2>5, <2>7, <2>9 DEF MessageInv
<1> QED
    BY <1>2, <1>3, <1>4 DEF Acknowledge

LEMMA AcknowledgedMessages ==
  ASSUME MessageInv, DeskInv', Acknowledged
  PROVE  MessageInv'
<1>1. /\ desk.pc = "acked" /\ UNCHANGED <<run, heard, planned, inbox>>
      /\ desk' = [desk EXCEPT !.pc = "open"] /\ desk \in Desks
      /\ IF heard THEN UNCHANGED plan ELSE plan' = [plan EXCEPT !.ack = {}]
      BY DEF Acknowledged, portVars, MessageInv, DeskInv, DeskOK
<1>2. desk'.pc = "open" /\ plan.phase # "steering"
      BY <1>1 DEF Desks, MessageInv, StageOK
<1>3. /\ plan' \in Plans /\ plan'.phase = plan.phase /\ plan'.pending = plan.pending
      /\ (heard /\ plan' = plan) \/ (~heard /\ plan'.ack = {})
  <2>1. plan \in Plans
        BY DEF MessageInv, PlanOK
  <2> QED
      BY <1>1, <2>1, PlanFields DEF Plans
<1>4. PlanOK'
      BY <1>1, <1>3 DEF MessageInv, PlanOK
<1>5. TakenOK'
  <2>1. \A m \in plan.ack : inbox[m] = "consumed"
        BY <1>1 DEF MessageInv, StageOK
  <2> QED
      BY <1>1, <1>2, <1>3, <2>1 DEF MessageInv, TakenOK
<1>6. StageOK'
      BY <1>1, <1>2, <1>3 DEF MessageInv, StageOK
<1> QED
    BY <1>4, <1>5, <1>6 DEF MessageInv

LEMMA FixBatchMessages ==
  ASSUME MessageInv, DeskInv', FixBatch
  PROVE  MessageInv'
<1>1. /\ desk.pc = "open" /\ Pending # {} /\ ~heard
      /\ plan' = [plan EXCEPT !.phase = "steering", !.revision = @ + 1, !.pending = Snapshot]
      /\ UNCHANGED <<heard, inbox, desk, planned>>
      BY DEF FixBatch, HasSteering, portVars
<1>2. plan.ack = {}
      BY <1>1 DEF MessageInv, StageOK
<1>3. Snapshot # {} /\ Snapshot \subseteq Pending /\ Snapshot \subseteq Messages
      BY <1>1, SnapshotSome, Numbered
<1>4. plan' \in Plans /\ plan'.phase = "steering" /\ plan'.pending = Snapshot /\ plan'.ack = {}
  <2>1. plan \in Plans
        BY DEF MessageInv, PlanOK
  <2>2. Snapshot \in Batches
        BY <1>3 DEF Batches
  <2> QED
      BY <1>1, <1>2, <2>1, <2>2, PlanFields DEF Plans
<1>5. PlanOK'
      BY <1>1, <1>3, <1>4, SnapshotBound DEF MessageInv, PlanOK
<1>6. \A m \in Snapshot : inbox[m] = "pending" /\ planned[m] = 0
  <2>1. \A m \in Snapshot : m \in Messages /\ inbox[m] = "pending"
        BY <1>3 DEF Pending
  <2>2. \A m \in Messages : planned[m] \in 0..1 /\ (inbox[m] = "pending" => planned[m] # 1)
        BY <1>2 DEF MessageInv, TakenOK, PlanOK
  <2> QED
      BY <2>1, <2>2
<1>7. TakenOK'
      BY <1>1, <1>2, <1>4, <1>6 DEF MessageInv, TakenOK
<1>8. StageOK'
      BY <1>1, <1>4 DEF MessageInv, StageOK
<1> QED
    BY <1>5, <1>7, <1>8 DEF MessageInv

LEMMA SendMessages ==
  ASSUME MessageInv, DeskInv', NEW s \in Messages, Send(s)
  PROVE  MessageInv'
<1>1. /\ inbox[s] = "unsent" /\ inbox' = [inbox EXCEPT ![s] = "pending"]
      /\ UNCHANGED <<heard, plan, desk, planned>>
      BY DEF Send, portVars
<1>2. PlanOK'
      BY <1>1 DEF MessageInv, PlanOK
<1>3. planned[s] = 0 /\ s \notin plan.ack /\ s \notin plan.pending
      BY <1>1 DEF MessageInv, TakenOK
<1>4. \A m \in Messages : inbox'[m] = IF m = s THEN "pending" ELSE inbox[m]
      BY <1>1 DEF MessageInv, PlanOK
<1>5. plan.ack \subseteq Messages /\ plan.pending \subseteq Messages
      BY DEF MessageInv, PlanOK, Plans, Batches
<1>6. TakenOK'
      BY <1>1, <1>3, <1>4, <1>5 DEF MessageInv, TakenOK
<1>7. StageOK'
      BY <1>1, <1>3, <1>4, <1>5 DEF MessageInv, StageOK
<1> QED
    BY <1>2, <1>6, <1>7 DEF MessageInv

\* The workflow engine and the commands leave the group's plan alone.
LEMMA FlowOnly ==
  ASSUME EngineInv, FlowNext
  PROVE  \/ run.kind = "workflow" /\ run'.kind = "workflow"
         \/ UNCHANGED portVars
<1>1. CASE TimePasses
      BY <1>1 DEF TimePasses
<1>2. CASE BeginFlow
      BY <1>2 DEF BeginFlow, Begun, EngineInv, DeskInv, RunOK
<1>3. CASE HearFlow
      BY <1>3 DEF HearFlow, Hear
<1>4. CASE CrashFlow
      BY <1>4 DEF CrashFlow, Crashed, EngineInv, DeskInv, RunOK
<1>5. CASE FinishFlow
      BY <1>5, AtNode DEF FinishFlow, Settled, EngineInv, DeskInv, RunOK
<1>6. CASE Loop \/ SettleHere \/ DropLoser \/ Launch \/ EndPass
      BY <1>6 DEF Loop, SettleHere, DropLoser, Launch, EndPass
<1>7. CASE \E n \in Nodes : NodeStep(n)
  <2> SUFFICES ASSUME NEW n \in Nodes, NodeStep(n)
               PROVE  (run.kind = "workflow" /\ run'.kind = "workflow") \/ UNCHANGED portVars
      BY <1>7
  <2>1. CASE Execute(n) \/ BackoffAborted(n) \/ Retry(n)
    <3>1. n \in DOMAIN node
          BY <2>1 DEF Execute, BackoffAborted, Retry
    <3>2. UNCHANGED run
          BY <2>1 DEF Execute, BackoffAborted, Retry, Attempt, portVars
    <3> QED
        BY <3>1, <3>2, AtNode
  <2>2. CASE Judge(n)
        BY <2>2, AtNode, JudgeIs
  <2>3. CASE FlowTurn(n)
        BY <2>3, AtNode DEF FlowTurn
  <2> QED
      BY <2>1, <2>2, <2>3 DEF NodeStep
<1> QED
    BY <1>1, <1>2, <1>3, <1>4, <1>5, <1>6, <1>7 DEF FlowNext

LEMMA MessageStep ==
  ASSUME EngineInv, EngineInv', MessageInv, [Next]_vars
  PROVE  MessageInv'
<1>1. DeskInv'
      BY DEF EngineInv
<1>2. CASE FlowNext /\ UNCHANGED groupVars
  <2>1. desk.pc = "idle" \/ UNCHANGED heard
        BY <1>2, FlowOnly DEF portVars, EngineInv, DeskInv, DeskOK
  <2> QED
      BY <1>1, <1>2, <2>1, StageKeeps DEF groupVars
<1>3. CASE Command \/ UNCHANGED vars
      BY <1>1, <1>3, StageKeeps DEF Command, Stop, Resume, vars, portVars, groupVars
<1>4. CASE GroupNext
  <2>1. CASE \E m \in Messages : Send(m)
        BY <1>1, <2>1, SendMessages
  <2>2. CASE \/ BeginGroup \/ HostFails \/ HostAgain \/ Steer \/ Proceed
             \/ TasksLoop \/ TaskBlocked \/ TaskStarts \/ TasksPassed \/ TasksDone \/ FinishGroup
             \/ HostTurn \/ HearGroup \/ CrashGroup
             \/ \E i \in DOMAIN Tasks : TaskEnds(i) \/ TaskTurn(i)
        BY <1>1, <2>2, StageSteps
  <2> QED
      BY <1>1, <1>4, <2>1, <2>2, PlannedMessages, SteeredMessages, ReviewedMessages,
         AcknowledgeMessages, AcknowledgedMessages, FixBatchMessages DEF GroupNext
<1> QED
    BY <1>2, <1>3, <1>4 DEF Next, Ended

LEMMA MessageStart == Init => MessageInv
<1> SUFFICES ASSUME Init PROVE MessageInv
    OBVIOUS
<1>1. plan = NoPlan /\ desk.pc = "idle" /\ inbox = [m \in Messages |-> "unsent"]
      /\ planned = [m \in Messages |-> 0]
      BY AwayFields DEF Init, GroupInit
<1>2. Cardinality(plan.pending) <= BatchMessages
      BY <1>1, NoPlanFields, FS_EmptySet, GroupConstants
<1>3. PlanOK
      BY <1>1, <1>2, NoPlanFields DEF PlanOK
<1>4. TakenOK /\ StageOK
      BY <1>1, NoPlanFields DEF TakenOK, StageOK
<1> QED
    BY <1>3, <1>4, EngineStart DEF MessageInv, EngineInv

\* A message is in the inbox, then in the fixed batch, then taken in by one saved
\* plan that has still to acknowledge it, then consumed, wherever the Host dies
\* in between (groupSteering.ts, groupExecutor.ts).
THEOREM MessageInvariance == Spec => []MessageInv
<1>1. Init => MessageInv
      BY MessageStart
<1>2. EngineInv /\ EngineInv' /\ MessageInv /\ [Next]_vars => MessageInv'
      BY MessageStep
<1> QED
    BY <1>1, <1>2, EngineInvariance, PTL DEF Spec

\* The store, the port and the local state of both engines keep their shape,
\* and the batch the host is shown never exceeds its limit.
THEOREM EnginesTypeOK == Spec => []TypeOK
<1>1. EngineInv /\ MessageInv => TypeOK
  <2> SUFFICES ASSUME EngineInv, MessageInv PROVE TypeOK
      OBVIOUS
  <2>1. PortTypeOK
        BY DEF PortTypeOK, EngineInv, DeskInv, RunOK, StoreOK, Results
  <2>2. FlowTypeOK
    <3>1. engine.pc \in {"idle", "visit", "await", "race", "woken", "drain"}
          /\ engine.fatal \in {"none", "stuck", "cancelled", "unknown"}
          BY DEF EngineInv, FlowInv, EngineOK, Engines
    <3>2. NodesOK /\ (engine.pc = "idle" => flowLocal = <<Idle, Nothing, Nothing, {}>>)
          BY DEF EngineInv, FlowInv, EngineOK, flowLocal
    <3> QED
        BY <3>1, <3>2 DEF FlowTypeOK, NodesOK, Outcomes
  <2>3. GroupTypeOK
    <3>1. /\ plan.phase \in {"none", "tasks", "steering", "complete"}
          /\ plan.round \in Nat /\ plan.revision \in Nat
          /\ plan.pending \cup plan.ack \subseteq Messages
          BY DEF MessageInv, PlanOK, Plans, Counts, Batches
    <3>2. desk.result \in {"none", "succeeded"} \cup Bad
          BY DEF EngineInv, DeskInv, DeskOK, Desks
    <3>3. /\ DOMAIN output \subseteq DOMAIN Tasks /\ busy \subseteq DOMAIN Tasks \ DOMAIN output
          /\ desk.pc = "idle" => desk = Away /\ output = Nothing /\ busy = {}
          BY DEF EngineInv, DeskInv, DeskOK, RoundOK
    <3> QED
        BY <3>1, <3>2, <3>3 DEF GroupTypeOK, MessageInv, PlanOK
  <2> QED
      BY <2>1, <2>2, <2>3 DEF TypeOK
<1> QED
    BY <1>1, EngineInvariance, MessageInvariance, PTL

\* The host plans and reviews while no member works, and no member has two
\* calls at a time (groupSteps.ts).
THEOREM OneCallPerMemberAlways == Spec => []OneCallPerMember
<1>1. EngineInv => OneCallPerMember
  <2> SUFFICES ASSUME EngineInv, run.kind = "group", NEW c \in Calling, NEW d \in Calling, c # d
               PROVE  {c[1], d[1]} = {"task"} /\ Tasks[c[3]].member # Tasks[d[3]].member
      BY DEF OneCallPerMember
  <2>1. c \in CallsNow /\ d \in CallsNow
        BY DEF EngineInv, DeskInv, DeskOK, Calling
  <2>2. PICK i \in busy, j \in busy : c = TaskCall(i) /\ d = TaskCall(j)
        BY <2>1 DEF CallsNow
  <2>3. i # j /\ Tasks[i].member # Tasks[j].member
        BY <2>2 DEF EngineInv, DeskInv, RoundOK
  <2> QED
      BY <2>2, <2>3 DEF TaskCall
<1> QED
    BY <1>1, EngineInvariance, PTL

(***************************************************************************)
(* What the host was shown.                                                *)
(***************************************************************************)
Steering(c) == c[1] = "steer"

\* Every result of a steering call is about the batch in the plan, or older.
ShownOK ==
  /\ plan.ack \subseteq shown
  /\ run.kind = "group" =>
       /\ \A c \in DOMAIN stored : Steering(c) => c[2] \in 0..plan.revision
       /\ plan.phase = "steering" =>
            \A c \in DOMAIN stored \cup {d \in DOMAIN turn : turn[d] # "unknown"} :
              Steering(c) /\ c[2] = plan.revision => shown = plan.pending

LEMMA ShownKeeps ==
  ASSUME ShownOK, UNCHANGED shown, run'.kind = run.kind, plan'.ack \subseteq shown,
         DOMAIN stored' \subseteq DOMAIN stored,
         plan'.revision = plan.revision \/ DOMAIN stored' = {},
         \A c \in DOMAIN turn' : c[1] = "steer" => c \in DOMAIN turn /\ turn'[c] = turn[c],
         plan'.phase = "steering" =>
           plan.phase = "steering" /\ plan'.pending = plan.pending /\ plan'.revision = plan.revision
  PROVE  ShownOK'
BY DEF ShownOK, Steering

\* The steering call under way is about the plan's revision.
LEMMA SteeringNow ==
  ASSUME DeskInv, run.kind = "group", NEW c \in DOMAIN turn, Steering(c)
  PROVE  desk.pc = "steer" /\ c[2] = plan.revision
<1>1. c \in CallsNow
      BY DEF DeskInv, DeskOK
<1>2. CASE desk.pc \in HostStages
  <2>1. c = HostCall
        BY <1>1, <1>2 DEF CallsNow
  <2>2. desk.pc = "steer" /\ c[2] = Subject(desk.pc)
        BY <2>1 DEF HostCall, Steering
  <2> QED
      BY <2>2 DEF Subject
<1>3. CASE desk.pc \notin HostStages
  <2>1. PICK i \in busy : c = TaskCall(i)
        BY <1>1, <1>3 DEF CallsNow
  <2> QED
      BY <2>1 DEF TaskCall, Steering
<1> QED
    BY <1>2, <1>3

LEMMA CallHostShown ==
  ASSUME ShownOK, NEW stage \in HostStages, NEW n, CallHost(stage, n),
         DOMAIN turn = {}, UNCHANGED <<plan, stored>>, run.kind = "group", run'.kind = "group",
         plan.phase = "steering" => plan.ack = {},
         stage = "steer" => plan.phase = "steering"
  PROVE  ShownOK'
<1>1. CASE heard
      BY <1>1, ShownKeeps DEF CallHost, ShownOK
<1>2. CASE ~heard
  <2> DEFINE c == <<stage, Subject(stage), n>>
  <2>1. turn' = Put(turn, c, Asked(c)) /\ shown' = IF stage = "steer" /\ Asked(c) = "permit" THEN plan.pending ELSE shown
        BY <1>2 DEF CallHost
  <2>2. DOMAIN turn' = {c} /\ turn'[c] = Asked(c)
        BY <2>1 DEF Put
  <2>3. CASE stage # "steer"
    <3>1. c[1] # "steer"
          BY <2>3
    <3> QED
        BY <2>1, <2>2, <2>3, <3>1, ShownKeeps DEF ShownOK
  <2>4. CASE stage = "steer" /\ Asked(c) = "permit"
        BY <2>1, <2>2, <2>4 DEF ShownOK
  <2>5. CASE stage = "steer" /\ Asked(c) # "permit"
    <3>1. Asked(c) = "unknown" \/ c \in DOMAIN stored
          BY <2>5 DEF Asked
    <3> QED
        BY <2>1, <2>2, <2>5, <3>1 DEF ShownOK
  <2> QED
      BY <2>3, <2>4, <2>5
<1> QED
    BY <1>1, <1>2

LEMMA MovesShown ==
  ASSUME DeskInv, PlanOK, ShownOK, NEW c, Moves(c), UNCHANGED <<plan, shown, run>>
  PROVE  ShownOK'
<1>1. CASE run.kind = "group"
  <2>1. c \in DOMAIN turn /\ turn[c] # "unknown" /\ DOMAIN turn' = DOMAIN turn
        BY DEF Moves, Phases
  <2>2. Steering(c) => c[2] = plan.revision /\ plan.revision \in 0..plan.revision
        BY <1>1, <2>1, SteeringNow DEF PlanOK, Plans, Counts
  <2>3. Steering(c) /\ plan.phase = "steering" => shown = plan.pending
        BY <1>1, <2>1, <2>2 DEF ShownOK
  <2>4. \A d \in DOMAIN stored' : d \in DOMAIN stored \/ d = c
        BY DEF Moves
  <2>5. \A d \in DOMAIN turn' : d # c => d \in DOMAIN turn /\ turn'[d] = turn[d]
        BY DEF Moves
  <2> QED
      BY <1>1, <2>2, <2>3, <2>4, <2>5 DEF ShownOK
<1>2. CASE run.kind # "group"
      BY <1>2 DEF ShownOK
<1> QED
    BY <1>1, <1>2

LEMMA ShownSteps ==
  ASSUME MessageInv, ShownOK, GroupNext
  PROVE  ShownOK'
<1>1. run.kind = "group" /\ run'.kind = "group" /\ DeskInv /\ PlanOK /\ plan.ack \subseteq shown
      BY GroupOnly DEF MessageInv, ShownOK
<1>2. CASE BeginGroup
  <2>1. UNCHANGED <<plan, stored>> /\ turn = Nothing /\ DOMAIN turn = {}
        BY <1>1, <1>2, EmptyFunction DEF BeginGroup, DeskInv, RunOK
  <2>2. CASE plan.phase = "none"
        BY <1>1, <1>2, <2>1, <2>2, CallHostShown DEF BeginGroup, HostStages
  <2>3. CASE plan.phase # "none"
        BY <1>1, <1>2, <2>1, <2>3, ShownKeeps DEF BeginGroup
  <2> QED
      BY <2>2, <2>3
<1>3. CASE HostFails \/ \E i \in DOMAIN Tasks : TaskEnds(i)
  <2>1. UNCHANGED <<plan, shown, stored>> /\ \E c : turn' = Drop(turn, c)
        BY <1>3 DEF HostFails, TaskEnds
  <2>2. \A c \in DOMAIN turn' : c \in DOMAIN turn /\ turn'[c] = turn[c]
        BY <2>1 DEF Drop
  <2> QED
      BY <1>1, <2>1, <2>2, ShownKeeps
<1>4. CASE HostAgain
  <2>1. desk.pc \in HostStages /\ desk.pc # "idle" /\ DOMAIN turn = {}
        BY <1>1, <1>4, AtWork DEF HostAgain, CallsNow, HostStages
  <2>2. (plan.phase = "steering" => plan.ack = {}) /\ (desk.pc = "steer" => plan.phase = "steering")
        BY DEF MessageInv, TakenOK, StageOK
  <2> QED
      BY <1>1, <1>4, <2>1, <2>2, CallHostShown DEF HostAgain
<1>5. CASE Planned \/ Steered \/ Reviewed
  <2>1. /\ turn' = Drop(turn, HostCall) /\ UNCHANGED shown
        /\ stored' \in {stored, Nothing} /\ HostCall \in DOMAIN turn /\ turn[HostCall] \in Good
        BY <1>5 DEF Planned, Steered, Reviewed, Accepted, Answered, Returned, Answer
  <2>2. \A c \in DOMAIN turn' : c \in DOMAIN turn /\ turn'[c] = turn[c]
        BY <2>1 DEF Drop
  <2>3. DOMAIN stored' \subseteq DOMAIN stored
        BY <2>1, EmptyFunction
  <2>4. plan \in Plans
        BY <1>1 DEF PlanOK
  <2>5. CASE Planned
    <3>1. stored' = Nothing /\ plan' = [NoPlan EXCEPT !.phase = "tasks"]
          BY <2>5 DEF Planned
    <3>2. plan'.ack = {} /\ plan'.phase # "steering" /\ DOMAIN stored' = {}
          BY <3>1, NoPlanFields, EmptyFunction DEF Plans
    <3> QED
        BY <1>1, <2>1, <2>2, <2>3, <3>2, ShownKeeps
  <2>6. CASE Steered
    <3>1. desk.pc = "steer" /\ plan.phase = "steering" /\ stored' = Nothing
          /\ plan' = [plan EXCEPT !.round = @ + 1, !.phase = "tasks", !.pending = {}, !.ack = plan.pending]
          BY <2>6 DEF Steered, Accepted, Answered, MessageInv, StageOK
    <3>2. HostCall = <<"steer", plan.revision, desk.next>> /\ turn[HostCall] # "unknown"
          BY <2>1, <3>1 DEF HostCall, Subject, Good
    <3>3. shown = plan.pending
          BY <1>1, <2>1, <3>1, <3>2 DEF ShownOK, Steering
    <3>4. plan'.ack \subseteq shown /\ plan'.phase # "steering" /\ DOMAIN stored' = {}
          BY <2>4, <3>1, <3>3, EmptyFunction DEF Plans
    <3> QED
        BY <1>1, <2>1, <2>2, <2>3, <3>4, ShownKeeps
  <2>7. CASE Reviewed
    <3>1. plan.phase # "steering"
          BY <2>7 DEF Reviewed, Accepted, Answered, MessageInv, StageOK
    <3>2. \/ UNCHANGED plan \/ plan' = [plan EXCEPT !.phase = "complete"]
          \/ plan' = [plan EXCEPT !.round = @ + 1, !.phase = "tasks"]
          BY <2>7 DEF Reviewed
    <3>3. plan'.ack = plan.ack /\ plan'.phase # "steering" /\ plan'.revision = plan.revision
          BY <2>4, <3>1, <3>2 DEF Plans
    <3> QED
        BY <1>1, <2>1, <2>2, <2>3, <3>3, ShownKeeps
  <2> QED
      BY <1>5, <2>5, <2>6, <2>7
<1>6. CASE Acknowledge \/ Proceed \/ TasksLoop \/ TaskBlocked \/ TasksPassed \/ \E m \in Messages : Send(m)
      BY <1>1, <1>6, ShownKeeps
      DEF Acknowledge, Ack, Proceed, TasksLoop, TaskBlocked, TasksPassed, Send, portVars
<1>7. CASE Acknowledged
  <2>1. /\ UNCHANGED <<run, stored, turn, heard, crashes, shown>> /\ plan \in Plans /\ plan.phase # "steering"
        /\ UNCHANGED plan \/ plan' = [plan EXCEPT !.ack = {}]
        BY <1>7, <1>1 DEF Acknowledged, portVars, PlanOK, MessageInv, StageOK
  <2>2. plan'.ack \subseteq shown /\ plan'.phase # "steering" /\ plan'.revision = plan.revision
        BY <1>1, <2>1 DEF Plans
  <2> QED
      BY <1>1, <2>1, <2>2, ShownKeeps
<1>8. CASE FixBatch
  <2>1. /\ UNCHANGED <<run, stored, turn, heard, crashes, shown>> /\ plan \in Plans /\ desk.pc = "open"
        /\ plan' = [plan EXCEPT !.phase = "steering", !.revision = @ + 1, !.pending = Snapshot]
        BY <1>8, <1>1 DEF FixBatch, portVars, PlanOK
  <2>2. DOMAIN turn' = {}
        BY <1>1, <2>1, NothingBusy DEF Rounds, HostStages
  <2>3. plan'.ack = plan.ack /\ plan'.revision = plan.revision + 1 /\ plan.revision \in Nat
        BY <2>1 DEF Plans, Counts
  <2>4. \A c \in DOMAIN stored' : Steering(c) => c[2] \in 0..plan'.revision /\ c[2] # plan'.revision
        BY <1>1, <2>1, <2>3 DEF ShownOK
  <2> QED
      BY <1>1, <2>1, <2>2, <2>3, <2>4 DEF ShownOK
<1>9. CASE Steer
  <2>1. desk.pc = "open" /\ plan.phase = "steering" /\ CallHost("steer", 1) /\ UNCHANGED <<run, stored, plan>>
        BY <1>9 DEF Steer
  <2>2. DOMAIN turn = {} /\ plan.ack = {}
        BY <1>1, <2>1, NothingBusy DEF Rounds, HostStages, MessageInv, TakenOK
  <2> QED
      BY <1>1, <2>1, <2>2, CallHostShown DEF HostStages
<1>10. CASE TaskStarts
  <2>1. UNCHANGED <<run, stored, plan, shown>> /\ \E i : turn' = Put(turn, TaskCall(i), Asked(TaskCall(i)))
        BY <1>10 DEF TaskStarts
  <2>2. \A c \in DOMAIN turn' : c[1] = "steer" => c \in DOMAIN turn /\ turn'[c] = turn[c]
        BY <2>1 DEF Put, TaskCall
  <2> QED
      BY <1>1, <2>1, <2>2, ShownKeeps
<1>11. CASE TasksDone
  <2>1. desk.pc = "drain" /\ busy = {} /\ UNCHANGED <<run, stored, plan>> /\ plan.phase # "steering"
        BY <1>11 DEF TasksDone, AllExited, MessageInv, StageOK
  <2>2. DOMAIN turn = {}
        BY <1>1, <2>1, AtWork DEF CallsNow, HostStages
  <2>3. CASE UNCHANGED <<turn, shown>>
        BY <1>1, <2>1, <2>3, ShownKeeps
  <2>4. CASE CallHost("review", 1)
        BY <1>1, <2>1, <2>2, <2>4, CallHostShown DEF HostStages
  <2> QED
      BY <1>11, <2>3, <2>4 DEF TasksDone
<1>12. CASE FinishGroup \/ CrashGroup
  <2>1. turn' = Nothing /\ UNCHANGED <<stored, plan, shown>>
        BY <1>12 DEF FinishGroup, CrashGroup, Settled, Crashed
  <2> QED
      BY <1>1, <2>1, EmptyFunction, ShownKeeps
<1>13. CASE HostTurn
  <2>1. Moves(HostCall) /\ UNCHANGED <<plan, shown, run>>
        BY <1>1, <1>13, HostTurnDesk DEF HostTurn, Turning, groupVars
  <2> QED
      BY <1>1, <2>1, MovesShown
<1>14. CASE \E i \in DOMAIN Tasks : TaskTurn(i)
  <2>1. PICK i \in DOMAIN Tasks : TaskTurn(i)
        BY <1>14
  <2>2. Moves(TaskCall(i)) /\ UNCHANGED <<plan, shown, run>>
        BY <1>1, <2>1, TaskTurnDesk DEF TaskTurn, Turning, groupVars
  <2> QED
      BY <1>1, <2>2, MovesShown
<1>15. CASE HearGroup
      BY <1>1, <1>15, ShownKeeps DEF HearGroup, Hear, groupVars
<1> QED
    BY <1>2, <1>3, <1>4, <1>5, <1>6, <1>7, <1>8, <1>9, <1>10, <1>11, <1>12, <1>13, <1>14, <1>15 DEF GroupNext

LEMMA ShownStep ==
  ASSUME EngineInv, MessageInv, ShownOK, [Next]_vars
  PROVE  ShownOK'
<1>1. plan.ack \subseteq shown
      BY DEF ShownOK
<1>2. CASE FlowNext /\ UNCHANGED groupVars
  <2>1. CASE run.kind = "workflow" /\ run'.kind = "workflow"
        BY <1>1, <1>2, <2>1 DEF ShownOK, groupVars
  <2>2. CASE UNCHANGED portVars
        BY <1>1, <1>2, <2>2, ShownKeeps DEF groupVars, portVars
  <2> QED
      BY <1>2, <2>1, <2>2, FlowOnly
<1>3. CASE Command
  <2>1. /\ UNCHANGED <<plan, shown, turn>> /\ run'.kind = run.kind /\ DOMAIN stored' \subseteq DOMAIN stored
        BY <1>3 DEF Command, Stop, Resume, groupVars, EngineInv, DeskInv, RunOK
  <2> QED
      BY <1>1, <2>1, ShownKeeps
<1>4. CASE UNCHANGED vars
      BY <1>1, <1>4, ShownKeeps DEF vars, portVars, groupVars
<1> QED
    BY <1>2, <1>3, <1>4, ShownSteps DEF Next, Ended

\* While a batch is in the plan, a steering call of this revision that is under
\* way or stored has shown the host exactly this batch (steer, groupExecutor.ts).
THEOREM ShownInvariance == Spec => []ShownOK
<1>1. Init => ShownOK
  <2> SUFFICES ASSUME Init PROVE ShownOK
      OBVIOUS
  <2>1. plan = NoPlan /\ stored = Nothing /\ turn = Nothing /\ shown = {}
        BY DEF Init, GroupInit, PortInit
  <2> QED
      BY <2>1, NoPlanFields, EmptyFunction DEF ShownOK
<1>2. EngineInv /\ MessageInv /\ ShownOK /\ [Next]_vars => ShownOK'
      BY ShownStep
<1> QED
    BY <1>1, <1>2, EngineInvariance, MessageInvariance, PTL DEF Spec

\* Through crashes, retries and failing host calls every message is taken in
\* by exactly one saved plan before it counts as consumed, and by a plan
\* whose host was shown it (groupSteering.ts, steer in groupExecutor.ts).
THEOREM PlannedOnceAlways == Spec => []PlannedOnce
<1>1. MessageInv /\ ShownOK => PlannedOnce
  <2> SUFFICES ASSUME MessageInv, ShownOK PROVE PlannedOnce
      OBVIOUS
  <2>1. \A m \in Messages : planned[m] \in 0..1
        BY DEF MessageInv, PlanOK
  <2>2. \A m \in Messages : planned[m] <= 1
        BY <2>1
  <2> QED
      BY <2>2 DEF PlannedOnce, MessageInv, TakenOK, ShownOK
<1> QED
    BY <1>1, MessageInvariance, ShownInvariance, PTL

(***************************************************************************)
(* How a group task comes to its end.                                      *)
(***************************************************************************)
DeskDone ==
  /\ desk.pc = "drain" => DOMAIN output = DOMAIN Tasks \/ heard \/ desk.halted \/ Pending # {}
  /\ desk.pc = "review" => DOMAIN output = DOMAIN Tasks
  /\ desk.halted => desk.result # "none"
  /\ desk.result = "succeeded" => desk.pc = "finish" /\ plan.phase = "complete"
  /\ plan.phase = "complete" => desk.pc \in {"idle", "finish", "top", "acked", "open"}

LEMMA DeskLeaves ==
  ASSUME desk'.pc \in {"idle", "finish", "top"}, ~desk'.halted, desk'.result # "succeeded"
  PROVE  DeskDone'
BY DEF DeskDone

LEMMA DeskFails ==
  ASSUME NEW r \in Bad, desk' = Finish(r)
  PROVE  DeskDone'
<1>1. r \in {"succeeded"} \cup Bad /\ r # "succeeded"
      BY DEF Bad
<1> QED
    BY <1>1, FinishIs, DeskLeaves

LEMMA DeskAtTop ==
  ASSUME desk' = [Away EXCEPT !.pc = "top"]
  PROVE  DeskDone'
<1>1. desk'.pc = "top" /\ ~desk'.halted /\ desk'.result # "succeeded"
      BY AwayFields DEF Desks
<1> QED
    BY <1>1, DeskLeaves

LEMMA DeskStays ==
  ASSUME DeskDone, UNCHANGED <<desk, output>>, plan'.phase = plan.phase, heard => heard', Pending \subseteq Pending'
  PROVE  DeskDone'
BY DEF DeskDone

LEMMA CallHostDone ==
  ASSUME DeskInv, DeskDone, NEW stage \in HostStages, NEW n \in Pos, CallHost(stage, n),
         desk.pc # "finish", plan'.phase # "complete", stage = "review" => DOMAIN output' = DOMAIN Tasks
  PROVE  DeskDone'
<1>1. CASE heard
      BY <1>1, Fails, DeskFails DEF CallHost
<1>2. CASE ~heard
  <2>1. desk' = [desk EXCEPT !.pc = stage, !.next = n] /\ desk \in Desks
        BY <1>2 DEF CallHost, DeskInv, DeskOK
  <2>2. desk'.pc = stage /\ desk'.halted = desk.halted /\ desk'.result = desk.result
        BY <2>1 DEF Desks
  <2> QED
      BY <2>2 DEF DeskDone, HostStages
<1> QED
    BY <1>1, <1>2

LEMMA HostDone ==
  ASSUME MessageInv, DeskDone,
         BeginGroup \/ HostFails \/ HostAgain \/ Planned \/ Steered \/ Reviewed \/ Steer
  PROVE  DeskDone'
<1>1. DeskInv /\ desk \in Desks
      BY DEF MessageInv, DeskInv, DeskOK
<1>2. CASE BeginGroup
  <2>1. UNCHANGED plan /\ desk.pc = "idle"
        BY <1>1, <1>2 DEF BeginGroup, DeskInv, DeskOK
  <2>2. CASE plan.phase = "none"
        BY <1>1, <1>2, <2>1, <2>2, CallHostDone, One DEF BeginGroup, HostStages
  <2>3. CASE plan.phase # "none"
        BY <1>2, <2>3, DeskAtTop DEF BeginGroup
  <2> QED
      BY <2>2, <2>3
<1>3. CASE HostFails
  <2>1. Answer \in Bad \cup {"invalid"} \/ heard
        BY <1>1, <1>3 DEF HostFails, Accepted, Answered, Answer, Returned, DeskInv, StoreOK, Good
  <2>2. \/ \E r \in Bad : desk' = Finish(r)
        \/ desk' = [desk EXCEPT !.next = @ + 1]
        BY <1>3, <2>1, Fails DEF HostFails
  <2>3. CASE desk' = [desk EXCEPT !.next = @ + 1]
    <3>1. desk'.pc = desk.pc /\ desk'.halted = desk.halted /\ desk'.result = desk.result
          BY <1>1, <2>3 DEF Desks
    <3> QED
        BY <1>3, <3>1 DEF DeskDone, HostFails, Pending
  <2> QED
      BY <2>2, <2>3, DeskFails
<1>4. CASE HostAgain
  <2>1. /\ desk.pc \in HostStages /\ desk.pc # "finish" /\ desk.next \in Pos
        /\ UNCHANGED <<plan, output>>
        BY <1>1, <1>4 DEF HostAgain, HostStages, Desks
  <2>2. plan'.phase # "complete" /\ (desk.pc = "review" => DOMAIN output' = DOMAIN Tasks)
        BY <2>1 DEF DeskDone, HostStages
  <2> QED
      BY <1>1, <1>4, <2>1, <2>2, CallHostDone DEF HostAgain
<1>5. CASE Planned \/ Steered
      BY <1>5, DeskAtTop DEF Planned, Steered
<1>6. CASE Reviewed
      BY <1>6, DeskAtTop, DeskFails, Fails DEF Reviewed
<1>7. CASE Steer
      BY <1>1, <1>7, CallHostDone, One DEF Steer, HostStages
<1> QED
    BY <1>2, <1>3, <1>4, <1>5, <1>6, <1>7

LEMMA HeadDone ==
  ASSUME MessageInv, DeskDone, Acknowledge \/ Acknowledged \/ FixBatch \/ Proceed
  PROVE  DeskDone'
<1>1. DeskInv /\ desk \in Desks /\ plan \in Plans
      BY DEF MessageInv, DeskInv, DeskOK, PlanOK
<1>2. CASE Acknowledge
  <2>1. CASE desk' = Finish("cancelled") \/ desk' = Finish("failed")
        BY <2>1, DeskFails, Fails
  <2>2. CASE desk' = [desk EXCEPT !.pc = "open"] \/ desk' = [desk EXCEPT !.pc = "acked"]
    <3>1. desk'.pc \in {"open", "acked"} /\ desk'.halted = desk.halted /\ desk'.result = desk.result
          BY <1>1, <2>2 DEF Desks
    <3>2. desk.pc = "top"
          BY <1>2 DEF Acknowledge
    <3> QED
        BY <3>1, <3>2 DEF DeskDone
  <2> QED
      BY <1>2, <2>1, <2>2 DEF Acknowledge
<1>3. CASE Acknowledged
  <2>1. desk'.pc = "open" /\ desk'.halted = desk.halted /\ desk'.result = desk.result /\ desk.pc = "acked"
        BY <1>1, <1>3 DEF Acknowledged, Desks
  <2> QED
      BY <2>1 DEF DeskDone
<1>4. CASE FixBatch
  <2>1. UNCHANGED desk /\ desk.pc = "open" /\ plan'.phase = "steering"
        BY <1>1, <1>4 DEF FixBatch, Plans
  <2> QED
      BY <2>1 DEF DeskDone
<1>5. CASE Proceed
  <2>1. UNCHANGED plan
        BY <1>5 DEF Proceed
  <2>2. CASE desk' = Finish("cancelled") \/ desk' = Finish("failed")
        BY <2>2, DeskFails, Fails
  <2>3. CASE desk' = Finish("succeeded") /\ plan.phase = "complete"
    <3>1. desk'.pc = "finish" /\ ~desk'.halted
          BY <2>3, FinishIs
    <3> QED
        BY <2>1, <2>3, <3>1 DEF DeskDone
  <2>4. CASE desk' = [Away EXCEPT !.pc = "woken"] /\ plan.phase # "complete"
    <3>1. desk'.pc = "woken" /\ ~desk'.halted /\ desk'.result # "succeeded"
          BY <2>4, AwayFields DEF Desks
    <3> QED
        BY <2>1, <2>4, <3>1 DEF DeskDone
  <2> QED
      BY <1>5, <2>2, <2>3, <2>4 DEF Proceed
<1> QED
    BY <1>2, <1>3, <1>4, <1>5

LEMMA RoundDone ==
  ASSUME MessageInv, DeskDone,
         \/ TasksLoop \/ TaskBlocked \/ TaskStarts \/ TasksPassed \/ TasksDone
         \/ \E i \in DOMAIN Tasks : TaskEnds(i)
  PROVE  DeskDone'
<1>1. DeskInv /\ desk \in Desks
      BY DEF MessageInv, DeskInv, DeskOK
<1>2. /\ desk.pc \in Rounds /\ UNCHANGED <<plan, inbox, heard>>
      /\ plan.phase # "complete" /\ desk.result # "succeeded" /\ Pending' = Pending
      BY <1>1 DEF TasksLoop, TaskBlocked, TaskStarts, TasksPassed, TasksDone, TaskEnds, Rounds,
                  portVars, DeskDone, Pending
<1>3. CASE TasksLoop
  <2>1. CASE desk' = [desk EXCEPT !.pc = "drain"] /\ (DOMAIN output = DOMAIN Tasks \/ Held)
    <3>1. desk'.pc = "drain" /\ desk'.halted = desk.halted /\ desk'.result = desk.result
          BY <1>1, <2>1 DEF Desks
    <3>2. UNCHANGED output /\ (DOMAIN output = DOMAIN Tasks \/ heard \/ desk.halted \/ Pending # {})
          BY <1>3, <2>1 DEF TasksLoop, Held, HasSteering
    <3> QED
        BY <1>2, <3>1, <3>2 DEF DeskDone
  <2>2. CASE desk' = [desk EXCEPT !.pc = "pass", !.next = 1, !.advanced = FALSE]
    <3>1. desk'.pc = "pass" /\ desk'.halted = desk.halted /\ desk'.result = desk.result
          BY <1>1, <2>2 DEF Desks
    <3> QED
        BY <1>2, <3>1 DEF DeskDone
  <2> QED
      BY <1>3, <2>1, <2>2 DEF TasksLoop
<1>4. CASE TaskBlocked \/ TaskStarts
  <2>1. desk' = [desk EXCEPT !.next = NextTask + 1, !.advanced = TRUE] /\ desk.pc = "pass"
        BY <1>4 DEF TaskBlocked, TaskStarts
  <2>2. desk'.pc = "pass" /\ desk'.halted = desk.halted /\ desk'.result = desk.result
        BY <1>1, <2>1 DEF Desks
  <2> QED
      BY <1>2, <2>2 DEF DeskDone
<1>5. CASE TasksPassed
  <2>1. CASE \E r \in Bad : desk' = Finish(r)
        BY <2>1, DeskFails
  <2>2. CASE \/ desk' = [desk EXCEPT !.pc = "race", !.next = 1, !.advanced = FALSE]
             \/ desk' = [desk EXCEPT !.pc = "woken"]
    <3>1. desk'.pc \in {"race", "woken"} /\ desk'.halted = desk.halted /\ desk'.result = desk.result
          BY <1>1, <2>2 DEF Desks
    <3> QED
        BY <1>2, <3>1 DEF DeskDone
  <2> QED
      BY <1>5, <2>1, <2>2, Fails DEF TasksPassed
<1>6. CASE TasksDone
  <2>1. desk.pc = "drain" /\ desk.result \in {"none"} \cup Bad
        BY <1>1, <1>2, <1>6 DEF TasksDone, Desks
  <2>2. CASE desk.result # "none" \/ heard
    <3>1. \E r \in Bad : desk' = Finish(r)
          BY <1>6, <2>1, <2>2, Fails DEF TasksDone
    <3> QED
        BY <3>1, DeskFails
  <2>3. CASE ~(desk.result # "none" \/ heard) /\ HasSteering
        BY <1>6, <2>3, DeskAtTop DEF TasksDone
  <2>4. CASE ~(desk.result # "none" \/ heard) /\ ~HasSteering
    <3>1. CallHost("review", 1) /\ UNCHANGED output
          BY <1>6, <2>4 DEF TasksDone
    <3>2. DOMAIN output = DOMAIN Tasks
          BY <2>1, <2>4 DEF DeskDone, HasSteering
    <3> QED
        BY <1>1, <1>2, <2>1, <3>1, <3>2, CallHostDone, One DEF HostStages
  <2> QED
      BY <2>2, <2>3, <2>4
<1>7. CASE \E i \in DOMAIN Tasks : TaskEnds(i)
  <2>1. PICK i \in DOMAIN Tasks : TaskEnds(i)
        BY <1>7
  <2> DEFINE r == TaskResult(i)
             stops == r \in {"unknown", "final"} \/ (r = "cancelled" /\ ~desk.halted)
  <2>2. /\ i \in busy /\ desk.pc \in {"race", "drain", "woken"}
        /\ desk' = [desk EXCEPT !.halted = @ \/ stops,
                                !.result = IF r = "unknown" \/ (stops /\ @ = "none") THEN r ELSE @,
                                !.pc = IF @ = "race" THEN "woken" ELSE @]
        BY <2>1 DEF TaskEnds
  <2>3. /\ desk'.halted = (desk.halted \/ stops)
        /\ desk'.result = (IF r = "unknown" \/ (stops /\ desk.result = "none") THEN r ELSE desk.result)
        /\ desk'.pc = (IF desk.pc = "race" THEN "woken" ELSE desk.pc)
        BY <1>1, <2>2 DEF Desks
  <2>4. DOMAIN output # DOMAIN Tasks
        BY <1>1, <2>2 DEF DeskInv, RoundOK
  <2>5. desk'.result # "succeeded"
        BY <1>2, <2>3
  <2>6. desk'.halted => desk'.result # "none"
        BY <2>3 DEF DeskDone
  <2>7. desk'.pc = "drain" => heard' \/ desk'.halted \/ Pending' # {}
    <3>1. desk'.pc = "drain" => desk.pc = "drain"
          BY <2>2, <2>3
    <3>2. desk.pc = "drain" => heard \/ desk.halted \/ Pending # {}
          BY <2>4 DEF DeskDone
    <3>3. desk.halted => desk'.halted
          BY <2>3
    <3> QED
        BY <1>2, <3>1, <3>2, <3>3
  <2> QED
      BY <1>2, <2>2, <2>3, <2>5, <2>6, <2>7 DEF DeskDone
<1> QED
    BY <1>3, <1>4, <1>5, <1>6, <1>7

LEMMA DeskDoneStep ==
  ASSUME EngineInv, MessageInv, DeskDone, [Next]_vars
  PROVE  DeskDone'
<1>1. DeskInv
      BY DEF EngineInv
<1>2. CASE FlowNext /\ UNCHANGED groupVars
  <2>1. CASE run.kind = "workflow"
    <3>1. desk' = Away
          BY <1>1, <1>2, <2>1 DEF groupVars, DeskInv, DeskOK
    <3> QED
        BY <3>1, AwayFields, DeskLeaves
  <2>2. CASE UNCHANGED portVars
        BY <1>2, <2>2, DeskStays DEF groupVars, portVars, Pending
  <2> QED
      BY <1>2, <2>1, <2>2, FlowOnly
<1>3. CASE Command \/ UNCHANGED vars
      BY <1>3, DeskStays DEF Command, Stop, Resume, vars, portVars, groupVars, Pending
<1>4. CASE FinishGroup \/ CrashGroup
      BY <1>4, AwayFields, DeskLeaves DEF FinishGroup, CrashGroup
<1>5. CASE HostTurn \/ HearGroup \/ \E i \in DOMAIN Tasks : TaskTurn(i)
      BY <1>5, DeskStays DEF HostTurn, TaskTurn, Turning, HearGroup, Hear, groupVars, Pending
<1>6. CASE \E m \in Messages : Send(m)
  <2>1. PICK s \in Messages : Send(s)
        BY <1>6
  <2>2. inbox \in [Messages -> {"unsent", "pending", "consumed"}] /\ inbox' = [inbox EXCEPT ![s] = "pending"]
        BY <2>1 DEF Send, MessageInv, PlanOK
  <2>3. Pending \subseteq Pending'
        BY <2>2 DEF Pending
  <2> QED
      BY <2>1, <2>3, DeskStays DEF Send, portVars
<1>7. CASE GroupNext
  <2>1. CASE \E i \in DOMAIN Tasks : TaskEnds(i) \/ TaskTurn(i)
        BY <1>5, <2>1, RoundDone
  <2>2. CASE ~ \E i \in DOMAIN Tasks : TaskEnds(i) \/ TaskTurn(i)
        BY <1>4, <1>5, <1>6, <1>7, <2>2, HostDone, HeadDone, RoundDone DEF GroupNext
  <2> QED
      BY <2>1, <2>2
<1> QED
    BY <1>2, <1>3, <1>7 DEF Next, Ended

\* What the store says of the round's tasks.
Done(i) == TaskCall(i) \in DOMAIN stored /\ stored[TaskCall(i)] = "succeeded"

EarnedOK ==
  run.kind = "group" =>
    /\ \A i \in DOMAIN output : output[i] = "succeeded" => Done(i)
    /\ plan.phase = "complete" => \A i \in DOMAIN Tasks : Done(i)
    /\ run.state = "succeeded" => plan.phase = "complete" /\ Pending = {}

LEMMA DoneKeeps ==
  ASSUME NEW i, Done(i), plan'.round = plan.round,
         \A c \in DOMAIN stored : stored[c] = "succeeded" => c \in DOMAIN stored' /\ stored'[c] = "succeeded"
  PROVE  Done(i)'
BY DEF Done, TaskCall

\* Nothing is forgotten, and no output is new.
LEMMA EarnedKeeps ==
  ASSUME EarnedOK, run'.kind = run.kind, plan'.round = plan.round,
         \A c \in DOMAIN stored : stored[c] = "succeeded" => c \in DOMAIN stored' /\ stored'[c] = "succeeded",
         \A i \in DOMAIN output' : output'[i] = "succeeded" => i \in DOMAIN output /\ output[i] = "succeeded",
         plan'.phase = "complete" => plan.phase = "complete",
         run'.state = "succeeded" => run.state = "succeeded" /\ plan'.phase = plan.phase /\ Pending' = Pending
  PROVE  EarnedOK'
<1>1. \A i : Done(i) => Done(i)'
      BY DoneKeeps
<1> QED
    BY <1>1 DEF EarnedOK

LEMMA MovesEarned ==
  ASSUME StoreOK, NEW c, Moves(c)
  PROVE  \A d \in DOMAIN stored : d \in DOMAIN stored' /\ stored'[d] = stored[d]
BY DEF StoreOK, Moves

\* Only the end of the engine ends the run.
LEMMA GroupRuns ==
  ASSUME DeskInv, GroupNext, ~FinishGroup
  PROVE  run'.state # "succeeded"
<1>1. run.state \in {"queued", "running"}
  <2>1. CASE BeginGroup
        BY <2>1 DEF BeginGroup
  <2>2. CASE \E m \in Messages : Send(m)
        BY <2>2 DEF Send, Live
  <2>3. CASE HearGroup \/ CrashGroup
        BY <2>3 DEF HearGroup, Hear, CrashGroup, Crashed
  <2>4. CASE \E i \in DOMAIN Tasks : TaskEnds(i) \/ TaskTurn(i)
    <3>1. desk.pc # "idle"
          BY <2>4 DEF TaskEnds, TaskTurn, DeskInv, RoundOK, Rounds
    <3> QED
        BY <3>1, AtWork
  <2>5. CASE \/ HostFails \/ HostAgain \/ Planned \/ Steered \/ Reviewed
             \/ Acknowledge \/ Acknowledged \/ FixBatch \/ Steer \/ Proceed
             \/ TasksLoop \/ TaskBlocked \/ TaskStarts \/ TasksPassed \/ TasksDone \/ HostTurn
    <3>1. desk.pc # "idle"
          BY <2>5 DEF HostFails, HostAgain, Planned, Steered, Reviewed, Accepted, Answered, HostStages,
                      Acknowledge, Acknowledged, FixBatch, Steer, Proceed, TasksLoop, TaskBlocked,
                      TaskStarts, TasksPassed, TasksDone, HostTurn
    <3> QED
        BY <3>1, AtWork
  <2> QED
      BY <2>1, <2>2, <2>3, <2>4, <2>5 DEF GroupNext
<1>2. CASE BeginGroup
      BY <1>2 DEF BeginGroup, DeskInv, RunOK
<1>3. CASE CrashGroup
      BY <1>3 DEF CrashGroup, Crashed, DeskInv, RunOK
<1>4. CASE UNCHANGED run
      BY <1>1, <1>4
<1>5. UNCHANGED run \/ BeginGroup \/ CrashGroup
      BY DEF GroupNext, HostFails, HostAgain, Planned, Steered, Reviewed,
             Acknowledge, Acknowledged, FixBatch, Steer, Proceed, TasksLoop, TaskBlocked,
             TaskStarts, TasksPassed, TasksDone, HostTurn, TaskTurn, TaskEnds, Turning, HearGroup, Hear, Send, portVars
<1> QED
    BY <1>2, <1>3, <1>4, <1>5

LEMMA EarnedSteps ==
  ASSUME MessageInv, DeskDone, EarnedOK, GroupNext
  PROVE  EarnedOK'
<1>1. /\ run.kind = "group" /\ run'.kind = "group" /\ DeskInv /\ StoreOK /\ plan \in Plans
      /\ ~FinishGroup => run'.state # "succeeded"
      BY GroupOnly, GroupRuns DEF MessageInv, PlanOK, DeskInv
<1>2. CASE \/ BeginGroup \/ HostFails \/ HostAgain \/ Acknowledge \/ Steer \/ Proceed
           \/ TasksLoop \/ TaskStarts \/ TasksPassed \/ HearGroup \/ \E m \in Messages : Send(m)
  <2>1. UNCHANGED <<plan, stored, output>> /\ run'.state # "succeeded"
    <3>1. UNCHANGED <<plan, stored, output>>
          BY <1>2 DEF BeginGroup, HostFails, HostAgain, Acknowledge, Ack, Steer, Proceed, TasksLoop, TaskStarts,
                      TasksPassed, HearGroup, Hear, Send, portVars, groupVars
    <3>2. run'.state \in {run.state, "running"} /\ (BeginGroup \/ UNCHANGED run)
          BY <1>1, <1>2
          DEF BeginGroup, HostFails, HostAgain, Acknowledge, Steer, Proceed, TasksLoop, TaskStarts,
              TasksPassed, HearGroup, Hear, Send, portVars, DeskInv, RunOK
    <3> QED
        BY <1>1, <3>1, <3>2, AtWork DEF FinishGroup
  <2> QED
      BY <1>1, <2>1, EarnedKeeps
<1>3. CASE Acknowledged \/ FixBatch
  <2>1. UNCHANGED <<stored, output>> /\ plan'.round = plan.round /\ (plan'.phase = "complete" => plan.phase = "complete")
        BY <1>1, <1>3 DEF Acknowledged, FixBatch, portVars, Plans
  <2>2. ~FinishGroup
        BY <1>3 DEF Acknowledged, FixBatch, FinishGroup
  <2> QED
      BY <1>1, <2>1, <2>2, EarnedKeeps
<1>4. CASE TaskBlocked
  <2>1. UNCHANGED <<stored, plan>> /\ output' = Put(output, NextTask, "failed") /\ ~FinishGroup
        BY <1>4 DEF TaskBlocked, portVars, FinishGroup
  <2>2. \A i \in DOMAIN output' : output'[i] = "succeeded" => i \in DOMAIN output /\ output[i] = "succeeded"
        BY <2>1 DEF Put
  <2> QED
      BY <1>1, <2>1, <2>2, EarnedKeeps
<1>5. CASE TasksDone \/ CrashGroup
  <2>1. UNCHANGED <<stored, plan>> /\ output' \in {output, Nothing} /\ run'.state # "succeeded"
    <3>1. UNCHANGED <<stored, plan>> /\ output' \in {output, Nothing}
          BY <1>5 DEF TasksDone, CrashGroup, Crashed
    <3>2. CASE TasksDone
          BY <1>1, <3>2 DEF TasksDone, FinishGroup
    <3>3. CASE CrashGroup
          BY <1>1, <3>3, CrashedIs DEF CrashGroup, DeskInv
    <3> QED
        BY <1>5, <3>1, <3>2, <3>3
  <2> QED
      BY <1>1, <2>1, EmptyFunction, EarnedKeeps
<1>6. CASE Planned \/ Steered
  <2>1. desk.pc \in {"plan", "steer"} /\ UNCHANGED output /\ ~FinishGroup
        BY <1>6 DEF Planned, Steered, Accepted, Answered, FinishGroup
  <2>2. DOMAIN output' = {}
        BY <1>1, <2>1 DEF DeskInv, RoundOK, Rounds
  <2>3. plan'.phase = "tasks"
        BY <1>1, <1>6, NoPlanFields DEF Planned, Steered, Plans
  <2> QED
      BY <1>1, <2>1, <2>2, <2>3 DEF EarnedOK
<1>7. CASE Reviewed
  <2>1. desk.pc = "review" /\ output' = Nothing /\ ~FinishGroup
        BY <1>7 DEF Reviewed, Accepted, Answered, FinishGroup
  <2>2. DOMAIN output = DOMAIN Tasks /\ plan.phase # "complete"
        BY <2>1 DEF DeskDone
  <2>3. CASE AllSucceeded /\ plan' = [plan EXCEPT !.phase = "complete"] /\ UNCHANGED stored
    <3>1. plan'.round = plan.round
          BY <1>1, <2>3 DEF Plans
    <3>2. \A i \in DOMAIN Tasks : Done(i)
          BY <1>1, <2>2, <2>3 DEF AllSucceeded, EarnedOK
    <3>3. \A i \in DOMAIN Tasks : Done(i)'
          BY <2>3, <3>1, <3>2, DoneKeeps
    <3> QED
        BY <1>1, <2>1, <3>3, EmptyFunction DEF EarnedOK
  <2>4. CASE plan'.phase # "complete"
        BY <1>1, <2>1, <2>4, EmptyFunction DEF EarnedOK
  <2>5. \/ AllSucceeded /\ plan' = [plan EXCEPT !.phase = "complete"] /\ UNCHANGED stored
        \/ plan'.phase # "complete"
    <3>1. \/ UNCHANGED plan
          \/ plan' = [plan EXCEPT !.round = @ + 1, !.phase = "tasks"]
          \/ AllSucceeded /\ plan' = [plan EXCEPT !.phase = "complete"] /\ UNCHANGED stored
          BY <1>7 DEF Reviewed
    <3> QED
        BY <1>1, <2>2, <3>1 DEF Plans
  <2> QED
      BY <2>3, <2>4, <2>5
<1>8. CASE \E i \in DOMAIN Tasks : TaskEnds(i)
  <2>1. PICK i \in DOMAIN Tasks : TaskEnds(i)
        BY <1>8
  <2>2. /\ output' = Put(output, i, TaskResult(i)) /\ UNCHANGED <<run, stored, plan>>
        /\ TaskCall(i) \in DOMAIN turn /\ turn[TaskCall(i)] \notin Phases /\ ~FinishGroup
        BY <2>1 DEF TaskEnds, Returned, FinishGroup
  <2>3. TaskResult(i) = "succeeded" => turn[TaskCall(i)] = "succeeded"
        BY DEF TaskResult
  <2>4. TaskResult(i) = "succeeded" => Done(i)
        BY <1>1, <2>2, <2>3 DEF StoreOK, Done, Phases
  <2>5. \A j \in DOMAIN output' : output'[j] = "succeeded" => Done(j)
        BY <1>1, <2>2, <2>4 DEF Put, EarnedOK
  <2>6. \A j : Done(j) => Done(j)'
        BY <2>2, DoneKeeps
  <2> QED
      BY <1>1, <2>2, <2>5, <2>6 DEF EarnedOK
<1>9. CASE HostTurn \/ \E i \in DOMAIN Tasks : TaskTurn(i)
  <2>1. PICK c : Moves(c) /\ UNCHANGED <<plan, output>>
        BY <1>1, <1>9, HostTurnDesk, TaskTurnDesk DEF HostTurn, TaskTurn, Turning, groupVars
  <2>2. \A d \in DOMAIN stored : d \in DOMAIN stored' /\ stored'[d] = stored[d]
        BY <1>1, <2>1, MovesEarned
  <2>3. ~FinishGroup
    <3>1. CASE HostTurn
          BY <3>1 DEF HostTurn, HostStages, FinishGroup
    <3>2. CASE \E i \in DOMAIN Tasks : TaskTurn(i)
          BY <1>1, <3>2 DEF TaskTurn, FinishGroup, DeskInv, RoundOK, Rounds
    <3> QED
        BY <1>9, <3>1, <3>2
  <2> QED
      BY <1>1, <2>1, <2>2, <2>3, EarnedKeeps
<1>10. CASE FinishGroup
  <2>1. /\ desk.pc = "finish" /\ Settled(desk.result, Pending # {}) /\ output' = Nothing
        /\ UNCHANGED <<plan, inbox>> /\ desk.result \in {"succeeded"} \cup Bad
        BY <1>1, <1>10 DEF FinishGroup, DeskInv, DeskOK, Desks
  <2>2. UNCHANGED stored /\ run'.state = Outcome(desk.result, Pending # {})
        BY <1>1, <2>1 DEF Settled, DeskInv, RunOK
  <2>3. run'.state = "succeeded" => desk.result = "succeeded" /\ Pending = {}
        BY <2>1, <2>2 DEF Outcome, Bad
  <2>4. run'.state = "succeeded" => plan'.phase = "complete" /\ Pending' = {}
        BY <2>1, <2>3 DEF DeskDone, Pending
  <2>5. plan'.phase = "complete" => \A i \in DOMAIN Tasks : Done(i)'
        BY <1>1, <2>1, <2>2 DEF EarnedOK, Done, TaskCall
  <2> QED
      BY <2>1, <2>4, <2>5, EmptyFunction DEF EarnedOK
<1> QED
    BY <1>2, <1>3, <1>4, <1>5, <1>6, <1>7, <1>8, <1>9, <1>10 DEF GroupNext

LEMMA EarnedStep ==
  ASSUME EngineInv, MessageInv, DeskDone, EarnedOK, [Next]_vars
  PROVE  EarnedOK'
<1>1. CASE FlowNext /\ UNCHANGED groupVars
  <2>1. CASE run.kind = "workflow" /\ run'.kind = "workflow"
        BY <2>1 DEF EarnedOK
  <2>2. CASE UNCHANGED portVars
        BY <1>1, <2>2, EarnedKeeps DEF groupVars, portVars, Pending
  <2> QED
      BY <1>1, <2>1, <2>2, FlowOnly
<1>2. CASE Stop /\ UNCHANGED groupVars
  <2>1. run'.kind = run.kind /\ run'.state # "succeeded" /\ UNCHANGED <<stored, plan, output>>
        BY <1>2 DEF Stop, Live, EngineInv, DeskInv, RunOK, groupVars
  <2> QED
      BY <2>1, EarnedKeeps
<1>3. CASE Resume /\ UNCHANGED groupVars
  <2>1. run'.kind = run.kind /\ run'.state # "succeeded" /\ UNCHANGED <<plan, output>>
        BY <1>3 DEF Resume, EngineInv, DeskInv, RunOK, groupVars
  <2>2. \A c \in DOMAIN stored : stored[c] = "succeeded" => c \in DOMAIN stored' /\ stored'[c] = "succeeded"
        BY <1>3 DEF Resume, Good
  <2> QED
      BY <2>1, <2>2, EarnedKeeps
<1>4. CASE UNCHANGED vars
      BY <1>4, EarnedKeeps DEF vars, portVars, groupVars, Pending
<1> QED
    BY <1>1, <1>2, <1>3, <1>4, EarnedSteps DEF Next, Ended, Command

\* A task's success, and a plan the host's review completed, rest on stored results;
\* a group task ends as succeeded only with such a plan and an empty inbox
\* (groupSteps.ts, groupExecutor.ts).
THEOREM EarnedInvariance == Spec => [](DeskDone /\ EarnedOK)
<1>1. Init => DeskDone /\ EarnedOK
  <2> SUFFICES ASSUME Init PROVE DeskDone /\ EarnedOK
      OBVIOUS
  <2>1. desk = Away /\ plan = NoPlan /\ output = Nothing /\ run.state = "queued"
        BY DEF Init, GroupInit, PortInit
  <2> QED
      BY <2>1, AwayFields, NoPlanFields, EmptyFunction DEF DeskDone, EarnedOK
<1>2. EngineInv /\ MessageInv /\ DeskDone /\ EarnedOK /\ [Next]_vars => (DeskDone /\ EarnedOK)'
      BY DeskDoneStep, EarnedStep
<1> QED
    BY <1>1, <1>2, EngineInvariance, MessageInvariance, PTL DEF Spec

\* A group task reported as succeeded has a completed plan, all tasks of its
\* last round succeeded, and no message of the user was left behind.
THEOREM CompletionIsEarnedAlways == Spec => []CompletionIsEarned
<1>1. EarnedOK => CompletionIsEarned
      BY DEF EarnedOK, CompletionIsEarned, Done, Pending
<1> QED
    BY <1>1, EarnedInvariance, PTL

(***************************************************************************)
(* Retries of a node.                                                      *)
(***************************************************************************)
\* A call after the first is one that may be retried still, and follows one that failed
\* and whose delay is over.
FailedBefore(n) ==
  /\ node[n].at = "agent" /\ node[n].k > 0 =>
       LET before == <<n, node[n].k - 1>>
       IN  /\ node[n].k <= graph.retries[n]
           /\ before \in DOMAIN stored /\ stored[before] = "failed"
           /\ before \in DOMAIN wait /\ wait[before] = "passed"
  /\ node[n].at = "backoff" =>
       /\ node[n].k + 1 <= graph.retries[n]
       /\ CallOf(n) \in DOMAIN stored /\ stored[CallOf(n)] = "failed"
       /\ CallOf(n) \in DOMAIN wait

RetriesOK == \A n \in DOMAIN node : FailedBefore(n)

FailuresKept ==
  /\ UNCHANGED graph
  /\ \A c \in DOMAIN stored : stored[c] = "failed" => c \in DOMAIN stored' /\ stored'[c] = "failed"
  /\ \A c \in DOMAIN wait : c \in DOMAIN wait' /\ (wait[c] = "passed" => wait'[c] = "passed")

LEMMA FailedKeeps ==
  ASSUME NEW n \in DOMAIN node, FailedBefore(n), FailuresKept, node'[n] = node[n]
  PROVE  FailedBefore(n)'
BY DEF FailedBefore, FailuresKept, CallOf

LEMMA RetriesKeep ==
  ASSUME RetriesOK, FailuresKept,
         \A n \in DOMAIN node' : (n \in DOMAIN node /\ node'[n] = node[n]) \/ FailedBefore(n)'
  PROVE  RetriesOK'
BY FailedKeeps DEF RetriesOK

LEMMA NobodyRetries ==
  ASSUME DOMAIN node' = {}
  PROVE  RetriesOK'
BY DEF RetriesOK

LEMMA AttemptRetries ==
  ASSUME EngineInv, RetriesOK, NEW n \in DOMAIN node, NEW k \in Nat, Attempt(n, k),
         k > 0 => /\ k <= graph.retries[n]
                  /\ <<n, k - 1>> \in DOMAIN stored /\ stored[<<n, k - 1>>] = "failed"
                  /\ <<n, k - 1>> \in DOMAIN wait /\ wait[<<n, k - 1>>] = "passed"
  PROVE  RetriesOK'
<1>1. UNCHANGED <<stored, wait, graph>> /\ FailuresKept
      BY DEF Attempt, NodeEnds, portVars, FailuresKept
<1>2. CASE Off(n)
  <2>1. node' = Drop(node, n)
        BY <1>2 DEF Attempt, NodeEnds
  <2> QED
      BY <1>1, <2>1, RetriesKeep DEF Drop
<1>3. CASE ~Off(n)
  <2>1. node' = Put(node, n, [at |-> "agent", k |-> k])
        BY <1>3 DEF Attempt
  <2>2. FailedBefore(n)'
        BY <1>1, <2>1 DEF Put, FailedBefore
  <2> QED
      BY <1>1, <2>1, <2>2, RetriesKeep DEF Put
<1> QED
    BY <1>2, <1>3

LEMMA RetryCounts ==
  ASSUME EngineInv, NEW n \in Nodes
  PROVE  graph.retries[n] \in Nat
<1>1. graph \in Graphs
      BY DEF EngineInv, FlowInv, NodesOK
<1>2. graph.retries \in [DOMAIN graph.kind -> Nat]
      BY <1>1, GraphsValid
<1> QED
    BY <1>2 DEF Nodes

\* A node waits for a retry only if it has one left.
LEMMA AgainOnlyRetriable ==
  ASSUME EngineInv, NEW n \in Nodes, Judge(n), node' = Put(node, n, [at |-> "backoff", k |-> node[n].k])
  PROVE  node[n].k < graph.retries[n] /\ node[n].k \in Nat /\ graph.retries[n] \in Nat
<1>1. n \in DOMAIN node /\ node[n].k \in Nat
      BY DEF Judge, EngineInv, FlowInv, NodesOK
<1>2. graph.retries[n] \in Nat
      BY RetryCounts
<1>3. n \in DOMAIN node'
      BY DEF Put
<1>4. node' # Drop(node, n)
      BY <1>3 DEF Drop
<1>5. Retriable(n, turn[CallOf(n)])
      BY <1>4 DEF Judge, NodeEnds
<1> QED
    BY <1>1, <1>2, <1>5 DEF Retriable

LEMMA RetriesFlow ==
  ASSUME EngineInv, RetriesOK, FlowNext
  PROVE  RetriesOK'
<1>1. CASE BeginFlow \/ Loop \/ SettleHere \/ DropLoser \/ EndPass \/ HearFlow
      BY <1>1, RetriesKeep
      DEF BeginFlow, Begun, Loop, SettleHere, DropLoser, EndPass, HearFlow, Hear, portVars, flowVars, FailuresKept
<1>2. CASE FinishFlow \/ CrashFlow
      BY <1>2, NobodyRetries, EmptyFunction DEF FinishFlow, CrashFlow
<1>3. CASE Launch
  <2>1. PICK m : node' = Put(node, m, [at |-> "launched", k |-> 0])
        BY <1>3 DEF Launch
  <2>2. UNCHANGED <<stored, wait, graph>>
        BY <1>3 DEF Launch, portVars
  <2>3. FailedBefore(m)'
        BY <2>1 DEF Put, FailedBefore
  <2> QED
      BY <2>1, <2>2, <2>3, RetriesKeep DEF Put, FailuresKept
<1>4. CASE TimePasses
  <2>1. UNCHANGED <<stored, node, graph>> /\ \E c \in DOMAIN wait : wait' = Put(wait, c, "passed")
        BY <1>4 DEF TimePasses, portVars
  <2> QED
      BY <2>1, RetriesKeep DEF Put, FailuresKept
<1>5. CASE \E n \in Nodes : NodeStep(n)
  <2>1. PICK n \in Nodes : NodeStep(n)
        BY <1>5
  <2>2. CASE Execute(n)
    <3>1. CASE Attempt(n, 0)
      <4>1. n \in DOMAIN node /\ 0 \in Nat /\ ~(0 > 0)
            BY <2>2 DEF Execute
      <4> QED
          BY <3>1, <4>1, AttemptRetries
    <3>2. CASE (\E r : NodeEnds(n, r)) /\ UNCHANGED portVars
          BY <3>2, RetriesKeep DEF NodeEnds, Drop, portVars, FailuresKept
    <3> QED
        BY <2>2, <3>1, <3>2 DEF Execute
  <2>3. CASE BackoffAborted(n)
        BY <2>3, RetriesKeep DEF BackoffAborted, NodeEnds, Drop, portVars, FailuresKept
  <2>4. CASE Retry(n)
    <3>1. /\ n \in DOMAIN node /\ node[n].at = "backoff" /\ wait[CallOf(n)] = "passed"
          /\ Attempt(n, node[n].k + 1) /\ node[n].k \in Nat
          BY <2>4 DEF Retry, RetryDue, EngineInv, FlowInv, NodesOK
    <3>2. CallOf(n) = <<n, (node[n].k + 1) - 1>>
          BY <3>1 DEF CallOf
    <3>3. /\ CallOf(n) \in DOMAIN stored /\ stored[CallOf(n)] = "failed" /\ CallOf(n) \in DOMAIN wait
          /\ node[n].k + 1 <= graph.retries[n]
          BY <3>1 DEF RetriesOK, FailedBefore
    <3>4. node[n].k + 1 \in Nat
          BY <3>1
    <3> QED
        BY <3>1, <3>2, <3>3, <3>4, AttemptRetries
  <2>5. CASE FlowTurn(n)
    <3>1. StoreOK /\ Moves(CallOf(n)) /\ UNCHANGED <<node, wait, graph>>
          BY <2>5, FlowTurnIs DEF flowVars, EngineInv, DeskInv
    <3>2. \A d \in DOMAIN stored : d \in DOMAIN stored' /\ stored'[d] = stored[d]
          BY <3>1, MovesEarned
    <3> QED
        BY <3>1, <3>2, RetriesKeep DEF FailuresKept
  <2>6. CASE Judge(n)
    <3>1. n \in DOMAIN node /\ CallOf(n) \in DOMAIN turn /\ UNCHANGED <<stored, graph>>
          BY <2>6, JudgeIs DEF NodeEnds
    <3>2. CASE UNCHANGED wait /\ \E r : NodeEnds(n, r)
          BY <3>1, <3>2, RetriesKeep DEF NodeEnds, Drop, FailuresKept
    <3>3. CASE wait' = Deadline(CallOf(n)) /\ turn[CallOf(n)] = "failed"
      <4>1. FailuresKept /\ CallOf(n) \in DOMAIN wait'
            BY <3>1, <3>3 DEF FailuresKept, Deadline, Put
      <4>2. CASE node' = Drop(node, n)
            BY <4>1, <4>2, RetriesKeep DEF Drop
      <4>3. CASE node' = Put(node, n, [at |-> "backoff", k |-> node[n].k])
        <5>1. node'[n].at = "backoff" /\ CallOf(n)' = CallOf(n)
              BY <4>3 DEF Put, CallOf
        <5>2. CallOf(n) \in DOMAIN stored /\ stored[CallOf(n)] = "failed"
              BY <3>1, <3>3 DEF EngineInv, DeskInv, StoreOK, Phases
        <5>3. node[n].k < graph.retries[n] /\ node[n].k \in Nat /\ graph.retries[n] \in Nat
              BY <2>6, <3>1, <4>3, AgainOnlyRetriable
        <5>4. FailedBefore(n)'
              BY <3>1, <4>1, <4>3, <5>1, <5>2, <5>3 DEF FailedBefore, Put, FailuresKept
        <5> QED
            BY <4>1, <4>3, <5>4, RetriesKeep DEF Put
      <4> QED
          BY <2>6, <3>3, <4>2, <4>3, JudgeIs DEF NodeEnds
    <3> QED
        BY <2>6, <3>2, <3>3, JudgeIs
  <2> QED
      BY <2>1, <2>2, <2>3, <2>4, <2>5, <2>6 DEF NodeStep
<1> QED
    BY <1>1, <1>2, <1>3, <1>4, <1>5 DEF FlowNext

LEMMA RetriesStep ==
  ASSUME EngineInv, RetriesOK, [Next]_vars
  PROVE  RetriesOK'
<1>1. CASE GroupNext /\ UNCHANGED flowVars
  <2>1. run.kind = "group"
        BY <1>1, GroupOnly DEF EngineInv
  <2>2. DOMAIN node' = {}
        BY <1>1, <2>1, AtNode DEF flowVars, EngineInv, DeskInv, RunOK
  <2> QED
      BY <2>2, NobodyRetries
<1>2. CASE Resume /\ UNCHANGED flowVars
  <2>1. DOMAIN node' = {}
        BY <1>2, AtNode DEF Resume, flowVars
  <2> QED
      BY <2>1, NobodyRetries
<1>3. CASE (Stop /\ UNCHANGED flowVars) \/ UNCHANGED vars
      BY <1>3, RetriesKeep DEF Stop, vars, portVars, flowVars, FailuresKept
<1> QED
    BY <1>1, <1>2, <1>3, RetriesFlow DEF Next, Ended, Command

LEMMA TurnPhase ==
  ASSUME NEW f, NEW c, NEW x, Put(f, c, x) = turn', x # "calling",
         NEW d \in DOMAIN turn', turn'[d] = "calling"
  PROVE  d # c /\ d \in DOMAIN f /\ f[d] = "calling"
BY DEF Put

\* A workflow's call is made by its node, which did not have it under way.
LEMMA DispatchIs ==
  ASSUME EngineInv, [Next]_vars, run.kind = "workflow", NEW c \in Dispatches
  PROVE  \E n \in Nodes : /\ n \in DOMAIN node /\ node[n].at = "agent" /\ c = CallOf(n)
                          /\ Dispatched(CallOf(n), Off(n)) /\ ~Ready
<1>1. c \in DOMAIN turn' /\ turn'[c] = "calling" /\ ~(c \in DOMAIN turn /\ turn[c] = "calling")
      BY DEF Dispatches, Calling
<1>2. ~UNCHANGED turn
      BY <1>1
<1>3. turn' # Nothing
      BY <1>1, EmptyFunction
<1>4. ~GroupNext
      BY GroupOnly DEF EngineInv
<1>5. \E n \in Nodes : NodeStep(n)
  <2>1. FlowNext
        BY <1>2, <1>4 DEF Next, Ended, Command, Stop, Resume, vars, portVars
  <2> QED
      BY <1>2, <1>3, <2>1
      DEF FlowNext, BeginFlow, Begun, Loop, SettleHere, DropLoser, Launch, EndPass, FinishFlow, Settled,
          HearFlow, Hear, TimePasses, CrashFlow, Crashed, portVars
<1>6. PICK n \in Nodes : NodeStep(n)
      BY <1>5
<1>7. CASE FlowTurn(n)
  <2>1. n \in DOMAIN node /\ node[n].at = "agent"
        BY <1>7 DEF FlowTurn
  <2>2. CASE Dispatched(CallOf(n), Off(n)) /\ ~Ready
    <3>1. turn' = Put(turn, CallOf(n), "calling")
          BY <2>2 DEF Dispatched
    <3>2. c = CallOf(n)
          BY <1>1, <3>1 DEF Put
    <3> QED
        BY <2>1, <2>2, <3>2
  <2>3. CASE ~(Dispatched(CallOf(n), Off(n)) /\ ~Ready)
    <3>1. \E x : turn' = Put(turn, CallOf(n), x) /\ x # "calling"
          BY <1>7, <2>3, PortConstants
          DEF FlowTurn, Refused, Granted, NotPrepared, CallEnds, Return
    <3> QED
        BY <1>1, <3>1, TurnPhase
  <2> QED
      BY <2>2, <2>3
<1>8. CASE Judge(n)
      BY <1>1, <1>8 DEF Judge, Drop
<1>9. CASE Execute(n) \/ Retry(n) \/ BackoffAborted(n)
  <2>1. PICK k : turn' = Put(turn, <<n, k>>, Asked(<<n, k>>))
        BY <1>2, <1>9 DEF Execute, Retry, BackoffAborted, Attempt, portVars
  <2>2. Asked(<<n, k>>) # "calling"
        BY DEF Asked, EngineInv, DeskInv, StoreOK, Results, Bad, Good
  <2> QED
      BY <1>1, <2>1, <2>2, TurnPhase
<1> QED
    BY <1>6, <1>7, <1>8, <1>9 DEF NodeStep

LEMMA DeadlinesStay ==
  ASSUME EngineInv, [Next]_vars
  PROVE  \A c \in DOMAIN wait : wait[c] = "passed" => wait'[c] = "passed"
<1>1. CASE UNCHANGED wait
      BY <1>1
<1>2. CASE \E c : wait' = Put(wait, c, "passed")
      BY <1>2 DEF Put
<1>3. CASE \E c : wait' = Deadline(c)
      BY <1>3 DEF Deadline, Put
<1>4. CASE \E n \in Nodes : NodeStep(n)
  <2>1. PICK n \in Nodes : NodeStep(n)
        BY <1>4
  <2>2. CASE Judge(n)
        BY <1>1, <1>3, <2>2, JudgeIs
  <2>3. CASE ~Judge(n)
        BY <1>1, <2>1, <2>3
        DEF NodeStep, Execute, Retry, BackoffAborted, FlowTurn, Attempt, NodeEnds, flowVars
  <2> QED
      BY <2>2, <2>3
<1>5. CASE FlowNext
      BY <1>1, <1>2, <1>4, <1>5
      DEF FlowNext, BeginFlow, Loop, SettleHere, DropLoser, Launch, EndPass, FinishFlow,
          HearFlow, TimePasses, CrashFlow, flowVars
<1> QED
    BY <1>1, <1>5 DEF Next, Ended, Command, vars, flowVars

\* A node that calls again has a stored failure and a passed deadline of its call
\* before, also after a restart from the checkpoint (agentNode, workflowSteps.ts).
THEOREM RetriesInvariance == Spec => []RetriesOK
<1>1. Init => RetriesOK
      BY NobodyRetries, EmptyFunction DEF Init, FlowInit, RetriesOK
<1>2. EngineInv /\ RetriesOK /\ [Next]_vars => RetriesOK'
      BY RetriesStep
<1> QED
    BY <1>1, <1>2, EngineInvariance, PTL DEF Spec

\* A node is called again only after the call before it definitely failed and
\* its backoff is over, and a restart does not start a backoff again
\* (agentNode, workflowSteps.ts).
THEOREM RetryOnTimeAlways == Spec => RetryOnTime
<1> DEFINE OnTime ==
      /\ \A c \in Dispatches :
            run.kind = "workflow" =>
              /\ c \notin DOMAIN stored
              /\ c[2] <= graph.retries[c[1]]
              /\ c[2] > 0 =>
                   LET before == <<c[1], c[2] - 1>>
                   IN  before \in DOMAIN stored /\ stored[before] = "failed" /\ wait[before] = "passed"
      /\ \A c \in DOMAIN wait : wait[c] = "passed" => wait'[c] = "passed"
<1>1. EngineInv /\ RetriesOK /\ [Next]_vars => [OnTime]_vars
  <2> SUFFICES ASSUME EngineInv, RetriesOK, [Next]_vars PROVE OnTime
      OBVIOUS
  <2>1. ASSUME NEW c \in Dispatches, run.kind = "workflow"
        PROVE  /\ c \notin DOMAIN stored
               /\ c[2] <= graph.retries[c[1]]
               /\ c[2] > 0 =>
                    LET before == <<c[1], c[2] - 1>>
                    IN  before \in DOMAIN stored /\ stored[before] = "failed" /\ wait[before] = "passed"
    <3>1. PICK n \in DOMAIN node :
              node[n].at = "agent" /\ c = CallOf(n) /\ Dispatched(CallOf(n), Off(n))
          BY <2>1, DispatchIs
    <3>2. c[1] = n /\ c[2] = node[n].k /\ node[n].k \in Nat
          BY <3>1 DEF CallOf, EngineInv, FlowInv, NodesOK
    <3>3. c \notin DOMAIN stored
          BY <3>1 DEF Dispatched, In, EngineInv, DeskInv, StoreOK, Phases
    <3>4. graph.retries[n] \in Nat
          BY <3>1, RetryCounts DEF EngineInv, FlowInv, NodesOK
    <3>5. FailedBefore(n)
          BY <3>1 DEF RetriesOK
    <3> QED
        BY <3>1, <3>2, <3>3, <3>4, <3>5 DEF FailedBefore
  <2> QED
      BY <2>1, DeadlinesStay
<1> QED
    BY <1>1, EngineInvariance, RetriesInvariance, PTL DEF Spec, RetryOnTime

(***************************************************************************)
(* Unknown results.                                                        *)
(***************************************************************************)
\* The engine has seen it, or it is still on its way to it.
Noticed(c) ==
  (engine.fatal = "unknown" /\ engine.scope) \/ (c \in DOMAIN turn /\ turn[c] = "unknown")

UnknownSeen ==
  run.kind = "workflow" /\ crashes = 0 =>
    \A c \in DOMAIN stored : stored[c] = "unknown" =>
      /\ run.state \in {"running", "interrupted"}
      /\ run.state = "running" => Noticed(c)

\* As long as something is on its way the engine has a promise to continue.
LEMMA UnknownReady ==
  ASSUME EngineInv, engine.pc # "idle", NEW c, Noticed(c), NEW n \in DOMAIN node
  PROVE  Off(n) \/ Ready
<1>1. CASE engine.scope
      BY <1>1 DEF Off, Aborted
<1>2. CASE c \in DOMAIN turn /\ turn[c] = "unknown"
  <2>1. PICK m \in DOMAIN node : node[m].at = "agent" /\ c = CallOf(m)
        BY <1>2, FlowCalls DEF AgentCalls
  <2>2. Returned(CallOf(m))
        BY <1>2, <2>1 DEF Returned, Phases
  <2> QED
      BY <2>1, <2>2 DEF Ready
<1> QED
    BY <1>1, <1>2 DEF Noticed

\* What was noticed stays noticed as long as no call comes back.
LEMMA StillSeen ==
  ASSUME UnknownSeen, UNCHANGED <<run, crashes>>,
         \A c \in DOMAIN stored' : stored'[c] = "unknown" =>
           Noticed(c)' \/ (c \in DOMAIN stored /\ stored[c] = "unknown"),
         engine.fatal = "unknown" /\ engine.scope => engine'.fatal = "unknown" /\ engine'.scope,
         \A c \in DOMAIN turn : turn[c] = "unknown" => Noticed(c)',
         run.state \in {"running", "interrupted"} \/ UNCHANGED stored
  PROVE  UnknownSeen'
BY DEF UnknownSeen, Noticed

LEMMA NodeEndsSeen ==
  ASSUME EngineInv, NEW n \in DOMAIN node, NEW r, NodeEnds(n, r)
  PROVE  /\ engine.fatal = "unknown" /\ engine.scope => engine'.fatal = "unknown" /\ engine'.scope
         /\ r = "unknown" => engine'.fatal = "unknown" /\ engine'.scope
<1>1. engine \in Engines
      BY DEF EngineInv, FlowInv, EngineOK
<1> DEFINE f == CASE r = "unknown" -> r
                  [] r = "cancelled" /\ ~Off(n) /\ engine.fatal = "none" -> r
                  [] OTHER -> engine.fatal
           s == engine.scope \/ r = "unknown" \/ (r = "cancelled" /\ ~Off(n))
<1>2. engine' = [engine EXCEPT !.fatal = f, !.scope = s, !.pc = IF @ = "race" THEN "woken" ELSE @]
      BY DEF NodeEnds
<1>3. engine'.fatal = f /\ engine'.scope = s
      BY <1>1, <1>2 DEF Engines
<1> HIDE DEF s, f
<1>4. r = "unknown" => f = "unknown" /\ s
      BY DEF f, s
<1>5. engine.fatal = "unknown" /\ engine.scope => f = "unknown" /\ s
      BY DEF f, s
<1> QED
    BY <1>3, <1>4, <1>5

LEMMA CallNoticed ==
  ASSUME NEW c, c \in DOMAIN turn', turn'[c] = "unknown"
  PROVE  Noticed(c)'
BY DEF Noticed

LEMMA NodeSeen ==
  ASSUME EngineInv, UnknownSeen, NEW n \in Nodes, NodeStep(n), UNCHANGED groupVars
  PROVE  UnknownSeen'
<1>1. n \in DOMAIN node /\ run.state = "running" /\ engine \in Engines /\ DOMAIN turn \subseteq AgentCalls
  <2>1. n \in DOMAIN node
        BY JudgeIs, FlowTurnIs DEF NodeStep, Execute, Retry, BackoffAborted
  <2> QED
      BY <2>1, AtNode, FlowCalls DEF EngineInv, FlowInv, EngineOK
<1>2. CASE \E r : NodeEnds(n, r) /\ UNCHANGED portVars
      BY <1>1, <1>2, NodeEndsSeen, StillSeen, CallNoticed DEF portVars
<1>3. CASE /\ node[n].at # "agent" /\ UNCHANGED <<run, stored, heard, crashes, engine>>
           /\ \E k : turn' = Put(turn, <<n, k>>, Asked(<<n, k>>))
  <2>1. PICK k : turn' = Put(turn, <<n, k>>, Asked(<<n, k>>))
        BY <1>3
  <2>2. <<n, k>> \notin DOMAIN turn
        BY <1>1, <1>3 DEF AgentCalls, CallOf
  <2>3. \A c \in DOMAIN turn : c \in DOMAIN turn' /\ turn'[c] = turn[c]
        BY <2>1, <2>2 DEF Put
  <2> QED
      BY <1>1, <1>3, <2>3, StillSeen, CallNoticed
<1>4. CASE Judge(n)
  <2>1. /\ CallOf(n) \in DOMAIN turn /\ turn' = Drop(turn, CallOf(n)) /\ UNCHANGED <<run, stored, heard, crashes>>
        BY <1>4, JudgeIs
  <2>2. \A c \in DOMAIN turn : c # CallOf(n) => c \in DOMAIN turn' /\ turn'[c] = turn[c]
        BY <2>1 DEF Drop
  <2>3. engine.fatal = "unknown" /\ engine.scope => engine'.fatal = "unknown" /\ engine'.scope
    <3>1. CASE \E r : NodeEnds(n, r)
          BY <1>1, <3>1, NodeEndsSeen
    <3>2. CASE engine' = [engine EXCEPT !.pc = IF @ = "race" THEN "woken" ELSE @] \/ UNCHANGED engine
          BY <1>1, <3>2 DEF Engines
    <3> QED
        BY <1>4, <3>1, <3>2, JudgeIs
  <2>4. turn[CallOf(n)] = "unknown" => engine'.fatal = "unknown" /\ engine'.scope
    <3>1. turn[CallOf(n)] = "unknown" => NodeEnds(n, "unknown")
          BY <1>4, JudgeIs
    <3> QED
        BY <1>1, <3>1, NodeEndsSeen
  <2>5. \A c \in DOMAIN turn : turn[c] = "unknown" => Noticed(c)'
        BY <2>2, <2>4 DEF Noticed
  <2> QED
      BY <2>1, <2>3, <2>5, StillSeen
<1>5. CASE FlowTurn(n)
  <2> DEFINE c == CallOf(n)
  <2>1. Moves(c) /\ StoreOK' /\ UNCHANGED <<run, heard, crashes, engine>>
        BY <1>5, FlowTurnIs DEF flowVars
  <2>2. \A d \in DOMAIN turn : turn[d] = "unknown" => d \in DOMAIN turn' /\ turn'[d] = "unknown"
        BY <2>1 DEF Moves, Phases
  <2>3. \A d \in DOMAIN stored' : d # c => d \in DOMAIN stored /\ stored'[d] = stored[d]
        BY <2>1 DEF Moves
  <2>4. c \in DOMAIN stored' => turn'[c] = stored'[c]
    <3>1. c \notin DOMAIN stored
          BY <2>1 DEF Moves, EngineInv, DeskInv, StoreOK
    <3> QED
        BY <3>1 , <1>5 DEF FlowTurn, Refused, Granted, NotPrepared, Dispatched, CallEnds, Return, Put
  <2>5. c \in DOMAIN turn'
        BY <2>1 DEF Moves
  <2> QED
      BY <1>1, <2>1, <2>2, <2>3, <2>4, <2>5, StillSeen, CallNoticed
<1> QED
    BY <1>2, <1>3, <1>4, <1>5 DEF NodeStep, Execute, Retry, RetryDue, BackoffAborted, Attempt

LEMMA FlowEngineSeen ==
  ASSUME EngineInv, UnknownSeen, UNCHANGED <<run, stored, turn, heard, crashes>>,
         engine.fatal = "unknown" /\ engine.scope => engine'.fatal = "unknown" /\ engine'.scope
  PROVE  UnknownSeen'
BY DEF UnknownSeen, Noticed

\* What a workflow ends with that has seen an unknown result.
LEMMA FinishUnknown ==
  ASSUME EngineInv, UnknownSeen, FinishFlow, crashes = 0,
         NEW c \in DOMAIN stored, stored[c] = "unknown"
  PROVE  run'.state = "interrupted"
<1>1. engine.pc = "drain" /\ node = Nothing /\ Settled(FlowResult, FALSE)
      BY DEF FinishFlow
<1>2. run.kind = "workflow" /\ run.state = "running" /\ DOMAIN turn = {}
  <2>1. run.kind = "workflow" /\ run.state = "running" /\ DOMAIN turn \subseteq AgentCalls
        BY <1>1, AtNode, FlowCalls
  <2>2. AgentCalls = {}
        BY <1>1, EmptyFunction DEF AgentCalls
  <2> QED
      BY <2>1, <2>2
<1>3. engine.fatal = "unknown"
      BY <1>2 DEF UnknownSeen, Noticed
<1>4. FlowResult = "unknown"
      BY <1>3 DEF FlowResult
<1> QED
    BY <1>1, <1>4 DEF Settled, Outcome, EngineInv, DeskInv, RunOK

LEMMA FlowSeen ==
  ASSUME EngineInv, UnknownSeen, FlowNext, UNCHANGED groupVars
  PROVE  UnknownSeen'
<1>1. engine \in Engines
      BY DEF EngineInv, FlowInv, EngineOK
<1>2. CASE Loop \/ SettleHere \/ DropLoser \/ Launch \/ EndPass \/ TimePasses
  <2>1. UNCHANGED <<run, stored, turn, heard, crashes>>
        BY <1>2 DEF Loop, SettleHere, DropLoser, Launch, EndPass, TimePasses, portVars
  <2>2. \/ engine'.scope = engine.scope /\ engine'.fatal = engine.fatal
        \/ (EndPass /\ engine' = [engine EXCEPT !.pc = "drain", !.scope = TRUE, !.won = {},
                                    !.fatal = IF @ = "none" THEN "stuck" ELSE @])
    <3>1. \A e : e = Looping(engine) => e.scope = engine.scope /\ e.fatal = engine.fatal
          BY <1>1 DEF Looping, Engines
    <3> QED
        BY <1>1, <1>2, <3>1 DEF Loop, SettleHere, DropLoser, Launch, EndPass, TimePasses, Engines
  <2>3. engine.fatal = "unknown" /\ engine.scope => engine'.fatal = "unknown" /\ engine'.scope
        BY <1>1, <2>2 DEF Engines
  <2> QED
      BY <2>1, <2>3, FlowEngineSeen
<1>3. CASE HearFlow
      BY <1>3 DEF HearFlow, Hear, flowVars, UnknownSeen, Noticed
<1>4. CASE CrashFlow
      BY <1>4, CrashedIs DEF CrashFlow, UnknownSeen, EngineInv, DeskInv
<1>5. CASE BeginFlow
  <2>1. run.state = "queued" /\ run'.kind = run.kind /\ UNCHANGED <<stored, crashes>>
        BY <1>5 DEF BeginFlow, Begun, EngineInv, DeskInv, RunOK
  <2> QED
      BY <2>1 DEF UnknownSeen
<1>6. CASE FinishFlow
  <2>1. UNCHANGED <<stored, crashes>>
        BY <1>6 DEF FinishFlow, Settled
  <2> QED
      BY <1>6, <2>1, FinishUnknown DEF UnknownSeen
<1>7. CASE \E n \in Nodes : NodeStep(n)
      BY <1>7, NodeSeen
<1> QED
    BY <1>2, <1>3, <1>4, <1>5, <1>6, <1>7 DEF FlowNext

LEMMA UnknownStep ==
  ASSUME EngineInv, UnknownSeen, [Next]_vars
  PROVE  UnknownSeen'
<1>1. CASE GroupNext
      BY <1>1, GroupOnly DEF EngineInv, UnknownSeen
<1>2. CASE Stop /\ UNCHANGED flowVars
      BY <1>2 DEF Stop, Live, EngineInv, DeskInv, RunOK, UnknownSeen, Noticed, flowVars
<1>3. CASE Resume
      BY <1>3 DEF Resume, UnknownSeen, Good
<1>4. CASE UNCHANGED vars
      BY <1>4 DEF vars, portVars, flowVars, UnknownSeen, Noticed
<1> QED
    BY <1>1, <1>2, <1>3, <1>4, FlowSeen DEF Next, Ended, Command

\* As long as no Host has died, an unknown result in the store is on its way in a
\* call that has returned, has made the engine fatal, or has ended the run as
\* interrupted (settle, workflowExecutor.ts).
THEOREM UnknownInvariance == Spec => []UnknownSeen
<1>1. Init => UnknownSeen
      BY EmptyFunction DEF Init, PortInit, UnknownSeen
<1>2. EngineInv /\ UnknownSeen /\ [Next]_vars => UnknownSeen'
      BY UnknownStep
<1> QED
    BY <1>1, <1>2, EngineInvariance, PTL DEF Spec

\* As long as its Host lives, a workflow that has seen an unknown result
\* dispatches nothing more and ends as interrupted, even if the result came
\* from a loser (settle, workflowExecutor.ts).
THEOREM UnknownStopsAlways == Spec => UnknownStops
<1> DEFINE Stops ==
      run.kind = "workflow" /\ crashes = 0 /\ (\E c \in DOMAIN stored : stored[c] = "unknown") =>
         Dispatches = {} /\ run'.state \in {"running", "interrupted", "queued"}
<1>1. EngineInv /\ UnknownSeen /\ [Next]_vars => [Stops]_vars
  <2> SUFFICES ASSUME EngineInv, UnknownSeen, [Next]_vars, run.kind = "workflow", crashes = 0,
                      NEW c \in DOMAIN stored, stored[c] = "unknown"
               PROVE  Dispatches = {} /\ run'.state \in {"running", "interrupted", "queued"}
      OBVIOUS
  <2>1. run.state \in {"running", "interrupted"} /\ (run.state = "running" => Noticed(c))
        BY DEF UnknownSeen
  <2>2. Dispatches = {}
    <3> SUFFICES ASSUME NEW d \in Dispatches PROVE FALSE
        OBVIOUS
    <3>1. PICK n \in Nodes : n \in DOMAIN node /\ Dispatched(CallOf(n), Off(n)) /\ ~Ready
          BY DispatchIs
    <3>2. run.state = "running" /\ engine.pc # "idle" /\ ~Off(n)
          BY <3>1, AtNode DEF Dispatched
    <3> QED
        BY <2>1, <3>1, <3>2, UnknownReady
  <2>3. run'.state \in {"running", "interrupted", "queued"}
    <3>1. ~GroupNext
          BY GroupOnly DEF EngineInv
    <3>2. CASE FinishFlow
          BY <3>2, FinishUnknown
    <3>3. CASE CrashFlow
          BY <3>3, CrashedIs DEF CrashFlow, EngineInv, DeskInv
    <3>4. CASE Stop \/ Resume \/ BeginFlow
          BY <2>1, <3>4 DEF Stop, Resume, BeginFlow, Begun, EngineInv, DeskInv, RunOK
    <3>5. CASE UNCHANGED run
          BY <2>1, <3>5
    <3>6. CASE \E n \in Nodes : NodeStep(n)
          BY <3>5, <3>6, JudgeIs, FlowTurnIs
          DEF NodeStep, Execute, Retry, BackoffAborted, Attempt, portVars
    <3> QED
        BY <3>1, <3>2, <3>3, <3>4, <3>5, <3>6
        DEF Next, Ended, Command, FlowNext, Loop, SettleHere, DropLoser, Launch, EndPass,
            HearFlow, Hear, TimePasses, vars, portVars
  <2> QED
      BY <2>2, <2>3
<1> QED
    BY <1>1, EngineInvariance, UnknownInvariance, PTL DEF Spec, UnknownStops

(***************************************************************************)
(* Graphs.                                                                 *)
(***************************************************************************)
Place(n) == CHOOSE i \in DOMAIN graph.order : graph.order[i] = n

LEMMA Places ==
  ASSUME graph \in Graphs
  PROVE  /\ Len(graph.order) \in Nat
         /\ \A n \in Nodes : Place(n) \in 1..Len(graph.order) /\ graph.order[Place(n)] = n
         /\ \A i \in 1..Len(graph.order) : graph.order[i] \in Nodes
         /\ \A i \in DOMAIN graph.edges : /\ graph.edges[i].from \in Nodes /\ graph.edges[i].to \in Nodes
                                          /\ Place(graph.edges[i].from) < Place(graph.edges[i].to)
<1>1. graph.order \in Seq(Nodes)
      BY GraphsValid DEF Nodes
<1>2. \A n \in Nodes : \E i \in DOMAIN graph.order : graph.order[i] = n
      BY GraphsValid DEF Nodes
<1>3. \A n \in Nodes : Place(n) \in DOMAIN graph.order /\ graph.order[Place(n)] = n
      BY <1>2 DEF Place
<1>4. \A i \in DOMAIN graph.edges : {graph.edges[i].from, graph.edges[i].to} \subseteq DOMAIN graph.kind
      BY GraphsValid
<1>5. \A i \in DOMAIN graph.edges : \A p, q \in DOMAIN graph.order :
        graph.order[p] = graph.edges[i].from /\ graph.order[q] = graph.edges[i].to => p < q
      BY GraphsValid
<1>6. \A i \in DOMAIN graph.edges : Place(graph.edges[i].from) < Place(graph.edges[i].to)
      BY <1>3, <1>4, <1>5 DEF Nodes
<1> QED
    BY <1>1, <1>3, <1>4, <1>6 DEF Nodes

\* What is above a node, if f says what is above its predecessors.
Above(f, m) == UNION {{graph.edges[i].from} \cup f[graph.edges[i].from] : i \in Into(m)}
UpTo(k) == \E f \in [Nodes -> SUBSET Nodes] : \A m \in Nodes : Place(m) <= k => f[m] = Above(f, m)

LEMMA AboveNext ==
  ASSUME graph \in Graphs, NEW k \in Nat \ {0}, UpTo(k - 1)
  PROVE  UpTo(k)
<1>1. PICK f \in [Nodes -> SUBSET Nodes] : \A m \in Nodes : Place(m) <= k - 1 => f[m] = Above(f, m)
      BY DEF UpTo
<1> DEFINE g == [m \in Nodes |-> Above(f, m)]
<1>2. g \in [Nodes -> SUBSET Nodes]
  <2>1. \A m \in Nodes : Above(f, m) \subseteq Nodes
        BY Places, <1>1 DEF Above, Into
  <2> QED
      BY <2>1
<1>3. ASSUME NEW m \in Nodes, Place(m) <= k
      PROVE  g[m] = Above(g, m)
  <2>1. \A i \in Into(m) : /\ graph.edges[i].from \in Nodes
                           /\ Place(graph.edges[i].from) \in Nat /\ Place(graph.edges[i].from) < Place(m)
        BY Places DEF Into
  <2>2. Place(m) \in Nat
        BY Places
  <2>3. \A i \in Into(m) : Place(graph.edges[i].from) <= k - 1
        BY <1>3, <2>1, <2>2
  <2>4. \A i \in Into(m) : f[graph.edges[i].from] = g[graph.edges[i].from]
        BY <1>1, <2>1, <2>3
  <2>5. Above(f, m) = Above(g, m)
    <3> HIDE DEF g
    <3>1. \A x : x \in Above(f, m) <=> x \in Above(g, m)
          BY <2>4 DEF Above
    <3> QED
        BY <3>1
  <2> QED
      BY <2>5
<1> QED
    BY <1>2, <1>3 DEF UpTo

LEMMA AboveAll ==
  ASSUME graph \in Graphs
  PROVE  UpTo(Len(graph.order))
<1>1. SUFFICES ASSUME ~UpTo(Len(graph.order)) PROVE FALSE
      OBVIOUS
<1> DEFINE S == {k \in Nat : ~UpTo(k)}
<1>2. Len(graph.order) \in S
      BY <1>1, Places
<1>3. PICK k \in S : \A j \in S : k <= j
      BY <1>2, LeastNat
<1>4. UpTo(0)
  <2>1. [m \in Nodes |-> {}] \in [Nodes -> SUBSET Nodes]
        OBVIOUS
  <2>2. \A m \in Nodes : ~(Place(m) <= 0)
        BY Places
  <2> QED
      BY <2>1, <2>2 DEF UpTo
<1>5. k # 0 /\ k - 1 \in Nat /\ k - 1 \notin S
      BY <1>3, <1>4
<1> QED
    BY <1>3, <1>5, AboveNext

\* workflowAncestors, unfolded once.
LEMMA AncestorsAre ==
  ASSUME graph \in Graphs
  PROVE  \A m \in Nodes : Ancestors(m) =
           UNION {{graph.edges[i].from} \cup Ancestors(graph.edges[i].from) : i \in Into(m)}
<1> DEFINE above == CHOOSE f : f = [m \in Nodes |-> Above(f, m)]
<1>1. PICK f \in [Nodes -> SUBSET Nodes] : \A m \in Nodes : f[m] = Above(f, m)
  <2>1. PICK f \in [Nodes -> SUBSET Nodes] :
           \A m \in Nodes : Place(m) <= Len(graph.order) => f[m] = Above(f, m)
        BY AboveAll DEF UpTo
  <2>2. \A m \in Nodes : Place(m) <= Len(graph.order)
        BY Places
  <2> QED
      BY <2>1, <2>2
<1>2. f = [m \in Nodes |-> Above(f, m)]
      BY <1>1
<1>3. above = [m \in Nodes |-> Above(above, m)]
      BY <1>2
<1>4. \A m : Ancestors(m) = above[m]
      BY DEF Ancestors, Above
<1>5. \A m \in Nodes : above[m] = Above(above, m)
      BY <1>3
<1>6. \A m \in Nodes : Above(above, m) =
         UNION {{graph.edges[i].from} \cup Ancestors(graph.edges[i].from) : i \in Into(m)}
  <2> HIDE DEF above
  <2> QED
      BY <1>4 DEF Above
<1> QED
    BY <1>4, <1>5, <1>6

\* What is above a node comes before it.
LEMMA AncestorsBefore ==
  ASSUME graph \in Graphs
  PROVE  \A m \in Nodes : \A x \in Ancestors(m) : x \in Nodes /\ Place(x) < Place(m)
<1> DEFINE Fine(m) == \A x \in Ancestors(m) : x \in Nodes /\ Place(x) < Place(m)
           S == {Place(m) : m \in {n \in Nodes : ~Fine(n)}}
<1>1. SUFFICES ASSUME S # {} PROVE FALSE
      OBVIOUS
<1>2. S \in SUBSET Nat
      BY Places
<1>3. PICK p \in S : \A q \in S : p <= q
      BY <1>1, <1>2, LeastNat
<1>4. PICK m \in Nodes : p = Place(m) /\ ~Fine(m)
      BY <1>3
<1>5. \A n \in Nodes : Place(n) < Place(m) => Fine(n)
  <2>1. \A n \in Nodes : Place(n) \in Nat
        BY Places
  <2>2. ASSUME NEW n \in Nodes, Place(n) < Place(m), ~Fine(n) PROVE FALSE
    <3>1. Place(n) \in S
          BY <2>2
    <3> QED
        BY <1>3, <1>4, <2>1, <2>2, <3>1
  <2> QED
      BY <2>2
<1>6. PICK x \in Ancestors(m) : ~(x \in Nodes /\ Place(x) < Place(m))
      BY <1>4
<1>7. PICK i \in Into(m) : x = graph.edges[i].from \/ x \in Ancestors(graph.edges[i].from)
      BY <1>6, AncestorsAre
<1>8. /\ graph.edges[i].from \in Nodes /\ Place(graph.edges[i].from) < Place(m)
      /\ Place(graph.edges[i].from) \in Nat /\ Place(m) \in Nat
      BY <1>7, Places DEF Into
<1>9. Fine(graph.edges[i].from)
      BY <1>5, <1>8
<1>10. x \in Nodes => Place(x) \in Nat
      BY Places
<1> QED
    BY <1>6, <1>7, <1>8, <1>9, <1>10

(***************************************************************************)
(* The loop over the graph.                                                *)
(***************************************************************************)
From(i) == graph.edges[i].from

\* The loop is at a join and abandons the losers of one of its active edges.
AtJoin ==
  \E n \in Nodes \ (DOMAIN outcome \cup DOMAIN node) :
    /\ engine.next \in DOMAIN graph.order /\ n = graph.order[engine.next] /\ graph.kind[n] = "any"
    /\ \E i \in InState(n, "active") : engine.won = {From(i)}

PassOK ==
  /\ engine.pc \in {"visit", "await"} => ~heard /\ (engine.next = 1 \/ engine.advanced \/ engine.won # {})
  /\ engine.scope => engine.fatal # "none"
  /\ engine.fatal # "stuck"
  /\ engine.won # {} => engine.pc \in {"visit", "await"} /\ AtJoin

\* Until a Host dies, who lost at a join that has gone ahead has its outcome.
JoinsOK ==
  run.kind = "workflow" /\ run.attempt = 1 /\ crashes = 0 =>
    /\ run.state = "queued" => value = Nothing
    /\ \A j \in Nodes :
         graph.kind[j] = "any" /\ (j \in DOMAIN node \/ (j \in DOMAIN outcome /\ outcome[j] = "succeeded"))
         => \E i \in InState(j, "active") : Losers(j, From(i)) \subseteq DOMAIN outcome

\* What the checkpoint says of an edge for good: its source need not run again.
Sure(i) == From(i) \in DOMAIN value /\ value[From(i)] \in {"succeeded", "yes", "no"} /\
           (value[From(i)] \in {"yes", "no"} => value[From(i)] = graph.edges[i].on)
RuledOut(i) == From(i) \in DOMAIN value /\ value[From(i)] \in {"skipped", "yes", "no"} /\
           (value[From(i)] \in {"yes", "no"} => value[From(i)] # graph.edges[i].on)

\* A join above that has a winner; all ways in were ruled out; all of them went well.
Beaten(n) == \E j \in Nodes : graph.kind[j] = "any" /\ n \in Ancestors(j) /\ \E i \in Into(j) : Sure(i)
Passed(n) == Into(n) # {} /\ \A i \in Into(n) : RuledOut(i)
Fed(n) == \A i \in Into(n) : From(i) \in Cached

\* Why a node may have the outcome it has.
Deserves(n, r) ==
  /\ r = "skipped" => Beaten(n) \/ Passed(n)
  /\ r \in {"succeeded", "yes", "no"} /\ graph.kind[n] # "any" => Fed(n)
  /\ r \in {"yes", "no"} => graph.kind[n] = "condition"

ResultsOK == \A n \in DOMAIN value : Deserves(n, value[n])

\* A join fails only if no way in was open, unless the execution is stopped.
ClosedJoin(n) == \A i \in Into(n) : From(i) \in DOMAIN outcome /\ ~Sure(i)

\* Why the nodes of this execution are where they are.
ReasonsOK ==
  /\ engine.pc # "idle" => Cached \subseteq DOMAIN outcome
  /\ \A n \in abandoned : Beaten(n)
  /\ \A n \in DOMAIN node : /\ graph.kind[n] # "any" => Fed(n)
                            /\ node[n].at # "launched" => graph.kind[n] = "agent"
  /\ \A n \in DOMAIN outcome :
       graph.kind[n] = "any" /\ outcome[n] \in Bad /\ ~Aborted => ClosedJoin(n)
  /\ engine.pc = "drain" => Complete \/ Aborted
\* workflowAncestors and workflowAnyLosers as functions of the graph alone.
AncestorsIn(g, n) ==
  LET above[m \in DOMAIN g.kind] ==
        UNION {{g.edges[i].from} \cup above[g.edges[i].from] : i \in {e \in DOMAIN g.edges : g.edges[e].to = m}}
  IN  above[n]
OnlyIn(g, join, x) ==
  LET only[n \in DOMAIN g.kind] ==
        n = join \/ (/\ {e \in DOMAIN g.edges : g.edges[e].from = n} # {}
                    /\ \A i \in {e \in DOMAIN g.edges : g.edges[e].from = n} : only[g.edges[i].to])
  IN  only[x]

LEMMA GraphAlone ==
  /\ \A n : Ancestors(n) = AncestorsIn(graph, n)
  /\ \A j, w : Losers(j, w) = {n \in Nodes : /\ n \in Ancestors(j) \ (Ancestors(w) \cup {w})
                                           /\ OnlyIn(graph, j, n)}
<1>1. \A n : Ancestors(n) = AncestorsIn(graph, n)
      BY DEF Ancestors, AncestorsIn, Nodes, Into
<1>2. \A j, w : Losers(j, w) = {n \in Nodes : /\ n \in Ancestors(j) \ (Ancestors(w) \cup {w})
                                           /\ OnlyIn(graph, j, n)}
      BY DEF Losers, OnlyIn, OutOf, Nodes
<1> QED
    BY <1>1, <1>2

LEMMA GraphStays ==
  ASSUME graph' = graph
  PROVE  /\ Nodes' = Nodes
         /\ \A i : From(i)' = From(i)
         /\ \A n : Into(n)' = Into(n) /\ Ancestors(n)' = Ancestors(n)
         /\ \A j, w : Losers(j, w)' = Losers(j, w)
<1>1. Nodes' = Nodes /\ (\A i : From(i)' = From(i)) /\ \A n : Into(n)' = Into(n) /\ OutOf(n)' = OutOf(n)
      BY DEF Nodes, From, Into, OutOf
<1>2. \A n : Ancestors(n)' = Ancestors(n)
  <2>1. \A n : Ancestors(n)' = AncestorsIn(graph', n)
        BY DEF Ancestors, AncestorsIn, Nodes, Into
  <2> QED
      BY <2>1, GraphAlone
<1>3. \A j, w : Losers(j, w)' = Losers(j, w)
  <2>1. \A j, w : Losers(j, w)' = {n \in Nodes' : /\ n \in Ancestors(j)' \ (Ancestors(w)' \cup {w})
                                              /\ OnlyIn(graph', j, n)}
        BY DEF Losers, OnlyIn, OutOf, Nodes
  <2> QED
      BY <1>1, <1>2, <2>1, GraphAlone
<1> QED
    BY <1>1, <1>2, <1>3

\* An outcome of this execution is in the checkpoint, so an edge that is
\* active or was passed over now is so for good.
LEMMA EdgesSay ==
  ASSUME EngineInv, NEW n, NEW i \in Into(n)
  PROVE  /\ EdgeState(i) \in {"pending", "active", "skipped", "failed"}
         /\ EdgeState(i) = "pending" <=> From(i) \notin DOMAIN outcome
         /\ EdgeState(i) = "active" <=> From(i) \in DOMAIN outcome /\ Sure(i)
         /\ EdgeState(i) = "skipped" <=> From(i) \in DOMAIN outcome /\ RuledOut(i)
         /\ EdgeState(i) = "failed" <=> From(i) \in DOMAIN outcome /\ outcome[From(i)] \in Bad
<1>1. From(i) \in DOMAIN outcome =>
        From(i) \in DOMAIN value /\ value[From(i)] = outcome[From(i)] /\ outcome[From(i)] \in Outcomes
      BY DEF EngineInv, FlowInv, NodesOK
<1> QED
    BY <1>1 DEF EdgeState, From, Sure, RuledOut, Outcomes, Bad

(***************************************************************************)
(* The step of a node.                                                     *)
(***************************************************************************)
Finished(n, r) ==
  /\ n \in DOMAIN node /\ node' = Drop(node, n)
  /\ value' = Put(value, n, Shown(n, r)) /\ outcome' = Put(outcome, n, Shown(n, r))
  /\ UNCHANGED <<run, heard, crashes, graph, abandoned>>
  /\ engine'.next = engine.next /\ engine'.advanced = engine.advanced /\ engine'.won = engine.won
  /\ engine'.pc = engine.pc \/ (engine.pc = "race" /\ engine'.pc = "woken")
  /\ engine.scope => engine'.scope
  /\ engine'.scope => engine.scope \/ engine'.fatal # "none"
  /\ engine'.fatal = "none" => engine.fatal = "none"
  /\ engine'.fatal = "stuck" => engine.fatal = "stuck"

GoesOn(n) ==
  /\ n \in DOMAIN node /\ graph.kind[n] = "agent" /\ (\E x : node' = Put(node, n, x))
  /\ UNCHANGED <<run, heard, crashes, graph, value, engine, outcome, abandoned>>

LEMMA EndsFinish ==
  ASSUME EngineInv, NEW n \in DOMAIN node, NEW r, NodeEnds(n, r), UNCHANGED <<run, heard, crashes>>
  PROVE  Finished(n, r)
<1>1. engine \in Engines
      BY DEF EngineInv, FlowInv, EngineOK
<1>2. PICK f \in {"unknown", "cancelled", engine.fatal} :
         /\ engine' = [engine EXCEPT !.fatal = f, !.scope = @ \/ r = "unknown" \/ (r = "cancelled" /\ ~Off(n)),
                                     !.pc = IF @ = "race" THEN "woken" ELSE @]
         /\ r = "unknown" => f = "unknown"
         /\ r = "cancelled" /\ ~Off(n) => f # "none"
         /\ f = "none" => engine.fatal = "none"
      BY DEF NodeEnds
<1>3. /\ engine'.next = engine.next /\ engine'.advanced = engine.advanced /\ engine'.won = engine.won
      /\ engine'.pc = engine.pc \/ (engine.pc = "race" /\ engine'.pc = "woken")
      /\ engine'.fatal = f
      /\ engine'.scope <=> engine.scope \/ r = "unknown" \/ (r = "cancelled" /\ ~Off(n))
      BY <1>1, <1>2 DEF Engines
<1> QED
    BY <1>2, <1>3 DEF Finished, NodeEnds, Record

LEMMA NodeStepIs ==
  ASSUME EngineInv, ReasonsOK, NEW n \in Nodes, NodeStep(n)
  PROVE  \/ \E r \in Outcomes \ {"skipped"} :
              /\ Finished(n, r)
              /\ r \in {"yes", "no"} => graph.kind[n] = "condition"
              /\ graph.kind[n] = "any" => r = "succeeded" \/ (r = "cancelled" /\ Off(n))
         \/ GoesOn(n)
         \/ UNCHANGED <<run, heard, crashes, flowVars>>
<1>1. ASSUME NEW k, n \in DOMAIN node, graph.kind[n] = "agent", Attempt(n, k)
      PROVE  Finished(n, "cancelled") \/ GoesOn(n)
      BY <1>1, EndsFinish DEF Attempt, GoesOn, portVars
<1>2. CASE Execute(n)
  <2>1. n \in DOMAIN node
        BY <1>2 DEF Execute
  <2>2. CASE graph.kind[n] = "agent"
        BY <1>1, <1>2, <2>1, <2>2 DEF Execute, Outcomes, Bad
  <2>3. CASE graph.kind[n] # "agent"
    <3>1. PICK r \in IF Off(n) THEN {"cancelled"}
                     ELSE IF graph.kind[n] = "condition" THEN {"yes", "no"} ELSE {"succeeded"} :
             NodeEnds(n, r) /\ UNCHANGED portVars
          BY <1>2, <2>3 DEF Execute
    <3>2. Finished(n, r)
          BY <2>1, <3>1, EndsFinish DEF portVars
    <3> QED
        BY <3>1, <3>2 DEF Outcomes, Bad
  <2> QED
      BY <2>2, <2>3
<1>3. CASE Judge(n)
  <2>1. n \in DOMAIN node /\ graph.kind[n] = "agent" /\ UNCHANGED <<run, heard, crashes>>
        BY <1>3, JudgeIs DEF ReasonsOK
  <2>2. CASE \E r \in Bad \cup {"succeeded"} : NodeEnds(n, r)
        BY <2>1, <2>2, EndsFinish DEF Outcomes, Bad
  <2>3. CASE /\ engine' = [engine EXCEPT !.pc = IF @ = "race" THEN "woken" ELSE @]
             /\ Record(n, Shown(n, "failed")) /\ node' = Drop(node, n) /\ UNCHANGED <<graph, abandoned>>
    <3>1. engine \in Engines
          BY DEF EngineInv, FlowInv, EngineOK
    <3>2. Finished(n, "failed")
          BY <2>1, <2>3, <3>1 DEF Finished, Record, Engines
    <3> QED
        BY <2>1, <3>2 DEF Outcomes, Bad
  <2>4. CASE /\ node' = Put(node, n, [at |-> "backoff", k |-> node[n].k])
             /\ UNCHANGED <<graph, abandoned, value, engine, outcome>>
        BY <2>1, <2>4 DEF GoesOn
  <2> QED
      BY <1>3, <2>2, <2>3, <2>4, JudgeIs
<1>4. CASE BackoffAborted(n)
  <2>1. n \in DOMAIN node /\ NodeEnds(n, "cancelled") /\ UNCHANGED portVars /\ graph.kind[n] = "agent"
        BY <1>4 DEF BackoffAborted, ReasonsOK
  <2> QED
      BY <2>1, EndsFinish DEF portVars, Outcomes, Bad
<1>5. CASE Retry(n)
  <2>1. n \in DOMAIN node /\ graph.kind[n] = "agent" /\ Attempt(n, node[n].k + 1)
        BY <1>5 DEF Retry, RetryDue, ReasonsOK
  <2> QED
      BY <1>1, <2>1 DEF Outcomes, Bad
<1>6. CASE FlowTurn(n)
      BY <1>6 DEF FlowTurn
<1> QED
    BY <1>2, <1>3, <1>4, <1>5, <1>6 DEF NodeStep

(***************************************************************************)
(* The loop always finds something to do.                                  *)
(***************************************************************************)
LEMMA WinnerSays ==
  ASSUME EngineInv, PassOK, NEW n \in Nodes \ (DOMAIN outcome \cup DOMAIN node), InState(n, "active") # {}
  PROVE  \E i \in InState(n, "active") : Winner(n) = From(i)
<1>1. PICK i \in InState(n, "active") :
        Winner(n) = IF engine.won # {} /\ n = graph.order[engine.next]
                    THEN CHOOSE w \in engine.won : TRUE ELSE graph.edges[i].from
      BY FirstActive
<1>2. CASE engine.won # {} /\ n = graph.order[engine.next]
  <2>1. PICK k \in InState(n, "active") : engine.won = {From(k)}
        BY <1>2 DEF PassOK, AtJoin
  <2>2. (CHOOSE w \in {From(k)} : TRUE) = From(k)
        OBVIOUS
  <2> QED
      BY <1>1, <1>2, <2>1, <2>2
<1>3. CASE ~(engine.won # {} /\ n = graph.order[engine.next])
      BY <1>1, <1>3 DEF From
<1> QED
    BY <1>2, <1>3

\* An active edge stays active while the engine goes on.
LEMMA ActiveKeeps ==
  ASSUME graph' = graph, \A n \in DOMAIN outcome : n \in DOMAIN outcome' /\ outcome'[n] = outcome[n],
         NEW n, NEW i \in InState(n, "active")
  PROVE  i \in InState(n, "active")'
<1>1. i \in Into(n) /\ EdgeState(i) = "active"
      BY DEF InState
<1>2. From(i) \in DOMAIN outcome
      BY <1>1 DEF EdgeState, From
<1>3. EdgeState(i)' = "active"
      BY <1>1, <1>2 DEF EdgeState, From
<1> QED
    BY <1>1, <1>3 DEF InState, Into

LEMMA AtJoinKeeps ==
  ASSUME graph' = graph, \A n \in DOMAIN outcome : n \in DOMAIN outcome' /\ outcome'[n] = outcome[n],
         engine'.next = engine.next, engine'.won = engine.won, AtJoin,
         graph.order[engine.next] \notin DOMAIN outcome' \cup DOMAIN node'
  PROVE  AtJoin'
<1>1. PICK n \in Nodes \ (DOMAIN outcome \cup DOMAIN node) :
         /\ engine.next \in DOMAIN graph.order /\ n = graph.order[engine.next] /\ graph.kind[n] = "any"
         /\ \E i \in InState(n, "active") : engine.won = {From(i)}
      BY DEF AtJoin
<1>2. PICK i \in InState(n, "active") : engine.won = {From(i)}
      BY <1>1
<1>3. i \in InState(n, "active")' /\ From(i)' = From(i) /\ n \in Nodes'
      BY ActiveKeeps, GraphStays
<1> QED
    BY <1>1, <1>2, <1>3 DEF AtJoin

\* A pass that starts nothing while nothing runs has been stopped.
LEMMA NotStuck ==
  ASSUME EngineInv, PassOK, EndPass, node = Nothing, ~engine.advanced, DOMAIN outcome # Nodes
  PROVE  engine.fatal # "none"
<1>1. engine.pc = "visit" /\ ~heard /\ (Aborted \/ Todo = {})
      BY DEF EndPass, PassOK
<1>2. CASE Aborted
      BY <1>1, <1>2 DEF Aborted, PassOK
<1>3. CASE Todo = {}
  <2>1. graph \in Graphs /\ engine.next \in Nat \ {0} /\ DOMAIN outcome \subseteq Nodes
        BY DEF EngineInv, FlowInv, EngineOK, NodesOK, Engines, Pos
  <2>2. ASSUME NEW i \in engine.next..Len(graph.order), graph.order[i] \notin DOMAIN outcome
        PROVE  /\ Decision(graph.order[i]) = "wait"
               /\ InState(graph.order[i], "pending") # {}
               /\ ~(graph.kind[graph.order[i]] = "any" /\ InState(graph.order[i], "active") # {})
    <3>1. Decision(graph.order[i]) = "wait"
          BY <1>3, <2>2, EmptyFunction DEF Todo
    <3>2. LosersLeft(graph.order[i]) = {}
          BY EmptyFunction DEF LosersLeft
    <3> QED
        BY <3>1, <3>2 DEF Decision
  <2>3. engine.next = 1
    <3>1. SUFFICES ASSUME engine.next # 1 PROVE FALSE
          OBVIOUS
    <3>2. AtJoin
          BY <1>1, <3>1 DEF PassOK
    <3>3. /\ engine.next \in DOMAIN graph.order /\ graph.order[engine.next] \notin DOMAIN outcome
          /\ graph.kind[graph.order[engine.next]] = "any"
          /\ InState(graph.order[engine.next], "active") # {}
          BY <3>2 DEF AtJoin
    <3>4. engine.next \in engine.next..Len(graph.order)
      <4>1. graph.order \in Seq(Nodes)
            BY <2>1, GraphsValid DEF Nodes
      <4> QED
          BY <2>1, <3>3, <4>1
    <3> QED
        BY <2>2, <3>3, <3>4
  <2> DEFINE S == {Place(n) : n \in Nodes \ DOMAIN outcome}
  <2>4. S # {} /\ S \in SUBSET Nat
    <3>1. \E n \in Nodes : n \notin DOMAIN outcome
          BY <2>1
    <3>2. \A n \in Nodes : Place(n) \in Nat
          BY <2>1, Places
    <3> QED
        BY <3>1, <3>2
  <2>5. PICK p \in S : \A q \in S : p <= q
        BY <2>4, LeastNat
  <2>6. PICK n \in Nodes \ DOMAIN outcome : p = Place(n)
        BY <2>5
  <2>7. Place(n) \in 1..Len(graph.order) /\ graph.order[Place(n)] = n /\ Len(graph.order) \in Nat
        BY <2>1, Places
  <2>8. InState(n, "pending") # {}
        BY <2>2, <2>3, <2>7
  <2>9. PICK i \in Into(n) : EdgeState(i) = "pending"
        BY <2>8 DEF InState
  <2>10. From(i) \notin DOMAIN outcome
        BY <2>9, EdgesSay
  <2>11. From(i) \in Nodes /\ Place(From(i)) < Place(n) /\ Place(From(i)) \in Nat
        BY <2>1, Places DEF From, Into
  <2>12. Place(From(i)) \in S
        BY <2>10, <2>11
  <2>13. p <= Place(From(i))
        BY <2>5, <2>12
  <2> HIDE DEF S
  <2> QED
      BY <2>6, <2>7, <2>11, <2>13
<1> QED
    BY <1>1, <1>2, <1>3

LEMMA PassStill ==
  ASSUME EngineInv, PassOK, UNCHANGED <<graph, engine, outcome>>, DOMAIN node' = DOMAIN node,
         engine.pc \in {"visit", "await"} => heard' = heard
  PROVE  PassOK'
<1>1. engine.won # {} => AtJoin'
  <2> SUFFICES ASSUME engine.won # {} PROVE AtJoin'
      OBVIOUS
  <2>1. AtJoin
        BY DEF PassOK
  <2>2. graph.order[engine.next] \notin DOMAIN outcome' \cup DOMAIN node'
        BY <2>1 DEF AtJoin
  <2> QED
      BY <2>1, <2>2, AtJoinKeeps
<1> QED
    BY <1>1 DEF PassOK

LEMMA PassLeaves ==
  ASSUME engine'.won = {}, engine'.fatal # "stuck", engine'.scope => engine'.fatal # "none",
         engine'.pc \in {"visit", "await"} => ~heard' /\ (engine'.next = 1 \/ engine'.advanced)
  PROVE  PassOK'
BY DEF PassOK

LEMMA DropLoserPass ==
  ASSUME EngineInv, PassOK, DropLoser
  PROVE  PassOK'
<1>0. PICK j : j = graph.order[First]
      OBVIOUS
<1>1. Todo # {} /\ engine.pc = "visit" /\ Decision(j) = "drop" /\ UNCHANGED <<heard, graph, node>>
      BY <1>0 DEF DropLoser, portVars
<1>2. PICK l \in LosersToDrop(j) :
         /\ engine' = [engine EXCEPT !.pc = IF l \in DOMAIN node THEN "visit" ELSE "await",
                                     !.next = First, !.won = {Winner(j)}]
         /\ IF l \in DOMAIN node THEN UNCHANGED <<value, outcome>> ELSE Record(l, "skipped")
      BY <1>0 DEF DropLoser
<1>3. engine \in Engines /\ graph \in Graphs
      BY DEF EngineInv, FlowInv, EngineOK, NodesOK
<1>4. /\ engine'.pc \in {"visit", "await"} /\ engine'.next = First /\ engine'.won = {Winner(j)}
      /\ engine'.fatal = engine.fatal /\ engine'.scope = engine.scope
      BY <1>2, <1>3 DEF Engines
<1>5. First \in DOMAIN graph.order /\ j \in Nodes \ (DOMAIN outcome \cup DOMAIN node)
      BY <1>0, <1>1, FirstIs
<1>6. graph.kind[j] = "any" /\ InState(j, "active") # {}
      BY <1>1, DroppingIs
<1>7. PICK i \in InState(j, "active") : Winner(j) = From(i)
      BY <1>5, <1>6, WinnerSays
<1>8. l \in Ancestors(j) /\ l \notin DOMAIN outcome
      BY GraphAlone DEF LosersToDrop
<1>9. l # j
  <2>1. Place(l) < Place(j) /\ Place(j) \in Nat /\ l \in Nodes
        BY <1>3, <1>5, <1>8, AncestorsBefore, Places
  <2>2. Place(l) \in Nat
        BY <1>3, <2>1, Places
  <2> QED
      BY <2>1, <2>2
<1>10. /\ \A n \in DOMAIN outcome : n \in DOMAIN outcome' /\ outcome'[n] = outcome[n]
       /\ j \notin DOMAIN outcome' \cup DOMAIN node'
      BY <1>1, <1>2, <1>5, <1>8, <1>9 DEF Record, Put
<1>11. i \in InState(j, "active")' /\ From(i)' = From(i) /\ Nodes' = Nodes
      BY <1>1, <1>7, <1>10, ActiveKeeps, GraphStays
<1>12. AtJoin'
      BY <1>0, <1>1, <1>4, <1>5, <1>6, <1>7, <1>10, <1>11 DEF AtJoin
<1> QED
    BY <1>1, <1>4, <1>12 DEF PassOK

LEMMA LoopPass ==
  ASSUME EngineInv, PassOK, Loop \/ SettleHere \/ Launch \/ EndPass
  PROVE  PassOK'
<1>1. engine \in Engines /\ UNCHANGED heard
      BY DEF EngineInv, FlowInv, EngineOK, Loop, SettleHere, Launch, EndPass, portVars
<1>2. \A e : e = Looping(engine) => /\ e.won = {} /\ e.next = 1 /\ e.fatal = engine.fatal
                                    /\ e.scope = engine.scope /\ (e.pc # "drain" => ~heard)
                                    /\ e.pc \in {"drain", "visit"}
      BY <1>1 DEF Looping, Engines, Aborted
<1>3. CASE Loop
  <2>1. CASE engine.pc = "woken"
        BY <1>1, <1>2, <1>3, <2>1, PassLeaves DEF Loop, PassOK
  <2>2. CASE engine.pc = "await"
    <3>1. /\ engine' = [engine EXCEPT !.pc = "visit"] /\ UNCHANGED <<graph, outcome, node>>
          BY <1>3, <2>2 DEF Loop
    <3>2. /\ engine'.pc = "visit" /\ engine'.next = engine.next /\ engine'.won = engine.won
          /\ engine'.fatal = engine.fatal /\ engine'.scope = engine.scope
          /\ engine'.advanced = engine.advanced
          BY <1>1, <3>1 DEF Engines
    <3>3. AtJoin => AtJoin'
          BY <3>1, <3>2, AtJoinKeeps DEF AtJoin
    <3> QED
        BY <1>1, <2>2, <3>2, <3>3 DEF PassOK
  <2> QED
      BY <1>3, <2>1, <2>2 DEF Loop
<1>4. CASE SettleHere \/ Launch
  <2>1. engine.pc = "visit" /\ engine'.won = {} /\ engine'.advanced /\ engine'.fatal = engine.fatal
        /\ engine'.scope = engine.scope
        BY <1>1, <1>4 DEF SettleHere, Launch, Engines
  <2> QED
      BY <1>1, <2>1, PassLeaves DEF PassOK
<1>5. CASE EndPass
  <2>1. engine.pc = "visit"
        BY <1>5 DEF EndPass
  <2>2. CASE node # Nothing
        BY <1>1, <1>5, <2>2, PassLeaves DEF EndPass, PassOK, Engines
  <2>3. CASE node = Nothing /\ ~engine.advanced /\ DOMAIN outcome # Nodes
    <3>1. engine.fatal # "none"
          BY <1>5, <2>3, NotStuck
    <3> QED
        BY <1>1, <1>5, <2>3, <3>1, PassLeaves DEF EndPass, PassOK, Engines
  <2>4. CASE node = Nothing /\ ~(~engine.advanced /\ DOMAIN outcome # Nodes)
        BY <1>1, <1>2, <1>5, <2>4, PassLeaves DEF EndPass, PassOK
  <2> QED
      BY <2>2, <2>3, <2>4
<1> QED
    BY <1>3, <1>4, <1>5

LEMMA FinishedPass ==
  ASSUME EngineInv, PassOK, NEW n, NEW r, Finished(n, r)
  PROVE  PassOK'
<1>1. n \in DOMAIN node /\ n \notin DOMAIN outcome
      BY DEF Finished, EngineInv, FlowInv, NodesOK
<1>2. /\ \A m \in DOMAIN outcome : m \in DOMAIN outcome' /\ outcome'[m] = outcome[m]
      /\ \A m : m \notin DOMAIN outcome \cup DOMAIN node => m \notin DOMAIN outcome' \cup DOMAIN node'
      BY <1>1 DEF Finished, Put, Drop
<1>3. AtJoin => AtJoin'
  <2> SUFFICES ASSUME AtJoin PROVE AtJoin'
      OBVIOUS
  <2>1. graph.order[engine.next] \notin DOMAIN outcome' \cup DOMAIN node'
        BY <1>2 DEF AtJoin
  <2> QED
      BY <1>2, <2>1, AtJoinKeeps DEF Finished
<1> QED
    BY <1>3 DEF Finished, PassOK

LEMMA PassStep ==
  ASSUME EngineInv, ReasonsOK, PassOK, [Next]_vars
  PROVE  PassOK'
<1>1. CASE GroupNext /\ UNCHANGED flowVars
  <2>1. engine.pc = "idle"
        BY <1>1, GroupOnly DEF EngineInv, FlowInv, EngineOK
  <2> QED
      BY <1>1, <2>1, PassStill DEF flowVars
<1>2. CASE (Stop \/ Resume) /\ UNCHANGED flowVars
      BY <1>2, PassStill DEF Stop, Resume, flowVars
<1>3. CASE UNCHANGED vars \/ TimePasses
      BY <1>3, PassStill DEF vars, portVars, flowVars, TimePasses
<1>4. CASE BeginFlow
      BY <1>4, IdleFields, PassLeaves DEF BeginFlow, Idle
<1>5. CASE FinishFlow \/ CrashFlow
      BY <1>5, IdleFields, PassLeaves DEF FinishFlow, CrashFlow
<1>6. CASE HearFlow
      BY <1>6, PassStill DEF HearFlow, Ready, flowVars
<1>7. CASE \E n \in Nodes : NodeStep(n)
  <2>1. PICK n \in Nodes : NodeStep(n)
        BY <1>7
  <2>2. CASE \E r : Finished(n, r)
        BY <2>2, FinishedPass
  <2>3. CASE GoesOn(n)
        BY <2>3, PassStill DEF GoesOn, Put
  <2>4. CASE UNCHANGED <<run, heard, crashes, flowVars>>
        BY <2>4, PassStill DEF flowVars
  <2> QED
      BY <2>1, <2>2, <2>3, <2>4, NodeStepIs
<1> QED
    BY <1>1, <1>2, <1>3, <1>4, <1>5, <1>6, <1>7, LoopPass, DropLoserPass
    DEF Next, FlowNext, Ended, Command

LEMMA StuckInit == Init => PassOK
BY IdleFields, PassLeaves DEF Init, FlowInit, PassOK

(***************************************************************************)
(* Losers.                                                                 *)
(***************************************************************************)
Gone(j) == graph.kind[j] = "any" /\ (j \in DOMAIN node \/ (j \in DOMAIN outcome /\ outcome[j] = "succeeded"))
Alone(j) == \E i \in InState(j, "active") : Losers(j, From(i)) \subseteq DOMAIN outcome

LEMMA JoinsStay ==
  ASSUME JoinsOK, graph' = graph, run'.kind = run.kind, run'.attempt = run.attempt, crashes' = crashes,
         run'.state = "queued" => run.state = "queued" /\ value' = value,
         \A n \in DOMAIN outcome : n \in DOMAIN outcome' /\ outcome'[n] = outcome[n],
         \A j \in Nodes : Gone(j)' => Gone(j) \/ Alone(j)
  PROVE  JoinsOK'
<1>1. ASSUME NEW j \in Nodes, Alone(j)
      PROVE  Alone(j)'
  <2>1. PICK i \in InState(j, "active") : Losers(j, From(i)) \subseteq DOMAIN outcome
        BY <1>1 DEF Alone
  <2>2. i \in InState(j, "active")'
        BY ActiveKeeps
  <2>3. From(i)' = From(i) /\ \A w : Losers(j, w)' = Losers(j, w)
        BY GraphStays
  <2>4. Losers(j, From(i))' \subseteq DOMAIN outcome'
        BY <2>1, <2>3
  <2> QED
      BY <2>2, <2>4 DEF Alone
<1>2. Nodes' = Nodes
      BY GraphStays
<1> QED
    BY <1>1, <1>2 DEF JoinsOK, Gone, Alone

LEMMA LaunchAlone ==
  ASSUME EngineInv, PassOK, Launch, NEW j, j = graph.order[First], graph.kind[j] = "any"
  PROVE  Alone(j)
<1>1. /\ j \in Nodes \ (DOMAIN outcome \cup DOMAIN node) /\ Decision(j) = "launch"
      /\ graph \in Graphs
      BY FirstIs DEF Launch, EngineInv, FlowInv, NodesOK
<1>2. CASE InState(j, "active") # {}
  <2>1. LosersToDrop(j) = {} /\ LosersLeft(j) = {}
        BY <1>1, <1>2 DEF Decision
  <2>2. PICK i \in InState(j, "active") : Winner(j) = From(i)
        BY <1>1, <1>2, WinnerSays
  <2>3. Losers(j, Winner(j)) \subseteq DOMAIN outcome
        BY <2>1 DEF LosersToDrop, LosersLeft
  <2> QED
      BY <2>2, <2>3 DEF Alone
<1>3. CASE InState(j, "active") = {}
  <2>1. Into(j) = {}
        BY <1>1, <1>3 DEF Decision
  <2>2. \A n \in DOMAIN graph.kind :
          graph.kind[n] = "start" <=> {i \in DOMAIN graph.edges : graph.edges[i].to = n} = {}
        BY <1>1, GraphsValid
  <2>3. graph.kind[j] = "start"
        BY <1>1, <2>1, <2>2 DEF Into, Nodes
  <2> QED
      BY <2>3
<1> QED
    BY <1>2, <1>3

LEMMA JoinsStep ==
  ASSUME EngineInv, PassOK, ReasonsOK, JoinsOK, [Next]_vars
  PROVE  JoinsOK'
<1>1. CASE GroupNext
      BY <1>1, GroupOnly DEF EngineInv, JoinsOK
<1>2. CASE Stop /\ UNCHANGED flowVars
  <2>1. run'.kind = run.kind /\ run'.attempt = run.attempt /\ run'.state # "queued"
        BY <1>2 DEF Stop, Live, EngineInv, DeskInv, RunOK
  <2> QED
      BY <1>2, <2>1, JoinsStay DEF Stop, flowVars, Gone
<1>3. CASE Resume
  <2>1. run'.attempt # 1
        BY <1>3 DEF Resume, EngineInv, DeskInv, RunOK
  <2> QED
      BY <2>1 DEF JoinsOK
<1>4. CASE UNCHANGED vars \/ TimePasses \/ HearFlow
      BY <1>4, JoinsStay DEF vars, portVars, flowVars, TimePasses, HearFlow, Hear, Gone
<1>5. CASE BeginFlow
  <2>1. /\ run.state = "queued" /\ run'.state = "running" /\ run'.kind = run.kind
        /\ run'.attempt = run.attempt /\ crashes' = crashes /\ UNCHANGED <<graph, node>>
        /\ outcome' = [n \in Cached |-> value[n]]
        BY <1>5 DEF BeginFlow, Begun, EngineInv, DeskInv, RunOK
  <2>2. node = Nothing
        BY <2>1 DEF EngineInv, FlowInv, EngineOK
  <2>3. value = Nothing => DOMAIN outcome' = {}
        BY <2>1, EmptyFunction DEF Cached
  <2> QED
      BY <2>1, <2>2, <2>3, EmptyFunction DEF JoinsOK
<1>6. CASE FinishFlow
  <2>1. node' = Nothing /\ outcome' = Nothing
        BY <1>6 DEF FinishFlow
  <2>2. FlowResult # "queued"
    <3>1. engine.fatal \in {"none", "stuck", "cancelled", "unknown"}
          BY DEF EngineInv, FlowInv, EngineOK, Engines
    <3> QED
        BY <3>1 DEF FlowResult, Bad
  <2>3. run'.state # "queued"
        BY <1>6, <2>2 DEF FinishFlow, Settled, Outcome, EngineInv, DeskInv, RunOK
  <2> QED
      BY <2>1, <2>3, EmptyFunction DEF JoinsOK
<1>7. CASE CrashFlow
  <2>1. crashes' # 0
        BY <1>7 DEF CrashFlow, Crashed, EngineInv, DeskInv, RunOK
  <2> QED
      BY <2>1 DEF JoinsOK
<1>8. CASE Loop \/ EndPass
      BY <1>8, JoinsStay DEF Loop, EndPass, portVars, Gone
<1>9. CASE SettleHere \/ DropLoser
  <2>0. PICK j : j = graph.order[First]
        OBVIOUS
  <2>1. \E n, r : /\ n \notin DOMAIN outcome /\ r \in {"skipped", "failed"}
                  /\ outcome' = outcome \/ outcome' = Put(outcome, n, r)
    <3>1. CASE SettleHere
      <4>1. j \notin DOMAIN outcome
            BY <2>0, <3>1, FirstIs DEF SettleHere
      <4>2. outcome' = Put(outcome, j, IF Decision(j) = "skip" THEN "skipped" ELSE "failed")
            BY <2>0, <3>1 DEF SettleHere, Record
      <4> QED
          BY <4>1, <4>2
    <3>2. CASE DropLoser
      <4>1. PICK l \in LosersToDrop(j) : outcome' = outcome \/ outcome' = Put(outcome, l, "skipped")
            BY <2>0, <3>2 DEF DropLoser, Record
      <4> QED
          BY <4>1 DEF LosersToDrop
    <3> QED
        BY <1>9, <3>1, <3>2
  <2>2. UNCHANGED <<run, crashes, graph, node>>
        BY <1>9 DEF SettleHere, DropLoser, portVars
  <2>3. run.state # "queued"
        BY <1>9 DEF SettleHere, DropLoser, EngineInv, FlowInv, EngineOK
  <2> QED
      BY <2>1, <2>2, <2>3, JoinsStay DEF Put, Gone
<1>10. CASE Launch
  <2>1. PICK j : j = graph.order[First]
        OBVIOUS
  <2>2. UNCHANGED <<run, crashes, graph, value, outcome>> /\ DOMAIN node' = DOMAIN node \cup {j}
        BY <1>10, <2>1 DEF Launch, portVars, Put
  <2>3. graph.kind[j] = "any" => Alone(j)
        BY <1>10, <2>1, LaunchAlone
  <2> QED
      BY <2>2, <2>3, JoinsStay DEF Gone
<1>11. CASE \E n \in Nodes : NodeStep(n)
  <2>1. PICK n \in Nodes : NodeStep(n)
        BY <1>11
  <2>2. CASE \E r : Finished(n, r)
    <3>1. n \in DOMAIN node /\ n \notin DOMAIN outcome /\ run.state # "queued"
          BY <2>2, AtNode DEF Finished, EngineInv, FlowInv, NodesOK
    <3> QED
        BY <2>2, <3>1, JoinsStay DEF Finished, Put, Drop, Gone
  <2>3. CASE GoesOn(n)
        BY <2>3, JoinsStay DEF GoesOn, Put, Gone
  <2>4. CASE UNCHANGED <<run, heard, crashes, flowVars>>
        BY <2>4, JoinsStay DEF flowVars, Gone
  <2> QED
      BY <2>1, <2>2, <2>3, <2>4, NodeStepIs
<1> QED
    BY <1>1, <1>2, <1>3, <1>4, <1>5, <1>6, <1>7, <1>8, <1>9, <1>10, <1>11
    DEF Next, FlowNext, Ended, Command

(***************************************************************************)
(* Why a node has the outcome it has.                                      *)
(***************************************************************************)
\* What is finished stays finished, and with it what an edge says for good.
LEMMA ReasonsKeep ==
  ASSUME graph' = graph, \A n \in Cached : n \in DOMAIN value' /\ value'[n] = value[n]
  PROVE  /\ Cached \subseteq Cached'
         /\ \A i : (Sure(i) => Sure(i)') /\ (RuledOut(i) => RuledOut(i)')
         /\ \A n \in Nodes : (Beaten(n) => Beaten(n)') /\ (Passed(n) => Passed(n)') /\ (Fed(n) => Fed(n)')
<1>1. Cached \subseteq Cached'
      BY DEF Cached
<1>2. \A i : (Sure(i) => Sure(i)') /\ (RuledOut(i) => RuledOut(i)')
      BY DEF Sure, RuledOut, From, Cached
<1>3. /\ Nodes' = Nodes /\ (\A i : From(i)' = From(i))
      /\ \A n : Into(n)' = Into(n) /\ Ancestors(n)' = Ancestors(n)
      BY GraphStays
<1>4. \A n \in Nodes : Beaten(n) => Beaten(n)'
  <2> SUFFICES ASSUME NEW n \in Nodes, Beaten(n) PROVE Beaten(n)'
      OBVIOUS
  <2>1. PICK j \in Nodes : graph.kind[j] = "any" /\ n \in Ancestors(j) /\ \E i \in Into(j) : Sure(i)
        BY DEF Beaten
  <2>2. PICK i \in Into(j) : Sure(i)
        BY <2>1
  <2>3. n \in Ancestors(j)' /\ i \in Into(j)' /\ Sure(i)' /\ j \in Nodes'
        BY <1>2, <1>3, <2>1, <2>2
  <2> QED
      BY <2>1, <2>3 DEF Beaten
<1>5. \A n : Passed(n) => Passed(n)'
      BY <1>2, <1>3 DEF Passed
<1>6. \A n : Fed(n) => Fed(n)'
      BY <1>1, <1>3 DEF Fed
<1> QED
    BY <1>1, <1>2, <1>4, <1>5, <1>6

\* An outcome given for a reason.
Reasoned(n, r) ==
  /\ n \notin DOMAIN outcome /\ Record(n, r) /\ Deserves(n, r) /\ engine.pc # "idle"
  /\ graph.kind[n] = "any" /\ r \in Bad => ClosedJoin(n) \/ Aborted'

LEMMA ReasonsMove ==
  ASSUME EngineInv, ResultsOK, ReasonsOK, graph' = graph,
         UNCHANGED <<value, outcome>> \/ \E n \in Nodes : \E r : Reasoned(n, r),
         Aborted => Aborted', engine.pc = "idle" => engine'.pc = "idle",
         \A n \in abandoned' : n \in abandoned \/ (n \in Nodes /\ Beaten(n)),
         \A n \in DOMAIN node' : /\ n \in DOMAIN node \/ (n \in Nodes /\ (graph.kind[n] # "any" => Fed(n)))
                                 /\ node'[n].at # "launched" => graph.kind[n] = "agent",
         engine'.pc = "drain" => Complete' \/ Aborted'
  PROVE  ResultsOK' /\ ReasonsOK'
<1>1. /\ Nodes' = Nodes /\ (\A i : From(i)' = From(i)) /\ \A n : Into(n)' = Into(n)
      BY GraphStays
<1>2. /\ \A n \in Cached : n \in DOMAIN value' /\ value'[n] = value[n]
      /\ \A n \in DOMAIN outcome : n \in DOMAIN outcome' /\ outcome'[n] = outcome[n] /\ value'[n] = value[n]
      /\ engine.pc # "idle" => Cached' \subseteq DOMAIN outcome'
  <2>1. CASE UNCHANGED <<value, outcome>>
        BY <2>1 DEF ReasonsOK, Cached
  <2>2. CASE \E n \in Nodes : \E r : Reasoned(n, r)
    <3>1. PICK n, r : n \notin DOMAIN outcome /\ Record(n, r) /\ engine.pc # "idle"
          BY <2>2 DEF Reasoned
    <3>2. Cached \subseteq DOMAIN outcome
          BY <3>1 DEF ReasonsOK
    <3>3. /\ DOMAIN value' = DOMAIN value \cup {n} /\ DOMAIN outcome' = DOMAIN outcome \cup {n}
          /\ \A m \in DOMAIN value : m # n => value'[m] = value[m]
          /\ \A m \in DOMAIN outcome : m # n => outcome'[m] = outcome[m]
          BY <3>1 DEF Record, Put
    <3>4. \A m \in DOMAIN outcome : m \in DOMAIN value
          BY DEF EngineInv, FlowInv, NodesOK
    <3>5. Cached' \subseteq Cached \cup {n}
          BY <3>3 DEF Cached
    <3>6. \A m \in Cached : m \in DOMAIN value
          BY DEF Cached
    <3> QED
        BY <3>1, <3>2, <3>3, <3>4, <3>5, <3>6
  <2> QED
      BY <2>1, <2>2
<1>3. /\ \A i : (Sure(i) => Sure(i)') /\ (RuledOut(i) => RuledOut(i)')
      /\ \A n \in Nodes : (Beaten(n) => Beaten(n)') /\ (Passed(n) => Passed(n)') /\ (Fed(n) => Fed(n)')
      BY <1>2, ReasonsKeep
<1>4. \A n \in Nodes : \A r : Deserves(n, r) => Deserves(n, r)'
      BY <1>3 DEF Deserves
<1>5. \A n \in Nodes : ClosedJoin(n) => ClosedJoin(n)'
  <2> SUFFICES ASSUME NEW n \in Nodes, ClosedJoin(n), NEW i \in Into(n)
               PROVE  From(i) \in DOMAIN outcome' /\ ~Sure(i)'
      BY <1>1 DEF ClosedJoin
  <2>1. From(i) \in DOMAIN outcome /\ ~Sure(i)
        BY DEF ClosedJoin
  <2>2. From(i) \in DOMAIN outcome' /\ value'[From(i)] = value[From(i)] /\ From(i) \in DOMAIN value
        BY <1>2, <2>1 DEF EngineInv, FlowInv, NodesOK
  <2> QED
      BY <1>1, <2>1, <2>2 DEF Sure
<1>6. \A n \in DOMAIN node : n \in Nodes
      BY DEF EngineInv, FlowInv, NodesOK
<1>7. ResultsOK' /\ \A n \in DOMAIN outcome' :
        graph'.kind[n] = "any" /\ outcome'[n] \in Bad /\ ~Aborted' => ClosedJoin(n)'
  <2>1. \A n \in DOMAIN value : n \in Nodes /\ Deserves(n, value[n])
        BY DEF ResultsOK, EngineInv, FlowInv, NodesOK
  <2>2. \A n \in DOMAIN outcome : n \in Nodes /\ (graph.kind[n] = "any" /\ outcome[n] \in Bad /\ ~Aborted => ClosedJoin(n))
        BY DEF ReasonsOK, EngineInv, FlowInv, NodesOK
  <2>3. CASE UNCHANGED <<value, outcome>>
        BY <1>4, <1>5, <2>1, <2>2, <2>3 DEF ResultsOK
  <2>4. CASE \E n \in Nodes : \E r : Reasoned(n, r)
    <3>0. PICK n \in Nodes : \E r : Reasoned(n, r)
          BY <2>4
    <3>1. PICK r : Reasoned(n, r)
          BY <3>0
    <3>2. /\ DOMAIN value' = DOMAIN value \cup {n} /\ DOMAIN outcome' = DOMAIN outcome \cup {n}
          /\ value'[n] = r /\ outcome'[n] = r
          /\ \A m \in DOMAIN value : m # n => value'[m] = value[m]
          /\ \A m \in DOMAIN outcome : m # n => outcome'[m] = outcome[m]
          BY <3>1 DEF Reasoned, Record, Put
    <3>3. Deserves(n, r) /\ (graph.kind[n] = "any" /\ r \in Bad => ClosedJoin(n) \/ Aborted')
          BY <3>1 DEF Reasoned
    <3>4. \A m \in DOMAIN value' : m \in Nodes /\ Deserves(m, value[m])'
      <4>1. \A m \in DOMAIN value' : \/ m \in DOMAIN value /\ value'[m] = value[m]
                                     \/ m = n /\ value'[m] = r
            BY <3>2
      <4>2. ASSUME NEW m \in DOMAIN value' PROVE m \in Nodes /\ Deserves(m, value[m])'
        <5>1. PICK v : v = value'[m]
              OBVIOUS
        <5>2. m \in Nodes /\ Deserves(m, v)
              BY <2>1, <3>3, <4>1, <5>1
        <5>3. Deserves(m, v)'
              BY <1>4, <5>2
        <5> QED
            BY <5>1, <5>2, <5>3
      <4> QED
          BY <4>2
    <3>5. \A m \in DOMAIN outcome' : \/ m \in DOMAIN outcome /\ outcome'[m] = outcome[m]
                                     \/ m = n /\ outcome'[m] = r
          BY <3>2
    <3> QED
        BY <1>5, <2>2, <3>3, <3>4, <3>5 DEF ResultsOK
  <2> QED
      BY <2>3, <2>4
<1>8. \A n \in abandoned' : Beaten(n)'
      BY <1>3 DEF ReasonsOK, EngineInv, FlowInv, NodesOK
<1>9. \A n \in DOMAIN node' : /\ graph'.kind[n] # "any" => Fed(n)'
                              /\ node'[n].at # "launched" => graph'.kind[n] = "agent"
      BY <1>3, <1>6 DEF ReasonsOK
<1> QED
    BY <1>2, <1>7, <1>8, <1>9 DEF ReasonsOK

\* Between executions only the checkpoint is left.
LEMMA GoneReasons ==
  ASSUME ResultsOK, graph' = graph, value' = value, engine'.pc = "idle",
         node' = Nothing, outcome' = Nothing, abandoned' = {}
  PROVE  ResultsOK' /\ ReasonsOK'
<1>1. /\ Nodes' = Nodes /\ (\A i : From(i)' = From(i)) /\ Cached' = Cached
      /\ \A n : Into(n)' = Into(n) /\ Ancestors(n)' = Ancestors(n)
      BY GraphStays DEF Cached
<1>2. \A i : (Sure(i)' <=> Sure(i)) /\ (RuledOut(i)' <=> RuledOut(i))
      BY <1>1 DEF Sure, RuledOut
<1>3. \A n : (Beaten(n)' <=> Beaten(n)) /\ (Passed(n)' <=> Passed(n)) /\ (Fed(n)' <=> Fed(n))
      BY <1>1, <1>2 DEF Beaten, Passed, Fed
<1>4. \A n, r : Deserves(n, r) => Deserves(n, r)'
      BY <1>3 DEF Deserves
<1>5. ResultsOK'
      BY <1>4 DEF ResultsOK
<1> QED
    BY <1>5, EmptyFunction DEF ReasonsOK

LEMMA StillReasons ==
  ASSUME EngineInv, ResultsOK, ReasonsOK, UNCHANGED flowVars, Aborted => Aborted'
  PROVE  ResultsOK' /\ ReasonsOK'
<1>1. engine.pc = "drain" => Complete' \/ Aborted'
      BY GraphStays DEF ReasonsOK, Complete, flowVars
<1> QED
    BY <1>1, ReasonsMove DEF flowVars, ReasonsOK

LEMMA BeginReasons ==
  ASSUME EngineInv, ResultsOK, ReasonsOK, BeginFlow
  PROVE  ResultsOK' /\ ReasonsOK'
<1>1. /\ graph' = graph /\ value' = value /\ node' = node /\ abandoned' = abandoned
      /\ outcome' = [n \in Cached |-> value[n]] /\ engine'.pc = "woken" /\ run.state = "queued"
      BY IdleFields DEF BeginFlow, Begun, Idle
<1>2. node = Nothing /\ abandoned = {}
      BY <1>1 DEF EngineInv, FlowInv, EngineOK
<1>3. /\ Nodes' = Nodes /\ (\A i : From(i)' = From(i)) /\ Cached' = Cached
      /\ \A n : Into(n)' = Into(n) /\ Ancestors(n)' = Ancestors(n)
      BY <1>1, GraphStays DEF Cached
<1>4. \A i : (Sure(i)' <=> Sure(i)) /\ (RuledOut(i)' <=> RuledOut(i))
      BY <1>1, <1>3 DEF Sure, RuledOut
<1>5. \A n : (Beaten(n)' <=> Beaten(n)) /\ (Passed(n)' <=> Passed(n)) /\ (Fed(n)' <=> Fed(n))
      BY <1>1, <1>3, <1>4 DEF Beaten, Passed, Fed
<1>6. \A n, r : Deserves(n, r) => Deserves(n, r)'
      BY <1>1, <1>5 DEF Deserves
<1>7. ResultsOK'
      BY <1>1, <1>6 DEF ResultsOK
<1>8. \A n \in DOMAIN outcome' : outcome'[n] \notin Bad
      BY <1>1 DEF Cached, Bad
<1> QED
    BY <1>1, <1>2, <1>3, <1>7, <1>8, EmptyFunction DEF ReasonsOK

\* What the loop finds out about the node it is at.
LEMMA DecisionSays ==
  ASSUME EngineInv, ReasonsOK, NEW n \in Nodes \ DOMAIN outcome
  PROVE  /\ Decision(n) = "skip" => Beaten(n) \/ Passed(n)
         /\ Decision(n) = "fail" => (graph.kind[n] = "any" => ClosedJoin(n))
         /\ Decision(n) = "launch" => (graph.kind[n] # "any" => Fed(n))
<1>1. \A i \in Into(n) : i \in InState(n, EdgeState(i))
      BY DEF InState
<1>2. ASSUME Decision(n) = "skip" PROVE Beaten(n) \/ Passed(n)
  <2>1. CASE n \in abandoned
        BY <2>1 DEF ReasonsOK
  <2>2. CASE n \notin abandoned
    <3>1. InState(n, "pending") = {} /\ InState(n, "failed") = {} /\ Into(n) # {} /\ InState(n, "active") = {}
          BY <1>2, <2>2 DEF Decision
    <3>2. \A i \in Into(n) : EdgeState(i) = "skipped"
          BY <1>1, <3>1, EdgesSay
    <3>3. \A i \in Into(n) : RuledOut(i)
          BY <3>2, EdgesSay
    <3> QED
        BY <3>1, <3>3 DEF Passed
  <2> QED
      BY <2>1, <2>2
<1>3. ASSUME Decision(n) = "fail", graph.kind[n] = "any" PROVE ClosedJoin(n)
  <2>1. InState(n, "active") = {} /\ InState(n, "pending") = {}
        BY <1>3 DEF Decision
  <2>2. \A i \in Into(n) : EdgeState(i) # "active" /\ EdgeState(i) # "pending"
        BY <1>1, <2>1
  <2> QED
      BY <1>3, <2>2, EdgesSay DEF ClosedJoin
<1>4. ASSUME Decision(n) = "launch", graph.kind[n] # "any" PROVE Fed(n)
  <2>1. InState(n, "failed") = {} /\ InState(n, "pending") = {}
        BY <1>4 DEF Decision
  <2>2. \A i \in Into(n) : EdgeState(i) # "failed" /\ EdgeState(i) # "pending"
        BY <1>1, <2>1
  <2>3. \A i \in Into(n) : From(i) \in DOMAIN outcome /\ outcome[From(i)] \notin Bad
        BY <2>2, EdgesSay
  <2>4. \A i \in Into(n) : From(i) \in DOMAIN value /\ value[From(i)] \in Outcomes \ Bad
        BY <2>3 DEF EngineInv, FlowInv, NodesOK
  <2> QED
      BY <2>4 DEF Fed, Cached, Outcomes
<1> QED
    BY <1>2, <1>3, <1>4

LEMMA SettleHereReasons ==
  ASSUME EngineInv, PassOK, ResultsOK, ReasonsOK, SettleHere
  PROVE  ResultsOK' /\ ReasonsOK'
<1>1. PICK n : n = graph.order[First]
      OBVIOUS
<1>2. PICK r : r = IF Decision(n) = "skip" THEN "skipped" ELSE "failed"
      OBVIOUS
<1>3. /\ Todo # {} /\ engine.pc = "visit" /\ Decision(n) \in {"skip", "fail"} /\ Record(n, r)
      /\ UNCHANGED <<heard, graph, node, abandoned>>
      BY <1>1, <1>2 DEF SettleHere, portVars
<1>4. engine'.pc = "await" /\ engine'.scope = engine.scope
      BY DEF SettleHere, EngineInv, FlowInv, EngineOK, Engines
<1>5. n \in Nodes \ DOMAIN outcome
      BY <1>1, <1>3, FirstIs
<1>6. Reasoned(n, r)
      BY <1>2, <1>3, <1>5, DecisionSays DEF Reasoned, Deserves, Bad
<1> QED
    BY <1>3, <1>4, <1>5, <1>6, ReasonsMove DEF Aborted, ReasonsOK

LEMMA DropLoserReasons ==
  ASSUME EngineInv, PassOK, ResultsOK, ReasonsOK, DropLoser
  PROVE  ResultsOK' /\ ReasonsOK'
<1>0. PICK j : j = graph.order[First]
      OBVIOUS
<1>1. /\ Todo # {} /\ engine.pc = "visit" /\ Decision(j) = "drop"
      /\ UNCHANGED <<heard, graph, node>>
      BY <1>0 DEF DropLoser, portVars
<1>2. PICK l \in LosersToDrop(j) :
         /\ abandoned' = abandoned \cup {l}
         /\ engine' = [engine EXCEPT !.pc = IF l \in DOMAIN node THEN "visit" ELSE "await",
                                     !.next = First, !.won = {Winner(j)}]
         /\ IF l \in DOMAIN node THEN UNCHANGED <<value, outcome>> ELSE Record(l, "skipped")
      BY <1>0 DEF DropLoser
<1>3. engine'.pc \in {"visit", "await"} /\ engine'.scope = engine.scope
      BY <1>2 DEF EngineInv, FlowInv, EngineOK, Engines
<1>4. j \in Nodes /\ graph.kind[j] = "any" /\ InState(j, "active") # {}
      BY <1>0, <1>1, FirstIs, DroppingIs
<1>5. \E i \in Into(j) : Sure(i)
      BY <1>4, EdgesSay DEF InState
<1>6. l \in Nodes /\ l \in Ancestors(j) /\ l \notin DOMAIN outcome
      BY GraphAlone DEF LosersToDrop
<1>7. Beaten(l)
      BY <1>4, <1>5, <1>6 DEF Beaten
<1>8. l \notin DOMAIN node => Reasoned(l, "skipped")
      BY <1>1, <1>2, <1>6, <1>7 DEF Reasoned, Deserves, Bad
<1>9. UNCHANGED <<value, outcome>> \/ \E n \in Nodes : \E r : Reasoned(n, r)
      BY <1>2, <1>6, <1>8
<1>10. \A n \in abandoned' : n \in abandoned \/ (n \in Nodes /\ Beaten(n))
      BY <1>2, <1>6, <1>7
<1> QED
    BY <1>1, <1>3, <1>9, <1>10, ReasonsMove DEF Aborted, ReasonsOK

LEMMA LaunchReasons ==
  ASSUME EngineInv, ResultsOK, ReasonsOK, Launch
  PROVE  ResultsOK' /\ ReasonsOK'
<1>0. PICK j : j = graph.order[First]
      OBVIOUS
<1>1. /\ Todo # {} /\ engine.pc = "visit" /\ Decision(j) = "launch"
      /\ UNCHANGED <<heard, graph, value, outcome, abandoned>>
      /\ node' = Put(node, j, [at |-> "launched", k |-> 0])
      BY <1>0 DEF Launch, portVars
<1>2. engine'.pc = "visit" /\ engine'.scope = engine.scope
      BY <1>1 DEF Launch, EngineInv, FlowInv, EngineOK, Engines
<1>3. j \in Nodes \ DOMAIN outcome
      BY <1>0, <1>1, FirstIs
<1>4. graph.kind[j] # "any" => Fed(j)
      BY <1>1, <1>3, DecisionSays
<1>5. \A n \in DOMAIN node' : /\ n \in DOMAIN node \/ (n \in Nodes /\ (graph.kind[n] # "any" => Fed(n)))
                              /\ node'[n].at # "launched" => graph.kind[n] = "agent"
      BY <1>1, <1>3, <1>4 DEF Put, ReasonsOK
<1> QED
    BY <1>1, <1>2, <1>5, ReasonsMove DEF Aborted

LEMMA LoopReasons ==
  ASSUME EngineInv, ResultsOK, ReasonsOK, Loop \/ EndPass
  PROVE  ResultsOK' /\ ReasonsOK'
<1>1. engine \in Engines /\ UNCHANGED <<heard, graph, value, node, outcome, abandoned>> /\ engine.pc # "idle"
      BY DEF EngineInv, FlowInv, EngineOK, Loop, EndPass, portVars
<1>2. \A e : e = Looping(engine) => e.scope = engine.scope /\ (e.pc = "drain" => Complete \/ Aborted)
      BY <1>1 DEF Looping, Engines
<1>3. (engine.scope => engine'.scope) /\ (engine'.pc = "drain" => Complete \/ Aborted')
      BY <1>1, <1>2 DEF Loop, EndPass, Engines, Aborted
<1>4. Complete => Complete'
      BY <1>1, GraphStays DEF Complete
<1> QED
    BY <1>1, <1>3, <1>4, ReasonsMove DEF Aborted, ReasonsOK

LEMMA FinishedReasons ==
  ASSUME EngineInv, ResultsOK, ReasonsOK, NEW n \in Nodes, NEW r \in Outcomes \ {"skipped"}, Finished(n, r),
         r \in {"yes", "no"} => graph.kind[n] = "condition",
         graph.kind[n] = "any" => r = "succeeded" \/ (r = "cancelled" /\ Off(n))
  PROVE  ResultsOK' /\ ReasonsOK'
<1>1. /\ n \in DOMAIN node /\ n \notin DOMAIN outcome /\ engine.pc # "idle"
      BY AtNode, EmptyFunction DEF Finished, EngineInv, FlowInv, NodesOK
<1>2. Aborted => Aborted'
      BY DEF Finished, Aborted
<1>3. n \in abandoned => Beaten(n)
      BY DEF ReasonsOK
<1>4. graph.kind[n] # "any" => Fed(n)
      BY <1>1 DEF ReasonsOK
<1>5. Deserves(n, Shown(n, r))
      BY <1>3, <1>4 DEF Deserves, Shown
<1>6. graph.kind[n] = "any" /\ Shown(n, r) \in Bad => Aborted
      BY DEF Shown, Bad, Off
<1>7. Reasoned(n, Shown(n, r))
      BY <1>1, <1>2, <1>5, <1>6 DEF Reasoned, Record, Finished
<1>8. \A m \in DOMAIN node' : m \in DOMAIN node /\ node'[m] = node[m]
      BY DEF Finished, Drop
<1>9. engine'.pc = "drain" => Aborted
  <2>1. ~Complete
        BY <1>1, EmptyFunction DEF Complete
  <2> QED
      BY <2>1 DEF Finished, ReasonsOK
<1>10. engine.pc = "idle" => engine'.pc = "idle"
      BY <1>1
<1> QED
    BY <1>2, <1>7, <1>8, <1>9, <1>10, ReasonsMove DEF Finished, ReasonsOK

LEMMA GoesOnReasons ==
  ASSUME EngineInv, ResultsOK, ReasonsOK, NEW n \in Nodes, GoesOn(n)
  PROVE  ResultsOK' /\ ReasonsOK'
<1>1. engine.pc = "drain" => Aborted'
  <2>1. ~Complete
        BY EmptyFunction DEF Complete, GoesOn
  <2> QED
      BY <2>1 DEF GoesOn, ReasonsOK, Aborted
<1>2. \A m \in DOMAIN node' : /\ m \in DOMAIN node
                              /\ node'[m].at # "launched" => graph.kind[m] = "agent"
      BY DEF GoesOn, Put, ReasonsOK
<1> QED
    BY <1>1, <1>2, ReasonsMove DEF GoesOn, Aborted, ReasonsOK

LEMMA ReasonsStep ==
  ASSUME EngineInv, PassOK, ResultsOK, ReasonsOK, [Next]_vars
  PROVE  ResultsOK' /\ ReasonsOK'
<1>1. CASE GroupNext /\ UNCHANGED flowVars
  <2>1. engine = Idle /\ node = Nothing /\ outcome = Nothing /\ abandoned = {}
        BY <1>1, GroupOnly DEF EngineInv, FlowInv, EngineOK
  <2> QED
      BY <1>1, <2>1, IdleFields, GoneReasons DEF flowVars
<1>2. CASE (Stop \/ Resume) /\ UNCHANGED flowVars
      BY <1>2, StillReasons DEF Stop, Resume, flowVars, Aborted
<1>3. CASE UNCHANGED vars
      BY <1>3, StillReasons DEF vars, portVars, flowVars, Aborted
<1>4. CASE TimePasses
  <2>1. engine.pc = "drain" => Complete' \/ Aborted'
        BY <1>4, GraphStays DEF ReasonsOK, Complete, TimePasses, portVars, Aborted
  <2> QED
      BY <1>4, <2>1, ReasonsMove DEF TimePasses, portVars, Aborted, ReasonsOK
<1>5. CASE BeginFlow
      BY <1>5, BeginReasons
<1>6. CASE FinishFlow \/ CrashFlow
      BY <1>6, IdleFields, GoneReasons DEF FinishFlow, CrashFlow
<1>7. CASE HearFlow
      BY <1>7, StillReasons DEF HearFlow, Hear, flowVars, Aborted
<1>8. CASE \E n \in Nodes : NodeStep(n)
  <2>1. PICK n \in Nodes : NodeStep(n)
        BY <1>8
  <2>2. CASE \E r \in Outcomes \ {"skipped"} :
               /\ Finished(n, r)
               /\ r \in {"yes", "no"} => graph.kind[n] = "condition"
               /\ graph.kind[n] = "any" => r = "succeeded" \/ (r = "cancelled" /\ Off(n))
        BY <2>2, FinishedReasons
  <2>3. CASE GoesOn(n)
        BY <2>3, GoesOnReasons
  <2>4. CASE UNCHANGED <<run, heard, crashes, flowVars>>
        BY <2>4, StillReasons DEF flowVars, Aborted
  <2> QED
      BY <2>1, <2>2, <2>3, <2>4, NodeStepIs
<1> QED
    BY <1>1, <1>2, <1>3, <1>4, <1>5, <1>6, <1>7, <1>8, SettleHereReasons, DropLoserReasons, LaunchReasons,
       LoopReasons
    DEF Next, FlowNext, Ended, Command

(***************************************************************************)
(* A success reaches an end.                                               *)
(***************************************************************************)
\* The last node of a set of nodes.
LEMMA LastNode ==
  ASSUME graph \in Graphs, NEW S \in SUBSET Nodes, S # {}
  PROVE  \E n \in S : \A m \in S : Place(m) <= Place(n)
<1> DEFINE T == {Len(graph.order) - Place(n) : n \in S}
<1>1. \A n \in S : Place(n) \in Nat /\ Len(graph.order) \in Nat /\ Len(graph.order) - Place(n) \in Nat
      BY Places
<1>2. T \in SUBSET Nat /\ T # {}
      BY <1>1
<1>3. PICK p \in T : \A q \in T : p <= q
      BY <1>2, LeastNat
<1>4. PICK n \in S : p = Len(graph.order) - Place(n)
      BY <1>3
<1>5. ASSUME NEW m \in S PROVE Place(m) <= Place(n)
  <2>1. Len(graph.order) - Place(n) <= Len(graph.order) - Place(m)
        BY <1>3, <1>4
  <2> QED
      BY <1>1, <2>1
<1> QED
    BY <1>5

LEMMA AncestorsChain ==
  ASSUME graph \in Graphs, NEW j \in Nodes, NEW m \in Ancestors(j), NEW n \in Ancestors(m)
  PROVE  n \in Ancestors(j)
<1> DEFINE Missing == {k \in Nodes : m \in Ancestors(k) /\ n \notin Ancestors(k)}
           S == {Place(k) : k \in Missing}
<1>1. SUFFICES ASSUME Missing # {} PROVE FALSE
      OBVIOUS
<1>2. \A k \in Nodes : Place(k) \in Nat
      BY Places
<1>3. S \in SUBSET Nat /\ S # {}
      BY <1>1, <1>2
<1>4. PICK p \in S : \A q \in S : p <= q
      BY <1>3, LeastNat
<1>5. PICK k \in Missing : p = Place(k)
      BY <1>4
<1>6. PICK i \in Into(k) : m = From(i) \/ m \in Ancestors(From(i))
      BY <1>5, AncestorsAre DEF From
<1>7. From(i) \in Nodes /\ Place(From(i)) < Place(k) /\ Ancestors(From(i)) \subseteq Ancestors(k)
      BY <1>5, <1>6, Places, AncestorsAre DEF From, Into
<1>8. From(i) \notin Missing
  <2> SUFFICES ASSUME From(i) \in Missing PROVE FALSE
      OBVIOUS
  <2>1. Place(k) <= Place(From(i))
        BY <1>4, <1>5
  <2> QED
      BY <1>2, <1>5, <1>7, <2>1
<1> QED
    BY <1>5, <1>6, <1>7, <1>8

\* Every node but an end has a way out, and a condition one for either answer.
LEMMA Exits ==
  ASSUME graph \in Graphs, NEW n \in Nodes, graph.kind[n] # "end"
  PROVE  /\ OutOf(n) # {}
         /\ graph.kind[n] = "condition" => \A a \in {"yes", "no"} : \E i \in OutOf(n) : graph.edges[i].on = a
<1>1. \A m \in DOMAIN graph.kind :
        LET from(x) == {i \in DOMAIN graph.edges : graph.edges[i].from = x}
        IN  CASE graph.kind[m] = "end" -> from(m) = {}
            [] graph.kind[m] = "parallel" -> Cardinality(from(m)) >= 2
            [] graph.kind[m] = "condition" ->
                 {graph.edges[i].on : i \in from(m)} = {"yes", "no"} /\ Cardinality(from(m)) = 2
            [] OTHER -> Cardinality(from(m)) = 1
      BY GraphsValid
<1>2. \/ Cardinality(OutOf(n)) >= 2
      \/ {graph.edges[i].on : i \in OutOf(n)} = {"yes", "no"}
      \/ Cardinality(OutOf(n)) = 1
      BY <1>1 DEF OutOf, Nodes
<1>3. graph.kind[n] = "condition" => {graph.edges[i].on : i \in OutOf(n)} = {"yes", "no"}
      BY <1>1 DEF OutOf, Nodes
<1>4. OutOf(n) # {}
  <2> SUFFICES ASSUME OutOf(n) = {} PROVE FALSE
      OBVIOUS
  <2>1. Cardinality(OutOf(n)) = 0
        BY FS_EmptySet
  <2> QED
      BY <1>2, <2>1
<1>5. graph.kind[n] = "condition" => \A a \in {"yes", "no"} : \E i \in OutOf(n) : graph.edges[i].on = a
      BY <1>3
<1> QED
    BY <1>4, <1>5

\* Every node has an outcome, for a reason, and no end failed.
AllSettled ==
  /\ graph \in Graphs /\ DOMAIN value = Nodes
  /\ \A n \in Nodes : value[n] \in Outcomes /\ Deserves(n, value[n])
  /\ \A n \in Nodes : graph.kind[n] = "any" /\ value[n] \in Bad => \A i \in Into(n) : ~Sure(i)
  /\ \A n \in Nodes : graph.kind[n] = "end" => value[n] \notin Bad

\* Done without, by a join that went ahead.
Covered(n) == \E j \in Nodes : graph.kind[j] = "any" /\ value[j] = "succeeded" /\ n \in Ancestors(j)

LEMMA BeatenCovered ==
  ASSUME AllSettled, NEW n \in Nodes, Beaten(n)
  PROVE  Covered(n)
<1> DEFINE S == {j \in Nodes : graph.kind[j] = "any" /\ n \in Ancestors(j) /\ \E i \in Into(j) : Sure(i)}
<1>1. S # {} /\ S \in SUBSET Nodes
      BY DEF Beaten
<1>2. PICK j \in S : \A k \in S : Place(k) <= Place(j)
      BY <1>1, LastNode DEF AllSettled
<1>3. PICK i \in Into(j) : Sure(i)
      BY <1>2
<1>4. value[j] \in Outcomes /\ Deserves(j, value[j]) /\ value[j] \notin Bad
      BY <1>2, <1>3 DEF AllSettled
<1>5. value[j] \in {"succeeded", "skipped"}
      BY <1>2, <1>4 DEF Deserves, Outcomes
<1>6. CASE value[j] = "skipped"
  <2>1. ~Passed(j)
        BY <1>3 DEF Passed, Sure, RuledOut
  <2>2. Beaten(j)
        BY <1>4, <1>6, <2>1 DEF Deserves
  <2>3. PICK k \in Nodes : graph.kind[k] = "any" /\ j \in Ancestors(k) /\ \E e \in Into(k) : Sure(e)
        BY <2>2 DEF Beaten
  <2>4. n \in Ancestors(k)
        BY <1>2, <2>3, AncestorsChain DEF AllSettled
  <2>5. Place(j) < Place(k) /\ Place(j) \in Nat /\ Place(k) \in Nat
        BY <1>2, <2>3, AncestorsBefore, Places DEF AllSettled
  <2>6. Place(k) <= Place(j)
        BY <1>2, <2>3, <2>4
  <2> QED
      BY <2>5, <2>6
<1>7. CASE value[j] = "succeeded"
      BY <1>2, <1>7 DEF Covered
<1> QED
    BY <1>5, <1>6, <1>7

\* What is above a covered node is covered.
LEMMA CoveredAbove ==
  ASSUME AllSettled, NEW m \in Nodes, Covered(m), NEW n \in Ancestors(m)
  PROVE  Covered(n)
<1>1. PICK j \in Nodes : graph.kind[j] = "any" /\ value[j] = "succeeded" /\ m \in Ancestors(j)
      BY DEF Covered
<1>2. n \in Ancestors(j)
      BY <1>1, AncestorsChain DEF AllSettled
<1> QED
    BY <1>1, <1>2 DEF Covered

LEMMA FailuresCovered ==
  ASSUME AllSettled, NEW f \in Nodes, value[f] \in Bad
  PROVE  Covered(f)
<1> DEFINE S == {n \in Nodes : value[n] \in Bad /\ ~Covered(n)}
<1>1. SUFFICES ASSUME S # {} PROVE FALSE
      OBVIOUS
<1>2. graph \in Graphs /\ S \in SUBSET Nodes
      BY DEF AllSettled
<1>3. PICK n \in S : \A m \in S : Place(m) <= Place(n)
      BY <1>1, <1>2, LastNode
<1>4. OutOf(n) # {}
      BY <1>2, <1>3, Exits DEF AllSettled
<1>5. PICK i \in DOMAIN graph.edges : graph.edges[i].from = n
      BY <1>4 DEF OutOf
<1>6. PICK t : t = graph.edges[i].to
      OBVIOUS
<1>7. t \in Nodes /\ Place(n) < Place(t) /\ Place(n) \in Nat /\ Place(t) \in Nat /\ i \in Into(t) /\ From(i) = n
      BY <1>2, <1>3, <1>5, <1>6, Places DEF Into, From
<1>8. n \in Ancestors(t)
      BY <1>2, <1>5, <1>7, AncestorsAre
<1>9. ~Covered(t)
      BY <1>3, <1>7, <1>8, CoveredAbove
<1>10. t \notin S
      BY <1>3, <1>7
<1>11. value[t] \in Outcomes \ Bad /\ Deserves(t, value[t]) /\ ~Beaten(t)
      BY <1>7, <1>9, <1>10, BeatenCovered DEF AllSettled
<1>12. ~Passed(t) /\ ~Fed(t)
      BY <1>3, <1>7 DEF Passed, RuledOut, Fed, Cached, Bad
<1>13. value[t] \in {"succeeded", "yes", "no"} /\ graph.kind[t] = "any"
      BY <1>11, <1>12 DEF Deserves, Outcomes
<1>14. value[t] = "succeeded"
      BY <1>11, <1>13 DEF Deserves
<1> QED
    BY <1>3, <1>7, <1>8, <1>9, <1>13, <1>14 DEF Covered

LEMMA EndReached ==
  ASSUME AllSettled
  PROVE  \E n \in Nodes : graph.kind[n] = "end" /\ value[n] = "succeeded"
<1> DEFINE S == {n \in Nodes : value[n] \in {"succeeded", "yes", "no"}}
<1>1. graph \in Graphs /\ S \in SUBSET Nodes
      BY DEF AllSettled
<1>2. \A n \in Nodes : Covered(n) => \E j \in S : n \in Ancestors(j)
      BY DEF Covered
<1>3. S # {}
  <2>1. \A n \in DOMAIN graph.kind :
          graph.kind[n] = "start" <=> {i \in DOMAIN graph.edges : graph.edges[i].to = n} = {}
        BY <1>1, GraphsValid
  <2>2. \E s \in DOMAIN graph.kind : \A n \in DOMAIN graph.kind : graph.kind[n] = "start" <=> n = s
        BY <1>1, GraphsValid
  <2>3. PICK s \in Nodes : Into(s) = {}
        BY <2>1, <2>2 DEF Nodes, Into
  <2>4. value[s] \in Outcomes /\ Deserves(s, value[s])
        BY DEF AllSettled
  <2>5. CASE value[s] = "skipped"
    <3>1. Beaten(s)
          BY <2>3, <2>4, <2>5 DEF Deserves, Passed
    <3> QED
        BY <1>2, <3>1, BeatenCovered
  <2>6. CASE value[s] \in Bad
        BY <1>2, <2>6, FailuresCovered
  <2> QED
      BY <2>4, <2>5, <2>6 DEF Outcomes
<1>4. PICK n \in S : \A m \in S : Place(m) <= Place(n)
      BY <1>1, <1>3, LastNode
<1>5. CASE graph.kind[n] = "end"
  <2>1. value[n] = "succeeded"
        BY <1>4, <1>5 DEF AllSettled, Deserves
  <2> QED
      BY <1>4, <1>5, <2>1
<1>6. CASE graph.kind[n] # "end"
  <2>1. PICK i \in OutOf(n) : value[n] \in {"yes", "no"} => graph.edges[i].on = value[n]
    <3>1. CASE value[n] \in {"yes", "no"}
      <4>1. graph.kind[n] = "condition"
            BY <1>4, <3>1 DEF AllSettled, Deserves
      <4> QED
          BY <1>1, <1>4, <1>6, <3>1, <4>1, Exits
    <3>2. CASE value[n] \notin {"yes", "no"}
          BY <1>1, <1>4, <1>6, <3>2, Exits
    <3> QED
        BY <3>1, <3>2
  <2>2. PICK t : t = graph.edges[i].to
        OBVIOUS
  <2>3. t \in Nodes /\ Place(n) < Place(t) /\ Place(n) \in Nat /\ Place(t) \in Nat /\ i \in Into(t) /\ From(i) = n
        BY <1>1, <1>4, <2>1, <2>2, Places DEF Into, From, OutOf
  <2>4. Sure(i)
        BY <1>4, <2>1, <2>3 DEF Sure, AllSettled
  <2>5. t \notin S
        BY <1>4, <2>3
  <2>6. ~Covered(t)
    <3> SUFFICES ASSUME Covered(t) PROVE FALSE
        OBVIOUS
    <3>1. PICK j \in S : t \in Ancestors(j)
          BY <1>2, <2>3
    <3>2. Place(t) < Place(j) /\ Place(j) \in Nat /\ Place(j) <= Place(n)
          BY <1>1, <1>4, <3>1, AncestorsBefore, Places
    <3> QED
        BY <2>3, <3>2
  <2>7. value[t] \in Outcomes /\ Deserves(t, value[t]) /\ ~Beaten(t) /\ value[t] \notin Bad
        BY <2>3, <2>6, BeatenCovered, FailuresCovered DEF AllSettled
  <2>8. ~Passed(t)
        BY <2>3, <2>4 DEF Passed, Sure, RuledOut
  <2> QED
      BY <2>3, <2>5, <2>7, <2>8 DEF Deserves, Outcomes
<1> QED
    BY <1>5, <1>6

Reached ==
  /\ DOMAIN value = Nodes
  /\ \E n \in Nodes : graph.kind[n] = "end" /\ value[n] = "succeeded"
  /\ \A n \in Nodes : value[n] \in Bad =>
       \E j \in Nodes : graph.kind[j] = "any" /\ value[j] = "succeeded" /\ n \in Ancestors(j)

LEMMA ReachedStays ==
  ASSUME Reached, UNCHANGED <<graph, value>>
  PROVE  Reached'
<1>1. Nodes' = Nodes /\ \A n : Ancestors(n)' = Ancestors(n)
      BY GraphStays
<1> QED
    BY <1>1 DEF Reached

LEMMA SettledReached ==
  ASSUME AllSettled
  PROVE  Reached
BY EndReached, FailuresCovered DEF Reached, Covered, AllSettled

LEMMA FinishReaches ==
  ASSUME EngineInv, PassOK, ResultsOK, ReasonsOK, FinishFlow, run'.state = "succeeded"
  PROVE  Reached'
<1>1. /\ engine.pc = "drain" /\ node = Nothing /\ Settled(FlowResult, FALSE)
      /\ UNCHANGED <<graph, value>>
      BY DEF FinishFlow
<1>2. FlowResult = "succeeded"
      BY <1>1 DEF Settled, Outcome, EngineInv, DeskInv, RunOK
<1> DEFINE ends == {outcome[n] : n \in {m \in DOMAIN outcome : graph.kind[m] = "end"}} \cap Bad
<1>3. engine.fatal = "none" /\ ~heard /\ ends = {}
  <2>1. \A r \in ends : r # "succeeded"
        BY DEF Bad
  <2>2. engine.fatal \in {"none", "stuck", "cancelled", "unknown"}
        BY DEF EngineInv, FlowInv, EngineOK, Engines
  <2>3. engine.fatal = "none" /\ ~heard
        BY <1>2, <2>2 DEF FlowResult
  <2>4. FlowResult = IF ends = {} THEN "succeeded" ELSE CHOOSE r \in ends : TRUE
        BY <2>3 DEF FlowResult
  <2> HIDE DEF ends
  <2>5. ends = {}
        BY <1>2, <2>1, <2>4
  <2> QED
      BY <2>3, <2>5
<1>4. ~Aborted
      BY <1>3 DEF Aborted, PassOK
<1>5. DOMAIN outcome = Nodes
      BY <1>1, <1>4 DEF ReasonsOK, Complete
<1>6. /\ graph \in Graphs /\ DOMAIN value = Nodes
      /\ \A n \in Nodes : value[n] \in Outcomes /\ value[n] = outcome[n]
      BY <1>5 DEF EngineInv, FlowInv, NodesOK
<1>7. \A n \in Nodes : Deserves(n, value[n])
      BY <1>6 DEF ResultsOK
<1>8. \A n \in Nodes : graph.kind[n] = "any" /\ value[n] \in Bad => \A i \in Into(n) : ~Sure(i)
      BY <1>4, <1>5, <1>6 DEF ReasonsOK, ClosedJoin
<1>9. \A n \in Nodes : graph.kind[n] = "end" => value[n] \notin Bad
      BY <1>3, <1>5, <1>6
<1>10. AllSettled
      BY <1>6, <1>7, <1>8, <1>9 DEF AllSettled
<1> QED
    BY <1>1, <1>10, SettledReached, ReachedStays

LEMMA SuccessStep ==
  ASSUME EngineInv, PassOK, ResultsOK, ReasonsOK, SuccessReachesEnd, [Next]_vars
  PROVE  SuccessReachesEnd'
<1> SUFFICES ASSUME run'.kind = "workflow", run'.state = "succeeded"
             PROVE  Reached'
    BY DEF SuccessReachesEnd, Reached
<1>1. CASE run = run' /\ UNCHANGED <<graph, value>>
      BY <1>1, ReachedStays DEF SuccessReachesEnd, Reached
<1>2. CASE GroupNext
      BY <1>2, GroupOnly DEF EngineInv
<1>3. CASE Stop \/ Resume \/ BeginFlow \/ CrashFlow
      BY <1>3 DEF Stop, Resume, BeginFlow, Begun, CrashFlow, Crashed, Live, EngineInv, DeskInv, RunOK
<1>4. CASE FinishFlow
      BY <1>4, FinishReaches
<1>5. CASE SettleHere \/ DropLoser
  <2>1. run' = run /\ run.state = "running"
        BY <1>5, AtNode DEF SettleHere, DropLoser, portVars
  <2> QED
      BY <2>1
<1>6. CASE \E n \in Nodes : NodeStep(n)
  <2>1. PICK n \in Nodes : NodeStep(n)
        BY <1>6
  <2>2. CASE \E r : Finished(n, r)
    <3>1. run' = run /\ run.state = "running"
          BY <2>2, AtNode, EmptyFunction DEF Finished
    <3> QED
        BY <3>1
  <2>3. CASE GoesOn(n) \/ UNCHANGED <<run, heard, crashes, flowVars>>
        BY <1>1, <2>3 DEF GoesOn, flowVars
  <2> QED
      BY <2>1, <2>2, <2>3, NodeStepIs
<1>7. CASE Loop \/ Launch \/ EndPass \/ TimePasses \/ HearFlow \/ UNCHANGED vars
      BY <1>1, <1>7 DEF Loop, Launch, EndPass, TimePasses, HearFlow, Hear, vars, portVars, flowVars
<1> QED
    BY <1>2, <1>3, <1>4, <1>5, <1>6, <1>7 DEF Next, FlowNext, Ended, Command

LoopInv == EngineInv /\ PassOK /\ ResultsOK /\ ReasonsOK

\* The loop over the graph is at a join or has just begun a pass or made
\* progress in it; every outcome in the checkpoint has its reason: its
\* predecessors, or a join that goes ahead without it (executeStudioWorkflow).
THEOREM LoopInvariance == Spec => []LoopInv
<1>1. Init => LoopInv
  <2> SUFFICES ASSUME Init PROVE LoopInv
      OBVIOUS
  <2>1. engine = Idle /\ value = Nothing /\ node = Nothing /\ outcome = Nothing /\ abandoned = {}
        BY DEF Init, FlowInit
  <2>2. ResultsOK /\ ReasonsOK
        BY <2>1, IdleFields, EmptyFunction DEF ResultsOK, ReasonsOK
  <2> QED
      BY <2>2, EngineStart, StuckInit DEF LoopInv
<1>2. LoopInv /\ [Next]_vars => LoopInv'
      BY EngineStep, PassStep, ReasonsStep DEF LoopInv
<1> QED
    BY <1>1, <1>2, PTL DEF Spec

\* Whatever the graph, no pass of the loop ends with nothing running and nothing
\* done: "cannot make progress" is unreachable, through joins, skipped branches,
\* losers, failures, stops and restarts (workflowExecutor.ts).
THEOREM NeverStuckAlways == Spec => []NeverStuck
<1>1. LoopInv => NeverStuck
      BY DEF LoopInv, PassOK, NeverStuck
<1> QED
    BY <1>1, LoopInvariance, PTL

\* As long as the Host lives, no branch that lost at an any-join is under way
\* once the join has gone ahead, whatever the graph (workflowExecutor.ts).
THEOREM LosersOutAlways == Spec => [](crashes = 0 => LosersOut)
<1>1. Init => JoinsOK
      BY EmptyFunction DEF Init, FlowInit, JoinsOK
<1>2. LoopInv /\ JoinsOK /\ [Next]_vars => JoinsOK'
      BY JoinsStep DEF LoopInv
<1>3. ASSUME EngineInv, JoinsOK, crashes = 0 PROVE LosersOut
  <2> SUFFICES ASSUME run.attempt = 1, NEW j \in Nodes, Gone(j)
               PROVE  \E i \in InState(j, "active") : \A l \in Losers(j, graph.edges[i].from) : Underway(l) = {}
      BY DEF LosersOut, Gone
  <2>1. run.kind = "workflow"
    <3>1. engine.pc # "idle" \/ DOMAIN node # {}
          BY <1>3, EmptyFunction DEF Gone, EngineInv, FlowInv, EngineOK
    <3> QED
        BY <1>3, <3>1, AtNode
  <2>2. PICK i \in InState(j, "active") : Losers(j, From(i)) \subseteq DOMAIN outcome
        BY <1>3, <2>1 DEF JoinsOK, Gone
  <2>3. ASSUME NEW l \in DOMAIN outcome PROVE Underway(l) = {}
    <3>1. l \notin DOMAIN node
          BY <1>3 DEF EngineInv, FlowInv, NodesOK
    <3>2. \A c \in DOMAIN turn : \E n \in DOMAIN node : c = <<n, node[n].k>>
          BY <1>3, <2>1 DEF EngineInv, FlowInv, EngineOK, AgentCalls, CallOf
    <3> QED
        BY <3>1, <3>2 DEF Underway
  <2> QED
      BY <2>2, <2>3 DEF From
<1>4. LoopInv /\ JoinsOK => (crashes = 0 => LosersOut)
      BY <1>3 DEF LoopInv
<1> QED
    BY <1>1, <1>2, <1>4, LoopInvariance, PTL DEF Spec

\* Whatever the graph, a workflow reported as succeeded has settled every node
\* and reached an end, and a join went ahead without each node that failed
\* (executeStudioWorkflow, workflowExecutor.ts).
THEOREM SuccessReachesEndAlways == Spec => []SuccessReachesEnd
<1>1. Init => SuccessReachesEnd
      BY DEF Init, PortInit, SuccessReachesEnd
<1>2. LoopInv /\ SuccessReachesEnd /\ [Next]_vars => SuccessReachesEnd'
      BY SuccessStep DEF LoopInv
<1> QED
    BY <1>1, <1>2, LoopInvariance, PTL DEF Spec
=============================================================================
