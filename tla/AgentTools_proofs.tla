--------------------------- MODULE AgentTools_proofs ---------------------------
(***************************************************************************)
(* Commands take effect once and ends are told once, for any number of     *)
(* calls, grants, children and attempts.                                   *)
(*                                                                         *)
(* CommandOnce needs to know of every call in progress that its receipt is *)
(* still `sent` and that no other grant makes it, and of one that may still *)
(* take effect that the record it holds is the child's current one.        *)
(* EndsTold needs that no event belongs to a run or an attempt that has    *)
(* not been, that a woken attempt has its event, and of the records that   *)
(* the loop of a tick has read that each is the stored one or was withdrawn.*)
(***************************************************************************)
EXTENDS AgentTools, FiniteSetTheorems, SequenceTheorems, TLAPS

States == Active \cup {"succeeded", "failed", "interrupted", "cancelled"}
TaskRecords == [run : Nat, rounds : Nat]
RunRecords == [task : Nat, state : States, attempt : Nat \ {0}, cancel : BOOLEAN]

TypeInv ==
    /\ caller \in [grant : 1..MaxGrants, holds : BOOLEAN]
    /\ receipt \in [Calls -> {"none", "sent", "accepted", "failed"}]
    /\ command \subseteq UserCommands
    /\ op \in [1..MaxGrants -> [call : Calls \cup {"none"}, task : TaskRecords]]
    /\ tasks \in Seq(TaskRecords)
    /\ runs \in Seq(RunRecords)
    /\ done \in [Calls \cup UserCommands -> Nat]

\* Calls in progress: begun, not finished, each by one grant.
OpInv ==
    /\ \A g \in 1..MaxGrants :
         op[g] # NoOp => /\ op[g].call \in Calls /\ receipt[op[g].call] = "sent"
                         /\ g <= caller.grant
    /\ \A g, h \in 1..MaxGrants : op[g] # NoOp /\ op[g].call = op[h].call => g = h

\* What the call of the current grant read is still so.
Current ==
    LET o == op[caller.grant]
        q == Request[o.call]
    IN  o # NoOp /\ q.tool # "dispatch" =>
          /\ q.task \in DOMAIN tasks
          /\ o.task = tasks[q.task]
          /\ q.tool = "message" => o.task.rounds < MaxRounds

\* Receipts and effects.
Effects ==
    /\ \A c \in Calls : done[c] = IF receipt[c] = "accepted" THEN 1 ELSE 0
    /\ \A u \in UserCommands : done[u] = IF u \in command THEN 1 ELSE 0

\* Children and their runs: RunsOf, of any runs.
Of(rs, t) == {r \in DOMAIN rs : rs[r].task = t}

Rounds ==
    /\ \A t \in DOMAIN tasks : /\ tasks[t].rounds = Cardinality(Of(runs, t))
                               /\ tasks[t].rounds <= MaxRounds
                               /\ \A r \in Of(runs, t) : r <= tasks[t].run
    /\ \A r \in DOMAIN runs : runs[r].task \in DOMAIN tasks

\* No event comes before its run and attempt; a withdrawal has its event.
EventKeys ==
    /\ \A k \in DOMAIN event :
         \E r \in DOMAIN runs : \E a \in 1..runs[r].attempt :
           \E w \in {"terminal", "question"} : k = <<r, a, w>>
    /\ \A p \in woken : <<p[1], p[2], "terminal">> \in DOMAIN event

\* What the loop has read is still so, or the run was withdrawn since.
QueueRead ==
    \A r \in DOMAIN queue :
      /\ r \in DOMAIN runs
      /\ queue[r] \in RunRecords /\ queue[r].state = "queued"
      /\ \/ runs[r] = queue[r]
         \/ runs[r] = [queue[r] EXCEPT !.cancel = TRUE, !.state = "cancelled"]

Inv == TypeInv /\ OpInv /\ Current /\ Effects /\ Rounds /\ EventKeys /\ EndsTold

(***************************************************************************)
(* Writing runs.                                                           *)
(***************************************************************************)
\* A sequence with other elements is a sequence of the same length.
LEMMA SameDomain ==
  ASSUME NEW S, NEW s \in Seq(S), NEW f \in [DOMAIN s -> S]
  PROVE  f \in Seq(S) /\ Len(f) = Len(s) /\ DOMAIN f = DOMAIN s
<1>1. Len(s) \in Nat /\ DOMAIN s = 1..Len(s)
      BY LenProperties
<1>2. f \in UNION {[1..n -> S] : n \in Nat}
      BY <1>1
<1>3. f \in Seq(S)
      BY <1>2, SeqDef
<1> QED
    BY <1>1, <1>3, LenProperties

\* How one transaction may change a run: go on with its attempt, or begin the next.
GoesOn(r, new, what) ==
    /\ new[r].attempt = runs[r].attempt
    /\ runs[r].state \in Active
    /\ new[r].state \notin Active => what = "terminal"
    /\ new[r].state = "waiting" => runs[r].state = "waiting" \/ what = "question"

Again(r, new) ==
    /\ new[r].attempt = runs[r].attempt + 1
    /\ runs[r].state \notin Active
    /\ new[r].state = "queued"

Legal(new, what) ==
    /\ new \in [DOMAIN runs -> RunRecords]
    /\ \A r \in DOMAIN runs :
         /\ new[r].task = runs[r].task
         /\ new[r] = runs[r] \/ GoesOn(r, new, what) \/ Again(r, new)

\* What stays when runs are written: their number and their children.
Kept == /\ runs' \in Seq(RunRecords)
        /\ DOMAIN runs' = DOMAIN runs
        /\ \A r \in DOMAIN runs : runs'[r].task = runs[r].task

LEMMA RunsTyped ==
  ASSUME TypeInv
  PROVE  /\ Len(runs) \in Nat /\ DOMAIN runs = 1..Len(runs)
         /\ \A r \in DOMAIN runs : runs[r] \in RunRecords
BY LenProperties, ElementOfSeq DEF TypeInv

LEMMA TasksTyped ==
  ASSUME TypeInv
  PROVE  /\ Len(tasks) \in Nat /\ DOMAIN tasks = 1..Len(tasks)
         /\ \A t \in DOMAIN tasks : tasks[t] \in TaskRecords
BY LenProperties, ElementOfSeq DEF TypeInv

\* A transaction that writes runs legally tells every end, once.
LEMMA WriteTells ==
  ASSUME TypeInv, EventKeys, EndsTold,
         NEW new, NEW what \in {"terminal", "question"}, Legal(new, what), Write(new, what),
         woken' = woken
  PROVE  Kept /\ EventKeys' /\ EndsTold'
<1> DEFINE told == {Key(r, new[r], what) : r \in {r \in DOMAIN runs : new[r] # runs[r] /\ Tells(new[r], what)}}
<1>1. /\ runs' = new
      /\ DOMAIN event' = DOMAIN event \cup told
      /\ \A k \in DOMAIN event : event'[k] = event[k]
      /\ \A k \in told : k \notin DOMAIN event => event'[k] = Reported(new[k[1]])
      BY DEF Write
<1>2. Kept
      BY <1>1, SameDomain DEF Kept, Legal, TypeInv
<1>3. \A r \in DOMAIN runs : runs[r] \in RunRecords /\ new[r] \in RunRecords
      BY RunsTyped DEF Legal
<1>4. EventKeys'
  <2> SUFFICES ASSUME NEW k \in DOMAIN event'
               PROVE  \E r \in DOMAIN runs' : \E a \in 1..runs'[r].attempt :
                        \E w \in {"terminal", "question"} : k = <<r, a, w>>
    <3>1. \A p \in woken' : <<p[1], p[2], "terminal">> \in DOMAIN event'
          BY <1>1 DEF EventKeys
    <3> QED
        BY <3>1 DEF EventKeys
  <2>1. CASE k \in DOMAIN event
    <3>1. PICK r \in DOMAIN runs : \E a \in 1..runs[r].attempt :
                 \E w \in {"terminal", "question"} : k = <<r, a, w>>
          BY <2>1 DEF EventKeys
    <3>2. 1..runs[r].attempt \subseteq 1..new[r].attempt
          BY <1>3, <3>1 DEF Legal, GoesOn, Again, RunRecords
    <3> QED
        BY <1>1, <1>2, <3>1, <3>2 DEF Kept
  <2>2. CASE k \in told
    <3>1. PICK r \in DOMAIN runs : k = <<r, new[r].attempt, what>>
          BY <2>2 DEF Key
    <3>2. new[r].attempt \in 1..new[r].attempt
          BY <1>3, <3>1 DEF RunRecords
    <3> QED
        BY <1>1, <1>2, <3>1, <3>2 DEF Kept
  <2> QED
      BY <1>1, <2>1, <2>2
<1>5. EndsTold'
  <2> SUFFICES ASSUME NEW r \in DOMAIN runs
               PROVE  LET k == <<r, new[r].attempt, "terminal">>
                          ended == new[r].state \notin Active
                          stale == <<r, new[r].attempt>> \in woken
                      IN  /\ k \in DOMAIN event' <=> ended \/ stale
                          /\ stale => event'[k] = "cancelled"
                          /\ ended /\ ~stale => event'[k] = Reported(new[r])
                          /\ \A a \in 1..(new[r].attempt - 1) : <<r, a, "terminal">> \in DOMAIN event'
                          /\ new[r].state = "waiting" => <<r, new[r].attempt, "question">> \in DOMAIN event'
      BY <1>1, <1>2 DEF EndsTold, Kept, Reported, Active
  <2>1. \A a, w : <<r, a, w>> \in told <=>
                    a = new[r].attempt /\ w = what /\ new[r] # runs[r] /\ Tells(new[r], what)
        BY DEF Key
  <2>2. CASE new[r] = runs[r]
        BY <1>1, <2>1, <2>2 DEF EndsTold
  <2>3. CASE new[r] # runs[r] /\ GoesOn(r, new, what)
    <3> DEFINE stale == <<r, new[r].attempt>> \in woken
    <3>1. /\ <<r, new[r].attempt, "terminal">> \in DOMAIN event <=> stale
          /\ stale => event[<<r, new[r].attempt, "terminal">>] = "cancelled"
          BY <2>3 DEF EndsTold, GoesOn
    <3>2. <<r, new[r].attempt, "terminal">> \in told <=> new[r].state \notin Active
          BY <2>1, <2>3 DEF GoesOn, Tells, Active
    <3>3. /\ new[r].state \notin Active /\ ~stale => event'[<<r, new[r].attempt, "terminal">>] = Reported(new[r])
          /\ stale => event'[<<r, new[r].attempt, "terminal">>] = "cancelled"
          BY <1>1, <3>1, <3>2
    <3>4. \A a \in 1..(new[r].attempt - 1) : <<r, a, "terminal">> \in DOMAIN event'
          BY <1>1, <2>3 DEF EndsTold, GoesOn
    <3>5. new[r].state = "waiting" => <<r, new[r].attempt, "question">> \in DOMAIN event'
          BY <1>1, <2>1, <2>3 DEF EndsTold, GoesOn, Tells
    <3> QED
        BY <1>1, <3>1, <3>2, <3>3, <3>4, <3>5
  <2>4. CASE new[r] # runs[r] /\ Again(r, new)
    <3>1. <<r, new[r].attempt, "terminal">> \notin DOMAIN event /\ <<r, new[r].attempt>> \notin woken
          BY <1>3, <2>4 DEF EventKeys, Again, RunRecords
    <3>2. new[r].state \in Active /\ ~Tells(new[r], what)
          BY <2>4 DEF Again, Tells, Active
    <3>3. \A a \in 1..(new[r].attempt - 1) : <<r, a, "terminal">> \in DOMAIN event
      <4>1. <<r, runs[r].attempt, "terminal">> \in DOMAIN event
            BY <2>4 DEF EndsTold, Again
      <4>2. \A a \in 1..(runs[r].attempt - 1) : <<r, a, "terminal">> \in DOMAIN event
            BY DEF EndsTold
      <4>3. \A a \in 1..(new[r].attempt - 1) : a = runs[r].attempt \/ a \in 1..(runs[r].attempt - 1)
            BY <1>3, <2>4 DEF Again, RunRecords
      <4> QED
          BY <4>1, <4>2, <4>3
    <3>4. new[r].state # "waiting"
          BY <2>4 DEF Again
    <3> QED
        BY <1>1, <2>1, <3>1, <3>2, <3>3, <3>4
  <2> QED
      BY <2>2, <2>3, <2>4 DEF Legal
<1> QED
    BY <1>2, <1>4, <1>5

\* A cancel ends queued runs and marks the others.
LEMMA StoppedLegal ==
  ASSUME TypeInv, NEW S
  PROVE  Legal(Stopped(S), "terminal")
<1>1. \A r \in DOMAIN runs : runs[r] \in RunRecords
      BY RunsTyped
<1>2. ASSUME NEW r \in DOMAIN runs, r \in S, runs[r].state \in Active
      PROVE  /\ Stopped(S)[r] \in RunRecords
             /\ Stopped(S)[r].task = runs[r].task
             /\ GoesOn(r, Stopped(S), "terminal")
      BY <1>1, <1>2 DEF Stopped, GoesOn, RunRecords, States, Active
<1>3. ASSUME NEW r \in DOMAIN runs, ~(r \in S /\ runs[r].state \in Active)
      PROVE  Stopped(S)[r] = runs[r]
      BY <1>3 DEF Stopped
<1>4. \A r \in DOMAIN runs : Stopped(S)[r] \in RunRecords
      BY <1>1, <1>2, <1>3
<1>5. Stopped(S) \in [DOMAIN runs -> RunRecords]
      BY <1>4 DEF Stopped
<1> QED
    BY <1>2, <1>3, <1>5 DEF Legal

\* One run changes its state within its attempt.
LEMMA BecomesLegal ==
  ASSUME TypeInv, NEW r \in DOMAIN runs, NEW state \in States, NEW what,
         runs[r].state \in Active,
         state \notin Active => what = "terminal",
         state = "waiting" => what = "question"
  PROVE  Legal([runs EXCEPT ![r].state = state], what)
<1> DEFINE new == [runs EXCEPT ![r].state = state]
<1>1. \A q \in DOMAIN runs : runs[q] \in RunRecords
      BY RunsTyped
<1>2. runs \in [DOMAIN runs -> RunRecords]
      BY RunsTyped, LenProperties DEF TypeInv
<1>3. /\ new \in [DOMAIN runs -> RunRecords]
      /\ new[r] = [runs[r] EXCEPT !.state = state]
      /\ \A q \in DOMAIN runs \ {r} : new[q] = runs[q]
      BY <1>1, <1>2 DEF RunRecords
<1>4. new[r].task = runs[r].task /\ GoesOn(r, new, what)
      BY <1>1, <1>3 DEF GoesOn, RunRecords
<1> QED
    BY <1>3, <1>4 DEF Legal

\* A user's resume begins the next attempt.
LEMMA ResumedLegal ==
  ASSUME TypeInv, NEW r \in DOMAIN runs, runs[r].state \in {"interrupted", "failed"}
  PROVE  Legal([runs EXCEPT ![r].state = "queued", ![r].attempt = @ + 1, ![r].cancel = FALSE], "terminal")
<1> DEFINE new == [runs EXCEPT ![r].state = "queued", ![r].attempt = @ + 1, ![r].cancel = FALSE]
<1>1. \A q \in DOMAIN runs : runs[q] \in RunRecords
      BY RunsTyped
<1>2. runs \in [DOMAIN runs -> RunRecords]
      BY RunsTyped, LenProperties DEF TypeInv
<1>3. /\ new[r] = [task |-> runs[r].task, state |-> "queued", attempt |-> runs[r].attempt + 1, cancel |-> FALSE]
      /\ \A q \in DOMAIN runs \ {r} : new[q] = runs[q]
      /\ new = [q \in DOMAIN runs |-> new[q]]
      BY <1>1, <1>2 DEF RunRecords
<1> HIDE DEF new
<1>4. new[r] \in RunRecords
      BY <1>1, <1>3 DEF RunRecords, States, Active
<1>5. new \in [DOMAIN runs -> RunRecords]
      BY <1>1, <1>3, <1>4
<1>6. new[r].task = runs[r].task /\ Again(r, new)
      BY <1>3 DEF Again, Active
<1> QED
    BY <1>3, <1>5, <1>6 DEF Legal, new

\* A recovery ends or requeues what was at work.
LEMMA RecoverLegal ==
  ASSUME TypeInv, NEW U
  PROVE  Legal([r \in DOMAIN runs |->
                  IF ~Indexed(r) \/ runs[r].state = "queued" THEN runs[r]
                  ELSE [runs[r] EXCEPT !.state = IF @ = "waiting" \/ r \in U
                                                 THEN "interrupted" ELSE "queued"]], "terminal")
<1> DEFINE new == [r \in DOMAIN runs |->
                     IF ~Indexed(r) \/ runs[r].state = "queued" THEN runs[r]
                     ELSE [runs[r] EXCEPT !.state = IF @ = "waiting" \/ r \in U
                                                    THEN "interrupted" ELSE "queued"]]
<1>1. \A r \in DOMAIN runs : runs[r] \in RunRecords
      BY RunsTyped
<1>2. ASSUME NEW r \in DOMAIN runs, Indexed(r), runs[r].state # "queued"
      PROVE  new[r] \in RunRecords /\ new[r].task = runs[r].task /\ GoesOn(r, new, "terminal")
      BY <1>1, <1>2 DEF Indexed, GoesOn, RunRecords, States, Active
<1>3. ASSUME NEW r \in DOMAIN runs, ~Indexed(r) \/ runs[r].state = "queued"
      PROVE  new[r] = runs[r]
      BY <1>3
<1>4. new \in [DOMAIN runs -> RunRecords]
      BY <1>1, <1>2, <1>3
<1> QED
    BY <1>2, <1>3, <1>4 DEF Legal

\* Where only the states of runs change, the children keep their rounds.
LEMMA KeptRounds ==
  ASSUME Rounds, Kept, tasks' = tasks
  PROVE  Rounds'
<1>1. \A t : Of(runs', t) = Of(runs, t)
      BY DEF Kept, Of
<1> QED
    BY <1>1 DEF Rounds, Kept

(***************************************************************************)
(* The actions.                                                            *)
(***************************************************************************)
LEMMA InitInv == Init => Inv
<1> SUFFICES ASSUME Init PROVE Inv
    OBVIOUS
<1> USE DEF Init
<1>1. tasks \in Seq(TaskRecords) /\ runs \in Seq(RunRecords) /\ DOMAIN runs = {} /\ DOMAIN tasks = {}
      BY EmptySeq
<1>2. TypeInv
  <2>1. NoOp \in [call : Calls \cup {"none"}, task : TaskRecords]
        BY DEF NoOp, TaskRecords
  <2>2. caller \in [grant : 1..MaxGrants, holds : BOOLEAN]
        BY ToolConstants
  <2>3. done \in [Calls \cup UserCommands -> Nat]
        OBVIOUS
  <2> QED
      BY <1>1, <2>1, <2>2, <2>3 DEF TypeInv
<1>3. OpInv /\ Current
      BY ToolConstants DEF OpInv, Current
<1>4. Effects
      BY DEF Effects
<1>5. Rounds /\ EventKeys /\ EndsTold
      BY <1>1 DEF Rounds, EventKeys, EndsTold
<1> QED
    BY <1>2, <1>3, <1>4, <1>5 DEF Inv

\* A call that begins is known to no other grant, and its record is the child's.
LEMMA ReserveInv ==
  ASSUME Inv, NEW g \in 1..MaxGrants, NEW c \in Calls, Reserve(g, c)
  PROVE  Inv'
<1> USE DEF Reserve, Caller, childVars, loopVars
<1> DEFINE q == Request[c]
           refused == q.tool # "dispatch" /\ (q.task \notin DOMAIN tasks
                        \/ (q.tool = "message" /\ tasks[q.task].rounds >= MaxRounds))
           started == [call |-> c, task |-> IF q.tool = "dispatch" THEN NoOp.task ELSE tasks[q.task]]
<1>1. /\ receipt' = [receipt EXCEPT ![c] = IF refused THEN "failed" ELSE "sent"]
      /\ op' = IF refused THEN op ELSE [op EXCEPT ![g] = started]
      OBVIOUS
<1>2. ~refused => started \in [call : Calls \cup {"none"}, task : TaskRecords]
  <2>1. NoOp.task \in TaskRecords
        BY DEF NoOp, TaskRecords
  <2>2. \A t \in DOMAIN tasks : tasks[t] \in TaskRecords
        BY TasksTyped DEF Inv
  <2> QED
      BY <2>1, <2>2
<1> HIDE DEF refused, started, Reserve
<1>3. TypeInv'
      BY <1>1, <1>2 DEF Reserve, Inv, TypeInv
<1>4. started.call = c /\ c # "none" /\ started # NoOp /\ NoOp.call = "none"
      BY ToolConstants DEF started, NoOp
<1>5. \A h \in 1..MaxGrants : op[h] # NoOp => op[h].call # c
      BY DEF Inv, OpInv, Reserve
<1>6. OpInv'
  <2>1. CASE refused
        BY <1>1, <1>5, <2>1 DEF Inv, OpInv, TypeInv, Reserve
  <2>2. CASE ~refused
    <3>1. op' = [op EXCEPT ![g] = started] /\ op'[g] = started
          BY <1>1, <2>2 DEF Inv, TypeInv
    <3>2. \A h \in 1..MaxGrants \ {g} : op'[h] = op[h]
          BY <3>1 DEF Inv, TypeInv
    <3>3. receipt'[c] = "sent" /\ \A d \in Calls \ {c} : receipt'[d] = receipt[d]
          BY <1>1, <2>2 DEF Inv, TypeInv
    <3>4. caller' = caller /\ g <= caller.grant
          BY DEF Reserve, Inv, TypeInv
    <3>5. \A h \in 1..MaxGrants : op'[h] # NoOp =>
            op'[h].call \in Calls /\ receipt'[op'[h].call] = "sent" /\ h <= caller'.grant
          BY <1>4, <1>5, <3>1, <3>2, <3>3, <3>4 DEF Inv, OpInv
    <3>6. \A h \in 1..MaxGrants \ {g} : op[h].call # c
          BY <1>4, <1>5
    <3>7. \A h, i \in 1..MaxGrants : op'[h] # NoOp /\ op'[h].call = op'[i].call => h = i
          BY <1>4, <3>1, <3>2, <3>6 DEF Inv, OpInv
    <3> QED
        BY <3>5, <3>7 DEF OpInv
  <2> QED
      BY <2>1, <2>2
<1>7. Current'
  <2>1. CASE refused
        BY <1>1, <2>1 DEF Inv, Current, Reserve
  <2>2. CASE ~refused
    <3>1. op'[caller'.grant] = started
          BY <1>1, <2>2 DEF Inv, TypeInv, Reserve
    <3>2. q.tool # "dispatch" => /\ q.task \in DOMAIN tasks /\ started.task = tasks[q.task]
                                 /\ q.tool = "message" => ~(tasks[q.task].rounds >= MaxRounds)
          BY <2>2 DEF refused, started
    <3>3. q.task \in DOMAIN tasks => tasks[q.task].rounds \in Nat
          BY TasksTyped DEF Inv, TaskRecords
    <3>4. tasks' = tasks
          BY DEF Reserve
    <3> QED
        BY <1>4, <3>1, <3>2, <3>3, <3>4, ToolConstants DEF Current
  <2> QED
      BY <2>1, <2>2
<1>8. Effects'
      BY <1>1 DEF Inv, TypeInv, Effects, Reserve
<1>9. Rounds' /\ EventKeys' /\ EndsTold'
  <2>1. UNCHANGED <<tasks, runs, event, woken>>
        BY DEF Reserve
  <2>2. Rounds'
        BY <2>1 DEF Inv, Rounds, Of
  <2>3. EventKeys'
        BY <2>1 DEF Inv, EventKeys
  <2>4. EndsTold'
        BY <2>1 DEF Inv, EndsTold, Reported, Active
  <2> QED
      BY <2>2, <2>3, <2>4
<1> QED
    BY <1>3, <1>6, <1>7, <1>8, <1>9 DEF Inv

\* A call takes effect: its receipt and its effect are of one transaction.
LEMMA AcceptInv ==
  ASSUME TypeInv, OpInv, Effects, NEW g \in 1..MaxGrants, op[g] # NoOp, Accept(g),
         caller' = caller, command' = command
  PROVE  /\ OpInv' /\ Effects' /\ op'[g] = NoOp
         /\ receipt' \in [Calls -> {"none", "sent", "accepted", "failed"}]
         /\ op' \in [1..MaxGrants -> [call : Calls \cup {"none"}, task : TaskRecords]]
         /\ done' \in [Calls \cup UserCommands -> Nat]
<1> DEFINE c == op[g].call
<1>1. c \in Calls /\ receipt[c] = "sent"
      BY DEF OpInv
<1>2. /\ receipt' = [receipt EXCEPT ![c] = "accepted"]
      /\ op' = [op EXCEPT ![g] = NoOp]
      /\ done' = [done EXCEPT ![c] = @ + 1]
      BY DEF Accept, Count
<1>3. NoOp \in [call : Calls \cup {"none"}, task : TaskRecords]
      BY DEF NoOp, TaskRecords
<1>4. op'[g] = NoOp /\ \A h \in 1..MaxGrants \ {g} : op'[h] = op[h]
      BY <1>2 DEF TypeInv
<1>5. /\ receipt'[c] = "accepted" /\ \A d \in Calls \ {c} : receipt'[d] = receipt[d]
      /\ done'[c] = done[c] + 1 /\ \A d \in (Calls \cup UserCommands) \ {c} : done'[d] = done[d]
      BY <1>1, <1>2 DEF TypeInv
<1>6. Effects'
  <2>1. done[c] = 0
        BY <1>1 DEF Effects
  <2> QED
      BY <1>1, <1>5, <2>1, ToolConstants DEF Effects
<1>7. \A h \in 1..MaxGrants \ {g} : op[h].call # c
      BY DEF OpInv
<1>8. OpInv'
  <2>1. \A h \in 1..MaxGrants : op'[h] # NoOp =>
          op'[h].call \in Calls /\ receipt'[op'[h].call] = "sent" /\ h <= caller'.grant
        BY <1>4, <1>5, <1>7 DEF OpInv
  <2>2. NoOp.call = "none" /\ "none" \notin Calls
        BY ToolConstants DEF NoOp
  <2>3. \A h, i \in 1..MaxGrants : op'[h] # NoOp /\ op'[h].call = op'[i].call => h = i
        BY <1>4, <2>2 DEF OpInv
  <2> QED
      BY <2>1, <2>3 DEF OpInv
<1>9. /\ receipt' \in [Calls -> {"none", "sent", "accepted", "failed"}]
      /\ op' \in [1..MaxGrants -> [call : Calls \cup {"none"}, task : TaskRecords]]
      BY <1>1, <1>2, <1>3 DEF TypeInv
<1>10. done' \in [Calls \cup UserCommands -> Nat]
      BY <1>1, <1>2 DEF TypeInv
<1> QED
    BY <1>4, <1>6, <1>8, <1>9, <1>10

\* The next run of a child: one more, behind all others.
LEMMA NextRun ==
  ASSUME TypeInv, NEW t \in Nat, runs' = Append(runs, Queued(t))
  PROVE  /\ runs' \in Seq(RunRecords)
         /\ DOMAIN runs' = DOMAIN runs \cup {Len(runs) + 1} /\ Len(runs) + 1 \notin DOMAIN runs
         /\ runs'[Len(runs) + 1] = Queued(t) /\ \A r \in DOMAIN runs : runs'[r] = runs[r]
         /\ Of(runs', t) = Of(runs, t) \cup {Len(runs) + 1}
         /\ Cardinality(Of(runs', t)) = Cardinality(Of(runs, t)) + 1
         /\ \A u : u # t => Of(runs', u) = Of(runs, u)
<1>1. Queued(t) \in RunRecords
      BY DEF Queued, RunRecords, States, Active
<1>2. /\ runs' \in Seq(RunRecords)
      /\ DOMAIN runs' = DOMAIN runs \cup {Len(runs) + 1} /\ Len(runs) + 1 \notin DOMAIN runs
      /\ runs'[Len(runs) + 1] = Queued(t) /\ \A r \in DOMAIN runs : runs'[r] = runs[r]
  <2>1. Len(runs) \in Nat /\ DOMAIN runs = 1..Len(runs) /\ runs \in Seq(RunRecords)
        BY RunsTyped DEF TypeInv
  <2>2. /\ runs' \in Seq(RunRecords) /\ Len(runs') = Len(runs) + 1
        /\ runs'[Len(runs) + 1] = Queued(t) /\ \A r \in 1..Len(runs) : runs'[r] = runs[r]
        BY <1>1, <2>1
  <2>3. DOMAIN runs' = 1..(Len(runs) + 1)
        BY <2>2, LenProperties
  <2> QED
      BY <2>1, <2>2, <2>3
<1>3. Of(runs', t) = Of(runs, t) \cup {Len(runs) + 1} /\ \A u : u # t => Of(runs', u) = Of(runs, u)
      BY <1>2 DEF Of, Queued
<1>4. IsFiniteSet(Of(runs, t)) /\ Len(runs) + 1 \notin Of(runs, t)
  <2>1. IsFiniteSet(DOMAIN runs)
        BY RunsTyped, FS_Interval
  <2> QED
      BY <1>2, <2>1, FS_Subset DEF Of
<1>5. Cardinality(Of(runs', t)) = Cardinality(Of(runs, t)) + 1
      BY <1>3, <1>4, FS_AddElement
<1> QED
    BY <1>2, <1>3, <1>5

\* A new run has no events, the others keep theirs.
LEMMA NextRunTells ==
  ASSUME TypeInv, EventKeys, EndsTold, NEW t \in Nat, runs' = Append(runs, Queued(t)), event' = event, woken' = woken
  PROVE  EventKeys' /\ EndsTold'
<1> DEFINE n == Len(runs) + 1
<1>1. /\ DOMAIN runs' = DOMAIN runs \cup {n} /\ n \notin DOMAIN runs
      /\ runs'[n] = Queued(t) /\ \A r \in DOMAIN runs : runs'[r] = runs[r]
      BY NextRun
<1> HIDE DEF n
<1>2. EventKeys'
      BY <1>1 DEF EventKeys
<1>3. /\ \A a, w : <<n, a, w>> \notin DOMAIN event
      /\ \A a : <<n, a>> \notin woken
      BY <1>1 DEF EventKeys
<1>4. EndsTold'
  <2> SUFFICES ASSUME NEW r \in DOMAIN runs'
               PROVE  LET k == <<r, runs'[r].attempt, "terminal">>
                          ended == runs'[r].state \notin Active
                          stale == <<r, runs'[r].attempt>> \in woken
                      IN  /\ k \in DOMAIN event <=> ended \/ stale
                          /\ stale => event[k] = "cancelled"
                          /\ ended /\ ~stale => event[k] = Reported(runs'[r])
                          /\ \A a \in 1..(runs'[r].attempt - 1) : <<r, a, "terminal">> \in DOMAIN event
                          /\ runs'[r].state = "waiting" => <<r, runs'[r].attempt, "question">> \in DOMAIN event
      BY DEF EndsTold, Reported, Active
  <2>1. CASE r \in DOMAIN runs
        BY <1>1, <2>1 DEF EndsTold
  <2>2. CASE r = n
        BY <1>1, <1>3, <2>2 DEF Queued, Active
  <2> QED
      BY <1>1, <2>1, <2>2
<1> QED
    BY <1>2, <1>4

\* A new child has one run.
LEMMA DispatchInv ==
  ASSUME Inv, NEW g \in 1..MaxGrants, Dispatch(g)
  PROVE  Inv'
<1> DEFINE t == Len(tasks) + 1
           n == Len(runs) + 1
           new == [run |-> n, rounds |-> 1]
<1>1. /\ op[g] # NoOp /\ caller.grant = g /\ Accept(g)
      /\ tasks' = Append(tasks, new) /\ runs' = Append(runs, Queued(t))
      /\ UNCHANGED <<caller, command, event, woken>>
      BY DEF Dispatch, Calling, Caller, loopVars
<1>2. Len(runs) \in Nat /\ Len(tasks) \in Nat /\ DOMAIN tasks = 1..Len(tasks) /\ DOMAIN runs = 1..Len(runs)
      BY RunsTyped, TasksTyped DEF Inv
<1>3. new \in TaskRecords /\ t \in Nat
      BY <1>2 DEF TaskRecords
<1>4. /\ tasks' \in Seq(TaskRecords)
      /\ DOMAIN tasks' = DOMAIN tasks \cup {t} /\ t \notin DOMAIN tasks
      /\ tasks'[t] = new /\ \A u \in DOMAIN tasks : tasks'[u] = tasks[u]
  <2>1. /\ tasks' \in Seq(TaskRecords) /\ Len(tasks') = Len(tasks) + 1
        /\ tasks'[t] = new /\ \A u \in 1..Len(tasks) : tasks'[u] = tasks[u]
        BY <1>1, <1>2, <1>3 DEF Inv, TypeInv
  <2>2. DOMAIN tasks' = 1..(Len(tasks) + 1)
        BY <2>1, LenProperties
  <2> QED
      BY <1>2, <2>1, <2>2
<1>5. /\ runs' \in Seq(RunRecords)
      /\ DOMAIN runs' = DOMAIN runs \cup {n}
      /\ runs'[n] = Queued(t) /\ \A r \in DOMAIN runs : runs'[r] = runs[r]
      /\ Of(runs', t) = Of(runs, t) \cup {n}
      /\ Cardinality(Of(runs', t)) = Cardinality(Of(runs, t)) + 1
      /\ \A u : u # t => Of(runs', u) = Of(runs, u)
  <2> HIDE DEF t
  <2>1. TypeInv /\ t \in Nat /\ runs' = Append(runs, Queued(t))
        BY <1>1, <1>3 DEF Inv
  <2> QED
      BY <2>1, NextRun
<1> HIDE DEF t, n
<1>6. Of(runs, t) = {}
      BY <1>4 DEF Inv, Rounds, Of
<1>7. Rounds'
  <2>1. Cardinality(Of(runs', t)) = 1 /\ Of(runs', t) = {n}
        BY <1>5, <1>6, FS_EmptySet
  <2>2. n \in Nat
        BY <1>3 DEF TaskRecords
  <2>3. /\ tasks'[t].rounds = Cardinality(Of(runs', t)) /\ tasks'[t].rounds <= MaxRounds
        /\ \A r \in Of(runs', t) : r <= tasks'[t].run
        BY <1>4, <2>1, <2>2, ToolConstants
  <2>4. \A u \in DOMAIN tasks : /\ tasks'[u].rounds = Cardinality(Of(runs', u)) /\ tasks'[u].rounds <= MaxRounds
                                /\ \A r \in Of(runs', u) : r <= tasks'[u].run
        BY <1>4, <1>5 DEF Inv, Rounds
  <2>5. \A r \in DOMAIN runs' : runs'[r].task \in DOMAIN tasks'
        BY <1>4, <1>5 DEF Inv, Rounds, Queued
  <2>6. \A u \in DOMAIN tasks' : /\ tasks'[u].rounds = Cardinality(Of(runs', u)) /\ tasks'[u].rounds <= MaxRounds
                                 /\ \A r \in Of(runs', u) : r <= tasks'[u].run
        BY <1>4, <2>3, <2>4
  <2> QED
      BY <2>5, <2>6 DEF Rounds
<1>8. /\ OpInv' /\ Effects' /\ op'[g] = NoOp
      /\ receipt' \in [Calls -> {"none", "sent", "accepted", "failed"}]
      /\ op' \in [1..MaxGrants -> [call : Calls \cup {"none"}, task : TaskRecords]]
      /\ done' \in [Calls \cup UserCommands -> Nat]
      BY <1>1, AcceptInv DEF Inv
<1>9. TypeInv'
      BY <1>1, <1>4, <1>5, <1>8 DEF Inv, TypeInv
<1>10. Current'
      BY <1>1, <1>8 DEF Current
<1>11. EventKeys' /\ EndsTold'
      BY <1>1, <1>3, NextRunTells DEF Inv
<1> QED
    BY <1>7, <1>8, <1>9, <1>10, <1>11 DEF Inv

\* The record that a message writes back is still the child's.
LEMMA MessageInv ==
  ASSUME Inv, NEW g \in 1..MaxGrants, Message(g)
  PROVE  Inv'
<1> DEFINE t == Request[op[g].call].task
           n == Len(runs) + 1
           new == [run |-> n, rounds |-> op[g].task.rounds + 1]
<1>1. /\ op[g] # NoOp /\ caller.grant = g /\ Accept(g) /\ Request[op[g].call].tool = "message"
      /\ tasks' = [tasks EXCEPT ![t] = new] /\ runs' = Append(runs, Queued(t))
      /\ UNCHANGED <<caller, command, event, woken>>
      BY DEF Message, Calling, Caller, loopVars
<1>2. t \in DOMAIN tasks /\ op[g].task = tasks[t] /\ op[g].task.rounds < MaxRounds
      BY <1>1 DEF Inv, Current
<1>3. Len(runs) \in Nat /\ DOMAIN runs = 1..Len(runs) /\ t \in Nat /\ tasks[t] \in TaskRecords
      BY <1>2, RunsTyped, TasksTyped DEF Inv
<1>4. new \in TaskRecords
      BY <1>2, <1>3 DEF TaskRecords
<1>5. /\ tasks' \in Seq(TaskRecords)
      /\ DOMAIN tasks' = DOMAIN tasks
      /\ tasks'[t] = new /\ \A u \in DOMAIN tasks \ {t} : tasks'[u] = tasks[u]
      BY <1>1, <1>2, <1>4, ExceptSeq, TasksTyped DEF Inv, TypeInv
<1>6. /\ runs' \in Seq(RunRecords)
      /\ DOMAIN runs' = DOMAIN runs \cup {n}
      /\ runs'[n] = Queued(t) /\ \A r \in DOMAIN runs : runs'[r] = runs[r]
      /\ Of(runs', t) = Of(runs, t) \cup {n}
      /\ Cardinality(Of(runs', t)) = Cardinality(Of(runs, t)) + 1
      /\ \A u : u # t => Of(runs', u) = Of(runs, u)
  <2> HIDE DEF t
  <2>1. TypeInv /\ t \in Nat /\ runs' = Append(runs, Queued(t))
        BY <1>1, <1>3 DEF Inv
  <2> QED
      BY <2>1, NextRun
<1>7. Rounds'
  <2>1. tasks[t].rounds = Cardinality(Of(runs, t)) /\ Of(runs, t) \subseteq DOMAIN runs
        BY <1>2 DEF Inv, Rounds, Of
  <2>2. tasks'[t].rounds = Cardinality(Of(runs', t))
        BY <1>2, <1>5, <1>6, <2>1
  <2>3. tasks'[t].rounds <= MaxRounds
    <3>1. tasks'[t].rounds = op[g].task.rounds + 1 /\ op[g].task.rounds \in Nat
          BY <1>2, <1>3, <1>5 DEF TaskRecords
    <3> QED
        BY <1>2, <3>1, ToolConstants
  <2>4. \A r \in Of(runs', t) : r <= tasks'[t].run
        BY <1>3, <1>5, <1>6, <2>1
  <2>5. \A u \in DOMAIN tasks \ {t} : /\ tasks'[u].rounds = Cardinality(Of(runs', u)) /\ tasks'[u].rounds <= MaxRounds
                                      /\ \A r \in Of(runs', u) : r <= tasks'[u].run
        BY <1>5, <1>6 DEF Inv, Rounds
  <2>6. \A r \in DOMAIN runs' : runs'[r].task \in DOMAIN tasks'
        BY <1>2, <1>5, <1>6 DEF Inv, Rounds, Queued
  <2> HIDE DEF t, n, new
  <2>7. \A u \in DOMAIN tasks' : /\ tasks'[u].rounds = Cardinality(Of(runs', u)) /\ tasks'[u].rounds <= MaxRounds
                                 /\ \A r \in Of(runs', u) : r <= tasks'[u].run
        BY <1>5, <2>2, <2>3, <2>4, <2>5
  <2> QED
      BY <2>6, <2>7 DEF Rounds
<1>8. /\ OpInv' /\ Effects' /\ op'[g] = NoOp
      /\ receipt' \in [Calls -> {"none", "sent", "accepted", "failed"}]
      /\ op' \in [1..MaxGrants -> [call : Calls \cup {"none"}, task : TaskRecords]]
      /\ done' \in [Calls \cup UserCommands -> Nat]
      BY <1>1, AcceptInv DEF Inv
<1>9. TypeInv'
      BY <1>1, <1>5, <1>6, <1>8 DEF Inv, TypeInv
<1>10. Current'
      BY <1>1, <1>8 DEF Current
<1>11. EventKeys' /\ EndsTold'
      BY <1>1, <1>3, NextRunTells DEF Inv
<1> QED
    BY <1>7, <1>8, <1>9, <1>10, <1>11 DEF Inv

\* A call that stops a child's runs.
LEMMA CancelTaskInv ==
  ASSUME Inv, NEW g \in 1..MaxGrants, CancelTask(g)
  PROVE  Inv'
<1> DEFINE S == RunsOf(Request[op[g].call].task)
<1>1. /\ op[g] # NoOp /\ caller.grant = g /\ Accept(g)
      /\ Write(Stopped(S), "terminal")
      /\ UNCHANGED <<caller, command, tasks, woken>>
      BY DEF CancelTask, Calling, Caller, loopVars
<1> HIDE DEF S
<1>2. Kept /\ EventKeys' /\ EndsTold'
      BY <1>1, StoppedLegal, WriteTells DEF Inv
<1>3. Rounds'
      BY <1>1, <1>2, KeptRounds DEF Inv
<1>4. /\ OpInv' /\ Effects' /\ op'[g] = NoOp
      /\ receipt' \in [Calls -> {"none", "sent", "accepted", "failed"}]
      /\ op' \in [1..MaxGrants -> [call : Calls \cup {"none"}, task : TaskRecords]]
      /\ done' \in [Calls \cup UserCommands -> Nat]
      BY <1>1, AcceptInv DEF Inv
<1>5. TypeInv'
      BY <1>1, <1>2, <1>4 DEF Inv, TypeInv, Kept
<1>6. Current'
      BY <1>1, <1>4 DEF Current
<1> QED
    BY <1>2, <1>3, <1>4, <1>5, <1>6 DEF Inv

\* A refused call has no effect and leaves its grant.
LEMMA RefusedInv ==
  ASSUME Inv, NEW g \in 1..MaxGrants, Refused(g)
  PROVE  Inv'
<1> DEFINE c == op[g].call
<1>1. /\ op[g] # NoOp /\ c \in Calls /\ receipt[c] = "sent"
      /\ receipt' = [receipt EXCEPT ![c] = "failed"]
      /\ op' = [op EXCEPT ![g] = NoOp]
      /\ UNCHANGED <<caller, command, tasks, runs, event, woken, done>>
      BY DEF Refused, childVars, loopVars, Inv, OpInv
<1>2. NoOp \in [call : Calls \cup {"none"}, task : TaskRecords] /\ NoOp.call = "none" /\ "none" \notin Calls
      BY ToolConstants DEF NoOp, TaskRecords
<1>3. op'[g] = NoOp /\ \A h \in 1..MaxGrants \ {g} : op'[h] = op[h]
      BY <1>1 DEF Inv, TypeInv
<1>4. receipt'[c] = "failed" /\ \A d \in Calls \ {c} : receipt'[d] = receipt[d]
      BY <1>1 DEF Inv, TypeInv
<1>5. \A h \in 1..MaxGrants \ {g} : op[h].call # c
      BY <1>1 DEF Inv, OpInv
<1>6. TypeInv'
      BY <1>1, <1>2 DEF Inv, TypeInv
<1>7. OpInv'
  <2>1. \A h \in 1..MaxGrants : op'[h] # NoOp =>
          op'[h].call \in Calls /\ receipt'[op'[h].call] = "sent" /\ h <= caller'.grant
        BY <1>1, <1>3, <1>4, <1>5 DEF Inv, OpInv
  <2>2. \A h, i \in 1..MaxGrants : op'[h] # NoOp /\ op'[h].call = op'[i].call => h = i
        BY <1>2, <1>3 DEF Inv, OpInv
  <2> QED
      BY <2>1, <2>2 DEF OpInv
<1>8. Current'
  <2>1. caller.grant \in 1..MaxGrants
        BY DEF Inv, TypeInv
  <2> QED
      BY <1>1, <1>3, <2>1 DEF Inv, Current
<1>9. Effects'
      BY <1>1, <1>4 DEF Inv, Effects
<1>10. Rounds' /\ EventKeys' /\ EndsTold'
      BY <1>1 DEF Inv, Rounds, EventKeys, EndsTold
<1> QED
    BY <1>6, <1>7, <1>8, <1>9, <1>10 DEF Inv

\* The end of a turn, the next turn: a new grant has no call in progress.
LEMMA TurnEndsInv ==
  ASSUME Inv, TurnEnds
  PROVE  Inv'
<1> USE DEF TurnEnds, childVars, loopVars, Inv
<1>1. caller'.grant = caller.grant /\ caller' \in [grant : 1..MaxGrants, holds : BOOLEAN]
      BY DEF TypeInv
<1>2. TypeInv' /\ OpInv' /\ Current'
      BY <1>1 DEF TypeInv, OpInv, Current
<1>3. Effects' /\ Rounds' /\ EventKeys' /\ EndsTold'
      BY DEF Effects, Rounds, EventKeys, EndsTold
<1> QED
    BY <1>2, <1>3

LEMMA NextTurnInv ==
  ASSUME Inv, NextTurn
  PROVE  Inv'
<1> USE DEF NextTurn, childVars, loopVars, Inv
<1>1. /\ caller'.grant = caller.grant + 1 /\ caller.grant \in 1..MaxGrants
      /\ caller' \in [grant : 1..MaxGrants, holds : BOOLEAN]
  <2>1. caller \in [grant : 1..MaxGrants, holds : BOOLEAN] /\ MaxGrants \in Nat
        BY ToolConstants DEF TypeInv
  <2>2. caller.grant + 1 \in 1..MaxGrants
        BY <2>1
  <2> QED
      BY <2>1, <2>2
<1>2. TypeInv'
      BY <1>1 DEF TypeInv
<1>3. op[caller'.grant] = NoOp
  <2>1. caller'.grant \in 1..MaxGrants /\ ~(caller'.grant <= caller.grant)
    <3>1. caller'.grant \in 1..MaxGrants
          BY <1>1
    <3>2. \A x \in 1..MaxGrants : ~(x + 1 <= x)
          BY ToolConstants
    <3> HIDE DEF NextTurn
    <3> QED
        BY <1>1, <3>1, <3>2
  <2> QED
      BY <2>1 DEF OpInv
<1>4. OpInv'
      BY <1>1 DEF OpInv
<1>5. Current'
      BY <1>3 DEF Current
<1>6. Effects' /\ Rounds' /\ EventKeys' /\ EndsTold'
      BY DEF Effects, Rounds, EventKeys, EndsTold
<1> QED
    BY <1>2, <1>4, <1>5, <1>6

\* Steps that change only runs, and perhaps forget the calls in progress.
LEMMA RunsInv ==
  ASSUME Inv, Kept, EventKeys', EndsTold',
         caller' \in [grant : 1..MaxGrants, holds : BOOLEAN], caller'.grant = caller.grant,
         op' = op \/ op' = [g \in 1..MaxGrants |-> NoOp],
         UNCHANGED <<receipt, tasks>>
  PROVE  /\ OpInv' /\ Current' /\ Rounds'
         /\ (done' \in [Calls \cup UserCommands -> Nat] /\ command' \subseteq UserCommands => TypeInv')
<1>1. NoOp \in [call : Calls \cup {"none"}, task : TaskRecords]
      BY DEF NoOp, TaskRecords
<1>2. op' \in [1..MaxGrants -> [call : Calls \cup {"none"}, task : TaskRecords]]
      BY <1>1 DEF Inv, TypeInv
<1>3. OpInv'
      BY DEF Inv, OpInv
<1>4. caller.grant \in 1..MaxGrants
      BY DEF Inv, TypeInv
<1>5. Current'
      BY <1>4 DEF Inv, Current
<1>6. Rounds'
      BY KeptRounds DEF Inv
<1> QED
    BY <1>2, <1>3, <1>5, <1>6 DEF Inv, TypeInv, Kept

LEMMA RecoverInv ==
  ASSUME Inv, Recover
  PROVE  Inv'
<1>1. Kept /\ EventKeys' /\ EndsTold'
  <2>1. PICK U \in SUBSET {r \in DOMAIN runs : runs[r].state = "running"} :
           Write([r \in DOMAIN runs |->
                  IF ~Indexed(r) \/ runs[r].state = "queued" THEN runs[r]
                  ELSE [runs[r] EXCEPT !.state = IF @ = "waiting" \/ r \in U
                                                 THEN "interrupted" ELSE "queued"]], "terminal")
        BY DEF Recover
  <2> DEFINE new == [r \in DOMAIN runs |->
                       IF ~Indexed(r) \/ runs[r].state = "queued" THEN runs[r]
                       ELSE [runs[r] EXCEPT !.state = IF @ = "waiting" \/ r \in U
                                                      THEN "interrupted" ELSE "queued"]]
  <2>2. Legal(new, "terminal") /\ Write(new, "terminal") /\ woken' = woken
        BY <2>1, RecoverLegal DEF Inv, Recover
  <2> HIDE DEF new
  <2> QED
      BY <2>2, WriteTells DEF Inv
<1>2. /\ caller'.grant = caller.grant /\ caller' \in [grant : 1..MaxGrants, holds : BOOLEAN]
      /\ op' = op \/ op' = [g \in 1..MaxGrants |-> NoOp]
      /\ UNCHANGED <<receipt, command, tasks, done>>
      BY DEF Recover, Inv, TypeInv
<1>3. OpInv' /\ Current' /\ Rounds' /\ TypeInv'
      BY <1>1, <1>2, RunsInv DEF Inv, TypeInv
<1>4. Effects'
      BY <1>2 DEF Inv, Effects
<1> QED
    BY <1>1, <1>3, <1>4 DEF Inv

\* What a child or a deadline does to runs is legal.
LEMMA ChildWrites ==
  ASSUME Inv, Child
  PROVE  Kept /\ EventKeys' /\ EndsTold'
<1> USE DEF Inv
<1>0. woken' = woken
      BY DEF Child, loopVars
<1>1. ASSUME NEW over, Enforce(over) PROVE Kept /\ EventKeys' /\ EndsTold'
      BY <1>0, <1>1, StoppedLegal, WriteTells DEF Enforce
<1>2. ASSUME NEW r \in DOMAIN runs, NEW state \in States, NEW what \in {"terminal", "question"},
             Becomes(r, state, what), runs[r].state \in Active,
             state \notin Active => what = "terminal", state = "waiting" => what = "question"
      PROVE  Kept /\ EventKeys' /\ EndsTold'
  <2> DEFINE new == [runs EXCEPT ![r].state = state]
  <2>1. Legal(new, what) /\ Write(new, what)
        BY <1>2, BecomesLegal DEF Becomes
  <2> HIDE DEF new
  <2> QED
      BY <1>0, <2>1, WriteTells
<1>4. ASSUME NEW r \in DOMAIN runs, Ask(r) PROVE Kept /\ EventKeys' /\ EndsTold'
      BY <1>2, <1>4 DEF Ask, States, Active
<1>5. ASSUME NEW r \in DOMAIN runs, AskEnds(r) PROVE Kept /\ EventKeys' /\ EndsTold'
      BY <1>2, <1>5 DEF AskEnds, States, Active
<1>6. ASSUME NEW r \in DOMAIN runs, Settle(r) PROVE Kept /\ EventKeys' /\ EndsTold'
  <2>1. PICK result \in {"succeeded", "failed", "cancelled", "interrupted"} :
           Becomes(r, IF runs[r].cancel /\ result # "interrupted" THEN "cancelled" ELSE result, "terminal")
        BY <1>6 DEF Settle
  <2> DEFINE state == IF runs[r].cancel /\ result # "interrupted" THEN "cancelled" ELSE result
  <2>2. state \in States /\ state # "waiting" /\ Becomes(r, state, "terminal") /\ runs[r].state \in Active
        BY <1>6, <2>1 DEF Settle, States, Active
  <2> HIDE DEF state
  <2> QED
      BY <1>2, <2>2
<1> QED
    BY <1>1, <1>4, <1>5, <1>6 DEF Child

LEMMA ChildInv ==
  ASSUME Inv, Child
  PROVE  Inv'
<1>1. Kept /\ EventKeys' /\ EndsTold'
      BY ChildWrites
<1>2. UNCHANGED <<caller, receipt, command, op, tasks, done>>
      BY DEF Child
<1>3. OpInv' /\ Current' /\ Rounds' /\ TypeInv'
      BY <1>1, <1>2, RunsInv DEF Inv, TypeInv
<1>4. Effects'
      BY <1>2 DEF Inv, Effects
<1> QED
    BY <1>1, <1>3, <1>4 DEF Inv

\* A user's command is applied with its receipt.
LEMMA UserCommandInv ==
  ASSUME Inv, NEW u \in UserCommands, UserCommand(u)
  PROVE  Inv'
<1> DEFINE r == Order[u].run
<1>0. woken' = woken
      BY DEF UserCommand, loopVars
<1>1. Kept /\ EventKeys' /\ EndsTold'
  <2>1. CASE Order[u].type = "cancel"
    <3>1. Write(Stopped({r}), "terminal")
          BY <2>1 DEF UserCommand
    <3> QED
        BY <1>0, <3>1, StoppedLegal, WriteTells DEF Inv
  <2>2. CASE Order[u].type # "cancel"
    <3> DEFINE new == [runs EXCEPT ![r].state = "queued", ![r].attempt = @ + 1, ![r].cancel = FALSE]
    <3>1. r \in DOMAIN runs /\ runs[r].state \in {"interrupted", "failed"} /\ Write(new, "terminal")
          BY <2>2 DEF UserCommand, Resumed
    <3>2. Legal(new, "terminal")
          BY <3>1, ResumedLegal DEF Inv
    <3> HIDE DEF new
    <3> QED
        BY <1>0, <3>1, <3>2, WriteTells DEF Inv
  <2> QED
      BY <2>1, <2>2
<1>2. /\ u \notin command /\ command' = command \cup {u}
      /\ done' = [done EXCEPT ![u] = @ + 1]
      /\ UNCHANGED <<caller, receipt, op, tasks>>
      BY DEF UserCommand, Fresh, Count
<1>3. done' \in [Calls \cup UserCommands -> Nat] /\ command' \subseteq UserCommands
      BY <1>2 DEF Inv, TypeInv
<1>4. OpInv' /\ Current' /\ Rounds' /\ TypeInv'
      BY <1>1, <1>2, <1>3, RunsInv DEF Inv, TypeInv
<1>5. Effects'
  <2>1. done[u] = 0
        BY <1>2 DEF Inv, Effects
  <2>2. done'[u] = 1 /\ \A d \in (Calls \cup UserCommands) \ {u} : done'[d] = done[d]
        BY <1>2, <2>1 DEF Inv, TypeInv
  <2> QED
      BY <1>2, <2>2, ToolConstants DEF Inv, Effects
<1> QED
    BY <1>1, <1>4, <1>5 DEF Inv

\* A queued run starts, or one that was withdrawn since it was read.
LEMMA StartRunInv ==
  ASSUME Inv, QueueRead, NEW r \in DOMAIN queue, StartRun(r)
  PROVE  Inv'
<1> DEFINE next == [queue[r] EXCEPT !.state = "running"]
           new == [runs EXCEPT ![r] = next]
<1>1. /\ r \in DOMAIN runs /\ queue[r] \in RunRecords /\ queue[r].state = "queued"
      /\ Write(new, "terminal")
      /\ UNCHANGED <<caller, receipt, command, op, tasks, done>>
      BY DEF StartRun, QueueRead
<1>2. \A q \in DOMAIN runs : runs[q] \in RunRecords
      BY RunsTyped DEF Inv
<1>3. /\ next \in RunRecords /\ next.state = "running"
      /\ next.task = queue[r].task /\ next.attempt = queue[r].attempt
      BY <1>1 DEF RunRecords, States, Active
<1>4. new[r] = next /\ \A q \in DOMAIN runs \ {r} : new[q] = runs[q]
      BY <1>1
<1>5. new \in [DOMAIN runs -> RunRecords]
      BY <1>2, <1>3, <1>4
<1> HIDE DEF next, new
<1>6. Kept /\ EventKeys' /\ EndsTold'
  <2>1. CASE runs[r].state = "queued"
    <3>1. runs[r] = queue[r] /\ woken' = woken
          BY <1>1, <2>1 DEF QueueRead, StartRun, RunRecords
    <3>2. next.task = runs[r].task /\ GoesOn(r, new, "terminal")
          BY <1>3, <1>4, <2>1, <3>1 DEF GoesOn, Active
    <3>3. Legal(new, "terminal")
          BY <1>4, <1>5, <3>2 DEF Legal
    <3> QED
        BY <1>1, <3>1, <3>3, WriteTells DEF Inv
  <2>2. CASE runs[r].state # "queued"
    <3>1. /\ runs[r].state = "cancelled"
          /\ runs[r].task = next.task /\ runs[r].attempt = next.attempt
          BY <1>1, <1>3, <2>2 DEF QueueRead, RunRecords
    <3>2. woken' = woken \cup {<<r, next.attempt>>}
          BY <2>2, <3>1 DEF StartRun
    <3>3. runs' = new /\ DOMAIN event' = DOMAIN event /\ \A k \in DOMAIN event : event'[k] = event[k]
      <4>1. ~\E q \in DOMAIN runs : new[q] # runs[q] /\ Tells(new[q], "terminal")
            BY <1>3, <1>4 DEF Tells
      <4>2. /\ runs' = new
            /\ event' = [k \in DOMAIN event \cup {} |-> IF k \in DOMAIN event THEN event[k] ELSE Reported(new[k[1]])]
            BY <1>1, <4>1 DEF Write
      <4> QED
          BY <4>2
    <3>4. Kept
          BY <1>3, <1>4, <1>5, <3>1, <3>3, SameDomain DEF Kept, Inv, TypeInv
    <3>5. <<r, next.attempt, "terminal">> \in DOMAIN event /\ event[<<r, next.attempt, "terminal">>] = "cancelled"
          BY <1>1, <3>1 DEF Inv, EndsTold, Active, Reported
    <3>6. EventKeys'
      <4>1. \A q \in DOMAIN runs : new[q].attempt = runs[q].attempt
            BY <1>4, <3>1
      <4>2. ASSUME NEW k \in DOMAIN event'
            PROVE  \E q \in DOMAIN runs' : \E a \in 1..runs'[q].attempt :
                     \E w \in {"terminal", "question"} : k = <<q, a, w>>
            BY <3>3, <3>4, <4>1 DEF Inv, EventKeys, Kept
      <4>3. \A p \in woken' : <<p[1], p[2], "terminal">> \in DOMAIN event'
        <5>1. \A p \in woken : <<p[1], p[2], "terminal">> \in DOMAIN event'
              BY <3>3 DEF Inv, EventKeys
        <5>2. \A p \in {<<r, next.attempt>>} : <<p[1], p[2], "terminal">> \in DOMAIN event'
              BY <3>3, <3>5
        <5> QED
            BY <3>2, <5>1, <5>2
      <4> QED
          BY <4>2, <4>3 DEF EventKeys
    <3>7. EndsTold'
      <4>1. \A q \in DOMAIN runs \ {r} : \A a : <<q, a>> \in woken' <=> <<q, a>> \in woken
            BY <3>2
      <4>2. \A a \in 1..(next.attempt - 1) : <<r, a, "terminal">> \in DOMAIN event
            BY <1>1, <3>1 DEF Inv, EndsTold
      <4> SUFFICES ASSUME NEW q \in DOMAIN runs
                   PROVE  LET k == <<q, new[q].attempt, "terminal">>
                              ended == new[q].state \notin Active
                              stale == <<q, new[q].attempt>> \in woken'
                          IN  /\ k \in DOMAIN event <=> ended \/ stale
                              /\ stale => event[k] = "cancelled"
                              /\ ended /\ ~stale => event[k] = Reported(new[q])
                              /\ \A a \in 1..(new[q].attempt - 1) : <<q, a, "terminal">> \in DOMAIN event
                              /\ new[q].state = "waiting" => <<q, new[q].attempt, "question">> \in DOMAIN event
          BY <3>3, <3>4 DEF EndsTold, Kept, Reported, Active
      <4>3. CASE q = r
            BY <1>3, <1>4, <3>2, <3>5, <4>2, <4>3 DEF Active
      <4>4. CASE q # r
            BY <1>4, <4>1, <4>4 DEF Inv, EndsTold
      <4> QED
          BY <4>3, <4>4
    <3> QED
        BY <3>4, <3>6, <3>7
  <2> QED
      BY <2>1, <2>2
<1>7. OpInv' /\ Current' /\ Rounds' /\ TypeInv'
      BY <1>1, <1>6, RunsInv DEF Inv, TypeInv
<1>8. Effects'
      BY <1>1 DEF Inv, Effects
<1> QED
    BY <1>6, <1>7, <1>8 DEF Inv

\* Steps that read the queue, end the loop, or do nothing.
LEMMA LoopInv ==
  ASSUME Inv, UNCHANGED <<caller, receipt, command, op, childVars, woken, done>>
  PROVE  Inv'
<1>1. UNCHANGED <<caller, receipt, command, op, tasks, runs, event, woken, done>>
      BY DEF childVars
<1>2. TypeInv' /\ OpInv' /\ Current' /\ Effects'
      BY <1>1 DEF Inv, TypeInv, OpInv, Current, Effects
<1>3. Rounds'
      BY <1>1 DEF Inv, Rounds, Of
<1>4. EventKeys'
      BY <1>1 DEF Inv, EventKeys
<1>5. EndsTold'
      BY <1>1 DEF Inv, EndsTold, Reported, Active
<1> QED
    BY <1>2, <1>3, <1>4, <1>5 DEF Inv

\* While a loop runs, a run of its queue can only be withdrawn.
LEMMA QueueReadKept ==
  ASSUME Inv, QueueRead, [Next]_vars
  PROVE  QueueRead'
<1>1. CASE HostStep
  <2>1. queue = <<>>
        BY <1>1 DEF HostStep, Idle
  <2>2. CASE ScanQueue
    <3>1. /\ runs' = runs
          /\ DOMAIN queue' = {r \in DOMAIN runs : runs[r].state = "queued"}
          /\ \A r \in DOMAIN queue' : queue'[r] = runs[r]
          BY <2>2 DEF ScanQueue, childVars
    <3>2. \A r \in DOMAIN runs : runs[r] \in RunRecords
          BY RunsTyped DEF Inv
    <3> QED
        BY <3>1, <3>2 DEF QueueRead
  <2>3. CASE ~ScanQueue
    <3>1. queue' = <<>>
          BY <1>1, <2>1, <2>3 DEF HostStep, ToolCall, Reserve, Dispatch, Message, CancelTask,
             TurnEnds, NextTurn, Child, loopVars
    <3>2. DOMAIN queue' = {}
          BY <3>1
    <3> QED
        BY <3>2 DEF QueueRead
  <2> QED
      BY <2>2, <2>3
<1>2. ASSUME NEW r \in DOMAIN queue, StartRun(r) PROVE QueueRead'
  <2>1. /\ runs' = [runs EXCEPT ![r] = [queue[r] EXCEPT !.state = "running"]]
        /\ DOMAIN queue' = {q \in DOMAIN queue : q > r} /\ \A q \in DOMAIN queue' : queue'[q] = queue[q]
        BY <1>2 DEF StartRun, Write
  <2>2. r \in DOMAIN runs /\ DOMAIN runs = 1..Len(runs)
        BY RunsTyped DEF QueueRead, Inv
  <2>3. DOMAIN runs' = DOMAIN runs /\ \A q \in DOMAIN runs \ {r} : runs'[q] = runs[q]
        BY <2>1
  <2>4. \A q \in DOMAIN queue' : q \in DOMAIN queue /\ q # r
        BY <2>1, <2>2
  <2>5. \A q \in DOMAIN queue' : queue'[q] = queue[q] /\ runs'[q] = runs[q] /\ q \in DOMAIN queue /\ q \in DOMAIN runs'
        BY <2>1, <2>3, <2>4 DEF QueueRead
  <2> QED
      BY <2>5 DEF QueueRead
<1>3. CASE LoopEnds \/ Recover
  <2>1. DOMAIN queue' = {}
        BY <1>3 DEF LoopEnds, Recover
  <2> QED
      BY <2>1 DEF QueueRead
<1>4. ASSUME NEW g \in 1..MaxGrants, Refused(g) PROVE QueueRead'
      BY <1>4 DEF Refused, childVars, loopVars, QueueRead
<1>5. ASSUME NEW u \in UserCommands, UserCommand(u) PROVE QueueRead'
  <2> DEFINE o == Order[u].run
  <2>1. queue' = queue /\ o \in DOMAIN runs
        BY <1>5 DEF UserCommand, loopVars
  <2>2. \A r \in DOMAIN runs : runs[r] \in RunRecords
        BY RunsTyped DEF Inv
  <2>3. CASE Order[u].type = "cancel"
    <3>1. runs' = Stopped({o})
          BY <1>5, <2>3 DEF UserCommand, Write
    <3>2. DOMAIN runs' = DOMAIN runs /\ \A r \in DOMAIN runs \ {o} : runs'[r] = runs[r]
          BY <3>1 DEF Stopped
    <3>3. o \in DOMAIN queue => \/ runs'[o] = queue[o]
                                \/ runs'[o] = [queue[o] EXCEPT !.cancel = TRUE, !.state = "cancelled"]
      <4> SUFFICES ASSUME o \in DOMAIN queue
                   PROVE  \/ runs'[o] = queue[o]
                          \/ runs'[o] = [queue[o] EXCEPT !.cancel = TRUE, !.state = "cancelled"]
          OBVIOUS
      <4>1. CASE runs[o] = queue[o]
            BY <2>1, <3>1, <4>1 DEF Stopped, QueueRead, Active, RunRecords
      <4>2. CASE runs[o] = [queue[o] EXCEPT !.cancel = TRUE, !.state = "cancelled"]
        <5>1. runs[o].state = "cancelled"
              BY <4>2 DEF QueueRead, RunRecords
        <5> QED
            BY <2>1, <3>1, <4>2, <5>1 DEF Stopped, Active
      <4> QED
          BY <4>1, <4>2 DEF QueueRead
    <3> QED
        BY <2>1, <3>2, <3>3 DEF QueueRead
  <2>4. CASE Order[u].type # "cancel"
    <3>1. /\ runs[o].state \in {"interrupted", "failed"}
          /\ runs' = [runs EXCEPT ![o].state = "queued", ![o].attempt = @ + 1, ![o].cancel = FALSE]
          BY <1>5, <2>4 DEF UserCommand, Resumed, Write
    <3>2. DOMAIN runs' = DOMAIN runs /\ \A r \in DOMAIN runs \ {o} : runs'[r] = runs[r]
          BY <3>1
    <3>3. o \notin DOMAIN queue
      <4> SUFFICES ASSUME o \in DOMAIN queue
                   PROVE  runs[o].state \in {"queued", "cancelled"}
          BY <3>1
      <4> HIDE DEF o
      <4> QED
          BY DEF QueueRead, RunRecords
    <3> QED
        BY <2>1, <3>2, <3>3 DEF QueueRead
  <2> QED
      BY <2>3, <2>4
<1>6. CASE UNCHANGED vars
      BY <1>6 DEF vars, QueueRead
<1> QED
    BY <1>1, <1>2, <1>3, <1>4, <1>5, <1>6 DEF Next

LEMMA NextInv == Inv /\ QueueRead /\ [Next]_vars => Inv'
<1> SUFFICES ASSUME Inv, QueueRead, [Next]_vars PROVE Inv'
    OBVIOUS
<1>1. CASE HostStep
  <2>1. ASSUME NEW g \in 1..MaxGrants, ToolCall(g) PROVE Inv'
        BY <2>1, ReserveInv, DispatchInv, MessageInv, CancelTaskInv DEF ToolCall
  <2>2. CASE TurnEnds \/ NextTurn
        BY <2>2, TurnEndsInv, NextTurnInv
  <2>3. CASE Child
        BY <2>3, ChildInv
  <2>4. CASE ScanQueue
        BY <2>4, LoopInv DEF ScanQueue
  <2> QED
      BY <1>1, <2>1, <2>2, <2>3, <2>4 DEF HostStep
<1>2. ASSUME NEW r \in DOMAIN queue, StartRun(r) PROVE Inv'
      BY <1>2, StartRunInv
<1>3. CASE LoopEnds
      BY <1>3, LoopInv DEF LoopEnds
<1>4. CASE Recover
      BY <1>4, RecoverInv
<1>5. ASSUME NEW g \in 1..MaxGrants, Refused(g) PROVE Inv'
      BY <1>5, RefusedInv
<1>6. ASSUME NEW u \in UserCommands, UserCommand(u) PROVE Inv'
      BY <1>6, UserCommandInv
<1>7. CASE UNCHANGED vars
      BY <1>7, LoopInv DEF vars, childVars
<1> QED
    BY <1>1, <1>2, <1>3, <1>4, <1>5, <1>6, <1>7 DEF Next

\* The invariant holds in every state.
LEMMA InvAlways == Spec => []Inv
<1>1. Init => Inv /\ QueueRead
      BY InitInv DEF Init, QueueRead
<1>2. Inv /\ QueueRead /\ [Next]_vars => (Inv /\ QueueRead)'
      BY NextInv, QueueReadKept
<1> QED
    BY <1>1, <1>2, PTL DEF Spec

\* Every command of a tool or a user takes effect exactly if its receipt says so, and
\* at most once, and the rounds of a child count its runs, through any crashes, late calls
\* of earlier grants and repetitions (commandReceipts.ts, agentToolRuntime.ts, agentDispatch.ts).
THEOREM CommandOnceAlways == Spec => []CommandOnce
<1>1. Inv => CommandOnce
      BY DEF Inv, Effects, Rounds, Of, RunsOf, CommandOnce
<1> QED
    BY <1>1, InvAlways, PTL

\* Every end of every attempt of a child is in the outbox once and as it was, but for an
\* attempt started after it was withdrawn, of which it has the cancel
\* (recordStudioAgentEvent in agentOutbox.ts, tick() in studioRuntimeService.ts).
THEOREM EndsToldAlways == Spec => []EndsTold
<1>1. Inv => EndsTold
      BY DEF Inv
<1> QED
    BY <1>1, InvAlways, PTL
===============================================================================
