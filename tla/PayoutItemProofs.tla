--------------------------- MODULE PayoutItemProofs ---------------------------
(***************************************************************************)
(* Theorems about PayoutItem, for any number of worker passes, processes   *)
(* and handlers; those about the dead letter are for a single pass.        *)
(***************************************************************************)
EXTENDS PayoutItem, FiniteSetTheorems, TLAPS

\* The actions of the module, one by one.
PassAction(d) ==
  \/ ClaimOneItem(d) \/ HeartbeatItem(d) \/ CallProvider(d) \/ ScheduleRetry(d)
  \/ ReleaseLease(d) \/ ReleaseItemLease(d) \/ Raise(d)

TaskAction(x) ==
  MarkDeadLetter(x) \/ TransitionRead(x) \/ TransitionWrite(x) \/ EmitEvent(x) \/ Crash(x)

HandlerAction(h) ==
  \/ AdvanceMockItem(h) \/ StripeWebhook(h) \/ PersistKey(h) \/ AdminTransition(h)
  \/ AdminForceRetry(h) \/ AdminForceDeadLetter(h) \/ ForceRetryWrite(h)

LEMMA Steppers ==
  ASSUME [Next]_vars
  PROVE  \/ \E d \in Passes : PassAction(d)
         \/ \E x \in Tasks : TaskAction(x)
         \/ \E h \in Handlers : HandlerAction(h)
         \/ ReapRead \/ ReapWrite \/ BackoffElapses \/ LeaseExpires \/ ProviderEmits
         \/ UNCHANGED vars
<1>1. ASSUME NEW d \in Passes, PassStep(d) PROVE PassAction(d) \/ TaskAction(d)
  BY <1>1 DEF PassStep, TransitionStep, PassAction, TaskAction
<1>2. ASSUME NEW d \in Passes, Raise(d) PROVE PassAction(d)
  BY <1>2 DEF PassAction
<1>3. ASSUME NEW h \in Handlers, Request(h) PROVE HandlerAction(h)
  BY <1>3 DEF Request, HandlerAction
<1>4. ASSUME NEW h \in Handlers, HandlerStep(h) PROVE HandlerAction(h) \/ TaskAction(h)
  BY <1>4 DEF HandlerStep, TransitionStep, HandlerAction, TaskAction
<1>5. ASSUME NEW h \in Handlers, AdvanceMockItem(h) PROVE HandlerAction(h)
  BY <1>5 DEF HandlerAction
<1>6. ASSUME NEW x \in Tasks, Crash(x) PROVE TaskAction(x)
  BY <1>6 DEF TaskAction
<1>7. Passes \subseteq Tasks /\ Handlers \subseteq Tasks
  BY DEF Tasks
<1> QED
  BY <1>1, <1>2, <1>3, <1>4, <1>5, <1>6, <1>7 DEF Next

-----------------------------------------------------------------------------
(* Types.                                                                  *)

TaskDoc == [step : Steps, attempt : Nat, target : Statuses \cup Events \cup {None}]

LEMMA InitTypeOK == Init => TypeOK
<1> SUFFICES ASSUME Init PROVE TypeOK
  OBVIOUS
<1>1. item \in ItemDoc
  BY DEF Init, ItemDoc, Statuses, Leases
<1>2. Idle \in TaskDoc
  BY DEF Idle, TaskDoc, Steps
<1>3. {"queued"} \subseteq Statuses
  BY DEF Statuses
<1> QED
  BY <1>1, <1>2, <1>3 DEF Init, TypeOK, TaskDoc

\* A webhook brings an event to its handler, and a transition is written only
\* towards a status of the table.
Carries(t) ==
  /\ t.step = "insert" => t.target \in Events
  /\ t.step \in {"write", "emit"} => t.target \in Statuses

Carried == \A x \in Tasks : Carries(task[x])

LEMMA InitCarried == Init => Carried
BY DEF Init, Carried, Carries, Idle

\* A step of one task keeps the types of all.
LEMMA OneTask ==
  ASSUME TypeOK, Carried, NEW x \in Tasks, NEW t \in TaskDoc, Carries(t),
         task' = [task EXCEPT ![x] = t]
  PROVE  task' \in [Tasks -> TaskDoc] /\ Carried'
BY DEF TypeOK, Carried, TaskDoc

LEMMA OneGoto ==
  ASSUME TypeOK, Carried, NEW x \in Tasks, NEW from \in Steps, NEW to \in Steps,
         Goto(x, from, to), Carries([task[x] EXCEPT !.step = to])
  PROVE  task' \in [Tasks -> TaskDoc] /\ Carried'
<1>1. task[x] \in TaskDoc
  BY DEF TypeOK, TaskDoc
<1>2. Idle \in TaskDoc /\ Carries(Idle)
  BY DEF Idle, TaskDoc, Carries, Steps
<1>3. [task[x] EXCEPT !.step = to] \in TaskDoc
  BY <1>1 DEF TaskDoc
<1>4. CASE to = "idle"
  <2>1. task' = [task EXCEPT ![x] = Idle]
    BY <1>4 DEF Goto
  <2> QED BY <2>1, <1>2, OneTask
<1>5. CASE to # "idle"
  <2>1. task' = [task EXCEPT ![x] = [task[x] EXCEPT !.step = to]]
    BY <1>5 DEF Goto
  <2> QED BY <2>1, <1>3, OneTask
<1> QED BY <1>4, <1>5

LEMMA TransitionTypes == \A s \in Statuses : Transitions[s] \subseteq Statuses
BY DEF Statuses, Transitions

LEMMA UnclaimedType == TypeOK => Unclaimed \in ItemDoc
BY DEF TypeOK, Unclaimed, ItemDoc, Leases

\* What a step leaves to show once the task it moves is dealt with.
LEMMA Assembled ==
  ASSUME TypeOK, item' \in ItemDoc, reached' \subseteq Statuses, logged' \subseteq Statuses,
         task' \in [Tasks -> TaskDoc], transferred' \in BOOLEAN, emitted' \subseteq Events,
         seen' \subseteq Events, reaping' \in BOOLEAN
  PROVE  TypeOK'
BY DEF TypeOK, TaskDoc

LEMMA PassTypes ==
  ASSUME TypeOK, Carried, NEW d \in Passes, PassAction(d) PROVE TypeOK' /\ Carried'
<1> USE DEF providerVars
<1>a. d \in Tasks /\ task[d] \in TaskDoc /\ item \in ItemDoc /\ Unclaimed \in ItemDoc
  BY UnclaimedType DEF Tasks, TypeOK, TaskDoc
<1>b. Host[d] \in Workers
  BY PayoutConstants
<1>c. \A t : t.step \notin {"insert", "write", "emit"} => Carries(t)
  BY DEF Carries
<1>1. CASE ClaimOneItem(d)
  <2> DEFINE t == [step |-> "claimed", attempt |-> item.attempts + 1, target |-> None]
  <2>1. item' \in ItemDoc
    BY <1>1, <1>a, <1>b DEF ClaimOneItem, ItemDoc, Leases
  <2>2. t \in TaskDoc /\ Carries(t)
    BY <1>a DEF ItemDoc, TaskDoc, Steps, Carries
  <2>3. task' \in [Tasks -> TaskDoc] /\ Carried'
    BY <1>1, <1>a, <2>2, OneTask DEF ClaimOneItem
  <2> QED
    BY <1>1, <2>1, <2>3, Assembled DEF ClaimOneItem, TypeOK
<1>2. CASE HeartbeatItem(d)
  <2>1. item' \in ItemDoc
    BY <1>2, <1>a DEF HeartbeatItem, ItemDoc, Leases
  <2>2. task' \in [Tasks -> TaskDoc] /\ Carried'
    BY <1>2, <1>a, <1>c, OneGoto DEF HeartbeatItem, TaskDoc, Steps
  <2> QED
    BY <1>2, <2>1, <2>2, Assembled DEF HeartbeatItem, TypeOK
<1>3. CASE CallProvider(d)
  <2> DEFINE Accept == [task[d] EXCEPT !.step = "read", !.target = "initiated"]
             Again  == [task[d] EXCEPT !.step = "retry"]
             Dead   == [task[d] EXCEPT !.step = "mark"]
  <2>1. Accept \in TaskDoc /\ Carries(Accept)
    BY <1>a DEF TaskDoc, Steps, Statuses, Carries
  <2>2. Again \in TaskDoc /\ Carries(Again) /\ Dead \in TaskDoc /\ Carries(Dead)
    BY <1>a DEF TaskDoc, Steps, Carries
  <2>3. \E t \in {Accept, Again, Dead} : task' = [task EXCEPT ![d] = t]
    BY <1>3, <1>a DEF CallProvider, MoveTo, OnFailure, TypeOK
  <2>4. task' \in [Tasks -> TaskDoc] /\ Carried'
    BY <2>1, <2>2, <2>3, <1>a, OneTask
  <2>5. transferred' \in BOOLEAN
    BY <1>3 DEF CallProvider, TypeOK
  <2> QED
    BY <1>3, <2>4, <2>5, Assembled DEF CallProvider, TypeOK
<1>4. CASE ScheduleRetry(d)
  <2> DEFINE n == Unclaimed.attempts + 1
  <2>a. n \in Nat
    BY <1>a DEF ItemDoc
  <2>b. item' = [Unclaimed EXCEPT !.waiting = TRUE, !.attempts = n]
    BY <1>4, <1>a DEF ScheduleRetry, ItemDoc
  <2>1. item' \in ItemDoc
    <3> HIDE DEF n
    <3> QED BY <1>a, <2>a, <2>b DEF ItemDoc
  <2>2. task' \in [Tasks -> TaskDoc] /\ Carried'
    BY <1>4, <1>a, <1>c, OneGoto DEF ScheduleRetry, TaskDoc, Steps
  <2> QED
    BY <1>4, <2>1, <2>2, Assembled DEF ScheduleRetry, TypeOK
<1>5. CASE ReleaseLease(d)
  <2>1. item' \in ItemDoc
    BY <1>5, <1>a DEF ReleaseLease, ItemDoc, TaskDoc
  <2>2. task' \in [Tasks -> TaskDoc] /\ Carried'
    BY <1>5, <1>a, <1>c, OneGoto DEF ReleaseLease, TaskDoc, Steps
  <2> QED
    BY <1>5, <2>1, <2>2, Assembled DEF ReleaseLease, TypeOK
<1>6. CASE ReleaseItemLease(d)
  <2>1. item' \in ItemDoc
    BY <1>6, <1>a DEF ReleaseItemLease
  <2>2. task' \in [Tasks -> TaskDoc] /\ Carried'
    BY <1>6, <1>a, <1>c, OneGoto DEF ReleaseItemLease, TaskDoc, Steps
  <2> QED
    BY <1>6, <2>1, <2>2, Assembled DEF ReleaseItemLease, TypeOK
<1>7. CASE Raise(d)
  <2> DEFINE t == [task[d] EXCEPT !.step = "drop"]
  <2>1. t \in TaskDoc /\ Carries(t)
    BY <1>a DEF TaskDoc, Steps, Carries
  <2>2. task' = [task EXCEPT ![d] = t]
    BY <1>7 DEF Raise
  <2>3. task' \in [Tasks -> TaskDoc] /\ Carried'
    BY <2>1, <2>2, <1>a, OneTask
  <2> QED
    BY <1>7, <2>3, Assembled DEF Raise, TypeOK
<1> QED
  BY <1>1, <1>2, <1>3, <1>4, <1>5, <1>6, <1>7 DEF PassAction

LEMMA TaskTypes ==
  ASSUME TypeOK, Carried, NEW x \in Tasks, TaskAction(x) PROVE TypeOK' /\ Carried'
<1> USE DEF providerVars
<1>a. task[x] \in TaskDoc /\ item \in ItemDoc /\ Unclaimed \in ItemDoc
  BY UnclaimedType DEF TypeOK, TaskDoc
<1>b. \A t : t.step \notin {"insert", "write", "emit"} => Carries(t)
  BY DEF Carries
<1>c. AfterTransition(x) \in Steps \ {"insert", "write", "emit"}
  BY DEF AfterTransition, Steps
<1>1. CASE MarkDeadLetter(x)
  <2> DEFINE t == [task[x] EXCEPT !.step = "read", !.target = "failed"]
  <2>1. item' \in ItemDoc
    BY <1>1, <1>a DEF MarkDeadLetter, ItemDoc, TaskDoc
  <2>2. t \in TaskDoc /\ Carries(t)
    BY <1>a DEF TaskDoc, Steps, Statuses, Carries
  <2>3. task' = [task EXCEPT ![x] = t]
    BY <1>1, <1>a DEF MarkDeadLetter, MoveTo, TypeOK
  <2>4. task' \in [Tasks -> TaskDoc] /\ Carried'
    BY <2>2, <2>3, OneTask
  <2> QED
    BY <1>1, <2>1, <2>4, Assembled DEF MarkDeadLetter, TypeOK
<1>2. CASE TransitionRead(x)
  <2> DEFINE to == IF task[x].target \in Transitions[item.status]
                   THEN "write" ELSE AfterTransition(x)
  <2>1. to = "write" => task[x].target \in Statuses
    BY <1>a, <1>c, TransitionTypes DEF ItemDoc
  <2>2. to \in Steps /\ to # "insert" /\ to # "emit"
    BY <1>c DEF Steps
  <2>3. Carries([task[x] EXCEPT !.step = to])
    BY <1>a, <2>1, <2>2 DEF Carries, TaskDoc
  <2>4. Goto(x, "read", to) /\ "read" \in Steps
    BY <1>2 DEF TransitionRead, Steps
  <2>5. task' \in [Tasks -> TaskDoc] /\ Carried'
    BY <2>2, <2>3, <2>4, OneGoto
  <2> QED
    BY <1>2, <2>5, Assembled DEF TransitionRead, TypeOK
<1>3. CASE TransitionWrite(x)
  <2>1. task[x].target \in Statuses
    BY <1>3 DEF TransitionWrite, Goto, Carried, Carries
  <2>2. Carries([task[x] EXCEPT !.step = "emit"])
    BY <1>a, <2>1 DEF Carries, TaskDoc
  <2>3. Goto(x, "write", "emit") /\ "write" \in Steps /\ "emit" \in Steps
    BY <1>3 DEF TransitionWrite, Steps
  <2>4. task' \in [Tasks -> TaskDoc] /\ Carried'
    BY <2>2, <2>3, OneGoto
  <2>5. item' \in ItemDoc
    BY <1>3, <1>a, <2>1 DEF TransitionWrite, ItemDoc
  <2> QED
    BY <1>3, <2>1, <2>4, <2>5, Assembled DEF TransitionWrite, TypeOK
<1>4. CASE EmitEvent(x)
  <2>1. task[x].target \in Statuses
    BY <1>4 DEF EmitEvent, Goto, Carried, Carries
  <2>2. Carries([task[x] EXCEPT !.step = AfterTransition(x)])
    BY <1>a, <1>b, <1>c DEF TaskDoc
  <2>3. Goto(x, "emit", AfterTransition(x)) /\ "emit" \in Steps
    BY <1>4 DEF EmitEvent, Steps
  <2>4. task' \in [Tasks -> TaskDoc] /\ Carried'
    BY <1>c, <2>2, <2>3, OneGoto
  <2> QED
    BY <1>4, <2>1, <2>4, Assembled DEF EmitEvent, TypeOK
<1>5. CASE Crash(x)
  <2>1. PICK owed \in {task[x].target, None} :
          task' = [task EXCEPT ![x] = [Idle EXCEPT !.step = "gone", !.target = owed]]
    BY <1>5 DEF Crash
  <2>2. [Idle EXCEPT !.step = "gone", !.target = owed] \in TaskDoc
        /\ Carries([Idle EXCEPT !.step = "gone", !.target = owed])
    BY <1>a DEF Idle, TaskDoc, Steps, Carries
  <2>3. task' \in [Tasks -> TaskDoc] /\ Carried'
    BY <2>1, <2>2, OneTask
  <2> QED
    BY <1>5, <2>3, Assembled DEF Crash, TypeOK
<1> QED
  BY <1>1, <1>2, <1>3, <1>4, <1>5 DEF TaskAction

LEMMA StartTypes ==
  ASSUME TypeOK, Carried, NEW h \in Handlers, NEW step \in Steps, NEW attempt \in Nat,
         NEW target \in Statuses \cup Events \cup {None}, Start(h, step, attempt, target),
         step \notin {"write", "emit"}, step = "insert" => target \in Events
  PROVE  TypeOK' /\ Carried'
<1> DEFINE t == [step |-> step, attempt |-> attempt, target |-> target]
<1>1. t \in TaskDoc /\ Carries(t) /\ h \in Tasks
  BY DEF TaskDoc, Carries, Tasks
<1>2. task' \in [Tasks -> TaskDoc] /\ Carried'
  BY <1>1, OneTask DEF Start
<1> QED
  BY <1>2, Assembled DEF Start, TypeOK, providerVars

LEMMA HandlerTypes ==
  ASSUME TypeOK, Carried, NEW h \in Handlers, HandlerAction(h) PROVE TypeOK' /\ Carried'
<1> USE DEF providerVars
<1>a. h \in Tasks /\ task[h] \in TaskDoc /\ item \in ItemDoc /\ Unclaimed \in ItemDoc
  BY UnclaimedType DEF TypeOK, TaskDoc, Tasks
<1>b. {"read", "force", "mark", "insert", "idle"} \subseteq Steps
  BY DEF Steps
<1>1. CASE AdvanceMockItem(h)
  <2>1. MockChain[item.status] \in Statuses
    BY <1>1 DEF AdvanceMockItem, MockChain, Statuses
  <2> QED
    BY <1>1, <1>b, <2>1, StartTypes DEF AdvanceMockItem
<1>2. CASE StripeWebhook(h)
  <2>1. PICK e \in emitted : Start(h, "insert", 0, e)
    BY <1>2 DEF StripeWebhook
  <2>2. e \in Events
    BY DEF TypeOK
  <2> QED
    BY <1>b, <2>1, <2>2, StartTypes
<1>3. CASE PersistKey(h)
  <2> DEFINE t == [task[h] EXCEPT !.step = "read", !.target = Announces[task[h].target]]
  <2>1. task[h].target \in Events /\ Announces[task[h].target] \in Statuses
    BY <1>3, <1>a, PayoutConstants DEF PersistKey, Goto, Carried, Carries
  <2>2. t \in TaskDoc /\ Carries(t)
    BY <1>a, <2>1 DEF TaskDoc, Carries, Steps
  <2>3. Goto(h, "insert", "idle") \/ task' = [task EXCEPT ![h] = t]
    BY <1>3, <1>a DEF PersistKey, MoveTo, TypeOK
  <2>4. Carries([task[h] EXCEPT !.step = "idle"])
    BY <1>a DEF Carries, TaskDoc
  <2>5. task' \in [Tasks -> TaskDoc] /\ Carried'
    BY <1>a, <1>b, <2>2, <2>3, <2>4, OneGoto, OneTask
  <2> QED
    BY <1>3, <2>1, <2>5, Assembled DEF PersistKey, TypeOK
<1>4. CASE AdminTransition(h)
  <2>1. PICK to \in AdminTargets : Start(h, "read", 0, to)
    BY <1>4 DEF AdminTransition
  <2> QED
    BY <1>b, <2>1, StartTypes, PayoutConstants
<1>5. CASE AdminForceRetry(h)
  BY <1>5, <1>b, StartTypes DEF AdminForceRetry
<1>6. CASE AdminForceDeadLetter(h)
  <2>1. item.attempts + 1 \in Nat
    BY <1>a DEF ItemDoc
  <2> QED
    BY <1>6, <1>b, <2>1, StartTypes DEF AdminForceDeadLetter
<1>7. CASE ForceRetryWrite(h)
  <2>1. item' \in ItemDoc
    BY <1>7, <1>a DEF ForceRetryWrite, ItemDoc
  <2>2. Carries([task[h] EXCEPT !.step = "idle"])
    BY <1>a DEF Carries, TaskDoc
  <2>3. task' \in [Tasks -> TaskDoc] /\ Carried'
    BY <1>7, <1>a, <1>b, <2>2, OneGoto DEF ForceRetryWrite
  <2> QED
    BY <1>7, <2>1, <2>3, Assembled DEF ForceRetryWrite, TypeOK
<1> QED
  BY <1>1, <1>2, <1>3, <1>4, <1>5, <1>6, <1>7 DEF HandlerAction

LEMMA StepTypeOK == TypeOK /\ Carried /\ [Next]_vars => TypeOK' /\ Carried'
<1> SUFFICES ASSUME TypeOK, Carried, [Next]_vars PROVE TypeOK' /\ Carried'
  OBVIOUS
<1> USE DEF providerVars
<1>a. item \in ItemDoc /\ Unclaimed \in ItemDoc
  BY UnclaimedType DEF TypeOK
<1>1. CASE ReapRead
  BY <1>1 DEF ReapRead, TypeOK, Carried
<1>2. CASE ReapWrite
  BY <1>2, <1>a DEF ReapWrite, TypeOK, Carried
<1>3. CASE BackoffElapses
  <2>1. item' \in ItemDoc
    BY <1>3, <1>a DEF BackoffElapses, ItemDoc
  <2> QED
    BY <1>3, <2>1 DEF BackoffElapses, TypeOK, Carried
<1>4. CASE LeaseExpires
  <2>1. item' \in ItemDoc
    BY <1>4, <1>a DEF LeaseExpires, ItemDoc, Leases
  <2> QED
    BY <1>4, <2>1 DEF LeaseExpires, TypeOK, Carried
<1>5. CASE ProviderEmits
  BY <1>5 DEF ProviderEmits, TypeOK, Carried
<1>6. CASE UNCHANGED vars
  BY <1>6 DEF vars, TypeOK, Carried
<1> QED
  BY <1>1, <1>2, <1>3, <1>4, <1>5, <1>6, PassTypes, TaskTypes, HandlerTypes, Steppers

\* PayoutItem keeps its type invariant: every coroutine and every field of the
\* item holds a value of the code.
THEOREM TypeCorrect == Spec => []TypeOK
<1>1. Init => TypeOK /\ Carried
  BY InitTypeOK, InitCarried
<1> QED
  BY <1>1, StepTypeOK, PTL DEF Spec

-----------------------------------------------------------------------------
(* Nothing is under way before the provider has its transfer.              *)

\* While the provider has no transfer, no event of it is on its way and no task
\* means to move the item there.
Harmless(t) == t.step # "insert" /\ t.target \notin UnderWay

Untransferred ==
  ~transferred => /\ item.status \notin UnderWay
                  /\ emitted = {}
                  /\ \A x \in Tasks : Harmless(task[x])

LEMMA UnderWayStatuses == UnderWay \subseteq Statuses /\ None \notin UnderWay
                          /\ "failed" \notin UnderWay /\ "queued" \notin UnderWay
BY PayoutConstants DEF UnderWay, Statuses

LEMMA InitUntransferred == Init => Untransferred
BY UnderWayStatuses DEF Init, Untransferred, Harmless, Idle

\* What a task does to its target, and to the item, while there is no transfer.
LEMMA GotoTargets ==
  ASSUME NEW x \in Tasks, NEW from, NEW to, to # "insert", TypeOK, Goto(x, from, to),
         \A y \in Tasks : Harmless(task[y])
  PROVE  \A y \in Tasks : Harmless(task'[y])
<1>1. Harmless(Idle)
  BY UnderWayStatuses DEF Idle, Harmless
<1>2. \E t : task' = [task EXCEPT ![x] = t] /\ Harmless(t)
  <2>1. CASE to = "idle"
    BY <1>1, <2>1 DEF Goto
  <2>2. CASE to # "idle"
    <3>1. task' = [task EXCEPT ![x] = [task[x] EXCEPT !.step = to]]
      BY <2>2 DEF Goto
    <3>2. Harmless([task[x] EXCEPT !.step = to])
      BY DEF TypeOK, Harmless
    <3> QED BY <3>1, <3>2
  <2> QED BY <2>1, <2>2
<1> QED
  BY <1>2 DEF TypeOK

LEMMA StepUntransferred ==
  ASSUME AdminTargets \cap UnderWay = {}, TypeOK, Carried, Untransferred, [Next]_vars
  PROVE  Untransferred'
<1> SUFFICES ASSUME ~transferred' PROVE Untransferred'
  BY DEF Untransferred
<1> USE DEF providerVars
<1>a. ~transferred
  BY Steppers DEF PassAction, TaskAction, HandlerAction, ClaimOneItem, HeartbeatItem,
     CallProvider, ScheduleRetry, ReleaseLease, ReleaseItemLease, Raise, MarkDeadLetter,
     TransitionRead, TransitionWrite, EmitEvent, Crash, AdvanceMockItem, StripeWebhook,
     PersistKey, AdminTransition, AdminForceRetry, AdminForceDeadLetter, ForceRetryWrite,
     Start, ReapRead, ReapWrite, BackoffElapses, LeaseExpires, ProviderEmits, vars
<1>b. /\ item.status \notin UnderWay
      /\ emitted = {}
      /\ \A x \in Tasks : Harmless(task[x])
  BY <1>a DEF Untransferred
<1>c. Unclaimed.status = item.status /\ item \in ItemDoc
  BY DEF Unclaimed, TypeOK, ItemDoc
<1>d. task \in [Tasks -> TaskDoc]
  BY DEF TypeOK, TaskDoc
<1>1. ASSUME NEW d \in Passes, PassAction(d) PROVE Untransferred'
  <2>a. d \in Tasks
    BY DEF Tasks
  <2>1. item'.status = item.status /\ emitted' = emitted
    BY <1>1, <1>c DEF PassAction, ClaimOneItem, HeartbeatItem, CallProvider, ScheduleRetry,
       ReleaseLease, ReleaseItemLease, Raise, ItemDoc, Unclaimed
  <2>2. CASE ClaimOneItem(d)
    BY <1>b, <1>d, <2>1, <2>2, UnderWayStatuses
       DEF ClaimOneItem, Untransferred, Harmless
  <2>3. CASE CallProvider(d)
    BY <1>b, <1>d, <1>a, <2>1, <2>3 DEF CallProvider, OnFailure, Untransferred, Harmless, TaskDoc
  <2>4. CASE Raise(d)
    BY <1>b, <1>d, <2>1, <2>4 DEF Raise, Untransferred, Harmless, TaskDoc
  <2>5. CASE HeartbeatItem(d) \/ ScheduleRetry(d) \/ ReleaseLease(d) \/ ReleaseItemLease(d)
    <3>1. \E from, to : to # "insert" /\ Goto(d, from, to)
      BY <2>5 DEF HeartbeatItem, ScheduleRetry, ReleaseLease, ReleaseItemLease
    <3> QED
      BY <1>b, <2>1, <2>a, <3>1, GotoTargets DEF Untransferred
  <2> QED
    BY <1>1, <2>2, <2>3, <2>4, <2>5 DEF PassAction
<1>2. ASSUME NEW x \in Tasks, TaskAction(x) PROVE Untransferred'
  <2>1. emitted' = emitted
    BY <1>2 DEF TaskAction, MarkDeadLetter, TransitionRead, TransitionWrite, EmitEvent, Crash
  <2>2. item'.status \notin UnderWay
    <3>1. CASE TransitionWrite(x)
      BY <1>b, <1>c, <3>1 DEF TransitionWrite, ItemDoc, Harmless
    <3>2. CASE MarkDeadLetter(x)
      BY <1>b, <1>c, <3>2 DEF MarkDeadLetter, ItemDoc, Unclaimed
    <3>3. CASE TransitionRead(x) \/ EmitEvent(x) \/ Crash(x)
      BY <1>b, <3>3 DEF TransitionRead, EmitEvent, Crash
    <3> QED BY <1>2, <3>1, <3>2, <3>3 DEF TaskAction
  <2>3. CASE MarkDeadLetter(x)
    BY <1>b, <1>d, <2>1, <2>2, <2>3, UnderWayStatuses
       DEF MarkDeadLetter, MoveTo, Untransferred, Harmless, TaskDoc
  <2>4. CASE Crash(x)
    <3>1. PICK owed \in {task[x].target, None} :
            task' = [task EXCEPT ![x] = [Idle EXCEPT !.step = "gone", !.target = owed]]
      BY <2>4 DEF Crash
    <3>2. Harmless([Idle EXCEPT !.step = "gone", !.target = owed])
      BY <1>b, UnderWayStatuses DEF Idle, Harmless
    <3> QED
      BY <1>b, <1>d, <2>1, <2>2, <3>1, <3>2 DEF Untransferred
  <2>5. CASE TransitionRead(x) \/ TransitionWrite(x) \/ EmitEvent(x)
    <3>1. \E from, to : to # "insert" /\ Goto(x, from, to)
      BY <2>5 DEF TransitionRead, TransitionWrite, EmitEvent, AfterTransition
    <3> QED
      BY <1>b, <2>1, <2>2, <3>1, GotoTargets DEF Untransferred
  <2> QED
    BY <1>2, <2>3, <2>4, <2>5 DEF TaskAction
<1>3. ASSUME NEW h \in Handlers, HandlerAction(h) PROVE Untransferred'
  <2>a. h \in Tasks
    BY DEF Tasks
  <2>1. item'.status = item.status /\ emitted' = emitted
    BY <1>3, <1>c DEF HandlerAction, AdvanceMockItem, StripeWebhook, PersistKey,
       AdminTransition, AdminForceRetry, AdminForceDeadLetter, ForceRetryWrite, Start,
       ItemDoc, Unclaimed
  <2>2. ASSUME NEW step, NEW attempt, NEW target, step # "insert", target \notin UnderWay,
               Start(h, step, attempt, target)
        PROVE  Untransferred'
    BY <1>b, <1>d, <2>1, <2>2 DEF Start, Untransferred, Harmless
  <2>3. ~AdvanceMockItem(h)
    BY <1>b DEF AdvanceMockItem, MockChain, UnderWay
  <2>4. ~StripeWebhook(h)
    BY <1>b DEF StripeWebhook
  <2>5. CASE AdminTransition(h)
    BY <2>2, <2>5 DEF AdminTransition
  <2>6. CASE AdminForceRetry(h) \/ AdminForceDeadLetter(h)
    BY <2>2, <2>6, UnderWayStatuses DEF AdminForceRetry, AdminForceDeadLetter
  <2>7. ~PersistKey(h)
    BY <1>b, <2>a DEF PersistKey, Goto, Harmless
  <2>8. CASE ForceRetryWrite(h)
    <3>1. Goto(h, "force", "idle")
      BY <2>8 DEF ForceRetryWrite
    <3> QED
      BY <1>b, <2>1, <2>a, <3>1, GotoTargets DEF Untransferred
  <2> QED
    BY <1>3, <2>3, <2>4, <2>5, <2>6, <2>7, <2>8 DEF HandlerAction
<1>4. CASE ProviderEmits
  BY <1>a, <1>4 DEF ProviderEmits
<1>5. CASE ReapRead \/ ReapWrite \/ BackoffElapses \/ LeaseExpires \/ UNCHANGED vars
  <2>1. /\ item'.status = item.status
        /\ UNCHANGED <<emitted, task>>
    BY <1>5, <1>c DEF ReapRead, ReapWrite, BackoffElapses, LeaseExpires, vars, ItemDoc
  <2> QED
    BY <1>b, <2>1 DEF Untransferred
<1> QED
  BY <1>1, <1>2, <1>3, <1>4, <1>5, Steppers

\* As long as no admin moves the item there by hand, it is under way only once
\* the provider has its transfer: no refused, lost or late answer, no crash, no
\* webhook and no advancer gets it there before.
THEOREM NothingMovesUnpaid ==
  ASSUME AdminTargets \cap UnderWay = {}
  PROVE  Spec => []UnderWayIsTransferred
<1>1. Init => TypeOK /\ Carried /\ Untransferred
  BY InitTypeOK, InitCarried, InitUntransferred
<1>2. TypeOK /\ Carried /\ Untransferred /\ [Next]_vars
      => TypeOK' /\ Carried' /\ Untransferred'
  BY StepTypeOK, StepUntransferred
<1>3. Untransferred => UnderWayIsTransferred
  BY DEF Untransferred, UnderWayIsTransferred
<1> QED
  BY <1>1, <1>2, <1>3, PTL DEF Spec

-----------------------------------------------------------------------------
(* The claim is a mutex while leases outlive their passes.                 *)

Early(d) == task[d].step \in {"claimed", "calling"}

\* While the item is queued whoever is at work on it holds its claim and is
\* alone; a claim is live and has a pass behind it, so nobody takes it over and
\* the reaper finds nothing; and no step leads back to queued.
Mutex ==
  /\ item.status = "queued" =>
       \A d \in Passes : Holds(d) =>
         item.claimedBy = Host[d] /\ \A e \in Passes : Holds(e) => e = d
  /\ item.claimedBy # None =>
       item.lease = "live" /\ \E d \in Passes : Holds(d) /\ Host[d] = item.claimedBy
  /\ \A d, e \in Passes : Early(d) /\ Early(e) => d = e
  /\ ~reaping
  /\ \A h \in Handlers : task[h].step \notin {"force", "mark"}
  /\ \A x \in Tasks : task[x].step = "write" => task[x].target # "queued"

\* The premises: leases outlive passes, nothing dies or raises, no admin forces.
Orderly == ~MayStall /\ MaxCrashes = 0 /\ ~AllowRaise /\ ~AdminForces

LEMMA InitMutex == Init => Mutex
BY DEF Init, Mutex, Early, Holds, Idle, Tasks

\* A pass that holds the item before and after its step, starts nothing early
\* and leaves the claim alone keeps Mutex, whatever becomes of the lease.
LEMMA HolderMoves ==
  ASSUME TypeOK, Mutex, NEW d \in Passes, Holds(d), NEW t \in TaskDoc,
         task' = [task EXCEPT ![d] = t], Holds(d)', Early(d)' => Early(d), t.step # "write" \/ t.target # "queued",
         item'.status \in {item.status} \cup (Statuses \ {"queued"}),
         item'.claimedBy = item.claimedBy, item'.lease \in {item.lease, "live"},
         reaping' = reaping
  PROVE  Mutex'
<1>1. \A x \in Tasks \ {d} : task'[x] = task[x]
  BY DEF TypeOK
<1>2. d \in Tasks /\ d \notin Handlers /\ Passes \subseteq Tasks /\ Handlers \subseteq Tasks
  BY PayoutConstants DEF Tasks
<1>3. \A e \in Passes \ {d} : (Holds(e)' <=> Holds(e)) /\ (Early(e)' <=> Early(e))
  BY <1>1, <1>2 DEF Holds, Early
<1>4. task'[d] = t
  BY <1>2 DEF TypeOK
<1>5. \A e \in Passes : Holds(e)' <=> Holds(e)
  BY <1>3
<1>6. item'.status = "queued" =>
       \A e \in Passes : Holds(e)' =>
         item'.claimedBy = Host[e] /\ \A f \in Passes : Holds(f)' => f = e
  BY <1>5 DEF Mutex
<1>7. item'.claimedBy # None =>
       item'.lease = "live" /\ \E e \in Passes : Holds(e)' /\ Host[e] = item'.claimedBy
  BY <1>5 DEF Mutex
<1>8. \A e, f \in Passes : Early(e)' /\ Early(f)' => e = f
  BY <1>3 DEF Mutex
<1>9. \A h \in Handlers : task'[h].step \notin {"force", "mark"}
  BY <1>1, <1>2 DEF Mutex
<1>10. \A x \in Tasks : task'[x].step = "write" => task'[x].target # "queued"
  BY <1>1, <1>2, <1>4 DEF Mutex
<1> QED
  BY <1>6, <1>7, <1>8, <1>9, <1>10 DEF Mutex

\* So does a pass that lets go and takes its own claim off the item.
LEMMA HolderLeaves ==
  ASSUME TypeOK, Mutex, NEW d \in Passes, Holds(d), NEW t \in TaskDoc,
         task' = [task EXCEPT ![d] = t], ~Holds(d)', ~Early(d)', t.step # "write",
         item'.status = item.status,
         \/ item'.claimedBy = None
         \/ item.claimedBy # Host[d] /\ item' = item,
         reaping' = reaping
  PROVE  Mutex'
<1>1. \A x \in Tasks \ {d} : task'[x] = task[x]
  BY DEF TypeOK
<1>2. d \in Tasks /\ d \notin Handlers /\ Passes \subseteq Tasks /\ Handlers \subseteq Tasks
  BY PayoutConstants DEF Tasks
<1>3. \A e \in Passes \ {d} : (Holds(e)' <=> Holds(e)) /\ (Early(e)' <=> Early(e))
  BY <1>1, <1>2 DEF Holds, Early
<1>4. task'[d] = t
  BY <1>2 DEF TypeOK
<1>5. item'.status = "queued" => \A e \in Passes : ~Holds(e)'
  BY <1>3 DEF Mutex
<1>6. item'.claimedBy # None =>
       item'.lease = "live" /\ \E e \in Passes : Holds(e)' /\ Host[e] = item'.claimedBy
  <2> SUFFICES ASSUME item'.claimedBy # None
               PROVE  item'.lease = "live"
                      /\ \E e \in Passes : Holds(e)' /\ Host[e] = item'.claimedBy
    OBVIOUS
  <2>1. item.claimedBy # Host[d] /\ item' = item
    OBVIOUS
  <2>2. PICK e \in Passes : Holds(e) /\ Host[e] = item.claimedBy
    BY <2>1 DEF Mutex
  <2>3. item.lease = "live"
    BY <2>1 DEF Mutex
  <2> QED BY <2>1, <2>2, <2>3, <1>3
<1>7. \A e, f \in Passes : Early(e)' /\ Early(f)' => e = f
  BY <1>3 DEF Mutex
<1>8. \A h \in Handlers : task'[h].step \notin {"force", "mark"}
  BY <1>1, <1>2 DEF Mutex
<1>9. \A x \in Tasks : task'[x].step = "write" => task'[x].target # "queued"
  BY <1>1, <1>2, <1>4 DEF Mutex
<1> QED
  BY <1>5, <1>6, <1>7, <1>8, <1>9 DEF Mutex

\* So does a task that is no holder and does not become one.
LEMMA OtherMoves ==
  ASSUME TypeOK, Mutex, NEW x \in Tasks, NEW t \in TaskDoc,
         task' = [task EXCEPT ![x] = t],
         x \in Passes => ~Holds(x) /\ ~Holds(x)' /\ ~Early(x)',
         x \in Handlers => t.step \notin {"force", "mark"},
         t.step # "write" \/ t.target # "queued",
         item'.status \in {item.status} \cup (Statuses \ {"queued"}),
         item'.claimedBy = item.claimedBy, item'.lease = item.lease,
         reaping' = reaping
  PROVE  Mutex'
<1>1. \A y \in Tasks \ {x} : task'[y] = task[y]
  BY DEF TypeOK
<1>2. Passes \subseteq Tasks /\ Handlers \subseteq Tasks
  BY DEF Tasks
<1>3. \A e \in Passes : (Holds(e)' <=> Holds(e)) /\ (Early(e)' => Early(e))
  <2> SUFFICES ASSUME NEW e \in Passes
               PROVE  (Holds(e)' <=> Holds(e)) /\ (Early(e)' => Early(e))
    OBVIOUS
  <2>1. CASE e = x
    BY <2>1
  <2>2. CASE e # x
    BY <1>1, <1>2, <2>2 DEF Holds, Early
  <2> QED BY <2>1, <2>2
<1>4. task'[x] = t
  BY DEF TypeOK
<1>5. item'.status = "queued" =>
       \A e \in Passes : Holds(e)' =>
         item'.claimedBy = Host[e] /\ \A f \in Passes : Holds(f)' => f = e
  BY <1>3 DEF Mutex
<1>6. item'.claimedBy # None =>
       item'.lease = "live" /\ \E e \in Passes : Holds(e)' /\ Host[e] = item'.claimedBy
  BY <1>3 DEF Mutex
<1>7. \A e, f \in Passes : Early(e)' /\ Early(f)' => e = f
  BY <1>3 DEF Mutex
<1>8. \A h \in Handlers : task'[h].step \notin {"force", "mark"}
  BY <1>1, <1>2, <1>4 DEF Mutex
<1>9. \A y \in Tasks : task'[y].step = "write" => task'[y].target # "queued"
  BY <1>1, <1>2, <1>4 DEF Mutex
<1> QED
  BY <1>5, <1>6, <1>7, <1>8, <1>9 DEF Mutex

LEMMA NeverBackToQueued == \A s \in Statuses : "queued" \notin Transitions[s]
BY DEF Statuses, Transitions

LEMMA PassMutex ==
  ASSUME Orderly, TypeOK, Carried, Mutex, NEW d \in Passes, PassAction(d) PROVE Mutex'
<1> USE DEF providerVars
<1>a. /\ d \in Tasks /\ task[d] \in TaskDoc /\ item \in ItemDoc /\ Idle \in TaskDoc
      /\ task \in [Tasks -> TaskDoc]
  BY DEF Tasks, TypeOK, TaskDoc, Idle, Steps
<1>b. Host[d] \in Workers /\ Host[d] # None
  BY PayoutConstants
<1>c. Unclaimed.status = item.status /\ Unclaimed.claimedBy = None
      /\ Unclaimed \in ItemDoc
  BY <1>a, UnclaimedType DEF ItemDoc, Unclaimed
<1>1. CASE ClaimOneItem(d)
  <2> DEFINE t == [step |-> "claimed", attempt |-> item.attempts + 1, target |-> None]
  <2>1. \A e \in Passes : ~Holds(e)
    <3>1. item.status = "queued" /\ (item.claimedBy = None \/ item.lease = "expired")
      BY <1>1 DEF ClaimOneItem, LeaseExpired
    <3>2. \A e \in Passes : Host[e] # None
      BY PayoutConstants
    <3> QED BY <3>1, <3>2 DEF Mutex
  <2>2. /\ task' = [task EXCEPT ![d] = t]
        /\ item'.status = "queued" /\ item'.claimedBy = Host[d] /\ item'.lease = "live"
        /\ reaping' = reaping
    BY <1>1, <1>a, <1>b DEF ClaimOneItem, ItemDoc
  <2>3. \A x \in Tasks : task'[x] = IF x = d THEN t ELSE task[x]
    BY <1>a, <2>2
  <2>4. \A e \in Passes : Holds(e)' <=> e = d
    <3>1. Holds(d)'
      BY <1>a, <2>3 DEF Holds
    <3>2. \A e \in Passes \ {d} : ~Holds(e)'
      BY <2>1, <2>3 DEF Holds, Tasks
    <3> QED BY <3>1, <3>2
  <2>5. \A e \in Passes : Early(e)' => Holds(e)'
    BY DEF Early, Holds
  <2>6. \A h \in Handlers : task'[h].step \notin {"force", "mark"}
    BY <2>3, PayoutConstants DEF Mutex, Tasks
  <2>7. \A x \in Tasks : task'[x].step = "write" => task'[x].target # "queued"
    BY <2>3 DEF Mutex
  <2> HIDE DEF t
  <2> QED
    BY <2>2, <2>4, <2>5, <2>6, <2>7 DEF Mutex
<1>2. CASE HeartbeatItem(d)
  <2> DEFINE t == [task[d] EXCEPT !.step = "calling"]
  <2>1. /\ task' = [task EXCEPT ![d] = t] /\ t \in TaskDoc /\ t.step = "calling"
    BY <1>2, <1>a DEF HeartbeatItem, Goto, TaskDoc, Steps
  <2>2. /\ item'.status = item.status /\ item'.claimedBy = item.claimedBy
        /\ item'.lease \in {item.lease, "live"} /\ reaping' = reaping
    BY <1>2, <1>a DEF HeartbeatItem, ItemDoc
  <2>3. Holds(d) /\ Early(d) /\ Holds(d)'
    BY <1>2, <1>a, <2>1 DEF HeartbeatItem, Goto, Holds, Early
  <2> HIDE DEF t
  <2> QED
    BY <2>1, <2>2, <2>3, HolderMoves
<1>3. CASE CallProvider(d)
  <2> DEFINE Accept == [task[d] EXCEPT !.step = "read", !.target = "initiated"]
             Again  == [task[d] EXCEPT !.step = "retry"]
             Dead   == [task[d] EXCEPT !.step = "mark"]
  <2>1. PICK t \in {Accept, Again, Dead} : task' = [task EXCEPT ![d] = t]
    BY <1>3, <1>a DEF CallProvider, MoveTo, OnFailure, TaskDoc
  <2>2. /\ t \in TaskDoc /\ t.step \in {"read", "retry", "mark"}
        /\ t.step = "read" => t.target = "initiated"
    BY <1>a DEF TaskDoc, Steps, Statuses
  <2>3. Holds(d) /\ Early(d) /\ Holds(d)'
    BY <1>3, <1>a, <2>1, <2>2 DEF CallProvider, Holds, Early
  <2>4. item' = item /\ reaping' = reaping
    BY <1>3 DEF CallProvider
  <2> QED
    BY <2>1, <2>2, <2>3, <2>4, HolderMoves
<1>4. CASE ScheduleRetry(d)
  <2>1. Holds(d) /\ task' = [task EXCEPT ![d] = Idle]
    BY <1>4 DEF ScheduleRetry, Goto, Holds
  <2>2. ~Holds(d)' /\ ~Early(d)' /\ Idle.step # "write"
    BY <1>a, <2>1 DEF Holds, Early, Idle
  <2>3. item'.status = item.status /\ item'.claimedBy = None /\ reaping' = reaping
    BY <1>4, <1>c DEF ScheduleRetry, ItemDoc
  <2> QED
    BY <1>a, <2>1, <2>2, <2>3, HolderLeaves
<1>5. CASE ReleaseLease(d) \/ ReleaseItemLease(d)
  <2>1. Holds(d) /\ task' = [task EXCEPT ![d] = Idle] /\ reaping' = reaping
    BY <1>5 DEF ReleaseLease, ReleaseItemLease, Goto, Holds
  <2>2. ~Holds(d)' /\ ~Early(d)' /\ Idle.step # "write"
    BY <1>a, <2>1 DEF Holds, Early, Idle
  <2>3. /\ item'.status = item.status
        /\ \/ item'.claimedBy = None
           \/ item.claimedBy # Host[d] /\ item' = item
    BY <1>5, <1>c DEF ReleaseLease, ReleaseItemLease, ItemDoc
  <2> QED
    BY <1>a, <2>1, <2>2, <2>3, HolderLeaves
<1>6. ~Raise(d)
  BY DEF Orderly, Raise
<1> QED
  BY <1>1, <1>2, <1>3, <1>4, <1>5, <1>6 DEF PassAction

\* A transition towards initiated made by a pass is part of its hold.
LEMMA TransitionMutex ==
  ASSUME TypeOK, Mutex, NEW x \in Tasks, NEW to \in {"write", "emit", "release", "idle"},
         task[x].step \in {"read", "write", "emit"},
         task' = [task EXCEPT ![x] = IF to = "idle" THEN Idle ELSE [@ EXCEPT !.step = to]],
         to = "write" => task[x].target # "queued",
         to = "release" => x \in Passes /\ task[x].target = "initiated",
         to = "idle" => ~(x \in Passes /\ task[x].target = "initiated"),
         item'.status \in {item.status} \cup (Statuses \ {"queued"}),
         item'.claimedBy = item.claimedBy, item'.lease = item.lease,
         reaping' = reaping
  PROVE  Mutex'
<1> DEFINE t == IF to = "idle" THEN Idle ELSE [task[x] EXCEPT !.step = to]
<1>1. task' = [task EXCEPT ![x] = t] /\ task[x] \in TaskDoc /\ task'[x] = t
  BY DEF TypeOK, TaskDoc
<1>2. t \in TaskDoc /\ t.step = to /\ (to # "idle" => t.target = task[x].target)
  BY <1>1 DEF TaskDoc, Steps, Idle
<1> HIDE DEF t
<1>3. CASE x \in Passes /\ task[x].target = "initiated"
  <2>1. Holds(x) /\ Holds(x)' /\ ~Early(x)'
    BY <1>1, <1>2, <1>3 DEF Holds, Early
  <2> QED
    BY <1>1, <1>2, <1>3, <2>1, HolderMoves
<1>4. CASE ~(x \in Passes /\ task[x].target = "initiated")
  <2>1. x \in Passes => ~Holds(x) /\ ~Holds(x)' /\ ~Early(x)'
    BY <1>1, <1>2, <1>4 DEF Holds, Early
  <2> QED
    BY <1>1, <1>2, <1>4, <2>1, OtherMoves
<1> QED
  BY <1>3, <1>4

LEMMA NobodyDies ==
  ASSUME MaxCrashes = 0, NEW x \in Tasks
  PROVE  ~Crash(x)
<1> DEFINE G == {y \in Tasks : task[y].step = "gone"}
<1>1. IsFiniteSet(Tasks)
  BY PayoutConstants, FS_Union DEF Tasks
<1>2. Cardinality(G) \in Nat
  BY <1>1, FS_Subset, FS_CardinalityType
<1> HIDE DEF G
<1>3. ~(Cardinality(G) < MaxCrashes)
  BY <1>2
<1> QED
  BY <1>3 DEF Crash, G

LEMMA TaskMutex ==
  ASSUME Orderly, TypeOK, Carried, Mutex, NEW x \in Tasks, TaskAction(x) PROVE Mutex'
<1> USE DEF providerVars
<1>a. task[x] \in TaskDoc /\ item \in ItemDoc /\ Idle \in TaskDoc
  BY DEF TypeOK, TaskDoc, Idle, Steps
<1>b. AfterTransition(x) \in {"release", "idle"}
      /\ (AfterTransition(x) = "release" <=> x \in Passes /\ task[x].target = "initiated")
  BY DEF AfterTransition
<1>c. Unclaimed.status = item.status /\ Unclaimed.claimedBy = None /\ Unclaimed \in ItemDoc
  BY <1>a, UnclaimedType DEF ItemDoc, Unclaimed
<1>1. CASE MarkDeadLetter(x)
  <2> DEFINE t == [task[x] EXCEPT !.step = "read", !.target = "failed"]
  <2>1. x \in Passes
    BY <1>1 DEF MarkDeadLetter, Mutex, Tasks
  <2>2. /\ task' = [task EXCEPT ![x] = t] /\ t \in TaskDoc
        /\ t.step = "read" /\ t.target = "failed" /\ task'[x] = t
    BY <1>1, <1>a DEF MarkDeadLetter, MoveTo, TypeOK, TaskDoc, Steps, Statuses
  <2>3. item'.status = item.status /\ item'.claimedBy = None /\ reaping' = reaping
    BY <1>1, <1>c DEF MarkDeadLetter, ItemDoc
  <2> HIDE DEF t
  <2>4. Holds(x) /\ ~Holds(x)' /\ ~Early(x)'
    BY <1>1, <2>2 DEF MarkDeadLetter, Holds, Early
  <2> QED
    BY <2>1, <2>2, <2>3, <2>4, HolderLeaves
<1>2. CASE TransitionRead(x)
  <2> DEFINE to == IF task[x].target \in Transitions[item.status]
                   THEN "write" ELSE AfterTransition(x)
  <2>1. Goto(x, "read", to) /\ item' = item /\ reaping' = reaping
    BY <1>2 DEF TransitionRead
  <2>2. to = "write" => task[x].target # "queued"
    BY <1>a, <1>b, NeverBackToQueued DEF ItemDoc
  <2>3. to \in {"write", "emit", "release", "idle"} /\ (to # "write" => to = AfterTransition(x))
    BY <1>b
  <2> HIDE DEF to
  <2>4. /\ task[x].step = "read"
        /\ task' = [task EXCEPT ![x] = IF to = "idle" THEN Idle ELSE [@ EXCEPT !.step = to]]
    BY <2>1 DEF Goto
  <2> QED
    BY <1>b, <2>1, <2>2, <2>3, <2>4, TransitionMutex
<1>3. CASE TransitionWrite(x)
  <2>1. /\ task[x].step = "write"
        /\ task' = [task EXCEPT ![x] = IF "emit" = "idle" THEN Idle
                                       ELSE [@ EXCEPT !.step = "emit"]]
    BY <1>3 DEF TransitionWrite, Goto
  <2>2. task[x].target \in Statuses \ {"queued"}
    BY <2>1 DEF Carried, Carries, Mutex
  <2>3. /\ item'.status = task[x].target /\ item'.claimedBy = item.claimedBy
        /\ item'.lease = item.lease /\ reaping' = reaping
    BY <1>3, <1>a DEF TransitionWrite, ItemDoc
  <2> QED
    BY <2>1, <2>2, <2>3, TransitionMutex
<1>4. CASE EmitEvent(x)
  <2> DEFINE to == AfterTransition(x)
  <2>1. item' = item /\ reaping' = reaping /\ task[x].step = "emit"
    BY <1>4 DEF EmitEvent, Goto
  <2>2. task' = [task EXCEPT ![x] = IF to = "idle" THEN Idle ELSE [@ EXCEPT !.step = to]]
    BY <1>4 DEF EmitEvent, Goto
  <2>3. /\ to \in {"release", "idle"}
        /\ to = "release" <=> x \in Passes /\ task[x].target = "initiated"
    BY <1>b
  <2> HIDE DEF to
  <2> QED
    BY <2>1, <2>2, <2>3, TransitionMutex
<1>5. ~Crash(x)
  BY NobodyDies DEF Orderly
<1> QED
  BY <1>1, <1>2, <1>3, <1>4, <1>5 DEF TaskAction

LEMMA HandlerMutex ==
  ASSUME Orderly, TypeOK, Carried, Mutex, NEW h \in Handlers, HandlerAction(h) PROVE Mutex'
<1> USE DEF providerVars
<1>a. /\ h \in Tasks /\ h \notin Passes /\ task[h] \in TaskDoc /\ item \in ItemDoc
      /\ Idle \in TaskDoc
  BY PayoutConstants DEF Tasks, TypeOK, TaskDoc, Idle, Steps
<1>1. ASSUME NEW step \in {"read", "insert"}, NEW target \in Statuses \cup Events,
             Start(h, step, 0, target)
      PROVE  Mutex'
  <2> DEFINE t == [step |-> step, attempt |-> 0, target |-> target]
  <2>1. /\ task' = [task EXCEPT ![h] = t] /\ t \in TaskDoc /\ t.step \in {"read", "insert"}
        /\ item' = item /\ reaping' = reaping
    BY <1>1 DEF Start, TaskDoc, Steps
  <2> HIDE DEF t
  <2> QED
    BY <1>a, <2>1, OtherMoves
<1>2. CASE AdvanceMockItem(h)
  <2>1. MockChain[item.status] \in Statuses
    BY <1>2 DEF AdvanceMockItem, MockChain, Statuses
  <2> QED
    BY <1>1, <1>2, <2>1 DEF AdvanceMockItem
<1>3. CASE StripeWebhook(h)
  BY <1>1, <1>3, PayoutConstants DEF StripeWebhook, TypeOK
<1>4. CASE AdminTransition(h)
  BY <1>1, <1>4, PayoutConstants DEF AdminTransition
<1>5. CASE PersistKey(h)
  <2> DEFINE Go == [task[h] EXCEPT !.step = "read", !.target = Announces[task[h].target]]
  <2>1. PICK t \in {Idle, Go} : task' = [task EXCEPT ![h] = t]
    BY <1>5, <1>a DEF PersistKey, Goto, MoveTo, TaskDoc
  <2>2. task[h].target \in Events
    BY <1>5, <1>a DEF PersistKey, Goto, Carried, Carries
  <2>3. t \in TaskDoc /\ t.step \in {"read", "idle"}
    BY <1>a, <2>2, PayoutConstants DEF TaskDoc, Steps, Idle
  <2>4. item' = item /\ reaping' = reaping
    BY <1>5 DEF PersistKey
  <2> HIDE DEF Go
  <2> QED
    BY <1>a, <2>1, <2>3, <2>4, OtherMoves
<1>6. ~AdminForceRetry(h) /\ ~AdminForceDeadLetter(h)
  BY DEF AdminForceRetry, AdminForceDeadLetter, Orderly
<1>7. ~ForceRetryWrite(h)
  BY DEF ForceRetryWrite, Goto, Mutex
<1> QED
  BY <1>2, <1>3, <1>4, <1>5, <1>6, <1>7 DEF HandlerAction

LEMMA StepMutex ==
  ASSUME Orderly, TypeOK, Carried, Mutex, [Next]_vars PROVE Mutex'
<1> USE DEF providerVars
<1>1. ~ReapRead
  BY DEF ReapRead, LeaseExpired, Mutex
<1>2. ~ReapWrite
  BY DEF ReapWrite, Mutex
<1>3. CASE BackoffElapses \/ LeaseExpires
  <2>1. item'.status = item.status /\ item'.claimedBy = item.claimedBy
        /\ UNCHANGED <<task, reaping>>
    BY <1>3 DEF BackoffElapses, LeaseExpires, TypeOK, ItemDoc
  <2>2. item.claimedBy # None => item'.lease = item.lease
    <3>1. CASE BackoffElapses
      BY <3>1 DEF BackoffElapses, TypeOK, ItemDoc
    <3>2. CASE LeaseExpires
      BY <3>2 DEF LeaseExpires, Orderly, Mutex
    <3> QED BY <1>3, <3>1, <3>2
  <2>3. \A d \in Passes : (Holds(d)' <=> Holds(d)) /\ (Early(d)' <=> Early(d))
    BY <2>1 DEF Holds, Early
  <2> QED
    BY <2>1, <2>2, <2>3 DEF Mutex
<1>4. CASE ProviderEmits \/ UNCHANGED vars
  <2>1. UNCHANGED <<item, task, reaping>>
    BY <1>4 DEF ProviderEmits, vars
  <2>2. \A d \in Passes : (Holds(d)' <=> Holds(d)) /\ (Early(d)' <=> Early(d))
    BY <2>1 DEF Holds, Early
  <2> QED
    BY <2>1, <2>2 DEF Mutex
<1> QED
  BY <1>1, <1>2, <1>3, <1>4, Steppers, PassMutex, TaskMutex, HandlerMutex

\* However many passes and processes there are: if leases outlive their passes,
\* no coroutine dies or raises and no admin forces a retry or a dead letter, the
\* provider is never called for the item by two passes at a time.
THEOREM ClaimIsMutex ==
  ASSUME Orderly
  PROVE  Spec => []OneCaller
<1>1. Init => TypeOK /\ Carried /\ Mutex
  BY InitTypeOK, InitCarried, InitMutex
<1>2. TypeOK /\ Carried /\ Mutex /\ [Next]_vars => TypeOK' /\ Carried' /\ Mutex'
  BY StepTypeOK, StepMutex
<1>3. Mutex => OneCaller
  <2> SUFFICES ASSUME Mutex PROVE OneCaller
    OBVIOUS
  <2> DEFINE S == {d \in Passes : task[d].step = "calling"}
  <2>1. \A d, e \in S : d = e
    BY DEF Mutex, Early
  <2>2. CASE S = {}
    <3>1. Cardinality(S) = 0
      BY <2>2, FS_EmptySet
    <3> QED BY <3>1 DEF OneCaller
  <2>3. CASE S # {}
    <3>1. PICK d : S = {d}
      BY <2>1, <2>3
    <3>2. Cardinality(S) = 1
      BY <3>1, FS_Singleton
    <3> QED BY <3>2 DEF OneCaller
  <2> QED BY <2>2, <2>3
<1> QED
  BY <1>1, <1>2, <1>3, PTL DEF Spec

-----------------------------------------------------------------------------
(* The key of an event is stored before the event acts.                    *)

\* A step of one task leaves the other tasks as they are.
LEMMA OthersStay ==
  ASSUME TypeOK, NEW x \in Tasks, NEW t, task' = [task EXCEPT ![x] = t]
  PROVE  task'[x] = t /\ \A y \in Tasks \ {x} : task'[y] = task[y]
BY DEF TypeOK

LEMMA GotoMoves ==
  ASSUME TypeOK, NEW x \in Tasks, NEW from, NEW to, Goto(x, from, to)
  PROVE  /\ task[x].step = from /\ task'[x].step = to
         /\ to # "idle" => /\ task'[x].target = task[x].target
                           /\ task'[x].attempt = task[x].attempt
         /\ \A y \in Tasks \ {x} : task'[y] = task[y]
<1>1. task \in [Tasks -> TaskDoc]
  BY DEF TypeOK, TaskDoc
<1>2. CASE to = "idle"
  BY <1>1, <1>2 DEF Goto, Idle
<1>3. CASE to # "idle"
  BY <1>1, <1>3 DEF Goto, TaskDoc
<1> QED
  BY <1>2, <1>3

\* The statuses of the worker and of the admins; those, and the ones announced
\* by an event whose key is stored, are all that a transition may aim at.
Own == {"queued", "initiated", "failed"} \cup AdminTargets

Announced ==
  /\ reached \subseteq Own \cup Said(seen)
  /\ \A x \in Tasks :
       task[x].step \in {"read", "write"} => task[x].target \in Own \cup Said(seen)

LEMMA InitAnnounced == Init => Announced
BY DEF Init, Announced, Own, Idle

\* A step of one task that stores nothing new and aims at nothing new.
LEMMA AimsAsBefore ==
  ASSUME Announced, NEW x \in Tasks, \A y \in Tasks \ {x} : task'[y] = task[y],
         task'[x].step \in {"read", "write"} => task'[x].target \in Own \cup Said(seen'),
         reached' \subseteq Own \cup Said(seen), seen \subseteq seen'
  PROVE  Announced'
<1>1. Said(seen) \subseteq Said(seen')
  BY DEF Said
<1>2. \A y \in Tasks : y = x \/ task'[y] = task[y]
  OBVIOUS
<1> QED
  BY <1>1, <1>2 DEF Announced, Own

LEMMA StepAnnounced ==
  ASSUME Rail # "mock", TypeOK, Announced, [Next]_vars PROVE Announced'
<1> USE DEF providerVars
<1>a. task \in [Tasks -> TaskDoc] /\ Passes \subseteq Tasks /\ Handlers \subseteq Tasks
  BY DEF TypeOK, TaskDoc, Tasks
<1>b. ASSUME NEW x \in Tasks, NEW t, task' = [task EXCEPT ![x] = t],
             t.step \in {"read", "write"} => t.target \in Own,
             reached' = reached, seen' = seen
      PROVE  Announced'
  BY <1>b, OthersStay, AimsAsBefore DEF Announced
<1>c. ASSUME NEW x \in Tasks, NEW from, NEW to, Goto(x, from, to),
             to \notin {"read", "write"}, reached' = reached, seen' = seen
      PROVE  Announced'
  BY <1>c, GotoMoves, AimsAsBefore DEF Announced
<1>1. ASSUME NEW d \in Passes, PassAction(d) PROVE Announced'
  <2>1. reached' = reached /\ seen' = seen
    BY <1>1 DEF PassAction, ClaimOneItem, HeartbeatItem, CallProvider, ScheduleRetry,
       ReleaseLease, ReleaseItemLease, Raise
  <2>2. CASE ClaimOneItem(d)
    BY <1>a, <1>b, <2>1, <2>2 DEF ClaimOneItem
  <2>3. CASE CallProvider(d)
    <3> DEFINE Accept == [task[d] EXCEPT !.step = "read", !.target = "initiated"]
               Again  == [task[d] EXCEPT !.step = "retry"]
               Dead   == [task[d] EXCEPT !.step = "mark"]
    <3>1. PICK t \in {Accept, Again, Dead} : task' = [task EXCEPT ![d] = t]
      BY <2>3, <1>a DEF CallProvider, MoveTo, OnFailure, TaskDoc
    <3>2. t.step \in {"read", "write"} => t.target \in Own
      BY <1>a, <3>1 DEF TaskDoc, Own
    <3> HIDE DEF Accept, Again, Dead
    <3> QED
      BY <1>a, <1>b, <2>1, <3>1, <3>2
  <2>4. CASE HeartbeatItem(d) \/ ScheduleRetry(d) \/ ReleaseLease(d) \/ ReleaseItemLease(d)
    BY <1>a, <1>c, <2>1, <2>4 DEF HeartbeatItem, ScheduleRetry, ReleaseLease, ReleaseItemLease
  <2>5. CASE Raise(d)
    <3>1. task' = [task EXCEPT ![d] = [task[d] EXCEPT !.step = "drop"]]
          /\ [task[d] EXCEPT !.step = "drop"].step = "drop"
      BY <1>a, <2>5 DEF Raise, TaskDoc
    <3> QED
      BY <1>a, <1>b, <2>1, <3>1
  <2> QED
    BY <1>1, <2>2, <2>3, <2>4, <2>5 DEF PassAction
<1>2. ASSUME NEW x \in Tasks, TaskAction(x) PROVE Announced'
  <2>a. AfterTransition(x) \in {"release", "idle"}
    BY DEF AfterTransition
  <2>1. seen' = seen
    BY <1>2 DEF TaskAction, MarkDeadLetter, TransitionRead, TransitionWrite, EmitEvent, Crash
  <2>2. CASE MarkDeadLetter(x)
    <3> DEFINE t == [task[x] EXCEPT !.step = "read", !.target = "failed"]
    <3>1. task' = [task EXCEPT ![x] = t] /\ t.target \in Own /\ reached' = reached
      BY <2>2, <1>a DEF MarkDeadLetter, MoveTo, TaskDoc, Own
    <3> HIDE DEF t
    <3> QED
      BY <1>b, <2>1, <3>1
  <2>3. CASE TransitionRead(x)
    <3>1. PICK to \in {"write", "release", "idle"} : Goto(x, "read", to)
      BY <2>3, <2>a DEF TransitionRead
    <3>2. /\ task[x].step = "read" /\ task'[x].step = to
          /\ to = "write" => task'[x].target = task[x].target
          /\ \A y \in Tasks \ {x} : task'[y] = task[y]
      BY <3>1, GotoMoves
    <3>3. reached' = reached
      BY <2>3 DEF TransitionRead
    <3> QED
      BY <2>1, <3>2, <3>3, AimsAsBefore DEF Announced
  <2>4. CASE TransitionWrite(x)
    <3>1. /\ task[x].step = "write" /\ task'[x].step = "emit"
          /\ \A y \in Tasks \ {x} : task'[y] = task[y]
      BY <2>4, GotoMoves DEF TransitionWrite
    <3>2. reached' = reached \cup {task[x].target}
      BY <2>4 DEF TransitionWrite
    <3> QED
      BY <2>1, <3>1, <3>2, AimsAsBefore DEF Announced
  <2>5. CASE EmitEvent(x)
    BY <1>c, <2>1, <2>5, <2>a DEF EmitEvent
  <2>6. CASE Crash(x)
    <3>1. PICK owed :
            task' = [task EXCEPT ![x] = [Idle EXCEPT !.step = "gone", !.target = owed]]
      BY <2>6 DEF Crash
    <3>2. [Idle EXCEPT !.step = "gone", !.target = owed].step = "gone"
      BY DEF Idle
    <3>3. reached' = reached
      BY <2>6 DEF Crash
    <3> QED
      BY <1>b, <2>1, <3>1, <3>2, <3>3
  <2> QED
    BY <1>2, <2>2, <2>3, <2>4, <2>5, <2>6 DEF TaskAction
<1>3. ASSUME NEW h \in Handlers, HandlerAction(h) PROVE Announced'
  <2>1. ASSUME NEW step, NEW attempt, NEW target, step \in {"read", "write"} => target \in Own,
               Start(h, step, attempt, target)
        PROVE  Announced'
    <3> DEFINE t == [step |-> step, attempt |-> attempt, target |-> target]
    <3>1. /\ task' = [task EXCEPT ![h] = t] /\ reached' = reached /\ seen' = seen
          /\ t.step \in {"read", "write"} => t.target \in Own
      BY <2>1 DEF Start
    <3> HIDE DEF t
    <3> QED
      BY <1>a, <1>b, <3>1
  <2>2. ~AdvanceMockItem(h)
    BY DEF AdvanceMockItem
  <2>3. CASE StripeWebhook(h)
    BY <2>1, <2>3 DEF StripeWebhook
  <2>4. CASE AdminTransition(h)
    BY <2>1, <2>4 DEF AdminTransition, Own
  <2>5. CASE AdminForceRetry(h) \/ AdminForceDeadLetter(h)
    BY <2>1, <2>5 DEF AdminForceRetry, AdminForceDeadLetter
  <2>6. CASE PersistKey(h)
    <3>1. CASE Goto(h, "insert", "idle") /\ UNCHANGED <<reached, seen>>
      BY <1>a, <1>c, <3>1
    <3>2. CASE /\ seen' = seen \cup {task[h].target} /\ reached' = reached
               /\ MoveTo(h, Announces[task[h].target])
      <4> DEFINE t == [task[h] EXCEPT !.step = "read", !.target = Announces[task[h].target]]
      <4>1. task' = [task EXCEPT ![h] = t] /\ t.target = Announces[task[h].target]
        BY <1>a, <3>2 DEF MoveTo, TaskDoc
      <4>2. t.target \in Said(seen')
        BY <3>2, <4>1 DEF Said
      <4> HIDE DEF t
      <4>3. task'[h] = t /\ \A y \in Tasks \ {h} : task'[y] = task[y]
        BY <1>a, <4>1, OthersStay
      <4> QED
        BY <1>a, <3>2, <4>2, <4>3, AimsAsBefore DEF Announced
    <3> QED
      BY <2>6, <3>1, <3>2 DEF PersistKey
  <2>7. CASE ForceRetryWrite(h)
    BY <1>a, <1>c, <2>7 DEF ForceRetryWrite
  <2> QED
    BY <1>3, <2>2, <2>3, <2>4, <2>5, <2>6, <2>7 DEF HandlerAction
<1>4. CASE ReapRead \/ ReapWrite \/ BackoffElapses \/ LeaseExpires \/ ProviderEmits
           \/ UNCHANGED vars
  <2>1. UNCHANGED <<reached, task, seen>>
    BY <1>4 DEF ReapRead, ReapWrite, BackoffElapses, LeaseExpires, ProviderEmits, vars
  <2> QED
    BY <2>1 DEF Announced
<1> QED
  BY <1>1, <1>2, <1>3, <1>4, Steppers

\* "Persist idempotency BEFORE acting" (payouts_v2_api.py): however many
\* deliveries, passes and admins overlap, stall, raise or die, a live item moves
\* beyond the worker's own statuses only on an event whose key is stored.
THEOREM WebhooksStoreFirst == Spec => []MovesAreAnnounced
<1>1. CASE Rail = "mock"
  <2>1. MovesAreAnnounced
    BY <1>1 DEF MovesAreAnnounced
  <2> QED
    BY <2>1, PTL
<1>2. CASE Rail # "mock"
  <2>1. Init => TypeOK /\ Carried /\ Announced
    BY InitTypeOK, InitCarried, InitAnnounced
  <2>2. TypeOK /\ Carried /\ Announced /\ [Next]_vars => TypeOK' /\ Carried' /\ Announced'
    BY <1>2, StepTypeOK, StepAnnounced
  <2>3. Announced => MovesAreAnnounced
    BY DEF Announced, MovesAreAnnounced, Own
  <2> QED
    BY <2>1, <2>2, <2>3, PTL DEF Spec
<1> QED
  BY <1>1, <1>2

-----------------------------------------------------------------------------
(* The log of statuses.                                                    *)

\* A task about to log its status, or dead before it did.
Owes(x) == task[x].step \in {"emit", "gone"}

LogKept ==
  /\ logged \subseteq reached
  /\ \A x \in Tasks : Emits(x) => task[x].target \in reached
  /\ \A s \in reached \ logged : \E x \in Tasks : Owes(x) /\ task[x].target = s

LEMMA InitLogKept == Init => LogKept
BY DEF Init, LogKept, Emits, Idle

LEMMA SameEmits ==
  ASSUME LogKept, reached' = reached, logged' = logged, NEW x \in Tasks, ~Owes(x), ~Emits(x)',
         \A y \in Tasks \ {x} : task'[y] = task[y]
  PROVE  LogKept'
<1>1. \A y \in Tasks : /\ Emits(y)' => Emits(y) /\ task'[y] = task[y]
                       /\ Owes(y) => Owes(y)' /\ task'[y] = task[y]
  BY DEF Emits, Owes
<1> QED
  BY <1>1 DEF LogKept

LEMMA StepLogKept ==
  ASSUME ~AllowRaise, TypeOK, Carried, LogKept, [Next]_vars
  PROVE  LogKept'
<1> USE DEF providerVars
<1>a. task \in [Tasks -> TaskDoc] /\ Passes \subseteq Tasks /\ Handlers \subseteq Tasks
  BY DEF TypeOK, TaskDoc, Tasks
<1>b. ASSUME NEW x \in Tasks, NEW from, NEW to, Goto(x, from, to),
             from \notin {"emit", "gone"}, to # "emit", reached' = reached, logged' = logged
      PROVE  LogKept'
  BY <1>b, GotoMoves, SameEmits DEF Emits, Owes
<1>c. ASSUME NEW x \in Tasks, NEW t, task' = [task EXCEPT ![x] = t],
             task[x].step \notin {"emit", "gone"}, t.step # "emit", reached' = reached, logged' = logged
      PROVE  LogKept'
  BY <1>c, OthersStay, SameEmits DEF Emits, Owes
<1>1. ASSUME NEW d \in Passes, PassAction(d) PROVE LogKept'
  <2>1. CASE ClaimOneItem(d)
    <3> DEFINE t == [step |-> "claimed", attempt |-> item.attempts + 1, target |-> None]
    <3>1. /\ task' = [task EXCEPT ![d] = t] /\ t.step # "emit" /\ task[d].step \notin {"emit", "gone"}
          /\ reached' = reached /\ logged' = logged
      BY <2>1 DEF ClaimOneItem
    <3> HIDE DEF t
    <3> QED
      BY <1>a, <1>c, <3>1
  <2>2. CASE CallProvider(d)
    <3> DEFINE Accept == [task[d] EXCEPT !.step = "read", !.target = "initiated"]
               Again  == [task[d] EXCEPT !.step = "retry"]
               Dead   == [task[d] EXCEPT !.step = "mark"]
    <3>1. \E t \in {Accept, Again, Dead} : task' = [task EXCEPT ![d] = t]
      BY <2>2, <1>a DEF CallProvider, MoveTo, OnFailure, TaskDoc
    <3>2. \A t \in {Accept, Again, Dead} : t.step # "emit"
      BY <1>a DEF TaskDoc
    <3>3. task[d].step \notin {"emit", "gone"} /\ reached' = reached /\ logged' = logged
      BY <2>2 DEF CallProvider
    <3> HIDE DEF Accept, Again, Dead
    <3> QED
      BY <1>a, <1>c, <3>1, <3>2, <3>3
  <2>3. CASE HeartbeatItem(d) \/ ScheduleRetry(d) \/ ReleaseLease(d) \/ ReleaseItemLease(d)
    BY <1>a, <1>b, <2>3 DEF HeartbeatItem, ScheduleRetry, ReleaseLease, ReleaseItemLease
  <2>4. ~Raise(d)
    BY DEF Raise
  <2> QED
    BY <1>1, <2>1, <2>2, <2>3, <2>4 DEF PassAction
<1>2. ASSUME NEW x \in Tasks, TaskAction(x) PROVE LogKept'
  <2>a. AfterTransition(x) \in {"release", "idle"}
    BY DEF AfterTransition
  <2>1. CASE MarkDeadLetter(x)
    <3> DEFINE t == [task[x] EXCEPT !.step = "read", !.target = "failed"]
    <3>1. /\ task' = [task EXCEPT ![x] = t] /\ t.step # "emit" /\ task[x].step \notin {"emit", "gone"}
          /\ reached' = reached /\ logged' = logged
      BY <2>1, <1>a DEF MarkDeadLetter, MoveTo, TaskDoc
    <3> HIDE DEF t
    <3> QED
      BY <1>c, <3>1
  <2>2. CASE TransitionRead(x)
    <3>1. \E to \in {"write", "release", "idle"} : Goto(x, "read", to)
      BY <2>2, <2>a DEF TransitionRead
    <3> QED
      BY <1>b, <2>2, <3>1 DEF TransitionRead
  <2>3. CASE TransitionWrite(x)
    <3>1. /\ task[x].step = "write" /\ task'[x].step = "emit"
          /\ task'[x].target = task[x].target
          /\ \A y \in Tasks \ {x} : task'[y] = task[y]
      BY <2>3, GotoMoves DEF TransitionWrite
    <3>2. reached' = reached \cup {task[x].target} /\ logged' = logged
      BY <2>3 DEF TransitionWrite
    <3>3. \A y \in Tasks : Owes(y) => Owes(y)' /\ task'[y].target = task[y].target
      BY <3>1 DEF Owes
    <3>4. Owes(x)' /\ \A y \in Tasks \ {x} : Emits(y)' => Emits(y) /\ task'[y] = task[y]
      BY <3>1 DEF Emits, Owes
    <3> QED
      BY <3>1, <3>2, <3>3, <3>4 DEF LogKept
  <2>4. CASE EmitEvent(x)
    <3>1. /\ task[x].step = "emit" /\ task'[x].step # "emit"
          /\ \A y \in Tasks \ {x} : task'[y] = task[y]
      BY <2>4, <2>a, GotoMoves DEF EmitEvent
    <3>2. logged' = logged \cup {task[x].target} /\ reached' = reached
      BY <2>4 DEF EmitEvent
    <3>3. /\ Emits(x) /\ ~Emits(x)'
          /\ \A y \in Tasks \ {x} : (Emits(y)' <=> Emits(y)) /\ (Owes(y)' <=> Owes(y))
      BY <3>1 DEF Emits, Owes
    <3> QED
      BY <3>1, <3>2, <3>3 DEF LogKept
  <2>5. CASE Crash(x)
    <3>1. /\ task'[x].step = "gone"
          /\ Emits(x) => task'[x].target = task[x].target
          /\ \A y \in Tasks \ {x} : task'[y] = task[y]
      BY <2>5, <1>a DEF Crash, Idle
    <3>2. reached' = reached /\ logged' = logged /\ task[x].step # "gone"
      BY <2>5 DEF Crash
    <3>3. \A y \in Tasks : Owes(y) => Owes(y)' /\ task'[y].target = task[y].target
      BY <3>1, <3>2 DEF Owes, Emits
    <3>4. \A y \in Tasks : Emits(y)' => Emits(y) /\ task'[y] = task[y]
      BY <3>1 DEF Emits
    <3> QED
      BY <3>2, <3>3, <3>4 DEF LogKept
  <2> QED
    BY <1>2, <2>1, <2>2, <2>3, <2>4, <2>5 DEF TaskAction
<1>3. ASSUME NEW h \in Handlers, HandlerAction(h) PROVE LogKept'
  <2>1. ASSUME NEW step, NEW attempt, NEW target, step # "emit", Start(h, step, attempt, target)
        PROVE  LogKept'
    <3> DEFINE t == [step |-> step, attempt |-> attempt, target |-> target]
    <3>1. /\ task' = [task EXCEPT ![h] = t] /\ t.step # "emit" /\ task[h].step \notin {"emit", "gone"}
          /\ reached' = reached /\ logged' = logged
      BY <2>1 DEF Start
    <3> HIDE DEF t
    <3> QED
      BY <1>a, <1>c, <3>1
  <2>2. CASE PersistKey(h) \/ ForceRetryWrite(h)
    <3>1. /\ reached' = reached /\ logged' = logged
          /\ \/ \E from \in {"insert", "force"} : Goto(h, from, "idle")
             \/ task[h].step = "insert" /\ MoveTo(h, Announces[task[h].target])
      BY <2>2 DEF PersistKey, ForceRetryWrite
    <3>2. CASE task[h].step = "insert" /\ MoveTo(h, Announces[task[h].target])
      <4> DEFINE t == [task[h] EXCEPT !.step = "read", !.target = Announces[task[h].target]]
      <4>1. task' = [task EXCEPT ![h] = t] /\ t.step # "emit"
        BY <1>a, <3>2 DEF MoveTo, TaskDoc
      <4> HIDE DEF t
      <4> QED
        BY <1>a, <1>c, <3>1, <3>2, <4>1
    <3> QED
      BY <1>a, <1>b, <3>1, <3>2
  <2> QED
    BY <1>3, <2>1, <2>2 DEF HandlerAction, AdvanceMockItem, StripeWebhook, AdminTransition,
       AdminForceRetry, AdminForceDeadLetter
<1>4. CASE ReapRead \/ ReapWrite \/ BackoffElapses \/ LeaseExpires \/ ProviderEmits
           \/ UNCHANGED vars
  <2>1. UNCHANGED <<reached, logged, task>>
    BY <1>4 DEF ReapRead, ReapWrite, BackoffElapses, LeaseExpires, ProviderEmits, vars
  <2> QED
    BY <2>1 DEF LogKept, Emits, Owes
<1> QED
  BY <1>1, <1>2, <1>3, <1>4, Steppers

\* "Every state mutation appends to payout_v2_events" (payouts_v2.py), whoever
\* overlaps, stalls or dies, as long as no call raises between the two writes:
\* the only event that can be missing is that of a task that died in between.
THEOREM EveryStatusIsLogged ==
  ASSUME ~AllowRaise
  PROVE  Spec => []StatusesAreLogged
<1>1. Init => TypeOK /\ Carried /\ LogKept
  BY InitTypeOK, InitCarried, InitLogKept
<1>2. TypeOK /\ Carried /\ LogKept /\ [Next]_vars => TypeOK' /\ Carried' /\ LogKept'
  BY StepTypeOK, StepLogKept
<1>3. LogKept => StatusesAreLogged
  BY DEF LogKept, StatusesAreLogged, Owes
<1> QED
  BY <1>1, <1>2, <1>3, PTL DEF Spec

-----------------------------------------------------------------------------
(* Retries, the dead letter and the provider, with one pass at work.       *)

\* The premises: there is one pass, no answer of the provider is lost, nothing
\* dies or raises, no admin forces anything or takes the item off the queue.
\* Leases may run out and the reaper may take the claim away.
Alone ==
  /\ \A d, e \in Passes : d = e
  /\ MaxCrashes = 0 /\ ~AllowRaise /\ ~LostAnswers /\ ~AdminForces
  /\ AdminTargets \cap Transitions["queued"] = {}

\* What the pass may rely on at each of its awaits: up to the answer of the
\* provider the item is queued, unpaid and on the attempt the pass counts; then
\* it either fails an item that was never paid or initiates one that was.
Told(d) ==
  /\ task[d].step \in {"idle", "claimed", "calling", "retry", "mark", "read", "write",
                       "emit", "release"}
  /\ task[d].step = "idle" /\ item.status = "queued" =>
       ~transferred /\ ~item.deadLettered /\ item.attempts < MaxAttempts
  /\ task[d].step # "idle" => task[d].attempt <= MaxAttempts
  /\ task[d].step \in {"claimed", "calling", "retry", "mark"} =>
       /\ item.status = "queued" /\ ~transferred /\ ~item.deadLettered
       /\ task[d].attempt = item.attempts + 1
  /\ task[d].step = "retry" => task[d].attempt < MaxAttempts
  /\ task[d].step \in {"read", "write", "emit"} =>
       \/ /\ task[d].target = "failed" /\ ~transferred
          /\ item.status = IF task[d].step = "emit" THEN "failed" ELSE "queued"
       \/ task[d].target = "initiated" /\ transferred
  /\ task[d].step \in {"emit", "release"} => item.status # "queued"

\* A dead letter was not paid, and is failed or about to be.
GivenUp ==
  item.deadLettered =>
    /\ ~transferred
    /\ \/ item.status = "failed"
       \/ \E d \in Passes : task[d].step \in {"read", "write"} /\ task[d].target = "failed"

\* Before the provider has its transfer no handler has anything to do: a request
\* of an admin for a later status is refused.
Untouched ==
  ~transferred =>
    /\ item.status \in {"queued", "failed"}
    /\ emitted = {}
    /\ \A h \in Handlers : /\ task[h].step \in {"idle", "read"}
                           /\ task[h].step = "read" => task[h].target \in AdminTargets

\* No handler forces anything or leads back to the queue.
Unforced ==
  \A h \in Handlers : /\ task[h].step \notin {"mark", "force"}
                      /\ task[h].step = "write" => task[h].target # "queued"

AloneInv ==
  (\A d \in Passes : Told(d)) /\ GivenUp /\ Untouched /\ Unforced /\ item.attempts <= MaxAttempts

LEMMA InitAlone == Init => AloneInv
BY PayoutConstants DEF Init, AloneInv, Told, GivenUp, Untouched, Unforced, Idle, Tasks

\* A step of the pass, and a step that leaves the pass and the item alone.
LEMMA OfThePass ==
  ASSUME Alone, AloneInv, NEW d \in Passes, \A y \in Tasks \ {d} : task'[y] = task[y],
         Told(d)', item'.attempts <= MaxAttempts, GivenUp', emitted' = emitted, seen' = seen,
         ~transferred' => ~transferred /\ item'.status \in {"queued", "failed"}
  PROVE  AloneInv'
<1>1. \A e \in Passes : e = d
  BY DEF Alone
<1>2. \A h \in Handlers : task'[h] = task[h]
  BY PayoutConstants DEF Tasks
<1>3. (\A e \in Passes : Told(e))'
  BY <1>1
<1>4. Untouched'
  BY <1>2 DEF AloneInv, Untouched
<1>5. Unforced'
  BY <1>2 DEF AloneInv, Unforced
<1> QED
  BY <1>3, <1>4, <1>5 DEF AloneInv

LEMMA OfAHandler ==
  ASSUME Alone, AloneInv, NEW h \in Handlers, \A y \in Tasks \ {h} : task'[y] = task[y],
         item' = item, transferred' = transferred, emitted' = emitted, seen \subseteq seen',
         task'[h].step \in {"idle", "insert", "read", "write", "emit"},
         task'[h].step = "write" => task'[h].target # "queued",
         ~transferred =>
           \/ task'[h].step = "idle"
           \/ task'[h].step = "read" /\ task'[h].target \in AdminTargets
  PROVE  AloneInv'
<1>1. \A d \in Passes : task'[d] = task[d]
  BY PayoutConstants DEF Tasks
<1>2. \A g \in Handlers : g = h \/ task'[g] = task[g]
  BY DEF Tasks
<1>3. (\A d \in Passes : Told(d))' /\ GivenUp'
  BY <1>1 DEF AloneInv, Told, GivenUp
<1>4. Untouched'
  BY <1>2 DEF AloneInv, Untouched
<1>5. Unforced'
  BY <1>2 DEF AloneInv, Unforced
<1> QED
  BY <1>3, <1>4, <1>5 DEF AloneInv

LEMMA PassAlone ==
  ASSUME Alone, TypeOK, Carried, AloneInv, NEW d \in Passes, PassAction(d)
  PROVE  AloneInv'
<1> USE DEF providerVars
<1>a. /\ d \in Tasks /\ task[d] \in TaskDoc /\ item \in ItemDoc
      /\ task \in [Tasks -> TaskDoc] /\ MaxAttempts \in Nat
  BY PayoutConstants DEF Tasks, TypeOK, TaskDoc
<1>b. /\ Told(d) /\ GivenUp /\ Untouched /\ Unforced /\ item.attempts <= MaxAttempts
      /\ \A e \in Passes : e = d
  BY DEF AloneInv, Alone
<1>c. /\ Unclaimed.status = item.status /\ Unclaimed.attempts = item.attempts
      /\ Unclaimed.deadLettered = item.deadLettered /\ Unclaimed \in ItemDoc
  BY <1>a, UnclaimedType DEF ItemDoc, Unclaimed
<1>d. item.attempts \in Nat /\ task[d].attempt \in Nat
  BY <1>a DEF ItemDoc, TaskDoc
<1>1. CASE ClaimOneItem(d)
  <2> DEFINE t == [step |-> "claimed", attempt |-> item.attempts + 1, target |-> None]
  <2>1. /\ task' = [task EXCEPT ![d] = t]
        /\ t.step = "claimed" /\ t.attempt = item.attempts + 1
        /\ task[d].step = "idle" /\ item.status = "queued"
    BY <1>1 DEF ClaimOneItem
  <2> HIDE DEF t
  <2>2. task'[d] = t /\ \A y \in Tasks \ {d} : task'[y] = task[y]
    BY <1>a, <2>1, OthersStay
  <2>3. /\ item'.status = item.status /\ item'.attempts = item.attempts
        /\ item'.deadLettered = item.deadLettered
        /\ UNCHANGED <<transferred, emitted, seen>>
    BY <1>1, <1>a DEF ClaimOneItem, ItemDoc
  <2>4. ~transferred /\ ~item.deadLettered /\ item.attempts < MaxAttempts
    BY <1>b, <2>1 DEF Told
  <2>5. Told(d)' /\ GivenUp'
    BY <1>a, <1>d, <2>1, <2>2, <2>3, <2>4 DEF Told, GivenUp
  <2> QED
    BY <1>b, <2>1, <2>2, <2>3, <2>4, <2>5, OfThePass
<1>2. CASE HeartbeatItem(d)
  <2>1. /\ task[d].step = "claimed" /\ task'[d].step = "calling"
        /\ task'[d].attempt = task[d].attempt
        /\ \A y \in Tasks \ {d} : task'[y] = task[y]
    BY <1>2, <1>a, GotoMoves DEF HeartbeatItem
  <2>2. /\ item'.status = item.status /\ item'.attempts = item.attempts
        /\ item'.deadLettered = item.deadLettered
        /\ UNCHANGED <<transferred, emitted, seen>>
    BY <1>2, <1>a DEF HeartbeatItem, ItemDoc
  <2>3. item.status = "queued" /\ ~transferred /\ ~item.deadLettered
    BY <1>b, <2>1 DEF Told
  <2>4. Told(d)' /\ GivenUp'
    BY <1>b, <2>1, <2>2, <2>3 DEF Told, GivenUp
  <2> QED
    BY <1>b, <2>1, <2>2, <2>3, <2>4, OfThePass
<1>3. CASE CallProvider(d)
  <2> DEFINE Accept == [task[d] EXCEPT !.step = "read", !.target = "initiated"]
             Again  == [task[d] EXCEPT !.step = "retry"]
             Dead   == [task[d] EXCEPT !.step = "mark"]
  <2>1. /\ item.status = "queued" /\ ~transferred /\ ~item.deadLettered
        /\ task[d].attempt = item.attempts + 1 /\ task[d].attempt <= MaxAttempts
    BY <1>3, <1>b DEF CallProvider, Told
  <2>2. UNCHANGED <<item, emitted, seen>>
    BY <1>3 DEF CallProvider
  <2>3. \/ task' = [task EXCEPT ![d] = Accept] /\ transferred'
        \/ task' = [task EXCEPT ![d] = Again] /\ ~transferred' /\ task[d].attempt < MaxAttempts
        \/ task' = [task EXCEPT ![d] = Dead] /\ ~transferred'
    <3>1. CASE transferred' = TRUE /\ MoveTo(d, "initiated")
      BY <1>a, <3>1 DEF MoveTo, TaskDoc
    <3>2. CASE transferred' = transferred /\ \E terminal \in BOOLEAN : OnFailure(d, terminal)
      <4>1. PICK terminal \in BOOLEAN : OnFailure(d, terminal)
        BY <3>2
      <4>2. ~transferred'
        BY <2>1, <3>2
      <4>3. CASE task[d].attempt >= MaxAttempts \/ terminal
        BY <4>1, <4>2, <4>3 DEF OnFailure
      <4>4. CASE ~(task[d].attempt >= MaxAttempts \/ terminal)
        <5>1. task[d].attempt < MaxAttempts
          BY <1>a, <1>d, <4>4
        <5> QED
          BY <4>1, <4>2, <4>4, <5>1 DEF OnFailure
      <4> QED BY <4>3, <4>4
    <3> QED
      BY <1>3, <3>1, <3>2 DEF CallProvider, Alone
  <2>4. /\ Accept.step = "read" /\ Accept.target = "initiated" /\ Accept.attempt = task[d].attempt
        /\ Again.step = "retry" /\ Again.attempt = task[d].attempt
        /\ Dead.step = "mark" /\ Dead.attempt = task[d].attempt
    BY <1>a DEF TaskDoc
  <2>5. PICK t \in {Accept, Again, Dead} : task' = [task EXCEPT ![d] = t]
    BY <2>3
  <2>6. /\ \A y \in Tasks \ {d} : task'[y] = task[y]
        /\ \/ task'[d] = Accept /\ transferred'
           \/ task'[d] = Again /\ ~transferred' /\ task[d].attempt < MaxAttempts
           \/ task'[d] = Dead /\ ~transferred'
    BY <1>a, <2>3, <2>5, OthersStay
  <2> HIDE DEF Accept, Again, Dead
  <2>7. Told(d)'
    BY <2>1, <2>2, <2>4, <2>6 DEF Told
  <2>8. GivenUp'
    BY <2>1, <2>2 DEF GivenUp
  <2> QED
    BY <1>b, <2>1, <2>2, <2>6, <2>7, <2>8, OfThePass
<1>4. CASE ScheduleRetry(d)
  <2>1. /\ task[d].step = "retry" /\ task'[d].step = "idle"
        /\ \A y \in Tasks \ {d} : task'[y] = task[y]
    BY <1>4, <1>a, GotoMoves DEF ScheduleRetry
  <2>2. /\ item.status = "queued" /\ ~transferred /\ ~item.deadLettered
        /\ item.attempts + 1 < MaxAttempts
    BY <1>b, <2>1 DEF Told
  <2>3. /\ item'.status = item.status /\ item'.attempts = item.attempts + 1
        /\ item'.deadLettered = item.deadLettered
        /\ UNCHANGED <<transferred, emitted, seen>>
    BY <1>4, <1>c DEF ScheduleRetry, ItemDoc
  <2>4. Told(d)' /\ GivenUp'
    BY <2>1, <2>2, <2>3 DEF Told, GivenUp
  <2>5. item'.attempts <= MaxAttempts
    BY <1>a, <1>d, <2>2, <2>3
  <2> QED
    BY <2>1, <2>2, <2>3, <2>4, <2>5, OfThePass
<1>5. CASE ReleaseLease(d)
  <2>1. /\ task[d].step = "release" /\ task'[d].step = "idle"
        /\ \A y \in Tasks \ {d} : task'[y] = task[y]
    BY <1>5, <1>a, GotoMoves DEF ReleaseLease
  <2>2. item.status # "queued" /\ task[d].attempt <= MaxAttempts
    BY <1>b, <2>1 DEF Told
  <2>3. /\ item'.status = item.status /\ item'.attempts \in {item.attempts, task[d].attempt}
        /\ item'.deadLettered = item.deadLettered
        /\ UNCHANGED <<transferred, emitted, seen>>
    BY <1>5, <1>c DEF ReleaseLease, ItemDoc
  <2>4. Told(d)'
    BY <2>1, <2>2, <2>3 DEF Told
  <2>5. GivenUp'
    BY <1>b, <2>1, <2>3 DEF GivenUp
  <2>6. item'.attempts <= MaxAttempts
    BY <1>b, <2>2, <2>3
  <2> QED
    BY <1>b, <2>1, <2>3, <2>4, <2>5, <2>6, OfThePass DEF Untouched, Unforced
<1>6. ~ReleaseItemLease(d) /\ ~Raise(d)
  BY <1>b DEF ReleaseItemLease, Goto, Raise, Told, Alone
<1> QED
  BY <1>1, <1>2, <1>3, <1>4, <1>5, <1>6 DEF PassAction

\* The steps of transition_item made by the pass.
LEMMA PassMovesAlone ==
  ASSUME Alone, TypeOK, Carried, AloneInv, NEW d \in Passes, TaskAction(d)
  PROVE  AloneInv'
<1> USE DEF providerVars
<1>a. /\ d \in Tasks /\ task[d] \in TaskDoc /\ item \in ItemDoc
      /\ task \in [Tasks -> TaskDoc] /\ MaxAttempts \in Nat
  BY PayoutConstants DEF Tasks, TypeOK, TaskDoc
<1>b. /\ Told(d) /\ GivenUp /\ Untouched /\ Unforced /\ item.attempts <= MaxAttempts
      /\ \A e \in Passes : e = d
  BY DEF AloneInv, Alone
<1>c. /\ Unclaimed.status = item.status /\ Unclaimed \in ItemDoc
  BY <1>a, UnclaimedType DEF ItemDoc, Unclaimed
<1>d. AfterTransition(d) = IF task[d].target = "initiated" THEN "release" ELSE "idle"
  BY DEF AfterTransition
<1>e. "initiated" \in Transitions["queued"] /\ "failed" \in Transitions["queued"]
      /\ item.status \in Statuses
  BY <1>a DEF Transitions, ItemDoc
<1>1. CASE MarkDeadLetter(d)
  <2> DEFINE t == [task[d] EXCEPT !.step = "read", !.target = "failed"]
  <2>1. /\ task' = [task EXCEPT ![d] = t] /\ task[d].step = "mark"
        /\ t.step = "read" /\ t.target = "failed" /\ t.attempt = task[d].attempt
    BY <1>1, <1>a DEF MarkDeadLetter, MoveTo, TaskDoc
  <2> HIDE DEF t
  <2>2. task'[d] = t /\ \A y \in Tasks \ {d} : task'[y] = task[y]
    BY <1>a, <2>1, OthersStay
  <2>3. item.status = "queued" /\ ~transferred /\ task[d].attempt <= MaxAttempts
    BY <1>b, <2>1 DEF Told
  <2>4. /\ item'.status = item.status /\ item'.attempts = task[d].attempt
        /\ UNCHANGED <<transferred, emitted, seen>>
    BY <1>1, <1>c DEF MarkDeadLetter, ItemDoc
  <2>5. Told(d)' /\ GivenUp'
    BY <2>1, <2>2, <2>3, <2>4 DEF Told, GivenUp
  <2> QED
    BY <2>1, <2>2, <2>3, <2>4, <2>5, OfThePass
<1>2. CASE TransitionRead(d)
  <2> DEFINE to == IF task[d].target \in Transitions[item.status]
                   THEN "write" ELSE AfterTransition(d)
  <2>1. /\ Goto(d, "read", to)
        /\ UNCHANGED <<item, transferred, emitted, seen>>
    BY <1>2 DEF TransitionRead
  <2>2. \/ task[d].target = "failed" /\ ~transferred /\ item.status = "queued" /\ to = "write"
        \/ task[d].target = "initiated" /\ transferred /\ to = "write"
        \/ task[d].target = "initiated" /\ transferred /\ to = "release"
           /\ item.status # "queued"
    <3>1. task[d].step = "read"
      BY <2>1 DEF Goto
    <3>2. \/ task[d].target = "failed" /\ ~transferred /\ item.status = "queued"
          \/ task[d].target = "initiated" /\ transferred
      BY <1>b, <3>1 DEF Told
    <3> QED
      BY <1>d, <1>e, <3>2
  <2> HIDE DEF to
  <2>3. /\ task[d].step = "read" /\ task'[d].step = to
        /\ task'[d].target = task[d].target /\ task'[d].attempt = task[d].attempt
        /\ \A y \in Tasks \ {d} : task'[y] = task[y]
    BY <1>a, <2>1, <2>2, GotoMoves
  <2>4. Told(d)'
    BY <1>b, <2>1, <2>2, <2>3 DEF Told
  <2>5. GivenUp'
    BY <1>b, <2>1, <2>2, <2>3 DEF GivenUp
  <2> QED
    BY <1>b, <2>1, <2>3, <2>4, <2>5, OfThePass DEF Untouched, Unforced
<1>3. CASE TransitionWrite(d)
  <2>1. /\ task[d].step = "write" /\ task'[d].step = "emit"
        /\ task'[d].target = task[d].target /\ task'[d].attempt = task[d].attempt
        /\ \A y \in Tasks \ {d} : task'[y] = task[y]
    BY <1>3, <1>a, GotoMoves DEF TransitionWrite
  <2>2. /\ item'.status = task[d].target /\ item'.attempts = item.attempts
        /\ item'.deadLettered = item.deadLettered
        /\ UNCHANGED <<transferred, emitted, seen>>
    BY <1>3, <1>a DEF TransitionWrite, ItemDoc
  <2>3. \/ task[d].target = "failed" /\ ~transferred
        \/ task[d].target = "initiated" /\ transferred
    BY <1>b, <2>1 DEF Told
  <2>4. Told(d)' /\ GivenUp'
    BY <1>b, <2>1, <2>2, <2>3 DEF Told, GivenUp
  <2>5. item'.attempts <= MaxAttempts
    BY <1>b, <2>2
  <2> QED
    BY <2>1, <2>2, <2>3, <2>4, <2>5, OfThePass
<1>4. CASE EmitEvent(d)
  <2> DEFINE to == AfterTransition(d)
  <2>1. Goto(d, "emit", to) /\ UNCHANGED <<item, transferred, emitted, seen>>
    BY <1>4 DEF EmitEvent
  <2>2. to = IF task[d].target = "initiated" THEN "release" ELSE "idle"
    BY <1>d
  <2> HIDE DEF to
  <2>3. /\ task[d].step = "emit" /\ task'[d].step = to
        /\ to # "idle" => task'[d].attempt = task[d].attempt
        /\ \A y \in Tasks \ {d} : task'[y] = task[y]
    BY <1>a, <2>1, GotoMoves
  <2>4. item.status # "queued"
    BY <1>b, <2>3 DEF Told
  <2>5. Told(d)'
    BY <1>b, <2>1, <2>2, <2>3, <2>4 DEF Told
  <2>6. GivenUp'
    BY <1>b, <2>1, <2>3 DEF GivenUp
  <2> QED
    BY <1>b, <2>1, <2>3, <2>5, <2>6, OfThePass DEF Untouched, Unforced
<1>5. ~Crash(d)
  BY <1>a, NobodyDies DEF Alone
<1> QED
  BY <1>1, <1>2, <1>3, <1>4, <1>5 DEF TaskAction

\* The steps of transition_item made by a handler.
LEMMA HandlerMovesAlone ==
  ASSUME Alone, TypeOK, Carried, AloneInv, NEW h \in Handlers, TaskAction(h)
  PROVE  AloneInv'
<1> USE DEF providerVars
<1>a. /\ h \in Tasks /\ h \notin Passes /\ task[h] \in TaskDoc /\ item \in ItemDoc
      /\ task \in [Tasks -> TaskDoc]
  BY PayoutConstants DEF Tasks, TypeOK, TaskDoc
<1>b. /\ \A d \in Passes : Told(d)
      /\ GivenUp /\ Untouched /\ Unforced /\ item.attempts <= MaxAttempts
  BY DEF AloneInv
<1>c. AfterTransition(h) = "idle"
  BY <1>a DEF AfterTransition
<1>1. ~MarkDeadLetter(h) /\ ~Crash(h)
  BY <1>a, <1>b, NobodyDies DEF MarkDeadLetter, Unforced, Alone
<1>2. CASE TransitionRead(h)
  <2> DEFINE to == IF task[h].target \in Transitions[item.status] THEN "write" ELSE "idle"
  <2>1. /\ Goto(h, "read", to)
        /\ UNCHANGED <<item, transferred, emitted, seen>>
    BY <1>2, <1>c DEF TransitionRead
  <2>2. to = "write" => task[h].target # "queued"
    BY <1>a, NeverBackToQueued DEF ItemDoc
  <2>3. ~transferred => to = "idle"
    <3>1. task[h].step = "read"
      BY <2>1 DEF Goto
    <3>2. Transitions["failed"] = {}
      BY DEF Transitions
    <3> QED
      BY <1>b, <3>1, <3>2 DEF Untouched, Alone
  <2>4. to \in {"write", "idle"}
    OBVIOUS
  <2> HIDE DEF to
  <2>5. /\ task[h].step = "read" /\ task'[h].step = to
        /\ to # "idle" => task'[h].target = task[h].target
        /\ \A y \in Tasks \ {h} : task'[y] = task[y]
    BY <1>a, <2>1, GotoMoves
  <2> QED
    BY <2>1, <2>2, <2>3, <2>4, <2>5, OfAHandler
<1>3. CASE TransitionWrite(h)
  <2>1. /\ task[h].step = "write" /\ task'[h].step = "emit"
        /\ task'[h].target = task[h].target
        /\ \A y \in Tasks \ {h} : task'[y] = task[y]
    BY <1>3, <1>a, GotoMoves DEF TransitionWrite
  <2>2. /\ item'.status = task[h].target /\ item'.attempts = item.attempts
        /\ item'.deadLettered = item.deadLettered
        /\ UNCHANGED <<transferred, emitted, seen>>
    BY <1>3, <1>a DEF TransitionWrite, ItemDoc
  <2>3. transferred /\ ~item.deadLettered /\ task[h].target # "queued"
    BY <1>b, <2>1 DEF Untouched, GivenUp, Unforced
  <2>4. \A d \in Passes : task'[d] = task[d]
    BY <1>a, <2>1 DEF Tasks
  <2>5. \A d \in Passes : Told(d)'
    BY <1>b, <2>2, <2>3, <2>4 DEF Told
  <2>6. GivenUp' /\ Untouched'
    BY <2>2, <2>3 DEF GivenUp, Untouched
  <2>7. Unforced'
    <3>1. \A g \in Handlers : g = h \/ task'[g] = task[g]
      BY <2>1 DEF Tasks
    <3> QED
      BY <1>b, <2>1, <2>2, <2>3, <3>1 DEF Unforced
  <2>8. item'.attempts <= MaxAttempts
    BY <1>b, <2>2
  <2> QED
    BY <2>5, <2>6, <2>7, <2>8 DEF AloneInv
<1>4. CASE EmitEvent(h)
  <2>1. /\ task'[h].step = "idle"
        /\ \A y \in Tasks \ {h} : task'[y] = task[y]
        /\ UNCHANGED <<item, transferred, emitted, seen>>
    BY <1>4, <1>a, <1>c, GotoMoves DEF EmitEvent
  <2> QED
    BY <2>1, OfAHandler
<1> QED
  BY <1>1, <1>2, <1>3, <1>4 DEF TaskAction

LEMMA HandlerAlone ==
  ASSUME Alone, TypeOK, Carried, AloneInv, NEW h \in Handlers, HandlerAction(h)
  PROVE  AloneInv'
<1> USE DEF providerVars
<1>a. /\ h \in Tasks /\ task[h] \in TaskDoc /\ task \in [Tasks -> TaskDoc]
  BY DEF Tasks, TypeOK, TaskDoc
<1>b. Untouched /\ Unforced
  BY DEF AloneInv
<1>1. ASSUME NEW step \in {"read", "insert"}, NEW target, Start(h, step, 0, target),
             transferred \/ (step = "read" /\ target \in AdminTargets)
      PROVE  AloneInv'
  <2> DEFINE t == [step |-> step, attempt |-> 0, target |-> target]
  <2>1. /\ task' = [task EXCEPT ![h] = t] /\ t.step = step /\ t.target = target
        /\ UNCHANGED <<item, transferred, emitted, seen>>
    BY <1>1 DEF Start
  <2> HIDE DEF t
  <2>2. task'[h] = t /\ \A y \in Tasks \ {h} : task'[y] = task[y]
    BY <1>a, <2>1, OthersStay
  <2> QED
    BY <1>1, <2>1, <2>2, OfAHandler
<1>2. CASE AdvanceMockItem(h)
  <2>1. transferred
    BY <1>2, <1>b DEF AdvanceMockItem, MockChain, Untouched
  <2> QED
    BY <1>1, <1>2, <2>1 DEF AdvanceMockItem
<1>3. CASE StripeWebhook(h)
  BY <1>1, <1>3, <1>b DEF StripeWebhook, Untouched
<1>4. CASE AdminTransition(h)
  BY <1>1, <1>4 DEF AdminTransition
<1>5. CASE PersistKey(h)
  <2> DEFINE Go == [task[h] EXCEPT !.step = "read", !.target = Announces[task[h].target]]
  <2>1. /\ UNCHANGED <<item, transferred, emitted>> /\ seen \subseteq seen'
        /\ task[h].step = "insert"
    BY <1>5 DEF PersistKey, Goto
  <2>2. transferred
    BY <1>b, <2>1 DEF Untouched
  <2>3. PICK t \in {Idle, Go} : task' = [task EXCEPT ![h] = t]
    BY <1>5, <1>a DEF PersistKey, Goto, MoveTo, TaskDoc
  <2>4. t.step \in {"read", "idle"}
    <3>1. Go.step = "read" /\ Idle.step = "idle"
      BY <1>a DEF TaskDoc, Idle
    <3> HIDE DEF Go
    <3> QED BY <3>1
  <2> HIDE DEF Go
  <2>5. task'[h] = t /\ \A y \in Tasks \ {h} : task'[y] = task[y]
    BY <1>a, <2>3, OthersStay
  <2> QED
    BY <2>1, <2>2, <2>4, <2>5, OfAHandler
<1>6. ~AdminForceRetry(h) /\ ~AdminForceDeadLetter(h)
  BY DEF AdminForceRetry, AdminForceDeadLetter, Alone
<1>7. ~ForceRetryWrite(h)
  BY <1>b DEF ForceRetryWrite, Goto, Unforced
<1> QED
  BY <1>2, <1>3, <1>4, <1>5, <1>6, <1>7 DEF HandlerAction

LEMMA StepAlone ==
  ASSUME Alone, TypeOK, Carried, AloneInv, [Next]_vars PROVE AloneInv'
<1> USE DEF providerVars
<1>1. ASSUME NEW x \in Tasks, TaskAction(x) PROVE AloneInv'
  BY <1>1, PassMovesAlone, HandlerMovesAlone DEF Tasks
<1>2. CASE ReapRead \/ ReapWrite \/ BackoffElapses \/ LeaseExpires \/ UNCHANGED vars
  <2>1. /\ item'.status = item.status /\ item'.attempts = item.attempts
        /\ item'.deadLettered = item.deadLettered
        /\ UNCHANGED <<task, transferred, emitted, seen>>
    BY <1>2 DEF ReapRead, ReapWrite, BackoffElapses, LeaseExpires, vars, Unclaimed, TypeOK,
       ItemDoc
  <2>2. \A d \in Passes : Told(d)'
    BY <2>1 DEF AloneInv, Told
  <2> QED
    BY <2>1, <2>2 DEF AloneInv, GivenUp, Untouched, Unforced
<1>3. CASE ProviderEmits
  <2>1. transferred /\ UNCHANGED <<item, task, transferred, seen>>
    BY <1>3 DEF ProviderEmits
  <2>2. \A d \in Passes : Told(d)'
    BY <2>1 DEF AloneInv, Told
  <2> QED
    BY <2>1, <2>2 DEF AloneInv, GivenUp, Untouched, Unforced
<1> QED
  BY <1>1, <1>2, <1>3, Steppers, PassAlone, HandlerAlone

LEMMA AloneInvHolds ==
  ASSUME Alone
  PROVE  Spec => [](TypeOK /\ AloneInv)
<1>1. Init => TypeOK /\ Carried /\ AloneInv
  BY InitTypeOK, InitCarried, InitAlone
<1>2. TypeOK /\ Carried /\ AloneInv /\ [Next]_vars => TypeOK' /\ Carried' /\ AloneInv'
  BY StepTypeOK, StepAlone
<1> QED
  BY <1>1, <1>2, PTL DEF Spec

\* "Dead-letter: after max_attempts the item moves to terminal failed"
\* (payouts_v2_worker.py): with one pass at work, whatever webhooks, advancers
\* and the reaper do meanwhile, a dead-lettered item ends failed and no attempt
\* beyond the last one is made.
THEOREM DeadLettersFail ==
  ASSUME Alone
  PROVE  Spec => []DeadLetteredIsFailed
<1>1. AloneInv => DeadLetteredIsFailed
  BY DEF AloneInv, GivenUp, DeadLetteredIsFailed, Quiet, Running, Tasks
<1> QED
  BY <1>1, AloneInvHolds, PTL
=============================================================================
