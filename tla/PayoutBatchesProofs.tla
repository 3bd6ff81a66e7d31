------------------------- MODULE PayoutBatchesProofs -------------------------
(***************************************************************************)
(* For any number of earnings, developers, batches, keys and calls,        *)
(* overlapping and dying anywhere: a key makes one batch, a release is     *)
(* whole once it shows, no earning is paid without an approval, and none   *)
(* that the gate holds back.  When calls come one after the other, a batch *)
(* pays each developer once, and the two engines agree on the earnings.    *)
(***************************************************************************)
EXTENDS PayoutBatches, FiniteSetTheorems, TLAPS

HandlerStates == [step : {"idle"} \cup EarningSteps \cup IntentSteps,
                  on : Earnings \cup Batches \cup Intents \cup {None},
                  arg : Results \cup Keys \cup {None},
                  lines : SUBSET Earnings, todo : SUBSET (Earnings \cup Developers)]
EarningDocs == [status : EarningStatuses, batch : Batches \cup {None}]
BatchDocs == [status : BatchStatuses \cup {"none"}, lines : SUBSET Earnings,
              approved : BOOLEAN]
IntentDocs == [status : IntentStatuses \cup {"none"}, lines : SUBSET Earnings,
               key : Keys \cup {None}]

TypedEarnings == earning \in [Earnings -> EarningDocs] /\ batch \in [Batches -> BatchDocs]

TypedIntents ==
  /\ intent \in [Intents -> IntentDocs]
  /\ answer \in [Keys -> Intents \cup {None, "pending"}]
  /\ announced \in [Intents -> [Developers -> Nat]]
  /\ items \in [Intents -> [Developers -> Nat]]

\* A batch keeps to its key and the key to its batch, and a released batch has
\* its items.
HasItems(p) == \A d \in Payees(p) : items[p][d] > 0

Documents ==
  /\ \A p \in Intents : /\ intent[p].status = "none" => intent[p].key = None
                        /\ intent[p].key # None => answer[intent[p].key] # None
                        /\ intent[p].status = "released" => HasItems(p)
  /\ \A p, q \in Intents : intent[p].key # None /\ intent[p].key = intent[q].key => p = q
  /\ \A k \in Keys : answer[k] \in Intents => intent[answer[k]].key = k

\* What a handler knows, by the step it is at.
MakingSteps == {"proposeRead", "proposeInsert"}
ReleaseSteps == {"announce", "insertItems", "releaseWrite"}
Made(p) == p \in Intents /\ intent[p].status # "none"

Knows(h) ==
  /\ h.step \in {"batchInsert", "freeze"} => h.on \in Batches
  /\ h.step \in MakingSteps \cup {"proposeAnswer"} => h.arg \in Keys /\ answer[h.arg] # None
  /\ h.step = "proposeAnswer" => Made(h.on) /\ intent[h.on].key = h.arg
  /\ h.step \in ReleaseSteps \cup {"cancelWrite"} => Made(h.on)
  /\ h.step = "announce" => h.todo \subseteq Developers
  /\ h.step = "releaseWrite" => HasItems(h.on)

\* The key of a batch in the making is used by no other.
OwnsKey(c) ==
  call[c].step \in MakingSteps =>
    /\ \A p \in Intents : intent[p].key # call[c].arg
    /\ \A d \in Calls : call[d].step \in MakingSteps /\ call[d].arg = call[c].arg => d = c

\* Handler h has announced an item of d in p that it is yet to insert.
Owes(h, p, d) ==
  /\ h.on = p /\ d \in Payees(p)
  /\ h.step = "insertItems" \/ (h.step = "announce" /\ d \notin h.todo)

Owing(p, d) == {c \in Calls : Owes(call[c], p, d)}
Accounted(p, d) == items[p][d] + Cardinality(Owing(p, d)) <= announced[p][d]

IntentInv ==
  /\ TypedEarnings /\ TypedIntents
  /\ call \in [Calls -> HandlerStates]
  /\ tidy \in BOOLEAN
  /\ Documents
  /\ \A c \in Calls : Knows(call[c]) /\ OwnsKey(c)
  /\ \A p \in Intents, d \in Developers : Accounted(p, d)

-----------------------------------------------------------------------------
(* What a step of handler c, which makes it h, has to keep.                *)

Grows ==
  /\ \A p \in Intents :
       intent[p].status # "none" => /\ intent'[p].status # "none"
                                    /\ intent'[p].key = intent[p].key
                                    /\ intent'[p].lines = intent[p].lines
  /\ \A k \in Keys : answer[k] # None => answer'[k] # None
  /\ \A p \in Intents, d \in Developers : items[p][d] > 0 => items'[p][d] > 0

DocumentsKeep == TypedEarnings' /\ TypedIntents' /\ Documents' /\ Grows

\* h makes a batch only with the key of c, or one that nobody had; and c gives
\* a batch its own key only, and is done with it.
KeepsKeys(c, h) ==
  /\ h.step \in MakingSteps =>
       (call[c].step \in MakingSteps /\ h.arg = call[c].arg) \/ answer[h.arg] = None
  /\ h.step \in MakingSteps => \A p \in Intents : intent'[p].key # h.arg
  /\ \A p \in Intents :
       intent'[p].key # intent[p].key =>
         call[c].step \in MakingSteps /\ intent'[p].key = call[c].arg

\* Nothing is announced later than it is inserted.
KeepsAccount(c, h, p, d) ==
  \/ /\ items'[p][d] = items[p][d] /\ announced'[p][d] = announced[p][d]
     /\ Owes(h, p, d)' => Owes(call[c], p, d)
  \/ items'[p][d] = items[p][d] /\ announced'[p][d] = announced[p][d] + 1
  \/ /\ items'[p][d] = items[p][d] + 1 /\ announced'[p][d] = announced[p][d]
     /\ ~Owes(h, p, d)' /\ Owes(call[c], p, d)

LEMMA KnowsStays ==
  ASSUME IntentInv, Grows, NEW h, Knows(h)
  PROVE  Knows(h)'
<1>1. ASSUME NEW p, Made(p)
      PROVE  /\ Made(p)' /\ Payees(p)' = Payees(p) /\ intent'[p].key = intent[p].key
             /\ HasItems(p) => HasItems(p)'
  <2>1. /\ Made(p)' /\ intent'[p].lines = intent[p].lines /\ intent'[p].key = intent[p].key
    BY <1>1 DEF Grows, Made
  <2>2. Payees(p)' = Payees(p)
    BY <2>1 DEF Payees
  <2>3. Payees(p) \subseteq Developers
    BY <1>1, EarningConstants DEF Payees, IntentInv, TypedIntents, IntentDocs, Made
  <2> QED
    BY <1>1, <2>1, <2>2, <2>3 DEF Grows, HasItems, Made
<1> QED
  BY <1>1 DEF Knows, Grows, ReleaseSteps, MakingSteps

LEMMA AccountStays ==
  ASSUME IntentInv, Grows, NEW c \in Calls, NEW h, call' = [call EXCEPT ![c] = h],
         NEW p \in Intents, NEW d \in Developers, KeepsAccount(c, h, p, d), TypedIntents'
  PROVE  Accounted(p, d)'
<1> DEFINE A == Owing(p, d)
           B == Owing(p, d)'
<1>1. call'[c] = h /\ \A x \in Calls : x # c => call'[x] = call[x]
  BY DEF IntentInv
<1>2. ASSUME NEW x \in Calls, x # c, x \in B PROVE x \in A
  <2>1. call'[x] = call[x] /\ Knows(call[x])
    BY <1>1, <1>2 DEF IntentInv
  <2>2. Owes(call[x], p, d)'
    BY <1>2 DEF Owing
  <2>3. Made(p)
    BY <2>1, <2>2 DEF Owes, Knows, ReleaseSteps
  <2>4. Payees(p)' = Payees(p)
    BY <2>3 DEF Made, Grows, Payees
  <2>5. Owes(call[x], p, d)
    BY <2>1, <2>2, <2>4 DEF Owes
  <2> QED
    BY <2>5 DEF Owing
<1>3. B \subseteq A \cup {c}
  BY <1>2 DEF Owing
<1>4. (c \in B <=> Owes(h, p, d)') /\ (c \in A <=> Owes(call[c], p, d))
  BY <1>1 DEF Owing, Owes
<1>5. IsFiniteSet(A) /\ IsFiniteSet(B) /\ IsFiniteSet(A \cup {c})
  <2>1. A \subseteq Calls /\ B \subseteq Calls /\ A \cup {c} \subseteq Calls
    BY DEF Owing
  <2> HIDE DEF A, B
  <2> QED
    BY <2>1, EarningConstants, FS_Subset
<1>6. /\ items[p][d] \in Nat /\ announced[p][d] \in Nat
      /\ items'[p][d] \in Nat /\ announced'[p][d] \in Nat
      /\ items[p][d] + Cardinality(A) <= announced[p][d]
  BY DEF IntentInv, TypedIntents, Accounted
<1> SUFFICES items'[p][d] + Cardinality(B) <= announced'[p][d]
  BY DEF Accounted
<1> HIDE DEF A, B
<1>7. /\ Cardinality(A) \in Nat /\ Cardinality(B) \in Nat
      /\ Cardinality(A \cup {c}) \in Nat /\ Cardinality(A \cup {c}) <= Cardinality(A) + 1
  BY <1>5, FS_CardinalityType, FS_AddElement
<1>8. CASE /\ items'[p][d] = items[p][d] /\ announced'[p][d] = announced[p][d]
           /\ Owes(h, p, d)' => Owes(call[c], p, d)
  <2>1. B \subseteq A
    BY <1>3, <1>4, <1>8
  <2>2. Cardinality(B) <= Cardinality(A)
    BY <2>1, <1>5, FS_Subset
  <2> QED
    BY <1>6, <1>7, <1>8, <2>2
<1>9. CASE items'[p][d] = items[p][d] /\ announced'[p][d] = announced[p][d] + 1
  <2>1. Cardinality(B) <= Cardinality(A \cup {c})
    BY <1>3, <1>5, FS_Subset
  <2> QED
    BY <1>6, <1>7, <1>9, <2>1
<1>10. CASE /\ items'[p][d] = items[p][d] + 1 /\ announced'[p][d] = announced[p][d]
            /\ ~Owes(h, p, d)' /\ Owes(call[c], p, d)
  <2>1. B \subseteq A \ {c} /\ c \in A
    BY <1>3, <1>4, <1>10
  <2>2. IsFiniteSet(A \ {c}) /\ Cardinality(A \ {c}) = Cardinality(A) - 1
    BY <2>1, <1>5, FS_RemoveElement
  <2>3. Cardinality(B) <= Cardinality(A \ {c})
    BY <2>1, <2>2, FS_Subset
  <2> QED
    BY <1>6, <1>7, <1>10, <2>2, <2>3
<1> QED
  BY <1>8, <1>9, <1>10 DEF KeepsAccount

LEMMA StepKeeps ==
  ASSUME IntentInv, DocumentsKeep, NEW c \in Calls, NEW h \in HandlerStates,
         call' = [call EXCEPT ![c] = h], tidy' \in BOOLEAN, Knows(h)', KeepsKeys(c, h),
         \A p \in Intents, d \in Developers : KeepsAccount(c, h, p, d)
  PROVE  IntentInv'
<1>1. /\ call' \in [Calls -> HandlerStates] /\ call'[c] = h
      /\ \A d \in Calls : d # c => call'[d] = call[d]
  BY DEF IntentInv
<1>2. ASSUME NEW d \in Calls PROVE Knows(call[d])'
  <2>1. CASE d = c
    BY <1>1, <2>1 DEF Knows
  <2>2. CASE d # c
    <3>1. call'[d] = call[d] /\ Knows(call[d])
      BY <1>1, <2>2 DEF IntentInv
    <3> PICK g : g = call[d]
      OBVIOUS
    <3>2. Knows(g)'
      BY <3>1, KnowsStays DEF DocumentsKeep
    <3> QED
      BY <3>1, <3>2 DEF Knows
  <2> QED
    BY <2>1, <2>2
<1>3. ASSUME NEW d \in Calls, d # c, call[d].step \in MakingSteps
      PROVE  /\ \A p \in Intents : intent'[p].key # call[d].arg
             /\ h.step \in MakingSteps => h.arg # call[d].arg
  <2>1. Knows(call[d]) /\ OwnsKey(d)
    BY DEF IntentInv
  <2>2. \A p \in Intents : intent[p].key # call[d].arg
    BY <1>3, <2>1 DEF OwnsKey
  <2>3. call[c].step \in MakingSteps => call[c].arg # call[d].arg
    BY <1>3, <2>1 DEF OwnsKey
  <2>4. answer[call[d].arg] # None
    BY <1>3, <2>1 DEF Knows
  <2> QED
    BY <2>2, <2>3, <2>4 DEF KeepsKeys
<1>4. ASSUME NEW d \in Calls PROVE OwnsKey(d)'
  <2>1. OwnsKey(d)
    BY DEF IntentInv
  <2> QED
    BY <1>1, <1>3, <2>1 DEF OwnsKey, KeepsKeys
<1>5. \A p \in Intents, d \in Developers : Accounted(p, d)'
  BY AccountStays DEF DocumentsKeep
<1> QED
  BY <1>1, <1>2, <1>4, <1>5 DEF IntentInv, DocumentsKeep

-----------------------------------------------------------------------------
(* Steps on the earnings, and steps that only move a handler on.           *)

LEMMA Handlers ==
  ASSUME IntentInv, NEW c \in Calls
  PROVE  call[c] \in HandlerStates /\ Knows(call[c])
BY DEF IntentInv

LEMMA IdleIs == Idle \in HandlerStates /\ Idle.step = "idle" /\ Idle.on = None
BY DEF Idle, HandlerStates

LEMMA SameDocuments ==
  ASSUME IntentInv, UNCHANGED payoutVars, TypedEarnings'
  PROVE  DocumentsKeep
<1>1. TypedIntents'
  BY DEF IntentInv, TypedIntents, payoutVars
<1>2. Grows
  BY DEF Grows, payoutVars
<1>3. Documents'
  BY DEF IntentInv, Documents, HasItems, Payees, payoutVars
<1> QED
  BY <1>1, <1>2, <1>3 DEF DocumentsKeep

\* A handler that neither makes a batch nor owes items.
LEMMA QuietStep ==
  ASSUME IntentInv, UNCHANGED payoutVars, TypedEarnings', NEW c \in Calls, NEW h \in HandlerStates,
         call' = [call EXCEPT ![c] = h], tidy' \in BOOLEAN, Knows(h),
         h.step \notin MakingSteps \cup {"announce", "insertItems"}
  PROVE  IntentInv'
<1>1. DocumentsKeep
  BY SameDocuments
<1>2. Knows(h)'
  BY <1>1, KnowsStays DEF DocumentsKeep
<1>3. KeepsKeys(c, h)
  BY DEF KeepsKeys, payoutVars
<1>4. \A p \in Intents, d \in Developers : KeepsAccount(c, h, p, d)
  BY DEF KeepsAccount, Owes, payoutVars
<1> QED
  BY <1>1, <1>2, <1>3, <1>4, StepKeeps

\* The earnings are written, the handler is at a step of theirs or done.
PlainSteps == {"idle", "qaWrite", "approve", "pay", "payEarnings"}

LEMMA PlainStep ==
  ASSUME IntentInv, UNCHANGED payoutVars, TypedEarnings', NEW c \in Calls, NEW h \in HandlerStates,
         call' = [call EXCEPT ![c] = h], tidy' \in BOOLEAN,
         h.step \in PlainSteps \/ (h.step \in {"batchInsert", "freeze"} /\ h.on \in Batches)
  PROVE  IntentInv'
<1>1. Knows(h) /\ h.step \notin MakingSteps \cup {"announce", "insertItems"}
  BY DEF Knows, PlainSteps, MakingSteps, ReleaseSteps
<1> QED
  BY <1>1, QuietStep

LEMMA FinishKeeps ==
  ASSUME IntentInv, UNCHANGED payoutVars, TypedEarnings', NEW c \in Calls, NEW from,
         Finish(c, from)
  PROVE  IntentInv'
<1>1. call' = [call EXCEPT ![c] = Idle] /\ tidy' \in BOOLEAN
  BY DEF Finish, Continue, IntentInv
<1> QED
  BY <1>1, IdleIs, PlainStep DEF PlainSteps

\* The loop of c goes on in place, or ends.
LEMMA LoopKeeps ==
  ASSUME IntentInv, UNCHANGED payoutVars, TypedEarnings', NEW c \in Calls, NEW x,
         NEW from \in {"freeze", "payEarnings"}, Strike(c, from, x, Idle)
  PROVE  IntentInv'
<1>1. CASE call[c].todo = {x}
  <2>1. Finish(c, from)
    BY <1>1 DEF Strike, Finish
  <2> QED
    BY <2>1, FinishKeeps
<1>2. CASE call[c].todo # {x}
  <2> DEFINE h == [call[c] EXCEPT !.todo = @ \ {x}]
  <2>1. call' = [call EXCEPT ![c] = h] /\ tidy' \in BOOLEAN /\ call[c].step = from
    BY <1>2 DEF Strike, Continue, IntentInv
  <2>2. h \in HandlerStates /\ h.step = from /\ h.on = call[c].on
    BY <2>1, Handlers DEF HandlerStates
  <2>3. from = "freeze" => h.on \in Batches
    BY <2>1, <2>2, Handlers DEF Knows
  <2> HIDE DEF h
  <2> QED
    BY <2>1, <2>2, <2>3, PlainStep DEF PlainSteps
<1> QED
  BY <1>1, <1>2

LEMMA EarningReadKeeps ==
  ASSUME IntentInv, UNCHANGED <<earningVars, payoutVars>>, NEW c \in Calls, NEW h \in HandlerStates,
         Begin(c, h), h.step \in PlainSteps \/ (h.step = "batchInsert" /\ h.on \in Batches)
  PROVE  IntentInv'
<1>1. TypedEarnings'
  BY DEF IntentInv, TypedEarnings, earningVars
<1>2. call' = [call EXCEPT ![c] = h] /\ tidy' \in BOOLEAN
  BY DEF Begin, IntentInv, Quiet
<1> QED
  BY <1>1, <1>2, PlainStep

LEMMA EarningStepKeeps ==
  ASSUME IntentInv, UNCHANGED payoutVars, NEW c \in Calls, EarningStep(c)
  PROVE  IntentInv'
<1> USE Handlers
<1>1. ASSUME NEW e \in Earnings, NEW result \in Results, QaRead(c, e, result) PROVE IntentInv'
  <2> DEFINE h == [Idle EXCEPT !.step = "qaWrite", !.on = e, !.arg = result]
  <2>1. h \in HandlerStates /\ h.step = "qaWrite"
    BY DEF Idle, HandlerStates, EarningSteps
  <2> HIDE DEF h
  <2>2. Begin(c, h) /\ UNCHANGED earningVars
    BY <1>1 DEF QaRead, h
  <2> QED
    BY <2>1, <2>2, EarningReadKeeps DEF PlainSteps
<1>2. ASSUME NEW b \in Batches, NEW S \in SUBSET Earnings, BatchRead(c, b, S) PROVE IntentInv'
  <2> DEFINE h == [step |-> "batchInsert", on |-> b, arg |-> None, lines |-> S, todo |-> S]
  <2>1. h \in HandlerStates /\ h.step = "batchInsert" /\ h.on = b
    BY DEF HandlerStates, EarningSteps
  <2> HIDE DEF h
  <2>2. Begin(c, h) /\ UNCHANGED earningVars
    BY <1>2 DEF BatchRead, h
  <2> QED
    BY <2>1, <2>2, EarningReadKeeps
<1>3. ASSUME NEW b \in Batches, ApproveRead(c, b) PROVE IntentInv'
  <2> DEFINE h == [Idle EXCEPT !.step = "approve", !.on = b]
  <2>1. h \in HandlerStates /\ h.step = "approve"
    BY DEF Idle, HandlerStates, EarningSteps
  <2> HIDE DEF h
  <2>2. Begin(c, h) /\ UNCHANGED earningVars
    BY <1>3 DEF ApproveRead, h
  <2> QED
    BY <2>1, <2>2, EarningReadKeeps DEF PlainSteps
<1>4. ASSUME NEW b \in Batches, PayRead(c, b) PROVE IntentInv'
  <2> DEFINE h == [Idle EXCEPT !.step = "pay", !.on = b, !.todo = batch[b].lines]
  <2>1. h \in HandlerStates /\ h.step = "pay"
    BY DEF Idle, HandlerStates, EarningSteps, IntentInv, TypedEarnings, BatchDocs
  <2> HIDE DEF h
  <2>2. Begin(c, h) /\ UNCHANGED earningVars
    BY <1>4 DEF PayRead, h
  <2> QED
    BY <2>1, <2>2, EarningReadKeeps DEF PlainSteps
<1>5. CASE QaWrite(c)
  <2>1. Verdict(call[c].on, call[c].arg) \in EarningStatuses
    BY DEF Verdict, EarningStatuses
  <2>2. TypedEarnings'
    BY <1>5, <2>1 DEF QaWrite, IntentInv, TypedEarnings, EarningDocs
  <2> QED
    BY <1>5, <2>2, FinishKeeps DEF QaWrite
<1>6. CASE BatchInsert(c)
  <2> DEFINE h == [call[c] EXCEPT !.step = "freeze"]
  <2>1. call' = [call EXCEPT ![c] = h] /\ tidy' \in BOOLEAN /\ call[c].step = "batchInsert"
    BY <1>6 DEF BatchInsert, Goto, Continue, IntentInv
  <2>2. h \in HandlerStates /\ h.step = "freeze" /\ h.on \in Batches
    BY <2>1 DEF HandlerStates, EarningSteps, Knows
  <2>3. TypedEarnings'
    BY <1>6 DEF BatchInsert, IntentInv, TypedEarnings, BatchDocs, BatchStatuses, HandlerStates
  <2> HIDE DEF h
  <2> QED
    BY <2>1, <2>2, <2>3, PlainStep
<1>7. CASE FreezeEarning(c)
  <2>1. PICK e \in call[c].todo :
          /\ Strike(c, "freeze", e, Idle)
          /\ earning' = [earning EXCEPT ![e].status = "batched", ![e].batch = call[c].on]
          /\ UNCHANGED batch
    BY <1>7, Zenon DEF FreezeEarning
  <2>2. call[c].on \in Batches
    BY <2>1 DEF Strike, Continue, Knows
  <2>3. TypedEarnings'
    BY <2>1, <2>2 DEF IntentInv, TypedEarnings, EarningDocs, EarningStatuses
  <2> QED
    BY <2>1, <2>3, LoopKeeps
<1>8. CASE ApproveWrite(c)
  <2>1. TypedEarnings'
    BY <1>8 DEF ApproveWrite, IntentInv, TypedEarnings, BatchDocs, BatchStatuses
  <2> QED
    BY <1>8, <2>1, FinishKeeps DEF ApproveWrite
<1>9. CASE PayWrite(c)
  <2> DEFINE h == [call[c] EXCEPT !.step = "payEarnings"]
  <2>1. call' = [call EXCEPT ![c] = h] /\ tidy' \in BOOLEAN
    BY <1>9 DEF PayWrite, Goto, Continue, IntentInv
  <2>2. h \in HandlerStates /\ h.step = "payEarnings"
    BY DEF HandlerStates, EarningSteps
  <2>3. TypedEarnings'
    BY <1>9 DEF PayWrite, IntentInv, TypedEarnings, BatchDocs, BatchStatuses
  <2> HIDE DEF h
  <2> QED
    BY <2>1, <2>2, <2>3, PlainStep DEF PlainSteps
<1>10. CASE PayEarning(c)
  <2>1. PICK e \in call[c].todo :
          /\ Strike(c, "payEarnings", e, Idle)
          /\ earning' = [earning EXCEPT ![e].status = "paid"] /\ UNCHANGED batch
    BY <1>10, Zenon DEF PayEarning
  <2>2. TypedEarnings'
    BY <2>1 DEF IntentInv, TypedEarnings, EarningDocs, EarningStatuses
  <2> QED
    BY <2>1, <2>2, LoopKeeps
<1> QED
  BY <1>1, <1>2, <1>3, <1>4, <1>5, <1>6, <1>7, <1>8, <1>9, <1>10 DEF EarningStep

-----------------------------------------------------------------------------
(* Proposals: the key, from its claim to its answer.                       *)

\* Only answers are written, and the handler owes nothing.
LEMMA SameAccount ==
  ASSUME IntentInv, NEW c, NEW h, UNCHANGED <<announced, items>>,
         h.step \notin {"announce", "insertItems"}
  PROVE  \A p \in Intents, d \in Developers : KeepsAccount(c, h, p, d)
BY DEF KeepsAccount, Owes

LEMMA ClaimKeyKeeps ==
  ASSUME IntentInv, NEW c \in Calls, NEW k \in Keys, NEW D \in SUBSET Developers,
         ClaimKey(c, k, D)
  PROVE  IntentInv'
<1> DEFINE h == [Idle EXCEPT !.step = "proposeRead", !.arg = k, !.todo = D]
<1>1. h \in HandlerStates /\ h.step = "proposeRead" /\ h.arg = k
  BY DEF Idle, HandlerStates, IntentSteps
<1>2. /\ call' = [call EXCEPT ![c] = h] /\ tidy' \in BOOLEAN
      /\ answer[k] = None /\ answer' = [answer EXCEPT ![k] = "pending"]
      /\ UNCHANGED <<earningVars, intent, announced, items>>
  BY DEF ClaimKey, Begin, IntentInv, Quiet
<1> HIDE DEF h
<1>3. answer \in [Keys -> Intents \cup {None, "pending"}] /\ None \notin Intents \cup Keys
      /\ "pending" \notin Intents /\ None # "pending"
  BY IntentConstants DEF IntentInv, TypedIntents
<1>4. DocumentsKeep
  <2>1. TypedEarnings' /\ TypedIntents'
    BY <1>2 DEF IntentInv, TypedEarnings, TypedIntents, earningVars
  <2>2. Grows
    BY <1>2, <1>3 DEF Grows
  <2>3. Documents'
    BY <1>2, <1>3 DEF IntentInv, Documents, HasItems, Payees
  <2> QED
    BY <2>1, <2>2, <2>3 DEF DocumentsKeep
<1>5. Knows(h)'
  BY <1>1, <1>2, <1>3 DEF Knows, MakingSteps, ReleaseSteps
<1>6. KeepsKeys(c, h)
  <2>1. \A p \in Intents : intent[p].key # k
    BY <1>2, IntentConstants DEF IntentInv, Documents
  <2> QED
    BY <1>1, <1>2, <2>1 DEF KeepsKeys
<1>7. \A p \in Intents, d \in Developers : KeepsAccount(c, h, p, d)
  BY <1>1, <1>2, SameAccount
<1> QED
  BY <1>1, <1>2, <1>4, <1>5, <1>6, <1>7, StepKeeps

LEMMA ProposeReadKeeps ==
  ASSUME IntentInv, NEW c \in Calls, ProposeRead(c)
  PROVE  IntentInv'
<1> DEFINE S == {e \in Earnings : Free(e) /\ Developer[e] \in call[c].todo}
<1> PICK h : h = [call[c] EXCEPT !.step = "proposeInsert", !.lines = S, !.todo = {}]
  OBVIOUS
<1>1. /\ call' = [call EXCEPT ![c] = h] /\ call[c].step = "proposeRead" /\ tidy' \in BOOLEAN
      /\ UNCHANGED <<earningVars, payoutVars>>
  BY DEF ProposeRead, Continue, IntentInv
<1>2. h \in HandlerStates /\ h.step = "proposeInsert" /\ h.arg = call[c].arg
  <2>1. S \in SUBSET Earnings
    OBVIOUS
  <2> HIDE DEF S
  <2> QED
    BY <2>1, Handlers DEF HandlerStates, IntentSteps
<1> HIDE DEF S
<1>3. DocumentsKeep
  BY <1>1, SameDocuments DEF IntentInv, TypedEarnings, earningVars
<1>4. Knows(call[c]) /\ OwnsKey(c)
  BY DEF IntentInv
<1>5. Knows(h)
  BY <1>1, <1>2, <1>4 DEF Knows, MakingSteps, ReleaseSteps
<1>6. Knows(h)'
  BY <1>3, <1>5, KnowsStays DEF DocumentsKeep
<1>7. KeepsKeys(c, h)
  BY <1>1, <1>2, <1>4 DEF KeepsKeys, OwnsKey, MakingSteps, payoutVars
<1>8. \A p \in Intents, d \in Developers : KeepsAccount(c, h, p, d)
  BY <1>1, <1>2, SameAccount DEF payoutVars
<1> QED
  BY <1>1, <1>2, <1>3, <1>6, <1>7, <1>8, StepKeeps

LEMMA ProposeInsertKeeps ==
  ASSUME IntentInv, NEW c \in Calls, ProposeInsert(c)
  PROVE  IntentInv'
<1> DEFINE Insert(p) ==
      /\ intent[p].status = "none"
      /\ Continue(c, "proposeInsert", [call[c] EXCEPT !.step = "proposeAnswer", !.on = p])
      /\ intent' = [intent EXCEPT ![p] = [status |-> "proposed", lines |-> call[c].lines,
                                          key |-> call[c].arg]]
      /\ UNCHANGED <<earningVars, answer, announced, items>>
<1>1. PICK p \in Intents : Insert(p)
  BY Zenon DEF ProposeInsert
<1> PICK h : h = [call[c] EXCEPT !.step = "proposeAnswer", !.on = p]
  OBVIOUS
<1> PICK k : k = call[c].arg
  OBVIOUS
<1>2. /\ call' = [call EXCEPT ![c] = h] /\ tidy' \in BOOLEAN
      /\ call[c].step = "proposeInsert" /\ intent[p].status = "none"
      /\ UNCHANGED <<earningVars, answer, announced, items>>
  BY <1>1 DEF Continue, IntentInv
<1>3. k \in Keys /\ answer[k] # None /\ \A q \in Intents : intent[q].key # k
  BY <1>2, Handlers DEF Knows, MakingSteps, OwnsKey, IntentInv
<1>4. h \in HandlerStates /\ h.step = "proposeAnswer" /\ h.on = p /\ h.arg = k
  BY Handlers DEF HandlerStates, IntentSteps
<1>5. intent' \in [Intents -> IntentDocs]
  BY <1>1, <1>3, Handlers DEF IntentInv, TypedIntents, IntentDocs, IntentStatuses, HandlerStates
<1>6. /\ intent'[p].status = "proposed" /\ intent'[p].key = k
      /\ \A q \in Intents : q # p => intent'[q] = intent[q]
  BY <1>1 DEF IntentInv, TypedIntents
<1> HIDE DEF Insert
<1>7. intent[p].key = None /\ k # None
  BY <1>2, <1>3, IntentConstants DEF IntentInv, Documents
<1>8. DocumentsKeep
  <2>1. TypedEarnings' /\ TypedIntents'
    BY <1>2, <1>5 DEF IntentInv, TypedEarnings, TypedIntents, earningVars
  <2>2. Grows
    BY <1>2, <1>6 DEF Grows
  <2>3. ASSUME NEW q \in Intents PROVE intent'[q].status = "released" => HasItems(q)'
    BY <1>2, <1>6 DEF IntentInv, Documents, HasItems, Payees
  <2>4. ASSUME NEW a \in Keys, answer'[a] \in Intents PROVE intent'[answer'[a]].key = a
    <3>1. intent[answer[a]].key = a /\ a # None
      BY <1>2, <2>4, IntentConstants DEF IntentInv, Documents
    <3> QED
      BY <1>2, <1>6, <1>7, <2>4, <3>1
  <2>5. Documents'
    <3>1. \A q \in Intents : /\ intent'[q].status = "none" => intent'[q].key = None
                             /\ intent'[q].key # None => answer'[intent'[q].key] # None
      BY <1>2, <1>3, <1>6 DEF IntentInv, Documents
    <3>2. \A q, r \in Intents : intent'[q].key # None /\ intent'[q].key = intent'[r].key => q = r
      BY <1>3, <1>6 DEF IntentInv, Documents
    <3> QED
      BY <2>3, <2>4, <3>1, <3>2 DEF Documents
  <2> QED
    BY <2>1, <2>2, <2>5 DEF DocumentsKeep
<1>9. Knows(h)'
  BY <1>2, <1>3, <1>4, <1>6 DEF Knows, Made, MakingSteps, ReleaseSteps
<1>10. KeepsKeys(c, h)
  BY <1>2, <1>4, <1>6 DEF KeepsKeys, MakingSteps
<1>11. \A q \in Intents, d \in Developers : KeepsAccount(c, h, q, d)
  BY <1>2, <1>4, SameAccount
<1> QED
  BY <1>2, <1>4, <1>8, <1>9, <1>10, <1>11, StepKeeps

LEMMA ProposeAnswerKeeps ==
  ASSUME IntentInv, NEW c \in Calls, ProposeAnswer(c)
  PROVE  IntentInv'
<1> DEFINE k == call[c].arg
           p == call[c].on
<1>1. /\ call' = [call EXCEPT ![c] = Idle] /\ tidy' \in BOOLEAN
      /\ call[c].step = "proposeAnswer" /\ answer' = [answer EXCEPT ![k] = p]
      /\ UNCHANGED <<earningVars, intent, announced, items>>
  BY DEF ProposeAnswer, Finish, Continue, IntentInv
<1>2. k \in Keys /\ p \in Intents /\ intent[p].key = k
  BY <1>1, Handlers DEF Knows, Made
<1> HIDE DEF k, p
<1>3. answer \in [Keys -> Intents \cup {None, "pending"}] /\ None \notin Intents
  BY IntentConstants DEF IntentInv, TypedIntents
<1>4. DocumentsKeep
  <2>1. TypedEarnings' /\ TypedIntents'
    BY <1>1, <1>2 DEF IntentInv, TypedEarnings, TypedIntents, earningVars
  <2>2. Grows
    BY <1>1, <1>2, <1>3 DEF Grows
  <2>3. Documents'
    BY <1>1, <1>2, <1>3 DEF IntentInv, Documents, HasItems, Payees
  <2> QED
    BY <2>1, <2>2, <2>3 DEF DocumentsKeep
<1>5. Knows(Idle)'
  BY IdleIs DEF Knows, MakingSteps, ReleaseSteps
<1>6. KeepsKeys(c, Idle)
  BY <1>1, IdleIs DEF KeepsKeys, MakingSteps
<1>7. \A q \in Intents, d \in Developers : KeepsAccount(c, Idle, q, d)
  BY <1>1, IdleIs, SameAccount
<1> QED
  BY <1>1, <1>4, <1>5, <1>6, <1>7, IdleIs, StepKeeps

-----------------------------------------------------------------------------
(* Releases and cancellations.                                             *)

LEMMA PayeesAre ==
  ASSUME IntentInv, NEW p \in Intents
  PROVE  Payees(p) \subseteq Developers
BY EarningConstants DEF Payees, IntentInv, TypedIntents, IntentDocs

\* A handler that makes nothing keeps the keys.
LEMMA SameKeys ==
  ASSUME NEW c, NEW h, h.step \notin MakingSteps,
         \A p \in Intents : intent'[p].key = intent[p].key
  PROVE  KeepsKeys(c, h)
BY DEF KeepsKeys

LEMMA ReleaseReadKeeps ==
  ASSUME IntentInv, NEW c \in Calls, NEW p \in Intents, ReleaseRead(c, p)
  PROVE  IntentInv'
<1> PICK h : h = [step |-> IF Payees(p) = {} THEN "releaseWrite" ELSE "announce", on |-> p,
                  arg |-> None, lines |-> {}, todo |-> Payees(p)]
  OBVIOUS
<1>1. /\ call' = [call EXCEPT ![c] = h] /\ tidy' \in BOOLEAN /\ intent[p].status = "proposed"
      /\ UNCHANGED <<earningVars, payoutVars>>
  BY DEF ReleaseRead, Begin, IntentInv, Quiet
<1>2. h \in HandlerStates /\ h.step \in {"releaseWrite", "announce"} /\ h.on = p
      /\ h.todo = Payees(p) /\ (h.step = "releaseWrite" => Payees(p) = {})
  BY PayeesAre DEF HandlerStates, IntentSteps
<1>3. DocumentsKeep
  BY <1>1, SameDocuments DEF IntentInv, TypedEarnings, earningVars
<1>4. Knows(h)
  BY <1>1, <1>2, PayeesAre DEF Knows, Made, HasItems, MakingSteps, ReleaseSteps
<1>5. Knows(h)'
  BY <1>3, <1>4, KnowsStays DEF DocumentsKeep
<1>6. KeepsKeys(c, h)
  BY <1>1, <1>2, SameKeys DEF MakingSteps, payoutVars
<1>7. ASSUME NEW q \in Intents, NEW d \in Developers PROVE KeepsAccount(c, h, q, d)
  <2>1. Payees(p)' = Payees(p)
    BY <1>1 DEF Payees, payoutVars
  <2>2. ~Owes(h, q, d)'
    BY <1>2, <2>1 DEF Owes
  <2> QED
    BY <1>1, <2>2 DEF KeepsAccount, payoutVars
<1> QED
  BY <1>1, <1>2, <1>3, <1>5, <1>6, <1>7, StepKeeps

LEMMA AnnounceKeeps ==
  ASSUME IntentInv, NEW c \in Calls, Announce(c)
  PROVE  IntentInv'
<1>1. PICK e \in call[c].todo :
        /\ Strike(c, "announce", e, [call[c] EXCEPT !.step = "insertItems", !.todo = {}])
        /\ announced' = [announced EXCEPT ![call[c].on][e] = @ + 1]
        /\ UNCHANGED <<earningVars, intent, answer, items>>
  BY Zenon DEF Announce
<1> PICK h : h = IF call[c].todo = {e} THEN [call[c] EXCEPT !.step = "insertItems", !.todo = {}]
                 ELSE [call[c] EXCEPT !.todo = @ \ {e}]
  OBVIOUS
<1> PICK p : p = call[c].on
  OBVIOUS
<1>2. /\ call' = [call EXCEPT ![c] = h] /\ tidy' \in BOOLEAN /\ call[c].step = "announce"
  BY <1>1 DEF Strike, Continue, IntentInv
<1>3. Made(p) /\ call[c].todo \subseteq Developers /\ p \in Intents /\ e \in Developers
  BY <1>1, <1>2, Handlers DEF Knows, ReleaseSteps, Made
<1>4. /\ h \in HandlerStates /\ h.on = p /\ h.todo = call[c].todo \ {e}
      /\ h.step \in {"announce", "insertItems"}
      /\ h.step = "insertItems" => call[c].todo = {e}
  <2>1. call[c] \in HandlerStates
    BY Handlers
  <2>2. CASE call[c].todo = {e}
    BY <1>1, <2>1, <2>2 DEF HandlerStates, IntentSteps
  <2>3. CASE call[c].todo # {e}
    BY <1>2, <2>1, <2>3 DEF HandlerStates, IntentSteps
  <2> QED
    BY <2>2, <2>3
<1>5. /\ announced' \in [Intents -> [Developers -> Nat]]
      /\ announced'[p][e] = announced[p][e] + 1
      /\ \A q \in Intents, d \in Developers :
           q # p \/ d # e => announced'[q][d] = announced[q][d]
  BY <1>1, <1>3 DEF IntentInv, TypedIntents
<1>6. DocumentsKeep
  <2>1. TypedEarnings' /\ TypedIntents'
    BY <1>1, <1>5 DEF IntentInv, TypedEarnings, TypedIntents, earningVars
  <2>2. Grows
    BY <1>1 DEF Grows
  <2>3. Documents'
    BY <1>1 DEF IntentInv, Documents, HasItems, Payees
  <2> QED
    BY <2>1, <2>2, <2>3 DEF DocumentsKeep
<1>7. Knows(h)'
  <2>1. Made(p)' /\ h.todo \subseteq Developers
    BY <1>1, <1>3, <1>4 DEF Made
  <2> QED
    BY <1>4, <2>1 DEF Knows, MakingSteps, ReleaseSteps
<1>8. KeepsKeys(c, h)
  BY <1>1, <1>4, SameKeys DEF MakingSteps
<1>9. ASSUME NEW q \in Intents, NEW d \in Developers PROVE KeepsAccount(c, h, q, d)
  <2>1. Payees(q)' = Payees(q) /\ items'[q][d] = items[q][d]
    BY <1>1 DEF Payees
  <2>2. CASE q = p /\ d = e
    BY <1>5, <2>1, <2>2 DEF KeepsAccount
  <2>3. CASE q # p \/ d # e
    <3>1. Owes(h, q, d)' => Owes(call[c], q, d)
      BY <1>2, <1>4, <2>1, <2>3 DEF Owes
    <3> QED
      BY <1>5, <2>1, <2>3, <3>1 DEF KeepsAccount
  <2> QED
    BY <2>2, <2>3
<1> QED
  BY <1>2, <1>4, <1>6, <1>7, <1>8, <1>9, StepKeeps

LEMMA InsertItemsKeeps ==
  ASSUME IntentInv, NEW c \in Calls, InsertItems(c)
  PROVE  IntentInv'
<1> PICK h : h = [call[c] EXCEPT !.step = "releaseWrite"]
  OBVIOUS
<1> PICK p : p = call[c].on
  OBVIOUS
<1>1. /\ call' = [call EXCEPT ![c] = h] /\ tidy' \in BOOLEAN /\ call[c].step = "insertItems"
      /\ items' = [items EXCEPT ![p] = [d \in Developers |-> IF d \in Payees(p) THEN @[d] + 1
                                                             ELSE @[d]]]
      /\ UNCHANGED <<earningVars, intent, answer, announced>>
  BY DEF InsertItems, Goto, Continue, IntentInv
<1>2. h \in HandlerStates /\ h.step = "releaseWrite" /\ h.on = p
  BY Handlers DEF HandlerStates, IntentSteps
<1>3. Made(p) /\ p \in Intents
  BY <1>1, Handlers DEF Knows, ReleaseSteps, Made
<1>4. /\ items' \in [Intents -> [Developers -> Nat]]
      /\ \A d \in Developers : items'[p][d] = IF d \in Payees(p) THEN items[p][d] + 1
                                              ELSE items[p][d]
      /\ \A q \in Intents : q # p => items'[q] = items[q]
  BY <1>1, <1>3 DEF IntentInv, TypedIntents
<1>5. \A q \in Intents, d \in Developers : items[q][d] \in Nat
  BY DEF IntentInv, TypedIntents
<1>6. \A q \in Intents : Payees(q)' = Payees(q)
  BY <1>1 DEF Payees
<1>7. DocumentsKeep
  <2>1. TypedEarnings' /\ TypedIntents'
    BY <1>1, <1>4 DEF IntentInv, TypedEarnings, TypedIntents, earningVars
  <2>2. Grows
    BY <1>1, <1>4, <1>5 DEF Grows
  <2>3. ASSUME NEW q \in Intents, HasItems(q) PROVE HasItems(q)'
    BY <1>6, <2>2, <2>3, PayeesAre DEF HasItems, Grows
  <2>4. Documents'
    BY <1>1, <2>3 DEF IntentInv, Documents
  <2> QED
    BY <2>1, <2>2, <2>4 DEF DocumentsKeep
<1>8. Knows(h)'
  <2>1. HasItems(p)'
    BY <1>3, <1>4, <1>5, <1>6, PayeesAre DEF HasItems
  <2> QED
    BY <1>1, <1>2, <1>3, <2>1 DEF Knows, Made, MakingSteps, ReleaseSteps
<1>9. KeepsKeys(c, h)
  BY <1>1, <1>2, SameKeys DEF MakingSteps
<1>10. ASSUME NEW q \in Intents, NEW d \in Developers PROVE KeepsAccount(c, h, q, d)
  <2>1. ~Owes(h, q, d)'
    BY <1>2 DEF Owes
  <2>2. CASE q = p /\ d \in Payees(p)
    BY <1>1, <1>4, <2>1, <2>2 DEF KeepsAccount, Owes
  <2>3. CASE ~(q = p /\ d \in Payees(p))
    BY <1>1, <1>4, <2>1, <2>3 DEF KeepsAccount
  <2> QED
    BY <2>2, <2>3
<1> QED
  BY <1>1, <1>2, <1>7, <1>8, <1>9, <1>10, StepKeeps

LEMMA SetStatusKeeps ==
  ASSUME IntentInv, NEW c \in Calls, NEW from \in {"releaseWrite", "cancelWrite"},
         NEW status \in {"released", "cancelled"}, SetStatus(c, from, status),
         status = "released" => from = "releaseWrite"
  PROVE  IntentInv'
<1> PICK p : p = call[c].on
  OBVIOUS
<1>1. /\ call' = [call EXCEPT ![c] = Idle] /\ tidy' \in BOOLEAN /\ call[c].step = from
      /\ intent' = [intent EXCEPT ![p].status = status]
      /\ UNCHANGED <<earningVars, answer, announced, items>>
  BY DEF SetStatus, Finish, Continue, IntentInv
<1>2. Made(p) /\ p \in Intents /\ (status = "released" => HasItems(p))
  BY <1>1, Handlers DEF Knows, ReleaseSteps, Made
<1>3. /\ intent' \in [Intents -> IntentDocs]
      /\ intent'[p].status = status
      /\ \A q \in Intents : /\ intent'[q].key = intent[q].key
                            /\ intent'[q].lines = intent[q].lines
                            /\ q # p => intent'[q] = intent[q]
  <2> PICK r : r = [intent[p] EXCEPT !.status = status]
    OBVIOUS
  <2>1. intent \in [Intents -> IntentDocs] /\ status \in IntentStatuses
    BY DEF IntentInv, TypedIntents, IntentStatuses
  <2>2. /\ r \in IntentDocs /\ r.status = status
        /\ r.key = intent[p].key /\ r.lines = intent[p].lines
    BY <1>2, <2>1 DEF IntentDocs
  <2>3. intent' = [intent EXCEPT ![p] = r]
    BY <1>1
  <2> QED
    BY <1>2, <2>1, <2>2, <2>3
<1>4. \A q \in Intents : Payees(q)' = Payees(q)
  BY <1>3 DEF Payees
<1>5. DocumentsKeep
  <2>1. TypedEarnings' /\ TypedIntents'
    BY <1>1, <1>3 DEF IntentInv, TypedEarnings, TypedIntents, earningVars
  <2>2. Grows
    BY <1>1, <1>3 DEF Grows
  <2>3. \A q \in Intents : HasItems(q)' <=> HasItems(q)
    BY <1>1, <1>4 DEF HasItems
  <2>4. ASSUME NEW q \in Intents
        PROVE  /\ intent'[q].status = "none" => intent'[q].key = None
               /\ intent'[q].key # None => answer'[intent'[q].key] # None
               /\ intent'[q].status = "released" => HasItems(q)'
    BY <1>1, <1>2, <1>3, <2>3 DEF IntentInv, Documents
  <2>5. \A q, r \in Intents : intent'[q].key # None /\ intent'[q].key = intent'[r].key => q = r
    BY <1>3 DEF IntentInv, Documents
  <2>6. \A k \in Keys : answer'[k] \in Intents => intent'[answer'[k]].key = k
    BY <1>1, <1>3 DEF IntentInv, Documents
  <2> QED
    BY <2>1, <2>2, <2>4, <2>5, <2>6 DEF DocumentsKeep, Documents
<1>6. Knows(Idle)'
  BY IdleIs DEF Knows, MakingSteps, ReleaseSteps
<1>7. KeepsKeys(c, Idle)
  BY <1>3, IdleIs, SameKeys DEF MakingSteps
<1>8. \A q \in Intents, d \in Developers : KeepsAccount(c, Idle, q, d)
  BY <1>1, IdleIs, SameAccount
<1> QED
  BY <1>1, <1>5, <1>6, <1>7, <1>8, IdleIs, StepKeeps

LEMMA CancelReadKeeps ==
  ASSUME IntentInv, NEW c \in Calls, NEW p \in Intents, CancelRead(c, p)
  PROVE  IntentInv'
<1> DEFINE h == [Idle EXCEPT !.step = "cancelWrite", !.on = p]
<1>1. /\ call' = [call EXCEPT ![c] = h] /\ tidy' \in BOOLEAN /\ intent[p].status = "proposed"
      /\ UNCHANGED <<earningVars, payoutVars>>
  BY DEF CancelRead, Begin, IntentInv, Quiet
<1>2. h \in HandlerStates /\ h.step = "cancelWrite" /\ h.on = p
  BY DEF Idle, HandlerStates, IntentSteps
<1> HIDE DEF h
<1>3. Knows(h) /\ h.step \notin MakingSteps \cup {"announce", "insertItems"}
  BY <1>1, <1>2 DEF Knows, Made, MakingSteps, ReleaseSteps
<1>4. TypedEarnings'
  BY <1>1 DEF IntentInv, TypedEarnings, earningVars
<1> QED
  BY <1>1, <1>2, <1>3, <1>4, QuietStep

-----------------------------------------------------------------------------
LEMMA InitIntentInv ==
  ASSUME Init
  PROVE  IntentInv
<1> USE DEF Init, EarningInit
<1>1. TypedEarnings /\ TypedIntents
  BY EarningConstants DEF TypedEarnings, TypedIntents, EarningDocs, BatchDocs, IntentDocs,
     EarningStatuses
<1>2. Documents
  BY IntentConstants DEF Documents
<1>3. /\ call \in [Calls -> HandlerStates] /\ tidy \in BOOLEAN
      /\ \A c \in Calls : Knows(call[c]) /\ OwnsKey(c)
  BY IdleIs DEF Knows, OwnsKey, MakingSteps, ReleaseSteps
<1>4. ASSUME NEW p \in Intents, NEW d \in Developers PROVE Accounted(p, d)
  <2>1. Owing(p, d) = {}
    BY IdleIs, IntentConstants DEF Owing, Owes
  <2> QED
    BY <2>1, FS_EmptySet DEF Accounted
<1> QED
  BY <1>1, <1>2, <1>3, <1>4 DEF IntentInv

LEMMA StepIntentInv ==
  ASSUME IntentInv, [Next]_vars
  PROVE  IntentInv'
<1>1. ASSUME NEW c \in Calls, EarningStep(c), UNCHANGED payoutVars PROVE IntentInv'
  BY <1>1, EarningStepKeeps
<1>2. ASSUME NEW c \in Calls, Propose(c) PROVE IntentInv'
  BY <1>2, ClaimKeyKeeps, ProposeReadKeeps, ProposeInsertKeeps, ProposeAnswerKeeps DEF Propose
<1>3. ASSUME NEW c \in Calls, Release(c) PROVE IntentInv'
  BY <1>3, ReleaseReadKeeps, AnnounceKeeps, InsertItemsKeeps, SetStatusKeeps
     DEF Release, ReleaseWrite
<1>4. ASSUME NEW c \in Calls, Cancel(c) PROVE IntentInv'
  BY <1>4, CancelReadKeeps, SetStatusKeeps DEF Cancel, CancelWrite
<1>5. CASE UNCHANGED vars
  <2>1. /\ TypedEarnings' /\ TypedIntents' /\ Documents' /\ call' = call /\ tidy' = tidy
        /\ UNCHANGED <<earning, batch, intent, answer, announced, items>>
    BY <1>5 DEF IntentInv, TypedEarnings, TypedIntents, Documents, HasItems, Payees, vars,
       earningVars, callVars, payoutVars
  <2>2. ASSUME NEW c \in Calls PROVE Knows(call[c])' /\ OwnsKey(c)'
    BY <2>1 DEF IntentInv, Knows, OwnsKey, Made, HasItems, Payees
  <2>3. ASSUME NEW p \in Intents, NEW d \in Developers PROVE Accounted(p, d)'
    <3>1. Owing(p, d)' = Owing(p, d)
      BY <2>1 DEF Owing, Owes, Payees
    <3> QED
      BY <2>1, <3>1 DEF IntentInv, Accounted
  <2> QED
    BY <2>1, <2>2, <2>3 DEF IntentInv
<1> QED
  BY <1>1, <1>2, <1>3, <1>4, <1>5 DEF Next

LEMMA IntentInvHolds == Spec => []IntentInv
<1>1. Init => IntentInv
  BY InitIntentInv
<1>2. IntentInv /\ [Next]_vars => IntentInv'
  BY StepIntentInv
<1> QED
  BY <1>1, <1>2, PTL DEF Spec

\* The collections and handlers of both payout engines keep their types
\* (qa_layer.py, payout_layer.py, payouts_v2.py).
THEOREM TypeCorrect == Spec => []TypeOK
<1>1. IntentInv => TypeOK
  BY DEF IntentInv, TypeOK, TypedEarnings, TypedIntents, HandlerStates, EarningDocs, BatchDocs,
     IntentDocs
<1> QED
  BY <1>1, IntentInvHolds, PTL

\* However often and however concurrently a proposal is sent under one
\* idempotency key, one batch is made of it, and that is what the key answers
\* (payouts_v2.py, propose_batch).
THEOREM ProposalIsIdempotent == Spec => []OneBatchPerKey
<1>1. IntentInv => OneBatchPerKey
  BY DEF IntentInv, Documents, OneBatchPerKey
<1> QED
  BY <1>1, IntentInvHolds, PTL

\* A released batch has an item for every developer of its plan, and no item
\* is without its event, for any number of releases that overlap or die
\* (payouts_v2.py, release_batch).
THEOREM ReleaseIsComplete == Spec => []ReleaseIsWhole
<1>1. ASSUME IntentInv PROVE ReleaseIsWhole
  <2>1. ASSUME NEW p \in Intents, NEW d \in Developers PROVE items[p][d] <= announced[p][d]
    <3>1. Accounted(p, d) /\ items[p][d] \in Nat /\ announced[p][d] \in Nat
      BY <1>1 DEF IntentInv, TypedIntents
    <3>2. Cardinality(Owing(p, d)) \in Nat
      <4>1. Owing(p, d) \subseteq Calls
        BY DEF Owing
      <4> QED
        BY <4>1, EarningConstants, FS_Subset, FS_CardinalityType
    <3> QED
      BY <3>1, <3>2 DEF Accounted
  <2> QED
    BY <1>1, <2>1 DEF IntentInv, Documents, HasItems, ReleaseIsWhole
<1> QED
  BY <1>1, IntentInvHolds, PTL

-----------------------------------------------------------------------------
(* Calls that come one after the other: then what a handler h, or Idle,    *)
(* leaves to be done says what the documents are like.                     *)

\* Earning e of batch b is still to be written by h.
Late(h, b, e) == h.step \in {"freeze", "payEarnings"} /\ h.on = b /\ e \in h.todo

Stage(h, b, e) ==
  IF Late(h, b, e) THEN IF h.step = "freeze" THEN "approved" ELSE "batched"
  ELSE StageOf[batch[b].status]

Owner(h, b, e) == IF Late(h, b, e) /\ h.step = "freeze" THEN None ELSE b

EarningsExact(h) ==
  /\ \A b \in Batches : batch[b].status = "none" => batch[b].lines = {}
  /\ \A b \in Batches : \A e \in batch[b].lines :
       earning[e].status = Stage(h, b, e) /\ earning[e].batch = Owner(h, b, e)
  /\ h.step = "qaWrite" => h.on \in Earnings /\ earning[h.on].batch = None
  /\ h.step = "batchInsert" => /\ h.on \in Batches /\ batch[h.on].status = "none"
                               /\ h.todo = h.lines /\ \A e \in h.lines : Free(e)
  /\ h.step = "freeze" => /\ h.on \in Batches /\ batch[h.on].status = "draft"
                          /\ h.todo \subseteq batch[h.on].lines
  /\ h.step = "approve" => h.on \in Batches /\ batch[h.on].status = "draft"
  /\ h.step = "pay" => /\ h.on \in Batches /\ batch[h.on].status = "approved"
                       /\ h.todo = batch[h.on].lines
  /\ h.step = "payEarnings" => /\ h.on \in Batches /\ batch[h.on].status = "paid"
                               /\ h.todo \subseteq batch[h.on].lines

IntentsExact(h) ==
  /\ \A p \in Intents, d \in Developers :
       /\ items[p][d] <= 1
       /\ intent[p].status \in {"none", "cancelled"} => items[p][d] = 0
       /\ intent[p].status = "proposed" /\ items[p][d] > 0 => h.step = "releaseWrite" /\ h.on = p
  /\ h.step \in ReleaseSteps \cup {"cancelWrite"} => intent[h.on].status = "proposed"
  /\ h.step = "proposeInsert" => \A e \in h.lines : earning[e].batch = None

Exact(h) == EarningsExact(h) /\ IntentsExact(h)

TidyInv ==
  tidy => /\ \A c, d \in Calls : call[c] # Idle /\ call[d] # Idle => c = d
          /\ \A c \in Calls : call[c] # Idle => Exact(call[c])
          /\ Quiet => Exact(Idle)

\* A step of c that began or went on while no other call was under way.
Orderly(c) == tidy /\ (call[c] = Idle => Quiet)

LEMMA Before ==
  ASSUME TidyInv, NEW c \in Calls, Orderly(c)
  PROVE  Exact(call[c]) /\ \A d \in Calls : d # c => call[d] = Idle
BY DEF TidyInv, Orderly, Quiet

LEMMA After ==
  ASSUME IntentInv, TidyInv, NEW c \in Calls, tidy' => Orderly(c), NEW h,
         call' = [call EXCEPT ![c] = h], tidy' => Exact(h)'
  PROVE  TidyInv'
<1> SUFFICES ASSUME tidy' PROVE TidyInv'
  BY DEF TidyInv
<1>1. Exact(h)' /\ \A d \in Calls : d # c => call[d] = Idle
  BY Before
<1>2. call'[c] = h /\ \A d \in Calls : d # c => call'[d] = Idle
  BY <1>1 DEF IntentInv
<1>3. \A d \in Calls : call'[d] # Idle => d = c
  BY <1>2
<1>4. ASSUME NEW d \in Calls, call'[d] # Idle PROVE Exact(call[d])'
  BY <1>1, <1>2, <1>3, <1>4 DEF Exact, EarningsExact, IntentsExact, Late, Stage, Owner
<1>5. ASSUME Quiet' PROVE Exact(Idle)'
  <2>1. h = Idle
    BY <1>2, <1>5 DEF Quiet
  <2> QED
    BY <1>1, <2>1
<1> QED
  BY <1>3, <1>4, <1>5 DEF TidyInv

\* How handlers begin and go on.
LEMMA BeginIs ==
  ASSUME IntentInv, NEW c \in Calls, NEW h, Begin(c, h)
  PROVE  /\ tidy' => Orderly(c)
         /\ call[c].step = "idle" /\ call' = [call EXCEPT ![c] = h]
BY IdleIs DEF Begin, Orderly, Quiet

LEMMA ContinueIs ==
  ASSUME IntentInv, NEW c \in Calls, NEW from, NEW h, Continue(c, from, h), from # "idle"
  PROVE  /\ tidy' => Orderly(c)
         /\ call[c].step = from /\ call' = [call EXCEPT ![c] = h]
BY IdleIs DEF Continue, Orderly

\* A step that leaves the earnings or the intents alone.
LEMMA SameEarnings ==
  ASSUME NEW g, NEW h, EarningsExact(g), UNCHANGED earningVars,
         g.step \notin EarningSteps, h.step \notin EarningSteps
  PROVE  EarningsExact(h)'
BY DEF EarningsExact, EarningSteps, Late, Stage, Owner, Free, earningVars

LEMMA SameIntents ==
  ASSUME NEW g, NEW h, IntentsExact(g), UNCHANGED <<intent, items>>,
         g.step \notin ReleaseSteps \cup {"cancelWrite"},
         h.step \notin ReleaseSteps \cup {"cancelWrite", "proposeInsert"}
  PROVE  IntentsExact(h)'
BY DEF IntentsExact, ReleaseSteps

\* The steps on the earnings.
LEMMA TidyRead ==
  ASSUME IntentInv, TidyInv, NEW c \in Calls, NEW h, Begin(c, h),
         UNCHANGED <<earningVars, payoutVars>>,
         h.step \in {"qaWrite", "batchInsert", "approve", "pay"},
         h.step = "qaWrite" => h.on \in Earnings /\ earning[h.on].batch = None,
         h.step # "qaWrite" => h.on \in Batches,
         h.step = "batchInsert" => /\ batch[h.on].status = "none" /\ h.todo = h.lines
                                   /\ \A e \in h.lines : Free(e),
         h.step = "approve" => batch[h.on].status = "draft",
         h.step = "pay" => batch[h.on].status = "approved" /\ h.todo = batch[h.on].lines
  PROVE  TidyInv'
<1>1. /\ tidy' => Orderly(c)
      /\ call[c].step = "idle" /\ call' = [call EXCEPT ![c] = h]
  BY BeginIs
<1>2. ASSUME Orderly(c) PROVE Exact(h)'
  <2>1. Exact(call[c])
    BY <1>2, Before
  <2>2. IntentsExact(h)'
    BY <1>1, <2>1 DEF Exact, IntentsExact, ReleaseSteps, payoutVars
  <2>3. EarningsExact(h)'
    BY <1>1, <2>1 DEF Exact, EarningsExact, Late, Stage, Owner, Free, earningVars
  <2> QED
    BY <2>2, <2>3 DEF Exact
<1> QED
  BY <1>1, <1>2, After

LEMMA TidyEarningReads ==
  ASSUME IntentInv, TidyInv, UNCHANGED payoutVars, NEW c \in Calls,
         \/ \E e \in Earnings, result \in Results : QaRead(c, e, result)
         \/ \E b \in Batches, S \in SUBSET Earnings : BatchRead(c, b, S)
         \/ \E b \in Batches : ApproveRead(c, b) \/ PayRead(c, b)
  PROVE  TidyInv'
<1>1. ASSUME NEW e \in Earnings, NEW result \in Results, QaRead(c, e, result) PROVE TidyInv'
  <2> PICK h : h = [Idle EXCEPT !.step = "qaWrite", !.on = e, !.arg = result]
    OBVIOUS
  <2>1. h.step = "qaWrite" /\ h.on = e
    BY DEF Idle
  <2> QED
    BY <1>1, <2>1, TidyRead DEF QaRead
<1>2. ASSUME NEW b \in Batches, NEW S \in SUBSET Earnings, BatchRead(c, b, S) PROVE TidyInv'
  <2> PICK h : h = [step |-> "batchInsert", on |-> b, arg |-> None, lines |-> S, todo |-> S]
    OBVIOUS
  <2>1. h.step = "batchInsert" /\ h.on = b /\ h.lines = S /\ h.todo = S
    OBVIOUS
  <2> QED
    BY <1>2, <2>1, TidyRead DEF BatchRead
<1>3. ASSUME NEW b \in Batches, ApproveRead(c, b) PROVE TidyInv'
  <2> PICK h : h = [Idle EXCEPT !.step = "approve", !.on = b]
    OBVIOUS
  <2>1. h.step = "approve" /\ h.on = b
    BY DEF Idle
  <2> QED
    BY <1>3, <2>1, TidyRead DEF ApproveRead
<1>4. ASSUME NEW b \in Batches, PayRead(c, b) PROVE TidyInv'
  <2> PICK h : h = [Idle EXCEPT !.step = "pay", !.on = b, !.todo = batch[b].lines]
    OBVIOUS
  <2>1. h.step = "pay" /\ h.on = b /\ h.todo = batch[b].lines
    BY DEF Idle
  <2> QED
    BY <1>4, <2>1, TidyRead DEF PayRead
<1> QED
  BY <1>1, <1>2, <1>3, <1>4

LEMMA Typed ==
  ASSUME IntentInv
  PROVE  /\ earning \in [Earnings -> EarningDocs] /\ batch \in [Batches -> BatchDocs]
         /\ \A b \in Batches : batch[b].lines \subseteq Earnings
         /\ None \notin Batches
BY EarningConstants DEF IntentInv, TypedEarnings, BatchDocs

\* Only the earning e of the batch that c is at changes, and is late no more.
LEMMA TidyLoop ==
  ASSUME IntentInv, TidyInv, UNCHANGED <<batch, payoutVars>>, NEW c \in Calls,
         NEW from \in {"freeze", "payEarnings"}, NEW e, Strike(c, from, e, Idle),
         \A f \in Earnings : f # e => earning'[f] = earning[f],
         e \in Earnings => /\ earning'[e].status = StageOf[batch[call[c].on].status]
                           /\ earning'[e].batch = call[c].on,
         Orderly(c) /\ from = "payEarnings" => earning[e].batch = call[c].on
  PROVE  TidyInv'
<1> PICK h : h = IF call[c].todo = {e} THEN Idle ELSE [call[c] EXCEPT !.todo = @ \ {e}]
  OBVIOUS
<1>1. Continue(c, from, h) /\ e \in call[c].todo
  BY DEF Strike
<1>2. /\ tidy' => Orderly(c)
      /\ call[c].step = from /\ call' = [call EXCEPT ![c] = h]
  BY <1>1, ContinueIs
<1>3. /\ h.step \in {"idle", from}
      /\ h.step = "idle" => call[c].todo = {e}
      /\ h.step # "idle" => h.on = call[c].on /\ h.todo = call[c].todo \ {e}
  BY <1>2, IdleIs, Handlers DEF HandlerStates
<1>4. ASSUME Orderly(c) PROVE Exact(h)'
  <2>1. Exact(call[c])
    BY <1>4, Before
  <2>2. IntentsExact(h)'
    BY <1>2, <1>3, <2>1 DEF Exact, IntentsExact, ReleaseSteps, payoutVars
  <2> PICK x : x = call[c].on
    OBVIOUS
  <2>3. /\ x \in Batches /\ call[c].todo \subseteq batch[x].lines /\ e \in batch[x].lines
        /\ batch[x].status = IF from = "freeze" THEN "draft" ELSE "paid"
    BY <1>1, <1>2, <2>1 DEF Exact, EarningsExact
  <2>4. e \in Earnings
    BY <2>3, Typed
  <2>5. ASSUME NEW b \in Batches, NEW f \in batch[b].lines, f # e
        PROVE  earning'[f].status = Stage(h, b, f)' /\ earning'[f].batch = Owner(h, b, f)'
    <3>1. f \in Earnings /\ earning'[f] = earning[f]
      BY <2>5, Typed
    <3>2. earning[f].status = Stage(call[c], b, f) /\ earning[f].batch = Owner(call[c], b, f)
      BY <2>1 DEF Exact, EarningsExact
    <3>3. Late(h, b, f) <=> Late(call[c], b, f)
      BY <1>2, <1>3, <2>5 DEF Late
    <3>4. h.step # "idle" => h.step = call[c].step
      BY <1>2, <1>3
    <3> QED
      BY <3>1, <3>2, <3>3, <3>4 DEF Stage, Owner, Late
  <2>6. ASSUME NEW b \in Batches, e \in batch[b].lines
        PROVE  earning'[e].status = Stage(h, b, e)' /\ earning'[e].batch = Owner(h, b, e)'
    <3>1. ~Late(h, b, e)
      BY <1>3 DEF Late
    <3>2. b = x
      <4>1. earning[e].batch = Owner(call[c], b, e) /\ earning[e].batch = Owner(call[c], x, e)
        BY <2>1, <2>3, <2>6 DEF Exact, EarningsExact
      <4>2. Late(call[c], x, e)
        BY <1>1, <1>2 DEF Late
      <4> QED
        BY <1>2, <1>4, <4>1, <4>2, <2>3, Typed DEF Owner, Late
    <3> QED
      BY <2>4, <3>1, <3>2 DEF Stage, Owner, Late
  <2>7. EarningsExact(h)'
    <3>1. \A b \in Batches : \A f \in batch'[b].lines :
            earning'[f].status = Stage(h, b, f)' /\ earning'[f].batch = Owner(h, b, f)'
      BY <2>5, <2>6
    <3>2. \A b \in Batches : batch'[b].status = "none" => batch'[b].lines = {}
      BY <2>1 DEF Exact, EarningsExact
    <3> QED
      BY <1>3, <2>3, <3>1, <3>2 DEF EarningsExact
  <2> QED
    BY <2>2, <2>7 DEF Exact
<1> QED
  BY <1>2, <1>4, After

LEMMA TidyQaWrite ==
  ASSUME IntentInv, TidyInv, UNCHANGED payoutVars, NEW c \in Calls, QaWrite(c)
  PROVE  TidyInv'
<1>1. Continue(c, "qaWrite", Idle) /\ UNCHANGED batch
      /\ earning' = [earning EXCEPT ![call[c].on].status = Verdict(call[c].on, call[c].arg)]
  BY DEF QaWrite, Finish
<1>2. /\ tidy' => Orderly(c)
      /\ call[c].step = "qaWrite" /\ call' = [call EXCEPT ![c] = Idle]
  BY <1>1, ContinueIs
<1>3. ASSUME Orderly(c) PROVE Exact(Idle)'
  <2>1. Exact(call[c])
    BY <1>3, Before
  <2>2. IntentsExact(Idle)'
    BY <1>2, <2>1, IdleIs DEF Exact, IntentsExact, ReleaseSteps, payoutVars
  <2> PICK x : x = call[c].on
    OBVIOUS
  <2>3. x \in Earnings /\ earning[x].batch = None
    BY <1>2, <2>1 DEF Exact, EarningsExact
  <2>4. ASSUME NEW b \in Batches, NEW e \in batch[b].lines
        PROVE  earning'[e].status = Stage(Idle, b, e)' /\ earning'[e].batch = Owner(Idle, b, e)'
    <3>1. earning[e].status = Stage(call[c], b, e) /\ earning[e].batch = Owner(call[c], b, e)
      BY <2>1 DEF Exact, EarningsExact
    <3>2. earning[e].status = StageOf[batch[b].status] /\ earning[e].batch = b
      BY <1>2, <3>1 DEF Stage, Owner, Late
    <3>3. e # x /\ e \in Earnings
      BY <2>3, <3>2, Typed
    <3>4. earning'[e] = earning[e]
      BY <1>1, <3>3, Typed
    <3>5. ~Late(Idle, b, e)'
      BY IdleIs DEF Late
    <3>6. batch' = batch
      BY <1>1
    <3> QED
      BY <3>2, <3>4, <3>5, <3>6 DEF Stage, Owner
  <2>5. \A b \in Batches : batch'[b].status = "none" => batch'[b].lines = {}
    BY <1>1, <2>1 DEF Exact, EarningsExact
  <2>6. EarningsExact(Idle)'
    BY <1>1, <2>4, <2>5, IdleIs DEF EarningsExact
  <2> QED
    BY <2>2, <2>6 DEF Exact
<1> QED
  BY <1>2, <1>3, After

LEMMA TidyBatchInsert ==
  ASSUME IntentInv, TidyInv, UNCHANGED payoutVars, NEW c \in Calls, BatchInsert(c)
  PROVE  TidyInv'
<1> PICK h : h = [call[c] EXCEPT !.step = "freeze"]
  OBVIOUS
<1>1. Continue(c, "batchInsert", h) /\ UNCHANGED earning
      /\ batch' = [batch EXCEPT ![call[c].on] = [status |-> "draft", lines |-> call[c].lines,
                                                 approved |-> FALSE]]
  BY DEF BatchInsert, Goto
<1>2. /\ tidy' => Orderly(c)
      /\ call[c].step = "batchInsert" /\ call' = [call EXCEPT ![c] = h]
  BY <1>1, ContinueIs
<1>3. h.step = "freeze" /\ h.on = call[c].on /\ h.todo = call[c].todo /\ h.lines = call[c].lines
  BY Handlers DEF HandlerStates
<1>4. ASSUME Orderly(c) PROVE Exact(h)'
  <2>1. Exact(call[c])
    BY <1>4, Before
  <2>2. IntentsExact(h)'
    BY <1>2, <1>3, <2>1 DEF Exact, IntentsExact, ReleaseSteps, payoutVars
  <2> PICK x : x = call[c].on
    OBVIOUS
  <2>3. /\ x \in Batches /\ batch[x].status = "none" /\ h.todo = h.lines
        /\ \A e \in h.lines : Free(e)
    BY <1>2, <1>3, <2>1 DEF Exact, EarningsExact
  <2>4. /\ batch'[x].status = "draft" /\ batch'[x].lines = h.lines
        /\ \A b \in Batches : b # x => batch'[b] = batch[b]
    BY <1>1, <1>3, <2>3, Typed
  <2>5. ASSUME NEW b \in Batches, NEW e \in batch'[b].lines
        PROVE  earning'[e].status = Stage(h, b, e)' /\ earning'[e].batch = Owner(h, b, e)'
    <3>1. CASE b = x
      <4>1. Late(h, b, e) /\ Free(e)
        BY <1>3, <2>3, <2>4, <2>5, <3>1 DEF Late
      <4> QED
        BY <1>1, <1>3, <4>1 DEF Free, Stage, Owner, Late
    <3>2. CASE b # x
      <4>1. earning[e].status = Stage(call[c], b, e) /\ earning[e].batch = Owner(call[c], b, e)
        BY <2>1, <2>4, <2>5, <3>2 DEF Exact, EarningsExact
      <4>2. ~Late(call[c], b, e) /\ ~Late(h, b, e)
        BY <1>2, <1>3, <3>2 DEF Late
      <4> QED
        BY <1>1, <2>4, <3>2, <4>1, <4>2 DEF Stage, Owner, Late
    <3> QED
      BY <3>1, <3>2
  <2>6. \A b \in Batches : batch'[b].status = "none" => batch'[b].lines = {}
    BY <2>1, <2>4 DEF Exact, EarningsExact
  <2>7. EarningsExact(h)'
    BY <1>3, <2>3, <2>4, <2>5, <2>6 DEF EarningsExact
  <2> QED
    BY <2>2, <2>7 DEF Exact
<1> QED
  BY <1>2, <1>4, After

LEMMA TidyFreeze ==
  ASSUME IntentInv, TidyInv, UNCHANGED payoutVars, NEW c \in Calls, FreezeEarning(c),
         tidy' => Orderly(c)
  PROVE  TidyInv'
<1>1. PICK e \in call[c].todo :
        /\ Strike(c, "freeze", e, Idle)
        /\ earning' = [earning EXCEPT ![e].status = "batched", ![e].batch = call[c].on]
        /\ UNCHANGED batch
  BY Zenon DEF FreezeEarning
<1>2. CASE ~tidy'
  BY <1>2 DEF TidyInv
<1>3. CASE tidy'
  <2>1. Exact(call[c]) /\ call[c].step = "freeze"
    BY <1>1, <1>3, Before DEF Strike, Continue
  <2>2. StageOf[batch[call[c].on].status] = "batched"
    BY <2>1 DEF Exact, EarningsExact, StageOf
  <2>3. \A f \in Earnings : f # e => earning'[f] = earning[f]
    BY <1>1, Typed
  <2>4. e \in Earnings => earning'[e].status = "batched" /\ earning'[e].batch = call[c].on
    BY <1>1, Typed DEF EarningDocs
  <2> QED
    BY <1>1, <2>2, <2>3, <2>4, TidyLoop
<1> QED
  BY <1>2, <1>3

LEMMA TidyPayEarning ==
  ASSUME IntentInv, TidyInv, UNCHANGED payoutVars, NEW c \in Calls, PayEarning(c),
         tidy' => Orderly(c)
  PROVE  TidyInv'
<1>1. PICK e \in call[c].todo :
        /\ Strike(c, "payEarnings", e, Idle)
        /\ earning' = [earning EXCEPT ![e].status = "paid"] /\ UNCHANGED batch
  BY Zenon DEF PayEarning
<1>2. CASE ~tidy'
  BY <1>2 DEF TidyInv
<1>3. CASE tidy'
  <2>1. Exact(call[c]) /\ call[c].step = "payEarnings"
    BY <1>1, <1>3, Before DEF Strike, Continue
  <2>2. call[c].on \in Batches /\ batch[call[c].on].status = "paid"
        /\ e \in batch[call[c].on].lines
    BY <1>1, <2>1 DEF Exact, EarningsExact
  <2>3. earning[e].batch = call[c].on
    BY <1>1, <2>1, <2>2 DEF Exact, EarningsExact, Owner
  <2>4. \A f \in Earnings : f # e => earning'[f] = earning[f]
    BY <1>1, Typed
  <2>5. e \in Earnings => earning'[e].status = "paid" /\ earning'[e].batch = earning[e].batch
    BY <1>1, Typed DEF EarningDocs
  <2>6. StageOf[batch[call[c].on].status] = "paid"
    BY <2>2 DEF StageOf
  <2> QED
    BY <1>1, <2>3, <2>4, <2>5, <2>6, TidyLoop
<1> QED
  BY <1>2, <1>3

\* A batch moves on to another stage, and its earnings are as far, or late.
LEMMA TidySetBatch ==
  ASSUME IntentInv, TidyInv, UNCHANGED <<earning, payoutVars>>, NEW c \in Calls, NEW h,
         NEW from \in {"approve", "pay"}, Continue(c, from, h),
         NEW status, NEW d, batch' = [batch EXCEPT ![call[c].on] = d],
         call[c].on \in Batches => d.status = status /\ d.lines = batch[call[c].on].lines,
         \/ from = "approve" /\ status = "approved" /\ h = Idle
         \/ /\ from = "pay" /\ status = "paid"
            /\ h.step = "payEarnings" /\ h.on = call[c].on /\ h.todo = call[c].todo
  PROVE  TidyInv'
<1>1. /\ tidy' => Orderly(c)
      /\ call[c].step = from /\ call' = [call EXCEPT ![c] = h]
  BY ContinueIs
<1>2. ASSUME Orderly(c) PROVE Exact(h)'
  <2>1. Exact(call[c])
    BY <1>2, Before
  <2>2. IntentsExact(h)'
    BY <1>1, <2>1, IdleIs DEF Exact, IntentsExact, ReleaseSteps, payoutVars
  <2> PICK x : x = call[c].on
    OBVIOUS
  <2>3. x \in Batches /\ batch[x].status \in {"draft", "approved"}
        /\ (from = "pay" => call[c].todo = batch[x].lines)
    <3>1. CASE from = "approve"
      BY <1>1, <2>1, <3>1 DEF Exact, EarningsExact
    <3>2. CASE from = "pay"
      BY <1>1, <2>1, <3>2 DEF Exact, EarningsExact
    <3> QED
      BY <3>1, <3>2
  <2>4. /\ batch'[x].status = status /\ batch'[x].lines = batch[x].lines
        /\ \A b \in Batches : b # x => batch'[b] = batch[b]
    BY <2>3, Typed DEF BatchDocs
  <2>5. ASSUME NEW b \in Batches, NEW e \in batch'[b].lines
        PROVE  earning'[e].status = Stage(h, b, e)' /\ earning'[e].batch = Owner(h, b, e)'
    <3>1. earning[e].status = StageOf[batch[b].status] /\ earning[e].batch = b
      BY <1>1, <2>1, <2>4, <2>5 DEF Exact, EarningsExact, Stage, Owner, Late
    <3>2. CASE b # x
      BY <2>4, <3>1, <3>2, IdleIs DEF Stage, Owner, Late
    <3>3. CASE b = x
      <4>1. earning[e].status = "batched"
        BY <2>3, <3>1, <3>3 DEF StageOf
      <4>2. CASE from = "approve"
        <5>1. status = "approved" /\ ~Late(h, b, e)'
          BY <4>2, IdleIs DEF Late
        <5> QED
          BY <2>4, <3>1, <3>3, <4>1, <5>1 DEF Stage, Owner, StageOf
      <4>3. CASE from = "pay"
        <5>1. Late(h, b, e)' /\ h.step = "payEarnings"
          BY <2>3, <2>4, <2>5, <3>3, <4>3 DEF Late
        <5> QED
          BY <3>1, <4>1, <5>1 DEF Stage, Owner
      <4> QED
        BY <4>2, <4>3
    <3> QED
      BY <3>2, <3>3
  <2>6. \A b \in Batches : batch'[b].status = "none" => batch'[b].lines = {}
    BY <2>1, <2>3, <2>4 DEF Exact, EarningsExact
  <2>7. EarningsExact(h)'
    <3>1. CASE from = "approve"
      <4>1. h.step = "idle"
        BY <3>1, IdleIs
      <4> QED
        BY <2>5, <2>6, <4>1 DEF EarningsExact
    <3>2. CASE from = "pay"
      <4>1. /\ h.step = "payEarnings" /\ h.on = x /\ h.todo = batch'[x].lines
            /\ batch'[x].status = "paid"
        BY <2>3, <2>4, <3>2
      <4> QED
        BY <2>3, <2>5, <2>6, <4>1 DEF EarningsExact
    <3> QED
      BY <3>1, <3>2
  <2> QED
    BY <2>2, <2>7 DEF Exact
<1> QED
  BY <1>1, <1>2, After

LEMMA TidyEarnings ==
  ASSUME IntentInv, TidyInv, UNCHANGED payoutVars, NEW c \in Calls, EarningStep(c)
  PROVE  TidyInv'
<1>1. CASE FreezeEarning(c)
  <2>1. tidy' => Orderly(c)
    BY <1>1, IdleIs DEF FreezeEarning, Strike, Continue, Orderly
  <2> QED
    BY <1>1, <2>1, TidyFreeze
<1>2. CASE PayEarning(c)
  <2>1. tidy' => Orderly(c)
    BY <1>2, IdleIs DEF PayEarning, Strike, Continue, Orderly
  <2> QED
    BY <1>2, <2>1, TidyPayEarning
<1>3. CASE ApproveWrite(c)
  <2> PICK d : d = [batch[call[c].on] EXCEPT !.status = "approved", !.approved = TRUE]
    OBVIOUS
  <2>1. Continue(c, "approve", Idle) /\ batch' = [batch EXCEPT ![call[c].on] = d]
    BY <1>3 DEF ApproveWrite, Finish
  <2>2. call[c].on \in Batches => d.status = "approved" /\ d.lines = batch[call[c].on].lines
    BY Typed DEF BatchDocs
  <2> QED
    BY <1>3, <2>1, <2>2, TidySetBatch DEF ApproveWrite
<1>4. CASE PayWrite(c)
  <2> PICK h : h = [call[c] EXCEPT !.step = "payEarnings"]
    OBVIOUS
  <2>1. h.step = "payEarnings" /\ h.on = call[c].on /\ h.todo = call[c].todo
    BY Handlers DEF HandlerStates
  <2> PICK d : d = [batch[call[c].on] EXCEPT !.status = "paid"]
    OBVIOUS
  <2>2. Continue(c, "pay", h) /\ batch' = [batch EXCEPT ![call[c].on] = d]
    BY <1>4 DEF PayWrite, Goto
  <2>3. call[c].on \in Batches => d.status = "paid" /\ d.lines = batch[call[c].on].lines
    BY Typed DEF BatchDocs
  <2> QED
    <3>1. UNCHANGED <<earning, payoutVars>>
      BY <1>4 DEF PayWrite
    <3> HIDE <1>4
    <3> QED
      BY <2>1, <2>2, <2>3, <3>1, TidySetBatch
<1> QED
  BY <1>1, <1>2, <1>3, <1>4, TidyEarningReads, TidyQaWrite, TidyBatchInsert DEF EarningStep


-----------------------------------------------------------------------------
\* The steps on the intents.
LEMMA TidyIntentStep ==
  ASSUME IntentInv, TidyInv, UNCHANGED earningVars, NEW c \in Calls, NEW h,
         tidy' => Orderly(c), call' = [call EXCEPT ![c] = h],
         call[c].step \notin EarningSteps, h.step \notin EarningSteps,
         Exact(call[c]) => IntentsExact(h)'
  PROVE  TidyInv'
<1>1. ASSUME Orderly(c) PROVE Exact(h)'
  <2>1. Exact(call[c])
    BY <1>1, Before
  <2>2. EarningsExact(h)'
    BY <2>1, SameEarnings DEF Exact
  <2> QED
    BY <2>1, <2>2 DEF Exact
<1> QED
  BY <1>1, After

\* Calls that begin: a claim, a release or a cancellation.
LEMMA TidyIntentReads ==
  ASSUME IntentInv, TidyInv, UNCHANGED <<earningVars, intent, items>>, NEW c \in Calls, NEW h,
         Begin(c, h), h.step \in {"proposeRead", "announce", "releaseWrite", "cancelWrite"},
         h.step # "proposeRead" => intent[h.on].status = "proposed"
  PROVE  TidyInv'
<1>1. /\ tidy' => Orderly(c)
      /\ call[c].step = "idle" /\ call' = [call EXCEPT ![c] = h]
  BY BeginIs
<1>2. call[c].step \notin EarningSteps /\ h.step \notin EarningSteps
  BY <1>1 DEF EarningSteps
<1>3. ASSUME Exact(call[c]) PROVE IntentsExact(h)'
  BY <1>1, <1>3 DEF Exact, IntentsExact, ReleaseSteps
<1> QED
  BY <1>1, <1>2, <1>3, TidyIntentStep

LEMMA TidyPropose ==
  ASSUME IntentInv, TidyInv, NEW c \in Calls, Propose(c)
  PROVE  TidyInv'
<1>1. ASSUME NEW k \in Keys, NEW D \in SUBSET Developers, ClaimKey(c, k, D) PROVE TidyInv'
  <2> PICK h : h = [Idle EXCEPT !.step = "proposeRead", !.arg = k, !.todo = D]
    OBVIOUS
  <2>1. h.step = "proposeRead"
    BY DEF Idle
  <2>2. Begin(c, h) /\ UNCHANGED <<earningVars, intent, items>>
    BY <1>1 DEF ClaimKey
  <2> QED
    BY <2>1, <2>2, TidyIntentReads
<1>2. CASE ProposeRead(c)
  <2> PICK S : S = {e \in Earnings : Free(e) /\ Developer[e] \in call[c].todo}
    OBVIOUS
  <2> PICK h : h = [call[c] EXCEPT !.step = "proposeInsert", !.lines = S, !.todo = {}]
    OBVIOUS
  <2>1. Continue(c, "proposeRead", h) /\ UNCHANGED <<earningVars, payoutVars>>
    BY <1>2 DEF ProposeRead
  <2>2. h.step = "proposeInsert" /\ h.lines = S
    BY Handlers DEF HandlerStates
  <2>3. /\ tidy' => Orderly(c)
        /\ call[c].step = "proposeRead" /\ call' = [call EXCEPT ![c] = h]
    BY <2>1, ContinueIs
  <2>4. call[c].step \notin EarningSteps /\ h.step \notin EarningSteps
    BY <2>2, <2>3 DEF EarningSteps
  <2>5. \A e \in h.lines : earning'[e].batch = None
    BY <2>1, <2>2 DEF Free, earningVars
  <2>6. ASSUME Exact(call[c]) PROVE IntentsExact(h)'
    BY <2>1, <2>2, <2>3, <2>5, <2>6 DEF Exact, IntentsExact, ReleaseSteps, payoutVars
  <2> QED
    BY <2>1, <2>3, <2>4, <2>6, TidyIntentStep
<1>3. CASE ProposeInsert(c)
  <2> DEFINE Doc == [status |-> "proposed", lines |-> call[c].lines, key |-> call[c].arg]
             Insert(p) ==
               /\ intent[p].status = "none"
               /\ Continue(c, "proposeInsert", [call[c] EXCEPT !.step = "proposeAnswer", !.on = p])
               /\ intent' = [intent EXCEPT ![p] = Doc]
               /\ UNCHANGED <<earningVars, answer, announced, items>>
  <2>1. PICK p \in Intents : Insert(p)
    BY <1>3, Zenon DEF ProposeInsert
  <2> PICK h : h = [call[c] EXCEPT !.step = "proposeAnswer", !.on = p]
    OBVIOUS
  <2>2. Continue(c, "proposeInsert", h)
    BY <2>1
  <2>3. h.step = "proposeAnswer"
    BY Handlers DEF HandlerStates
  <2>4. /\ tidy' => Orderly(c)
        /\ call[c].step = "proposeInsert" /\ call' = [call EXCEPT ![c] = h]
    BY <2>2, ContinueIs
  <2>5. call[c].step \notin EarningSteps /\ h.step \notin EarningSteps
    BY <2>3, <2>4 DEF EarningSteps
  <2>6. /\ intent'[p].status = "proposed" /\ intent[p].status = "none"
        /\ \A q \in Intents : q # p => intent'[q] = intent[q]
        /\ items' = items
    BY <2>1 DEF IntentInv, TypedIntents
  <2>7. UNCHANGED earningVars
    BY <2>1
  <2>8. ASSUME Exact(call[c]) PROVE IntentsExact(h)'
    <3>1. \A q \in Intents, d \in Developers : items[q][d] = 0 \/ q # p
      BY <2>6, <2>8 DEF Exact, IntentsExact
    <3> QED
      BY <2>3, <2>4, <2>6, <2>8, <3>1 DEF Exact, IntentsExact, ReleaseSteps, IntentInv, TypedIntents
  <2> QED
    BY <2>4, <2>5, <2>7, <2>8, TidyIntentStep
<1>4. CASE ProposeAnswer(c)
  <2>1. Continue(c, "proposeAnswer", Idle) /\ UNCHANGED <<intent, items>> /\ UNCHANGED earningVars
    BY <1>4 DEF ProposeAnswer, Finish
  <2>2. /\ tidy' => Orderly(c)
        /\ call[c].step = "proposeAnswer" /\ call' = [call EXCEPT ![c] = Idle]
    BY <2>1, ContinueIs
  <2>3. call[c].step \notin EarningSteps /\ Idle.step \notin EarningSteps
    BY <2>2, IdleIs DEF EarningSteps
  <2>4. Exact(call[c]) => IntentsExact(Idle)'
    BY <2>1, <2>2, IdleIs, SameIntents DEF Exact, ReleaseSteps
  <2> QED
    BY <2>1, <2>2, <2>3, <2>4, TidyIntentStep
<1> QED
  BY <1>1, <1>2, <1>3, <1>4 DEF Propose

LEMMA TidyAnnounce ==
  ASSUME IntentInv, TidyInv, NEW c \in Calls, Announce(c)
  PROVE  TidyInv'
<1>1. PICK e \in call[c].todo :
        /\ Strike(c, "announce", e, [call[c] EXCEPT !.step = "insertItems", !.todo = {}])
        /\ UNCHANGED <<earningVars, intent, items>>
  BY Zenon DEF Announce
<1> PICK h : h = IF call[c].todo = {e} THEN [call[c] EXCEPT !.step = "insertItems", !.todo = {}]
                 ELSE [call[c] EXCEPT !.todo = @ \ {e}]
  OBVIOUS
<1>2. Continue(c, "announce", h)
  BY <1>1 DEF Strike
<1>3. /\ tidy' => Orderly(c)
      /\ call[c].step = "announce" /\ call' = [call EXCEPT ![c] = h]
  BY <1>2, ContinueIs
<1>4. h.step \in {"announce", "insertItems"} /\ h.on = call[c].on
  BY <1>3, Handlers DEF HandlerStates
<1>5. call[c].step \notin EarningSteps /\ h.step \notin EarningSteps
  BY <1>3, <1>4 DEF EarningSteps
<1>6. ASSUME Exact(call[c]) PROVE IntentsExact(h)'
  BY <1>1, <1>3, <1>4, <1>6 DEF Exact, IntentsExact, ReleaseSteps
<1> QED
  BY <1>1, <1>3, <1>5, <1>6, TidyIntentStep

LEMMA TidyInsertItems ==
  ASSUME IntentInv, TidyInv, NEW c \in Calls, InsertItems(c)
  PROVE  TidyInv'
<1> PICK p : p = call[c].on
  OBVIOUS
<1> PICK h : h = [call[c] EXCEPT !.step = "releaseWrite"]
  OBVIOUS
<1>1. Continue(c, "insertItems", h) /\ UNCHANGED <<earningVars, intent>>
  BY DEF InsertItems, Goto
<1>2. /\ tidy' => Orderly(c)
      /\ call[c].step = "insertItems" /\ call' = [call EXCEPT ![c] = h]
  BY <1>1, ContinueIs
<1>3. h.step = "releaseWrite" /\ h.on = p
  BY <1>2, Handlers DEF HandlerStates
<1>4. call[c].step \notin EarningSteps /\ h.step \notin EarningSteps
  BY <1>2, <1>3 DEF EarningSteps
<1>5. p \in Intents
  BY <1>2, Handlers DEF Knows, ReleaseSteps, Made
<1>6. /\ \A d \in Developers : items'[p][d] = items[p][d] \/ items'[p][d] = items[p][d] + 1
      /\ \A q \in Intents : q # p => items'[q] = items[q]
  BY <1>5 DEF InsertItems, IntentInv, TypedIntents
<1>7. ASSUME Exact(call[c]) PROVE IntentsExact(h)'
  <2>1. intent[p].status = "proposed" /\ \A d \in Developers : items[p][d] = 0
    <3>1. intent[p].status = "proposed"
      BY <1>2, <1>7 DEF Exact, IntentsExact, ReleaseSteps
    <3>2. ASSUME NEW d \in Developers PROVE items[p][d] = 0
      <4>1. items[p][d] \in Nat /\ ~(items[p][d] > 0)
        BY <1>2, <1>5, <1>7, <3>1 DEF Exact, IntentsExact, IntentInv, TypedIntents
      <4> QED
        BY <4>1
    <3> QED
      BY <3>1, <3>2
  <2>2. ASSUME NEW d \in Developers PROVE items'[p][d] <= 1
    BY <1>6, <2>1
  <2>3. ASSUME NEW q \in Intents, q # p, NEW d \in Developers
        PROVE  /\ items'[q][d] <= 1
               /\ intent'[q].status \in {"none", "cancelled"} => items'[q][d] = 0
               /\ ~(intent'[q].status = "proposed" /\ items'[q][d] > 0)
    BY <1>1, <1>2, <1>6, <1>7, <2>3 DEF Exact, IntentsExact
  <2>4. intent'[p].status = "proposed"
    BY <1>1, <2>1
  <2> QED
    BY <1>3, <2>2, <2>3, <2>4 DEF IntentsExact, ReleaseSteps
<1> QED
  BY <1>1, <1>2, <1>4, <1>7, TidyIntentStep

LEMMA TidySetStatus ==
  ASSUME IntentInv, TidyInv, NEW c \in Calls, NEW from, NEW status,
         SetStatus(c, from, status),
         \/ from = "releaseWrite" /\ status = "released"
         \/ from = "cancelWrite" /\ status = "cancelled"
  PROVE  TidyInv'
<1> PICK p : p = call[c].on
  OBVIOUS
<1>1. Continue(c, from, Idle) /\ UNCHANGED <<earningVars, items>> /\ from # "idle"
  BY DEF SetStatus, Finish
<1>2. /\ tidy' => Orderly(c)
      /\ call[c].step = from /\ call' = [call EXCEPT ![c] = Idle]
  BY <1>1, ContinueIs
<1>3. call[c].step \notin EarningSteps /\ Idle.step \notin EarningSteps
  BY <1>2, IdleIs DEF EarningSteps
<1>4. p \in Intents
  BY <1>2, Handlers DEF Knows, ReleaseSteps, Made
<1>5. intent'[p].status = status /\ \A q \in Intents : q # p => intent'[q] = intent[q]
  BY <1>4 DEF SetStatus, IntentInv, TypedIntents, IntentDocs
<1>6. ASSUME Exact(call[c]) PROVE IntentsExact(Idle)'
  <2>1. intent[p].status = "proposed"
    BY <1>2, <1>6 DEF Exact, IntentsExact, ReleaseSteps
  <2>2. ASSUME NEW d \in Developers, status = "cancelled" PROVE items[p][d] = 0
    <3>1. items[p][d] \in Nat /\ ~(items[p][d] > 0)
      BY <1>2, <1>4, <1>6, <2>1, <2>2 DEF Exact, IntentsExact, IntentInv, TypedIntents
    <3> QED
      BY <3>1
  <2>3. ASSUME NEW q \in Intents, q # p, NEW d \in Developers
        PROVE  /\ items'[q][d] <= 1
               /\ intent'[q].status \in {"none", "cancelled"} => items'[q][d] = 0
               /\ ~(intent'[q].status = "proposed" /\ items'[q][d] > 0)
    BY <1>1, <1>2, <1>5, <1>6, <2>3 DEF Exact, IntentsExact
  <2>4. \A d \in Developers : items'[p][d] <= 1
    BY <1>1, <1>4, <1>6 DEF Exact, IntentsExact
  <2>5. status \in {"released", "cancelled"}
    OBVIOUS
  <2> QED
    BY <1>1, <1>5, <2>2, <2>3, <2>4, <2>5, IdleIs DEF IntentsExact, ReleaseSteps
<1> QED
  BY <1>1, <1>2, <1>3, <1>6, TidyIntentStep

LEMMA TidyReleaseAndCancel ==
  ASSUME IntentInv, TidyInv, NEW c \in Calls, Release(c) \/ Cancel(c)
  PROVE  TidyInv'
<1>1. ASSUME NEW p \in Intents, ReleaseRead(c, p) PROVE TidyInv'
  <2> PICK h : h = [step |-> IF Payees(p) = {} THEN "releaseWrite" ELSE "announce", on |-> p,
                    arg |-> None, lines |-> {}, todo |-> Payees(p)]
    OBVIOUS
  <2>1. h.step \in {"announce", "releaseWrite"} /\ h.on = p
    OBVIOUS
  <2>2. Begin(c, h) /\ UNCHANGED <<earningVars, intent, items>> /\ intent[p].status = "proposed"
    BY <1>1 DEF ReleaseRead, payoutVars
  <2> QED
    BY <2>1, <2>2, TidyIntentReads
<1>2. ASSUME NEW p \in Intents, CancelRead(c, p) PROVE TidyInv'
  <2> PICK h : h = [Idle EXCEPT !.step = "cancelWrite", !.on = p]
    OBVIOUS
  <2>1. h.step = "cancelWrite" /\ h.on = p
    BY DEF Idle
  <2>2. Begin(c, h) /\ UNCHANGED <<earningVars, intent, items>> /\ intent[p].status = "proposed"
    BY <1>2 DEF CancelRead, payoutVars
  <2> QED
    BY <2>1, <2>2, TidyIntentReads
<1>3. CASE ReleaseWrite(c) \/ CancelWrite(c)
  BY <1>3, TidySetStatus DEF ReleaseWrite, CancelWrite
<1> QED
  BY <1>1, <1>2, <1>3, TidyAnnounce, TidyInsertItems DEF Release, Cancel

-----------------------------------------------------------------------------
LEMMA InitTidy ==
  ASSUME Init
  PROVE  TidyInv
<1> USE DEF Init, EarningInit
<1>1. \A c \in Calls : call[c] = Idle
  OBVIOUS
<1>2. EarningsExact(Idle)
  BY IdleIs DEF EarningsExact
<1>3. IntentsExact(Idle)
  BY IdleIs DEF IntentsExact, ReleaseSteps
<1> QED
  BY <1>1, <1>2, <1>3 DEF TidyInv, Exact

LEMMA StepTidy ==
  ASSUME IntentInv, TidyInv, [Next]_vars
  PROVE  TidyInv'
<1>1. ASSUME NEW c \in Calls, EarningStep(c), UNCHANGED payoutVars PROVE TidyInv'
  BY <1>1, TidyEarnings
<1>2. ASSUME NEW c \in Calls, Propose(c) \/ Release(c) \/ Cancel(c) PROVE TidyInv'
  BY <1>2, TidyPropose, TidyReleaseAndCancel
<1>3. CASE UNCHANGED vars
  <2>1. UNCHANGED <<earning, batch, call, tidy, intent, items>>
    BY <1>3 DEF vars, earningVars, callVars, payoutVars
  <2> QED
    BY <2>1 DEF TidyInv, Quiet, Exact, EarningsExact, IntentsExact, Late, Stage, Owner, Free
<1> QED
  BY <1>1, <1>2, <1>3 DEF Next

LEMMA TidyInvHolds == Spec => [](IntentInv /\ TidyInv)
<1>1. Init => TidyInv
  BY InitTidy
<1>2. IntentInv /\ TidyInv /\ [Next]_vars => TidyInv'
  BY StepTidy
<1> QED
  BY <1>1, <1>2, IntentInvHolds, PTL DEF Spec

\* A batch pays each developer once and a cancelled one nobody, for any number
\* of calls that come one after the other (payouts_v2.py, release_batch and
\* cancel_batch).
THEOREM TidyReleasesPayOnce == Spec => []ReleasedOnce
<1>1. ASSUME IntentInv, TidyInv, tidy, NEW p \in Intents, NEW d \in Developers
      PROVE  /\ items[p][d] <= 1
             /\ intent[p].status = "cancelled" => items[p][d] = 0
  <2>1. \E h : Exact(h)
    BY <1>1 DEF TidyInv, Quiet
  <2> QED
    BY <2>1 DEF Exact, IntentsExact
<1>2. IntentInv /\ TidyInv => ReleasedOnce
  BY <1>1 DEF ReleasedOnce
<1> QED
  BY <1>2, TidyInvHolds, PTL

\* When calls come one after the other, a batch of the first engine and its
\* earnings agree on the stage, and on whom they belong to, whenever no call
\* is under way (payout_layer.py, qa_layer.py).
THEOREM TidyBatchesAgree == Spec => []BatchesTellTheirEarnings
<1>1. ASSUME IntentInv, TidyInv, tidy, Quiet, NEW b \in Batches, NEW e \in batch[b].lines
      PROVE  earning[e] = [status |-> StageOf[batch[b].status], batch |-> b]
  <2>1. EarningsExact(Idle)
    BY <1>1 DEF TidyInv, Exact
  <2>2. earning[e].status = StageOf[batch[b].status] /\ earning[e].batch = b
    BY <2>1, IdleIs DEF EarningsExact, Stage, Owner, Late
  <2>3. earning[e] \in EarningDocs
    BY <1>1, Typed
  <2> QED
    BY <2>2, <2>3 DEF EarningDocs
<1>2. IntentInv /\ TidyInv => BatchesTellTheirEarnings
  BY <1>1 DEF BatchesTellTheirEarnings
<1> QED
  BY <1>2, TidyInvHolds, PTL

-----------------------------------------------------------------------------
(* Approvals and the gate, whatever overlaps.                              *)

\* A handler of a batch, and the gate: what it carries is not gated, the batch
\* it freezes or pays exists, and one it pays was approved and lists its todo.
Clean(h) ==
  /\ h.lines \cap Gated = {}
  /\ h.step = "batchInsert" => h.on \in Batches /\ batch[h.on].status = "none"
  /\ h.step \in {"freeze", "approve", "pay", "payEarnings"} =>
       h.on \in Batches /\ batch[h.on].status # "none"
  /\ h.step \in {"pay", "payEarnings"} =>
       batch[h.on].approved /\ h.todo \subseteq batch[h.on].lines

\* A batch in the making belongs to one handler.
Sole(c) ==
  call[c].step = "batchInsert" =>
    \A d \in Calls : call[d].step = "batchInsert" /\ call[d].on = call[c].on => d = c

CleanBatches ==
  \A b \in Batches : /\ batch[b].status \in {"approved", "paid"} => batch[b].approved
                     /\ batch[b].approved => batch[b].status # "none"
                     /\ batch[b].lines \cap Gated = {}

CleanEarnings ==
  /\ PaidWasApproved
  /\ \A e \in Gated : earning[e].status # "approved"

PayInv ==
  /\ CleanBatches /\ CleanEarnings
  /\ \A p \in Intents : intent[p].lines \cap Gated = {}
  /\ \A c \in Calls : Clean(call[c]) /\ Sole(c)

LEMMA InitPay == Init => PayInv
BY EarningConstants DEF Init, EarningInit, Idle, PayInv, CleanBatches, CleanEarnings, PaidWasApproved,
   Clean, Sole

\* A batch that was there stays there, with its approval and its lines.
BatchesStay ==
  \A b \in Batches :
    batch[b].status # "none" => /\ batch'[b].status # "none"
                                /\ batch[b].approved => batch'[b].approved
                                /\ batch'[b].lines = batch[b].lines

\* Handler c is now h, and what the others carry is as clean as it was.
LEMMA PayKeeps ==
  ASSUME IntentInv, PayInv, NEW c \in Calls, NEW h, call' = [call EXCEPT ![c] = h],
         Clean(h)', BatchesStay,
         \A b \in Batches :
           batch[b].status = "none" => batch'[b] = batch[b]
                                       \/ (call[c].step = "batchInsert" /\ call[c].on = b),
         h.step = "batchInsert" => \A d \in Calls : call[d].on # h.on,
         CleanBatches', CleanEarnings', \A p \in Intents : intent'[p].lines \cap Gated = {}
  PROVE  PayInv'
<1>1. call'[c] = h /\ \A d \in Calls : d # c => call'[d] = call[d]
  BY DEF IntentInv
<1>2. ASSUME NEW d \in Calls, d # c PROVE Clean(call[d])'
  <2> PICK g : g = call[d]
    OBVIOUS
  <2>1. Clean(g) /\ call'[d] = g /\ Sole(d)
    BY <1>1, <1>2 DEF PayInv
  <2>2. g.step = "batchInsert" => batch'[g.on].status = "none"
    BY <1>2, <2>1 DEF Clean, Sole
  <2>3. g.step \in {"freeze", "approve", "pay", "payEarnings"} =>
          batch'[g.on].status # "none" /\ batch'[g.on].lines = batch[g.on].lines
          /\ (batch[g.on].approved => batch'[g.on].approved)
    BY <2>1 DEF Clean, BatchesStay
  <2> QED
    BY <2>1, <2>2, <2>3 DEF Clean
<1>3. ASSUME NEW d \in Calls PROVE Sole(d)'
  BY <1>1 DEF PayInv, Sole
<1> QED
  BY <1>1, <1>2, <1>3 DEF PayInv, Clean

\* A handler goes on, and no batch, earning or plan changes.
LEMMA PayGoesOn ==
  ASSUME IntentInv, PayInv, NEW c \in Calls, NEW h, call' = [call EXCEPT ![c] = h],
         UNCHANGED <<earning, batch>>, Clean(h),
         h.step = "batchInsert" => \A d \in Calls : call[d].on # h.on,
         \A p \in Intents : intent'[p].lines \cap Gated = {}
  PROVE  PayInv'
<1>1. Clean(h)' /\ CleanBatches' /\ CleanEarnings'
  BY DEF Clean, CleanBatches, CleanEarnings, PaidWasApproved, PayInv
<1> QED
  BY <1>1, PayKeeps DEF BatchesStay

LEMMA CleanHandlers ==
  ASSUME IntentInv, PayInv, NEW c \in Calls
  PROVE  /\ call[c] \in HandlerStates /\ Clean(call[c]) /\ Sole(c) /\ Clean(Idle)
         /\ \A step \in IntentSteps \cup {"qaWrite"} :
              step \notin {"batchInsert", "freeze", "approve", "pay", "payEarnings"}
<1>1. Clean(Idle)
  BY DEF Clean, Idle
<1> QED
  BY <1>1 DEF IntentInv, PayInv, IntentSteps

\* Reads of the first engine.
LEMMA PayReads ==
  ASSUME IntentInv, PayInv, UNCHANGED <<earningVars, payoutVars>>, NEW c \in Calls,
         \/ \E e \in Earnings, result \in Results : QaRead(c, e, result)
         \/ \E b \in Batches, S \in SUBSET Earnings : BatchRead(c, b, S)
         \/ \E b \in Batches : ApproveRead(c, b) \/ PayRead(c, b)
  PROVE  PayInv'
<1>a. UNCHANGED <<earning, batch>> /\ \A p \in Intents : intent'[p].lines \cap Gated = {}
  BY DEF earningVars, payoutVars, PayInv
<1>1. ASSUME NEW e \in Earnings, NEW result \in Results, QaRead(c, e, result) PROVE PayInv'
  <2> PICK h : h = [Idle EXCEPT !.step = "qaWrite", !.on = e, !.arg = result]
    OBVIOUS
  <2>1. Clean(h) /\ h.step # "batchInsert"
    BY DEF Idle, Clean
  <2> QED
    BY <1>1, <1>a, <2>1, PayGoesOn DEF QaRead, Begin
<1>2. ASSUME NEW b \in Batches, NEW S \in SUBSET Earnings, BatchRead(c, b, S) PROVE PayInv'
  <2> PICK h : h = [step |-> "batchInsert", on |-> b, arg |-> None, lines |-> S, todo |-> S]
    OBVIOUS
  <2>1. S \cap Gated = {}
    BY <1>2 DEF BatchRead, Free, PayInv, CleanEarnings
  <2>2. Clean(h) /\ \A d \in Calls : call[d].on # h.on
    BY <1>2, <2>1 DEF BatchRead, Clean
  <2> QED
    BY <1>2, <1>a, <2>2, PayGoesOn DEF BatchRead, Begin
<1>3. ASSUME NEW b \in Batches, ApproveRead(c, b) PROVE PayInv'
  <2> PICK h : h = [Idle EXCEPT !.step = "approve", !.on = b]
    OBVIOUS
  <2>1. Clean(h) /\ h.step # "batchInsert"
    BY <1>3 DEF Idle, Clean, ApproveRead
  <2> QED
    BY <1>3, <1>a, <2>1, PayGoesOn DEF ApproveRead, Begin
<1>4. ASSUME NEW b \in Batches, PayRead(c, b) PROVE PayInv'
  <2> PICK h : h = [Idle EXCEPT !.step = "pay", !.on = b, !.todo = batch[b].lines]
    OBVIOUS
  <2>1. batch[b].approved /\ batch[b].status # "none"
    BY <1>4 DEF PayRead, PayInv, CleanBatches
  <2>2. Clean(h) /\ h.step # "batchInsert"
    BY <2>1 DEF Idle, Clean
  <2> QED
    BY <1>4, <1>a, <2>2, PayGoesOn DEF PayRead, Begin
<1> QED
  BY <1>1, <1>2, <1>3, <1>4

\* Writes of the first engine to a batch.
LEMMA PayBatches ==
  ASSUME IntentInv, PayInv, UNCHANGED payoutVars, NEW c \in Calls,
         BatchInsert(c) \/ ApproveWrite(c) \/ PayWrite(c)
  PROVE  PayInv'
<1>a. /\ call[c] \in HandlerStates /\ Clean(call[c]) /\ Clean(Idle)
      /\ batch \in [Batches -> BatchDocs] /\ CleanBatches
      /\ \A p \in Intents : intent'[p].lines \cap Gated = {}
  BY CleanHandlers DEF IntentInv, TypedEarnings, PayInv, payoutVars
<1> PICK x : x = call[c].on
  OBVIOUS
<1>1. PICK h, d :
        /\ call' = [call EXCEPT ![c] = h] /\ batch' = [batch EXCEPT ![x] = d]
        /\ UNCHANGED earning /\ x \in Batches
        /\ h.lines \cap Gated = {} /\ d.lines \cap Gated = {} /\ d.status # "none"
        /\ d.status \in {"approved", "paid"} => d.approved
        /\ \/ call[c].step = "batchInsert" /\ batch[x].status = "none"
           \/ d.lines = batch[x].lines /\ (batch[x].approved => d.approved)
              /\ batch[x].status # "none"
        /\ h.step \in {"idle", "freeze", "payEarnings"} /\ (h.step = "idle" \/ h.on = x)
        /\ h.step = "payEarnings" => d.approved /\ h.todo \subseteq d.lines
  <2>1. CASE BatchInsert(c)
    <3> PICK h : h = [call[c] EXCEPT !.step = "freeze"]
      OBVIOUS
    <3> PICK d : d = [status |-> "draft", lines |-> call[c].lines, approved |-> FALSE]
      OBVIOUS
    <3>1. /\ h.step = "freeze" /\ h.on = x /\ h.lines = call[c].lines
          /\ d.status = "draft" /\ d.lines = call[c].lines /\ ~d.approved
      BY <1>a DEF HandlerStates
    <3>2. /\ call' = [call EXCEPT ![c] = h] /\ batch' = [batch EXCEPT ![x] = d]
          /\ UNCHANGED earning /\ call[c].step = "batchInsert"
      BY <2>1 DEF BatchInsert, Goto, Continue
    <3>3. x \in Batches /\ call[c].lines \cap Gated = {} /\ batch[x].status = "none"
      BY <1>a, <3>2 DEF Clean
    <3> QED
      BY <3>1, <3>2, <3>3
  <2>2. CASE ApproveWrite(c)
    <3> PICK d : d = [batch[x] EXCEPT !.status = "approved", !.approved = TRUE]
      OBVIOUS
    <3>1. /\ call' = [call EXCEPT ![c] = Idle] /\ batch' = [batch EXCEPT ![x] = d]
          /\ UNCHANGED earning /\ call[c].step = "approve"
      BY <2>2 DEF ApproveWrite, Finish, Continue
    <3>2. x \in Batches /\ batch[x].status # "none"
      BY <1>a, <3>1 DEF Clean
    <3>3. d.status = "approved" /\ d.approved /\ d.lines = batch[x].lines
      BY <1>a, <3>2 DEF BatchDocs
    <3>4. Idle.step = "idle" /\ Idle.lines = {} /\ batch[x].lines \cap Gated = {}
      BY <1>a, <3>2 DEF Idle, CleanBatches
    <3> QED
      BY <3>1, <3>2, <3>3, <3>4
  <2>3. CASE PayWrite(c)
    <3> PICK h : h = [call[c] EXCEPT !.step = "payEarnings"]
      OBVIOUS
    <3> PICK d : d = [batch[x] EXCEPT !.status = "paid"]
      OBVIOUS
    <3>1. /\ call' = [call EXCEPT ![c] = h] /\ batch' = [batch EXCEPT ![x] = d]
          /\ UNCHANGED earning /\ call[c].step = "pay"
      BY <2>3 DEF PayWrite, Goto, Continue
    <3>2. /\ x \in Batches /\ batch[x].status # "none" /\ batch[x].approved
          /\ call[c].todo \subseteq batch[x].lines /\ call[c].lines \cap Gated = {}
      BY <1>a, <3>1 DEF Clean
    <3>3. d.status = "paid" /\ d.approved = batch[x].approved /\ d.lines = batch[x].lines
      BY <1>a, <3>2 DEF BatchDocs
    <3>4. /\ h.step = "payEarnings" /\ h.on = x /\ h.lines = call[c].lines
          /\ h.todo = call[c].todo /\ batch[x].lines \cap Gated = {}
      BY <1>a, <3>2 DEF HandlerStates, CleanBatches
    <3>5. h.todo \subseteq d.lines /\ d.approved /\ h.lines \cap Gated = {} /\ d.lines \cap Gated = {}
      BY <3>2, <3>3, <3>4
    <3>6. d.status # "none" /\ batch[x].status # "none" /\ h.step \in {"idle", "freeze", "payEarnings"}
      BY <3>2, <3>3, <3>4
    <3> QED
      BY ONLY <3>1, <3>2, <3>3, <3>4, <3>5, <3>6
  <2> QED
    BY <2>1, <2>2, <2>3
<1>2. batch'[x] = d /\ \A b \in Batches : b # x => batch'[b] = batch[b]
  BY <1>a, <1>1
<1>3. Clean(h)'
  BY <1>1, <1>2 DEF Clean
<1>4. CleanBatches'
  BY <1>a, <1>1, <1>2 DEF CleanBatches
<1>5. CleanEarnings'
  <2>1. PaidWasApproved'
    BY <1>a, <1>1, <1>2 DEF PayInv, CleanEarnings, PaidWasApproved, CleanBatches
  <2> QED
    BY <1>1, <2>1 DEF PayInv, CleanEarnings
<1>6. BatchesStay
  BY <1>1, <1>2 DEF BatchesStay
<1>7. \A b \in Batches :
        batch[b].status = "none" => batch'[b] = batch[b]
                                    \/ (call[c].step = "batchInsert" /\ call[c].on = b)
  BY <1>1, <1>2
<1> QED
  BY <1>a, <1>1, <1>3, <1>4, <1>5, <1>6, <1>7, PayKeeps

\* Writes of the first engine to an earning.
LEMMA PayEarnings ==
  ASSUME IntentInv, PayInv, UNCHANGED payoutVars, NEW c \in Calls,
         QaWrite(c) \/ FreezeEarning(c) \/ PayEarning(c)
  PROVE  PayInv'
<1>a. /\ call[c] \in HandlerStates /\ Clean(call[c]) /\ Clean(Idle)
      /\ earning \in [Earnings -> EarningDocs]
      /\ \A p \in Intents : intent'[p].lines \cap Gated = {}
  BY CleanHandlers DEF IntentInv, TypedEarnings, PayInv, payoutVars
<1>b. UNCHANGED batch
  BY Zenon DEF QaWrite, FreezeEarning, PayEarning
<1>1. PICK h : call' = [call EXCEPT ![c] = h] /\ Clean(h) /\ h.step # "batchInsert"
  <2>1. ASSUME NEW from \in {"freeze", "payEarnings"}, NEW e, Strike(c, from, e, Idle)
        PROVE  \E h : call' = [call EXCEPT ![c] = h] /\ Clean(h) /\ h.step # "batchInsert"
    <3> PICK h : h = [call[c] EXCEPT !.todo = @ \ {e}]
      OBVIOUS
    <3>1. /\ call[c].step = from
          /\ call' = [call EXCEPT ![c] = Idle] \/ call' = [call EXCEPT ![c] = h]
      BY <2>1 DEF Strike, Continue
    <3>2. /\ h.step = from /\ h.on = call[c].on /\ h.lines = call[c].lines
          /\ h.todo \subseteq call[c].todo
      BY <1>a, <3>1 DEF HandlerStates
    <3>3. Clean(h)
      BY <1>a, <3>1, <3>2 DEF Clean
    <3>4. Idle.step # "batchInsert"
      BY DEF Idle
    <3> QED
      BY <1>a, <3>1, <3>2, <3>3, <3>4
  <2>2. CASE QaWrite(c)
    <3>1. call' = [call EXCEPT ![c] = Idle] /\ Idle.step # "batchInsert"
      BY <2>2 DEF QaWrite, Finish, Continue, Idle
    <3> QED BY <1>a, <3>1
  <2>3. CASE FreezeEarning(c)
    <3>1. \E e : Strike(c, "freeze", e, Idle)
      BY <2>3, Zenon DEF FreezeEarning
    <3> QED BY <2>1, <3>1
  <2>4. CASE PayEarning(c)
    <3>1. \E e : Strike(c, "payEarnings", e, Idle)
      BY <2>4, Zenon DEF PayEarning
    <3> QED BY <2>1, <3>1
  <2> QED BY <2>2, <2>3, <2>4
<1>2. ASSUME NEW e \in Earnings, earning'[e].status = "paid", earning[e].status # "paid"
      PROVE  \E b \in Batches : batch[b].approved /\ e \in batch[b].lines
  <2>1. ~QaWrite(c)
    BY <1>a, <1>2 DEF QaWrite, EarningDocs, Verdict
  <2>2. ~FreezeEarning(c)
    <3> SUFFICES ASSUME FreezeEarning(c) PROVE FALSE
      OBVIOUS
    <3>1. PICK f :
            earning' = [earning EXCEPT ![f].status = "batched", ![f].batch = call[c].on]
      BY Zenon DEF FreezeEarning
    <3> QED
      BY <1>a, <1>2, <3>1 DEF EarningDocs
  <2>3. PICK f \in call[c].todo :
          Strike(c, "payEarnings", f, Idle) /\ earning' = [earning EXCEPT ![f].status = "paid"]
    BY <2>1, <2>2, Zenon DEF PayEarning
  <2>4. f = e /\ call[c].step = "payEarnings"
    BY <1>a, <1>2, <2>3 DEF EarningDocs, Strike, Continue
  <2> QED
    BY <1>a, <2>4 DEF Clean
<1>3. ASSUME NEW e \in Gated PROVE earning'[e].status # "approved"
  <2>1. earning[e].status # "approved" /\ e \in Earnings
    BY EarningConstants DEF PayInv, CleanEarnings
  <2>2. CASE QaWrite(c)
    BY <1>a, <2>1, <2>2 DEF QaWrite, EarningDocs, Verdict
  <2>3. CASE FreezeEarning(c)
    <3>1. PICK f :
            earning' = [earning EXCEPT ![f].status = "batched", ![f].batch = call[c].on]
      BY <2>3, Zenon DEF FreezeEarning
    <3> QED
      BY <1>a, <2>1, <3>1 DEF EarningDocs
  <2>4. CASE PayEarning(c)
    <3>1. PICK f : earning' = [earning EXCEPT ![f].status = "paid"]
      BY <2>4, Zenon DEF PayEarning
    <3> QED
      BY <1>a, <2>1, <3>1 DEF EarningDocs
  <2> QED BY <2>2, <2>3, <2>4
<1>4. CleanEarnings'
  <2>1. PaidWasApproved'
    BY <1>b, <1>2 DEF PayInv, CleanEarnings, PaidWasApproved
  <2> QED BY <1>3, <2>1 DEF CleanEarnings
<1>5. Clean(h)' /\ CleanBatches'
  BY <1>1, <1>b DEF Clean, CleanBatches, PayInv
<1> QED
  BY <1>a, <1>b, <1>1, <1>4, <1>5, PayKeeps DEF BatchesStay

\* Handler c of the second engine is now h, which carries what it carried or
\* free earnings.
GoesTo(c, h) ==
  /\ call' = [call EXCEPT ![c] = h]
  /\ h.step \in {"idle"} \cup IntentSteps
  /\ h.lines \subseteq call[c].lines \cup {e \in Earnings : Free(e)}

\* Steps of the second engine.
LEMMA PayIntents ==
  ASSUME IntentInv, PayInv, NEW c \in Calls, Propose(c) \/ Release(c) \/ Cancel(c)
  PROVE  PayInv'
<1>a. call[c] \in HandlerStates /\ Clean(call[c]) /\ Clean(Idle)
  BY CleanHandlers
<1>b. UNCHANGED <<earning, batch>>
  BY DEF Propose, Release, Cancel, ClaimKey, ProposeRead, ProposeInsert, ProposeAnswer,
     ReleaseRead, Announce, InsertItems, ReleaseWrite, CancelRead, CancelWrite, SetStatus,
     earningVars
<1>1. PICK h : GoesTo(c, h)
  <2>1. ASSUME NEW k \in Keys, NEW D \in SUBSET Developers, ClaimKey(c, k, D)
        PROVE  \E h : GoesTo(c, h)
    <3> PICK h : h = [Idle EXCEPT !.step = "proposeRead", !.arg = k, !.todo = D]
      OBVIOUS
    <3>1. h.step = "proposeRead" /\ h.lines = {}
      BY DEF Idle
    <3> QED
      BY <2>1, <3>1 DEF ClaimKey, Begin, GoesTo, IntentSteps
  <2>2. CASE ProposeRead(c)
    <3> PICK S : S = {e \in Earnings : Free(e) /\ Developer[e] \in call[c].todo}
      OBVIOUS
    <3> PICK h : h = [call[c] EXCEPT !.step = "proposeInsert", !.lines = S, !.todo = {}]
      OBVIOUS
    <3>1. h.step = "proposeInsert" /\ h.lines = S
      BY <1>a DEF HandlerStates
    <3>2. call' = [call EXCEPT ![c] = h]
      BY <2>2 DEF ProposeRead, Continue
    <3> QED
      BY <3>1, <3>2 DEF GoesTo, IntentSteps
  <2>3. CASE ProposeInsert(c)
    <3>1. PICK p : call' = [call EXCEPT ![c] = [call[c] EXCEPT !.step = "proposeAnswer", !.on = p]]
      BY <2>3, Zenon DEF ProposeInsert, Continue
    <3> PICK h : h = [call[c] EXCEPT !.step = "proposeAnswer", !.on = p]
      OBVIOUS
    <3>2. h.step = "proposeAnswer" /\ h.lines = call[c].lines
      BY <1>a DEF HandlerStates
    <3> QED
      BY <3>1, <3>2 DEF GoesTo, IntentSteps
  <2>4. CASE ProposeAnswer(c) \/ ReleaseWrite(c) \/ CancelWrite(c)
    BY <2>4 DEF ProposeAnswer, ReleaseWrite, CancelWrite, SetStatus, Finish, Continue, Idle, GoesTo
  <2>5. ASSUME NEW p \in Intents, ReleaseRead(c, p) \/ CancelRead(c, p)
        PROVE  \E h : GoesTo(c, h)
    BY <2>5 DEF ReleaseRead, CancelRead, Begin, Idle, IntentSteps, GoesTo
  <2>6. CASE Announce(c)
    <3>1. PICK d : Strike(c, "announce", d, [call[c] EXCEPT !.step = "insertItems", !.todo = {}])
      BY <2>6, Zenon DEF Announce
    <3> PICK h : h = [call[c] EXCEPT !.todo = @ \ {d}]
      OBVIOUS
    <3> PICK g : g = [call[c] EXCEPT !.step = "insertItems", !.todo = {}]
      OBVIOUS
    <3>2. /\ call[c].step = "announce"
          /\ call' = [call EXCEPT ![c] = h] \/ call' = [call EXCEPT ![c] = g]
      BY <3>1 DEF Strike, Continue
    <3>3. /\ h.step = "announce" /\ h.lines = call[c].lines
          /\ g.step = "insertItems" /\ g.lines = call[c].lines
      BY <1>a, <3>2 DEF HandlerStates
    <3> QED
      BY <3>2, <3>3 DEF GoesTo, IntentSteps
  <2>7. CASE InsertItems(c)
    <3> PICK h : h = [call[c] EXCEPT !.step = "releaseWrite"]
      OBVIOUS
    <3>1. h.step = "releaseWrite" /\ h.lines = call[c].lines
      BY <1>a DEF HandlerStates
    <3>2. call' = [call EXCEPT ![c] = h]
      BY <2>7 DEF InsertItems, Goto, Continue
    <3> QED
      BY <3>1, <3>2 DEF GoesTo, IntentSteps
  <2> QED
    BY <2>1, <2>2, <2>3, <2>4, <2>5, <2>6, <2>7 DEF Propose, Release, Cancel
<1>2. h.lines \cap Gated = {}
  BY <1>a, <1>1 DEF Clean, Free, PayInv, CleanEarnings, GoesTo
<1>3. call' = [call EXCEPT ![c] = h] /\ Clean(h) /\ h.step # "batchInsert"
  BY <1>1, <1>2 DEF Clean, IntentSteps, GoesTo
<1>4. ASSUME NEW p \in Intents PROVE intent'[p].lines \cap Gated = {}
  <2>1. intent[p].lines \cap Gated = {} /\ intent \in [Intents -> IntentDocs]
    BY DEF PayInv, IntentInv, TypedIntents
  <2>2. CASE ProposeInsert(c)
    <3>1. call[c].lines \cap Gated = {}
      BY <1>a DEF Clean
    <3> QED
      BY <2>1, <2>2, <3>1 DEF ProposeInsert
  <2>3. CASE ReleaseWrite(c) \/ CancelWrite(c)
    BY <2>1, <2>3 DEF ReleaseWrite, CancelWrite, SetStatus, IntentDocs
  <2>4. CASE ~ProposeInsert(c) /\ ~ReleaseWrite(c) /\ ~CancelWrite(c)
    <3>1. intent' = intent
      BY <2>4 DEF Propose, Release, Cancel, ClaimKey, ProposeRead, ProposeAnswer,
         ReleaseRead, Announce, InsertItems, CancelRead, payoutVars
    <3> QED BY <2>1, <3>1
  <2> QED BY <2>2, <2>3, <2>4
<1> QED
  BY <1>b, <1>3, <1>4, PayGoesOn

LEMMA StepPay ==
  ASSUME IntentInv, PayInv, [Next]_vars PROVE PayInv'
<1>1. ASSUME NEW c \in Calls, EarningStep(c), UNCHANGED payoutVars PROVE PayInv'
  <2>1. CASE \/ \E e \in Earnings, result \in Results : QaRead(c, e, result)
             \/ \E b \in Batches, S \in SUBSET Earnings : BatchRead(c, b, S)
             \/ \E b \in Batches : ApproveRead(c, b) \/ PayRead(c, b)
    <3>1. UNCHANGED earningVars
      BY <2>1 DEF QaRead, BatchRead, ApproveRead, PayRead
    <3> QED
      BY <1>1, <2>1, <3>1, PayReads
  <2> QED
    BY <1>1, <2>1, PayBatches, PayEarnings DEF EarningStep
<1>2. CASE UNCHANGED vars
  BY <1>2 DEF vars, earningVars, callVars, payoutVars, PayInv, Clean, Sole, CleanBatches,
     CleanEarnings, PaidWasApproved
<1> QED
  BY <1>1, <1>2, PayIntents DEF Next

LEMMA PayInvHolds == Spec => []PayInv
<1>1. Init => IntentInv /\ PayInv
  BY InitIntentInv, InitPay
<1>2. IntentInv /\ PayInv /\ [Next]_vars => IntentInv' /\ PayInv'
  BY StepIntentInv, StepPay
<1> QED
  BY <1>1, <1>2, PTL DEF Spec

\* Nobody is paid by the first engine but through a batch that lists the earning
\* and was approved (payout_layer.py, mark_batch_paid), however many QA
\* decisions, freezes, approvals and payments overlap or die.
THEOREM PaymentsAreApproved == Spec => []PaidWasApproved
<1>1. PayInv => PaidWasApproved
  BY DEF PayInv, CleanEarnings
<1> QED
  BY <1>1, PayInvHolds, PTL

\* The gate of an earning with untrusted time holds in both engines, whatever
\* overlaps or dies.
THEOREM GateHolds == Spec => []GatedIsNotPaid
<1>1. PayInv => GatedIsNotPaid
  BY DEF PayInv, CleanBatches, GatedIsNotPaid
<1> QED
  BY <1>1, PayInvHolds, PTL
==============================================================================
