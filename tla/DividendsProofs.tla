--------------------------- MODULE DividendsProofs ---------------------------
(***************************************************************************)
(* For any number of owners, batches and calls: no batch is called         *)
(* credited while somebody in it waits, whatever overlaps or dies          *)
(* (DividendInv, which follows the shapes of documents and who is served); *)
(* and while calls come one after the other, the periods are generated     *)
(* once each (PeriodInv), and every batch pays its gross amount to the     *)
(* hundredth or nothing (BooksInv).                                        *)
(***************************************************************************)
EXTENDS Dividends, SumTheorems, TLAPS

IsBatch(v) == v = [status |-> v.status, period |-> v.period, gross |-> v.gross]
IsRecord(v) == v = [status |-> v.status, net |-> v.net, tax |-> v.tax]
IsHandler(v) == v = [step |-> v.step, mode |-> v.mode, on |-> v.on, period |-> v.period,
                     gross |-> v.gross, split |-> v.split, todo |-> v.todo, owner |-> v.owner]

Shapes ==
  /\ batch = [b \in Batches |-> batch[b]] /\ \A b \in Batches : IsBatch(batch[b])
  /\ record = [b \in Batches |-> record[b]]
  /\ \A b \in Batches : /\ record[b] = [i \in Investors |-> record[b][i]]
                        /\ \A i \in Investors : IsRecord(record[b][i])

\* Of an owner who waits for nothing, and a batch in which nobody waits.
Served(b, i) == record[b][i].status \in {"credited", "cancelled"}
Settled(b) == \A i \in Investors : record[b][i].net > 0 => Served(b, i)

Documents ==
  /\ \A b \in Batches : batch[b].status = "credited" => Settled(b)
  /\ \A b \in Batches, i \in Investors :
       /\ record[b][i].status \in RecordStatuses \cup {"none"}
       /\ record[b][i].status = "none" => record[b][i].net = 0

\* What a handler knows of its batch, by the step it is at.
MakingSteps == {"records", "batch"}
BatchSteps == {"advance", "approveRead", "approve", "approveRecords", "creditRead", "find",
               "append", "tag", "mark", "credited", "remit", "cancelRead", "cancel",
               "cancelRecords"}

Knows(h) ==
  /\ h.todo \subseteq Investors
  /\ h.step \in MakingSteps => h.on \in Batches /\ batch[h.on].status = "none"
  /\ h.step \in BatchSteps => h.on \in Batches /\ batch[h.on].status # "none"
  /\ h.step \in {"append", "tag", "mark"} =>
       \A i \in Investors : record[h.on][i].net > 0 => i \in h.todo \/ Served(h.on, i)
  /\ h.step \in {"tag", "mark"} => h.owner \in Investors
  /\ h.step = "credited" => Settled(h.on)

\* Nobody else has a batch that is being made.
Alone(c) ==
  call[c].step \in MakingSteps => \A d \in Calls : call[d].on = call[c].on => d = c

\* Handler c may become h: whoever else is at its batch, it is being made by
\* neither.
Free(c, h) ==
  \A d \in Calls : d # c /\ call[d].on = h.on =>
    h.step \notin MakingSteps /\ call[d].step \notin MakingSteps

DividendInv ==
  /\ Shapes
  /\ call = [c \in Calls |-> call[c]] /\ \A c \in Calls : IsHandler(call[c])
  /\ Documents
  /\ \A c \in Calls : Knows(call[c]) /\ Alone(c)

\* What no step of handler c takes back: a batch that was made stays, and
\* whoever is served in it stays served.
Grows(c) ==
  \A b \in Batches :
    /\ batch[b].status # "none" =>
         /\ batch'[b].status # "none"
         /\ \A i \in Investors : /\ record'[b][i].net = record[b][i].net
                                 /\ Served(b, i) => Served(b, i)'
    /\ batch'[b].status # batch[b].status /\ batch[b].status = "none" =>
         call[c].step = "batch" /\ call[c].on = b

DocumentsKeep(c) == Shapes' /\ Documents' /\ Grows(c)

LEMMA KnowsStays ==
  ASSUME NEW c, Grows(c), NEW h, Knows(h),
         h.step \in MakingSteps => ~(call[c].step = "batch" /\ call[c].on = h.on)
  PROVE  Knows(h)'
BY DEF Grows, Knows, Settled, MakingSteps, BatchSteps

\* A step of handler c that makes it h keeps the invariant if it keeps the
\* documents, h knows what it should, and takes no batch that is being made.
LEMMA StepKeeps ==
  ASSUME DividendInv, NEW c \in Calls, DocumentsKeep(c), NEW h, IsHandler(h),
         call' = [call EXCEPT ![c] = h], Knows(h)',
         Free(c, h)
  PROVE  DividendInv'
<1>1. /\ call' = [d \in Calls |-> call'[d]] /\ call'[c] = h
      /\ \A d \in Calls : d # c => call'[d] = call[d]
  BY DEF DividendInv
<1>2. ASSUME NEW d \in Calls, d # c PROVE Knows(call[d])'
  <2>1. call'[d] = call[d] /\ Knows(call[d]) /\ Alone(d)
    BY <1>1, <1>2 DEF DividendInv
  <2>2. PICK g : g = call[d]
    OBVIOUS
  <2>3. g.step \in MakingSteps => ~(call[c].step = "batch" /\ call[c].on = g.on)
    BY <1>2, <2>1, <2>2 DEF Alone
  <2>4. Knows(g)'
    BY <2>1, <2>2, <2>3, KnowsStays DEF DocumentsKeep
  <2> QED
    BY <2>1, <2>2, <2>4 DEF Knows
<1>3. ASSUME NEW d \in Calls PROVE Alone(d)'
  BY <1>1 DEF DividendInv, Alone, Free
<1>4. \A d \in Calls : IsHandler(call'[d])
  BY <1>1 DEF DividendInv
<1>5. Knows(call[c])'
  BY <1>1 DEF Knows
<1> QED
  BY <1>1, <1>2, <1>3, <1>4, <1>5 DEF DividendInv, DocumentsKeep

-----------------------------------------------------------------------------
(* What a handler may become.                                              *)

\* A handler that keeps its batch, and makes none it was not making, is alone
\* with it as before.
LEMMA SameBatch ==
  ASSUME DividendInv, NEW c \in Calls, NEW h, h.on = call[c].on,
         h.step \in MakingSteps => call[c].step \in MakingSteps
  PROVE  Free(c, h)
BY DEF DividendInv, Alone, Free

\* Nor does anybody make a batch that is there, or none at all.
LEMMA MadeBatch ==
  ASSUME DividendInv, NEW c \in Calls, NEW h, h.step \notin MakingSteps,
         h.on \in Batches => batch[h.on].status # "none"
  PROVE  Free(c, h)
BY DEF DividendInv, Knows, Free

LEMMA SameDocuments ==
  ASSUME DividendInv, UNCHANGED <<batch, record>>, NEW c
  PROVE  DocumentsKeep(c)
<1>1. Shapes' /\ Documents'
  BY DEF DividendInv, Shapes, Documents, Settled, Served
<1>2. Grows(c)
  BY DEF Grows, Served
<1> QED
  BY <1>1, <1>2 DEF DocumentsKeep

LEMMA SameKnowledge ==
  ASSUME UNCHANGED <<batch, record>>, NEW h, Knows(h)
  PROVE  Knows(h)'
BY DEF Knows, Settled, Served

LEMMA ReadKeeps ==
  ASSUME DividendInv, NEW c \in Calls, UNCHANGED <<batch, record>>, NEW h, IsHandler(h),
         call' = [call EXCEPT ![c] = h], Knows(h),
         Free(c, h)
  PROVE  DividendInv'
<1>1. DocumentsKeep(c) /\ Knows(h)'
  BY SameDocuments, SameKnowledge
<1> QED
  BY <1>1, StepKeeps

LEMMA IdleIs ==
  /\ IsHandler(Idle) /\ Idle.step = "idle" /\ Idle.todo = {} /\ Idle.on = None
  /\ Knows(Idle) /\ Knows(Idle)'
<1>1. IsHandler(Idle) /\ Idle.step = "idle" /\ Idle.todo = {}
  BY DEF IsHandler, Idle
<1>2. Knows(Idle) /\ Knows(Idle)'
  BY <1>1 DEF Knows, MakingSteps, BatchSteps
<1> QED
  BY <1>1, <1>2 DEF Idle

LEMMA InitDividendInv ==
  ASSUME Init
  PROVE  DividendInv
<1>1. Shapes
  BY DEF Init, Shapes, IsBatch, IsRecord, NoRecord
<1>2. Documents
  BY DEF Init, Documents, NoRecord, RecordStatuses
<1>3. \A c \in Calls : call[c] = Idle
  BY DEF Init
<1>4. \A c \in Calls : Knows(call[c]) /\ Alone(c) /\ IsHandler(call[c])
  BY <1>3, IdleIs DEF Alone, MakingSteps, Knows
<1> QED
  BY <1>1, <1>2, <1>4 DEF DividendInv, Init

\* The three ways to write what a handler becomes.
LEMMA Changed ==
  ASSUME NEW h, IsHandler(h), NEW s, NEW t, NEW o
  PROVE  /\ IsHandler([h EXCEPT !.step = s])
         /\ [h EXCEPT !.step = s].on = h.on /\ [h EXCEPT !.step = s].step = s
         /\ [h EXCEPT !.step = s].todo = h.todo /\ [h EXCEPT !.step = s].owner = h.owner
BY DEF IsHandler

-----------------------------------------------------------------------------
(* Where handlers go, and the steps that write no batch and no record.     *)

LEMMA ToIdle ==
  ASSUME DividendInv, NEW c \in Calls, DocumentsKeep(c), call' = [call EXCEPT ![c] = Idle]
  PROVE  DividendInv'
<1>1. Idle.on \notin Batches
  BY IdleIs, DividendConstants
<1>2. Idle.step \notin MakingSteps
  BY IdleIs DEF MakingSteps
<1>3. Free(c, Idle)
  BY <1>1, <1>2, MadeBatch, Zenon
<1> QED
  BY <1>3, IdleIs, StepKeeps

\* To a step of which Knows asks no more than that the batch is there.
PlainSteps == BatchSteps \ {"append", "tag", "mark", "credited"}

LEMMA ToPlainStep ==
  ASSUME DividendInv, NEW c \in Calls, DocumentsKeep(c), NEW h, IsHandler(h),
         call' = [call EXCEPT ![c] = h], h.on = call[c].on, h.todo \subseteq Investors,
         h.step \in PlainSteps, call[c].step \in BatchSteps \/ batch'[h.on].status # "none",
         h.on \in Batches
  PROVE  DividendInv'
<1>1. h.step \notin MakingSteps
  BY DEF PlainSteps, BatchSteps, MakingSteps
<1>2. batch'[h.on].status # "none"
  BY DEF DividendInv, Knows, DocumentsKeep, Grows
<1>3. Knows(h)'
  BY <1>1, <1>2 DEF Knows, PlainSteps
<1>4. Free(c, h)
  BY <1>1, SameBatch, Zenon
<1> QED
  BY <1>3, <1>4, StepKeeps

LEMMA GotoKeeps ==
  ASSUME DividendInv, NEW c \in Calls, DocumentsKeep(c), NEW from \in BatchSteps,
         NEW to \in PlainSteps, Goto(c, from, to)
  PROVE  DividendInv'
<1> PICK h : h = [call[c] EXCEPT !.step = to]
  OBVIOUS
<1>1. IsHandler(call[c]) /\ Knows(call[c]) /\ call[c].step = from
  BY DEF DividendInv, Goto, Continue
<1>2. IsHandler(h) /\ h.step = to /\ h.on = call[c].on /\ h.todo = call[c].todo
  BY <1>1, Changed
<1>3. h.on \in Batches /\ h.todo \subseteq Investors
  BY <1>1, <1>2 DEF Knows
<1>4. call' = [call EXCEPT ![c] = h]
  BY DEF Goto, Continue
<1> QED
  BY <1>1, <1>2, <1>3, <1>4, ToPlainStep

LEMMA DoneKeeps ==
  ASSUME DividendInv, NEW c \in Calls, DocumentsKeep(c), NEW from \in BatchSteps,
         NEW next \in PlainSteps \cup {"fresh"}, Done(c, from, next)
  PROVE  DividendInv'
<1>1. CASE call[c].mode = "one"
  BY <1>1, ToIdle DEF Done, Continue
<1>2. CASE call[c].mode # "one"
  <2> PICK h : h = [Idle EXCEPT !.step = next, !.mode = call[c].mode, !.on = call[c].on]
    OBVIOUS
  <2>1. IsHandler(h) /\ h.step = next /\ h.on = call[c].on /\ h.todo = {}
    BY DEF IsHandler, Idle
  <2>2. Knows(call[c]) /\ call[c].step = from
    BY DEF DividendInv, Done, Continue
  <2>3. h.on \in Batches /\ batch[h.on].status # "none"
    BY <2>1, <2>2 DEF Knows
  <2>4. batch'[h.on].status # "none"
    BY <2>3 DEF DocumentsKeep, Grows
  <2>5. Knows(h)' /\ h.step \notin MakingSteps
    BY <2>1, <2>3, <2>4 DEF Knows, PlainSteps, BatchSteps, MakingSteps
  <2>6. call' = [call EXCEPT ![c] = h]
    BY <1>2 DEF Done, Continue
  <2>7. Free(c, h)
    BY <2>1, <2>5, SameBatch, Zenon
  <2> QED
    BY <2>1, <2>5, <2>6, <2>7, StepKeeps
<1> QED
  BY <1>1, <1>2

LEMMA UpdatePlanKeeps ==
  ASSUME DividendInv, UNCHANGED <<batch, record, call>>
  PROVE  DividendInv'
<1>1. ASSUME NEW c \in Calls PROVE Knows(call[c])' /\ Alone(c)'
  <2> PICK h : h = call[c]
    OBVIOUS
  <2>1. Knows(h)'
    BY SameKnowledge DEF DividendInv
  <2> QED
    BY <2>1 DEF Knows, DividendInv, Alone
<1>2. Shapes' /\ Documents'
  BY DEF DividendInv, Shapes, Documents, Settled, Served
<1> QED
  BY <1>1, <1>2 DEF DividendInv

LEMMA GenerateKeeps ==
  ASSUME DividendInv, NEW c \in Calls, NEW date, Generate(c, date)
  PROVE  DividendInv'
<1> PICK h : h = [Idle EXCEPT !.step = "generate", !.period = date]
  OBVIOUS
<1>1. IsHandler(h) /\ h.step = "generate" /\ h.on = None /\ h.todo = {}
  BY DEF IsHandler, Idle
<1>2. Knows(h) /\ h.step \notin MakingSteps /\ (h.on \in Batches => batch[h.on].status # "none")
  BY <1>1, DividendConstants DEF Knows, BatchSteps, MakingSteps
<1>3. UNCHANGED <<batch, record>> /\ call' = [call EXCEPT ![c] = h]
  BY DEF Generate, Begin
<1>4. Free(c, h)
  BY <1>2, MadeBatch, Zenon
<1> QED
  BY <1>1, <1>2, <1>3, <1>4, ReadKeeps

LEMMA OnBatchKeeps ==
  ASSUME DividendInv, NEW c \in Calls, NEW b \in Batches,
         NEW step \in {"approveRead", "creditRead", "cancelRead"}, OnBatch(c, step, b)
  PROVE  DividendInv'
<1> PICK h : h = [Idle EXCEPT !.step = step, !.on = b]
  OBVIOUS
<1>1. IsHandler(h) /\ h.step = step /\ h.on = b /\ h.todo = {}
  BY DEF IsHandler, Idle
<1>2. Knows(h) /\ h.step \notin MakingSteps /\ (h.on \in Batches => batch[h.on].status # "none")
  BY <1>1 DEF Knows, BatchSteps, MakingSteps, OnBatch
<1>3. UNCHANGED <<batch, record>> /\ call' = [call EXCEPT ![c] = h]
  BY DEF OnBatch, Begin
<1>4. Free(c, h)
  BY <1>2, MadeBatch, Zenon
<1> QED
  BY <1>1, <1>2, <1>3, <1>4, ReadKeeps

LEMMA RunDuePlansKeeps ==
  ASSUME DividendInv, NEW c \in Calls, NEW mode, RunDuePlans(c, mode)
  PROVE  DividendInv'
<1> PICK h : h = [Idle EXCEPT !.step = "fresh", !.mode = mode]
  OBVIOUS
<1>1. IsHandler(h) /\ h.step = "fresh" /\ h.on = None /\ h.todo = {}
  BY DEF IsHandler, Idle
<1>2. Knows(h) /\ h.step \notin MakingSteps /\ (h.on \in Batches => batch[h.on].status # "none")
  BY <1>1, DividendConstants DEF Knows, BatchSteps, MakingSteps
<1>3. UNCHANGED <<batch, record>> /\ call' = [call EXCEPT ![c] = h]
  BY DEF RunDuePlans, Begin
<1>4. Free(c, h)
  BY <1>2, MadeBatch, Zenon
<1> QED
  BY <1>1, <1>2, <1>3, <1>4, ReadKeeps

LEMMA FreshKeeps ==
  ASSUME DividendInv, NEW c \in Calls, Fresh(c)
  PROVE  DividendInv'
<1>1. CASE IsDue
  <2> PICK h : h = [call[c] EXCEPT !.step = "generate"]
    OBVIOUS
  <2>1. IsHandler(h) /\ h.step = "generate" /\ h.on = call[c].on /\ h.todo = call[c].todo
    BY Changed DEF DividendInv
  <2>2. Knows(h) /\ h.step \notin MakingSteps
    BY <2>1 DEF Knows, BatchSteps, MakingSteps, DividendInv
  <2> QED
    BY <1>1, <2>1, <2>2, ReadKeeps, SameBatch DEF Fresh, Continue
<1>2. CASE ~IsDue
  BY <1>2, ToIdle, SameDocuments DEF Fresh, Continue
<1> QED
  BY <1>1, <1>2

LEMMA ReadBatchKeeps ==
  ASSUME DividendInv, NEW c \in Calls, NEW from \in BatchSteps, NEW to \in PlainSteps,
         NEW S, ReadBatch(c, from, to, S)
  PROVE  DividendInv'
<1>1. CASE batch[call[c].on].status \in S
  <2>1. Goto(c, from, to)
    BY <1>1 DEF ReadBatch, Goto, Continue
  <2> QED
    BY <2>1, GotoKeeps, SameDocuments DEF ReadBatch
<1>2. CASE batch[call[c].on].status \notin S
  BY <1>2, ToIdle, SameDocuments DEF ReadBatch, Continue
<1> QED
  BY <1>1, <1>2

LEMMA GenerateReadKeeps ==
  ASSUME DividendInv, NEW c \in Calls, GenerateRead(c)
  PROVE  DividendInv'
<1>1. CASE plan.status = "ended"
  BY <1>1, ToIdle, SameDocuments DEF GenerateRead, Continue
<1>2. ASSUME NEW b \in Batches, batch[b].status = "none", \A d \in Calls : call[d].on # b,
             NEW period, NEW gross, NEW split, NEW todo \in SUBSET Investors,
             UNCHANGED <<batch, record>>,
             Continue(c, "generate",
               [call[c] EXCEPT !.step = "records", !.on = b, !.period = period,
                               !.gross = gross, !.split = split, !.todo = todo])
      PROVE  DividendInv'
  <2> PICK h : h = [call[c] EXCEPT !.step = "records", !.on = b, !.period = period,
                                   !.gross = gross, !.split = split, !.todo = todo]
    OBVIOUS
  <2>1. IsHandler(call[c])
    BY DEF DividendInv
  <2>2. IsHandler(h) /\ h.step = "records" /\ h.on = b /\ h.todo = todo
    BY <2>1 DEF IsHandler
  <2>3. Knows(h)
    BY <1>2, <2>2 DEF Knows, BatchSteps, MakingSteps
  <2>4. Free(c, h)
    BY <1>2, <2>2 DEF Free
  <2> QED
    BY <1>2, <2>2, <2>3, <2>4, ReadKeeps DEF Continue
<1>3. CASE plan.status # "ended"
  <2>1. PICK b \in Batches, amount \in Amounts, units \in {u \in Holdings : Sum(u) > 0} :
          /\ batch[b].status = "none" /\ \A d \in Calls : call[d].on # b
          /\ \E split \in Splits(amount, units) :
               Continue(c, "generate",
                 [call[c] EXCEPT !.step = "records", !.on = b, !.period = NextPeriod(c),
                                 !.gross = amount, !.split = split,
                                 !.todo = {i \in Investors : units[i] > 0}])
    BY <1>3, Zenon DEF GenerateRead
  <2>2. PICK split \in Splits(amount, units) :
          Continue(c, "generate",
            [call[c] EXCEPT !.step = "records", !.on = b, !.period = NextPeriod(c),
                            !.gross = amount, !.split = split,
                            !.todo = {i \in Investors : units[i] > 0}])
    BY <2>1, Zenon
  <2>3. UNCHANGED <<batch, record>>
    BY DEF GenerateRead
  <2>4. {i \in Investors : units[i] > 0} \in SUBSET Investors
    OBVIOUS
  <2> QED
    BY <1>2, <2>1, <2>2, <2>3, <2>4, Zenon
<1> QED
  BY <1>1, <1>3

LEMMA FindRecordsKeeps ==
  ASSUME DividendInv, NEW c \in Calls, FindRecords(c)
  PROVE  DividendInv'
<1> DEFINE S == {i \in Investors : record[call[c].on][i].status \in {"approved", "generated"}
                                   /\ record[call[c].on][i].net > 0}
           s == IF S = {} THEN "credited" ELSE "append"
<1> PICK h : h = [call[c] EXCEPT !.step = s, !.todo = S]
  OBVIOUS
<1>1. call[c].step = "find" /\ call' = [call EXCEPT ![c] = h] /\ UNCHANGED <<batch, record>>
  BY DEF FindRecords, Continue
<1>2. IsHandler(call[c]) /\ Knows(call[c])
  BY DEF DividendInv
<1>3. IsHandler(h) /\ h.step = s /\ h.on = call[c].on /\ h.todo = S
  BY <1>2 DEF IsHandler
<1>4. h.on \in Batches /\ batch[h.on].status # "none"
  BY <1>1, <1>2, <1>3 DEF Knows, BatchSteps
<1>5. \A i \in Investors : record[h.on][i].net > 0 => i \in S \/ Served(h.on, i)
  <2> SUFFICES ASSUME NEW i \in Investors, record[h.on][i].net > 0, i \notin S
               PROVE  Served(h.on, i)
    OBVIOUS
  <2>1. record[h.on][i].status \in RecordStatuses \cup {"none"}
        /\ (record[h.on][i].status = "none" => record[h.on][i].net = 0)
    BY <1>4 DEF DividendInv, Documents
  <2>2. record[h.on][i].status \notin {"approved", "generated"}
    <3> HIDE DEF s
    <3> QED
      BY <1>3
  <2> HIDE DEF S, s
  <2>3. record[h.on][i].status # "none"
    BY <2>1
  <2> QED
    BY <2>1, <2>2, <2>3 DEF Served, RecordStatuses
<1>6. Knows(h)
  <2>1. S \subseteq Investors /\ s \in {"credited", "append"} /\ (s = "credited" => S = {})
    OBVIOUS
  <2> HIDE DEF S, s
  <2> QED
    BY <1>3, <1>4, <1>5, <2>1 DEF Knows, Settled, MakingSteps, BatchSteps
<1>7. Free(c, h)
  <2>1. s \notin MakingSteps
    BY DEF MakingSteps
  <2>2. h.step \notin MakingSteps /\ h.on = call[c].on
    BY <1>3, <2>1
  <2> HIDE DEF S, s
  <2> QED
    BY <2>2, SameBatch, Zenon
<1> HIDE DEF S, s
<1> QED
  BY <1>1, <1>3, <1>6, <1>7, ReadKeeps

LEMMA AppendEntryKeeps ==
  ASSUME DividendInv, NEW c \in Calls, AppendEntry(c)
  PROVE  DividendInv'
<1>1. PICK i \in call[c].todo :
        Continue(c, "append", [call[c] EXCEPT !.step = "tag", !.owner = i])
  BY Zenon DEF AppendEntry
<1> PICK h : h = [call[c] EXCEPT !.step = "tag", !.owner = i]
  OBVIOUS
<1>2. IsHandler(call[c]) /\ Knows(call[c]) /\ call[c].step = "append"
  BY <1>1 DEF DividendInv, Continue
<1>3. IsHandler(h) /\ h.step = "tag" /\ h.on = call[c].on /\ h.todo = call[c].todo
      /\ h.owner = i
  BY <1>2 DEF IsHandler
<1>4. Knows(h) /\ h.step \notin MakingSteps
  BY <1>1, <1>2, <1>3 DEF Knows, MakingSteps, BatchSteps
<1>5. UNCHANGED <<batch, record>> /\ call' = [call EXCEPT ![c] = h]
  BY <1>1 DEF AppendEntry, Continue
<1>6. Free(c, h)
  BY <1>3, <1>4, SameBatch, Zenon
<1> QED
  BY <1>3, <1>4, <1>5, <1>6, ReadKeeps

LEMMA TagEntryKeeps ==
  ASSUME DividendInv, NEW c \in Calls, TagEntry(c)
  PROVE  DividendInv'
<1> PICK h : h = [call[c] EXCEPT !.step = "mark"]
  OBVIOUS
<1>2. IsHandler(call[c]) /\ Knows(call[c]) /\ call[c].step = "tag"
  BY DEF DividendInv, TagEntry
<1>3. IsHandler(h) /\ h.step = "mark" /\ h.on = call[c].on /\ h.todo = call[c].todo
      /\ h.owner = call[c].owner
  BY <1>2, Changed
<1>4. Knows(h) /\ h.step \notin MakingSteps
  BY <1>2, <1>3 DEF Knows, MakingSteps, BatchSteps
<1>5. UNCHANGED <<batch, record>> /\ call' = [call EXCEPT ![c] = h]
  BY DEF TagEntry, Goto, Continue
<1>6. Free(c, h)
  BY <1>3, <1>4, SameBatch, Zenon
<1> QED
  BY <1>3, <1>4, <1>5, <1>6, ReadKeeps

-----------------------------------------------------------------------------
(* Steps that write a batch or its records.                                *)

\* new may stand for the records of b: it serves no fewer.
Serves(b, new) ==
  \A i \in Investors :
    /\ IsRecord(new[i])
    /\ new[i].status \in RecordStatuses \cup {"none"}
    /\ new[i].status = "none" => new[i].net = 0
    /\ batch[b].status # "none" =>
         /\ new[i].net = record[b][i].net
         /\ Served(b, i) => new[i].status \in {"credited", "cancelled"}

LEMMA RecordsKeep ==
  ASSUME DividendInv, NEW c \in Calls, NEW b \in Batches, NEW new, Serves(b, new),
         record' = [record EXCEPT ![b] = new], new = [i \in Investors |-> new[i]],
         UNCHANGED batch
  PROVE  DocumentsKeep(c)
<1>1. /\ record' = [d \in Batches |-> record'[d]]
      /\ record'[b] = new
      /\ \A d \in Batches : d # b => record'[d] = record[d]
  BY DEF DividendInv, Shapes
<1>2. Shapes'
  BY <1>1 DEF DividendInv, Shapes, Serves
<1>3. Grows(c)
  BY <1>1 DEF Grows, Served, Serves
<1>4. Documents'
  <2>1. ASSUME NEW d \in Batches, batch[d].status = "credited" PROVE Settled(d)'
    BY <1>3, <2>1 DEF Grows, Settled, DividendInv, Documents
  <2>2. ASSUME NEW d \in Batches, NEW i \in Investors
        PROVE  /\ record'[d][i].status \in RecordStatuses \cup {"none"}
               /\ record'[d][i].status = "none" => record'[d][i].net = 0
    BY <1>1 DEF DividendInv, Documents, Serves
  <2> QED
    BY <2>1, <2>2 DEF Documents
<1> QED
  BY <1>2, <1>3, <1>4 DEF DocumentsKeep

\* The batch b gets a status; if that is credited, nobody in it waits.
LEMMA BatchKeeps ==
  ASSUME DividendInv, NEW c \in Calls, NEW b \in Batches, NEW new, IsBatch(new),
         UNCHANGED record, batch' = [batch EXCEPT ![b] = new],
         new.status # "none", new.status = "credited" => Settled(b),
         batch[b].status # "none" \/ (call[c].step = "batch" /\ call[c].on = b)
  PROVE  DocumentsKeep(c)
<1>1. /\ batch' = [d \in Batches |-> batch'[d]] /\ batch'[b] = new
      /\ \A d \in Batches : d # b => batch'[d] = batch[d]
  BY DEF DividendInv, Shapes
<1>2. Shapes'
  BY <1>1 DEF DividendInv, Shapes
<1>3. Grows(c)
  BY <1>1 DEF Grows, Served
<1>4. Documents'
  BY <1>1 DEF DividendInv, Documents, Settled, Served
<1> QED
  BY <1>2, <1>3, <1>4 DEF DocumentsKeep

LEMMA InsertRecordKeeps ==
  ASSUME DividendInv, NEW c \in Calls, InsertRecord(c)
  PROVE  DividendInv'
<1>1. ASSUME NEW i \in call[c].todo, NEW tax,
             Continue(c, "records", [call[c] EXCEPT !.todo = @ \ {i},
                        !.step = IF call[c].todo = {i} THEN "batch" ELSE @]),
             record' = [record EXCEPT ![call[c].on][i] =
                          [status |-> "generated", net |-> call[c].split[i] - tax, tax |-> tax]],
             UNCHANGED batch
      PROVE  DividendInv'
  <2> DEFINE s == IF call[c].todo = {i} THEN "batch" ELSE "records"
             v == [status |-> "generated", net |-> call[c].split[i] - tax, tax |-> tax]
  <2>1. IsHandler(call[c]) /\ Knows(call[c]) /\ call[c].step = "records"
    BY <1>1 DEF DividendInv, Continue
  <2> PICK b : b = call[c].on
    OBVIOUS
  <2>2. b \in Batches /\ batch[b].status = "none" /\ i \in Investors
    BY <2>1 DEF Knows, MakingSteps
  <2> PICK h : h = [call[c] EXCEPT !.todo = @ \ {i},
                      !.step = IF call[c].todo = {i} THEN "batch" ELSE @]
    OBVIOUS
  <2>3. IsHandler(h) /\ h.step = s /\ h.on = b /\ h.todo \subseteq call[c].todo
    BY <2>1 DEF IsHandler
  <2> PICK new : new = [record[b] EXCEPT ![i] = v]
    OBVIOUS
  <2>4. /\ record[b] = [j \in Investors |-> record[b][j]]
        /\ \A j \in Investors : IsRecord(record[b][j])
        /\ record = [d \in Batches |-> record[d]]
    BY <2>2 DEF DividendInv, Shapes
  <2>5. new = [j \in Investors |-> new[j]]
        /\ new[i] = v /\ \A j \in Investors : j # i => new[j] = record[b][j]
    BY <2>2, <2>4
  <2>6. record' = [record EXCEPT ![b] = new]
    BY <1>1
  <2>7. IsRecord(v) /\ v.status = "generated"
    BY DEF IsRecord
  <2> HIDE DEF v, s
  <2>8. \A j \in Investors :
          /\ IsRecord(new[j]) /\ new[j].status \in RecordStatuses \cup {"none"}
          /\ new[j].status = "none" => new[j].net = 0
    BY <2>2, <2>4, <2>5, <2>7 DEF DividendInv, Documents, RecordStatuses
  <2>9. DocumentsKeep(c)
    <3>1. Serves(b, new)
      BY <2>2, <2>8 DEF Serves
    <3>2. b \in Batches /\ UNCHANGED batch
      BY <1>1, <2>2
    <3> QED
      BY <2>5, <2>6, <3>1, <3>2, RecordsKeep
  <2>10. s \in {"batch", "records"}
    BY DEF s
  <2>11. Knows(h)'
    BY <1>1, <2>1, <2>2, <2>3, <2>10 DEF Knows, MakingSteps, BatchSteps
  <2>12. Free(c, h)
    BY <2>1, <2>3, SameBatch DEF MakingSteps
  <2>13. call' = [call EXCEPT ![c] = h]
    BY <1>1 DEF Continue
  <2> QED
    BY <2>3, <2>9, <2>11, <2>12, <2>13, StepKeeps
<1>2. PICK i \in call[c].todo :
        /\ Continue(c, "records", [call[c] EXCEPT !.todo = @ \ {i},
                      !.step = IF call[c].todo = {i} THEN "batch" ELSE @])
        /\ \E tax \in Taxes(i, call[c].split[i]) :
             record' = [record EXCEPT ![call[c].on][i] =
                          [status |-> "generated", net |-> call[c].split[i] - tax, tax |-> tax]]
  BY Zenon DEF InsertRecord
<1>3. PICK tax \in Taxes(i, call[c].split[i]) :
        record' = [record EXCEPT ![call[c].on][i] =
                     [status |-> "generated", net |-> call[c].split[i] - tax, tax |-> tax]]
  BY <1>2, Zenon
<1>4. UNCHANGED batch
  BY DEF InsertRecord
<1> QED
  BY <1>1, <1>2, <1>3, <1>4, Zenon

LEMMA InsertBatchKeeps ==
  ASSUME DividendInv, NEW c \in Calls, InsertBatch(c)
  PROVE  DividendInv'
<1> PICK h : h = [call[c] EXCEPT !.step = "advance"]
  OBVIOUS
<1> PICK new : new = [status |-> "generated", period |-> call[c].period, gross |-> call[c].gross]
  OBVIOUS
<1>1. IsHandler(call[c]) /\ Knows(call[c]) /\ call[c].step = "batch"
  BY DEF DividendInv, InsertBatch, Goto, Continue
<1>2. IsHandler(h) /\ h.step = "advance" /\ h.on = call[c].on /\ h.todo = call[c].todo
  BY <1>1, Changed
<1>3. h.on \in Batches /\ h.todo \subseteq Investors
  BY <1>1, <1>2 DEF Knows, MakingSteps
<1>4. IsBatch(new) /\ new.status = "generated"
  BY DEF IsBatch
<1>5. batch' = [batch EXCEPT ![h.on] = new] /\ UNCHANGED record
  BY <1>2 DEF InsertBatch
<1>6. DocumentsKeep(c)
  BY <1>1, <1>2, <1>3, <1>4, <1>5, BatchKeeps
<1>7. batch'[h.on].status # "none" /\ h.step \in PlainSteps
  BY <1>2, <1>3, <1>4, <1>5 DEF DividendInv, Shapes, PlainSteps, BatchSteps
<1>8. call' = [call EXCEPT ![c] = h]
  BY DEF InsertBatch, Goto, Continue
<1> QED
  BY <1>2, <1>3, <1>6, <1>7, <1>8, ToPlainStep

LEMMA SetBatchKeeps ==
  ASSUME DividendInv, NEW c \in Calls, NEW from \in BatchSteps, NEW to \in PlainSteps,
         NEW status, SetBatch(c, from, to, status), status # "none",
         status = "credited" => from = "credited"
  PROVE  DividendInv'
<1> PICK b : b = call[c].on
  OBVIOUS
<1>1. Knows(call[c]) /\ call[c].step = from
  BY DEF DividendInv, SetBatch, Goto, Continue
<1>2. b \in Batches /\ batch[b].status # "none" /\ (from = "credited" => Settled(b))
  BY <1>1 DEF Knows
<1> PICK new : new = [batch[b] EXCEPT !.status = status]
  OBVIOUS
<1>3. IsBatch(new) /\ new.status = status
  BY <1>2 DEF DividendInv, Shapes, IsBatch
<1>4. batch' = [batch EXCEPT ![b] = new] /\ UNCHANGED record
  BY DEF SetBatch
<1>5. DocumentsKeep(c)
  BY <1>2, <1>3, <1>4, BatchKeeps
<1> QED
  BY <1>5, GotoKeeps DEF SetBatch

LEMMA SetRecordsKeep ==
  ASSUME DividendInv, NEW c \in Calls, NEW from, NEW to \in RecordStatuses, UNCHANGED batch,
         SetRecords(c, from, to), call[c].on \in Batches,
         to = "cancelled" \/ from = {"generated"}
  PROVE  DocumentsKeep(c)
<1> PICK b : b = call[c].on
  OBVIOUS
<1> PICK new : new = [i \in Investors |->
                        IF record[b][i].status \in from THEN [record[b][i] EXCEPT !.status = to]
                        ELSE record[b][i]]
  OBVIOUS
<1>1. record' = [record EXCEPT ![b] = new] /\ new = [i \in Investors |-> new[i]]
  BY DEF SetRecords, DividendInv, Shapes
<1>2. ASSUME NEW i \in Investors
      PROVE  /\ IsRecord(new[i])
             /\ new[i].net = record[b][i].net
             /\ new[i].status \in {to, record[b][i].status}
             /\ new[i].status # record[b][i].status =>
                  record[b][i].status \in from /\ new[i].status = to
  <2>1. IsRecord(record[b][i])
    BY DEF DividendInv, Shapes
  <2> PICK r, q : r = record[b][i] /\ q = [r EXCEPT !.status = to]
    OBVIOUS
  <2>2. IsRecord(q) /\ q.net = r.net /\ q.status = to
    BY <2>1 DEF IsRecord
  <2>3. new[i] = IF r.status \in from THEN q ELSE r
    OBVIOUS
  <2> QED
    BY <2>1, <2>2, <2>3
<1>3. ASSUME NEW i \in Investors
      PROVE  /\ new[i].status \in RecordStatuses \cup {"none"}
             /\ new[i].status = "none" => new[i].net = 0
             /\ Served(b, i) => new[i].status \in {"credited", "cancelled"}
  <2>1. record[b][i].status \in RecordStatuses \cup {"none"}
        /\ (record[b][i].status = "none" => record[b][i].net = 0)
    BY DEF DividendInv, Documents
  <2> QED
    BY <1>2, <2>1 DEF Served, RecordStatuses
<1>4. Serves(b, new)
  BY <1>2, <1>3 DEF Serves
<1> QED
  BY <1>1, <1>4, RecordsKeep

LEMMA ApproveRecordsKeeps ==
  ASSUME DividendInv, NEW c \in Calls, ApproveRecords(c)
  PROVE  DividendInv'
<1>1. Knows(call[c]) /\ call[c].step = "approveRecords"
  BY DEF DividendInv, ApproveRecords
<1>2. call[c].on \in Batches
  BY <1>1 DEF Knows, BatchSteps
<1>3. DocumentsKeep(c)
  BY <1>2, SetRecordsKeep DEF ApproveRecords, RecordStatuses
<1>4. Done(c, "approveRecords", "creditRead")
  BY DEF ApproveRecords
<1> QED
  BY <1>3, <1>4, DoneKeeps DEF PlainSteps, BatchSteps

LEMMA CancelRecordsKeeps ==
  ASSUME DividendInv, NEW c \in Calls, CancelRecords(c)
  PROVE  DividendInv'
<1>1. Knows(call[c]) /\ call[c].step = "cancelRecords"
  BY DEF DividendInv, CancelRecords, Continue
<1>2. call[c].on \in Batches
  BY <1>1 DEF Knows, BatchSteps
<1>3. DocumentsKeep(c)
  BY <1>2, SetRecordsKeep DEF CancelRecords, RecordStatuses
<1> QED
  BY <1>3, ToIdle DEF CancelRecords, Continue

LEMMA MarkRecordKeeps ==
  ASSUME DividendInv, NEW c \in Calls, MarkRecord(c)
  PROVE  DividendInv'
<1> DEFINE s == IF call[c].todo = {call[c].owner} THEN "credited" ELSE "append"
<1> PICK h : h = [call[c] EXCEPT !.todo = @ \ {call[c].owner}, !.owner = None, !.step = s]
  OBVIOUS
<1> PICK b, i : b = call[c].on /\ i = call[c].owner
  OBVIOUS
<1> PICK v : v = [record[b][i] EXCEPT !.status = "credited"]
  OBVIOUS
<1> PICK new : new = [record[b] EXCEPT ![i] = v]
  OBVIOUS
<1>1. IsHandler(call[c]) /\ Knows(call[c]) /\ call[c].step = "mark"
  BY DEF DividendInv, MarkRecord
<1>2. b \in Batches /\ i \in Investors /\ batch[b].status # "none"
      /\ \A j \in Investors : record[b][j].net > 0 => j \in call[c].todo \/ Served(b, j)
  BY <1>1 DEF Knows, BatchSteps
<1>3. IsHandler(h) /\ h.step = s /\ h.on = b /\ h.todo = call[c].todo \ {i}
  BY <1>1 DEF IsHandler
<1>4. s \in {"credited", "append"} /\ (s = "credited" => call[c].todo = {i})
  OBVIOUS
<1>5. record' = [record EXCEPT ![b] = new] /\ UNCHANGED batch
      /\ call' = [call EXCEPT ![c] = h]
  BY DEF MarkRecord, Continue
<1> HIDE DEF s
<1>6. /\ record[b] = [j \in Investors |-> record[b][j]]
      /\ \A j \in Investors : IsRecord(record[b][j])
      /\ record = [d \in Batches |-> record[d]]
  BY <1>2 DEF DividendInv, Shapes
<1>7. IsRecord(v) /\ v.status = "credited" /\ v.net = record[b][i].net
  <2> PICK r : r = record[b][i]
    OBVIOUS
  <2>1. IsRecord(r) /\ v = [r EXCEPT !.status = "credited"]
    BY <1>2, <1>6
  <2>2. IsRecord(v) /\ v.status = "credited" /\ v.net = r.net
    BY <2>1 DEF IsRecord
  <2> QED
    BY <2>2
<1>8. new = [j \in Investors |-> new[j]]
      /\ new[i] = v /\ \A j \in Investors : j # i => new[j] = record[b][j]
  BY <1>2, <1>6
<1>9. Serves(b, new)
  BY <1>2, <1>6, <1>7, <1>8 DEF Serves, Served, DividendInv, Documents, RecordStatuses
<1>10. DocumentsKeep(c)
  BY <1>2, <1>5, <1>8, <1>9, RecordsKeep
<1>11. /\ record'[b] = new /\ batch'[b].status # "none"
       /\ \A j \in Investors : record'[b][j].net > 0 => j \in h.todo \/ Served(b, j)'
  BY <1>2, <1>3, <1>5, <1>6, <1>7, <1>8 DEF Served
<1>12. s = "credited" => Settled(b)'
  BY <1>3, <1>4, <1>11 DEF Settled
<1>13. h.todo \subseteq Investors
  BY <1>1, <1>3 DEF Knows
<1>14. Knows(h)'
  BY <1>2, <1>3, <1>4, <1>11, <1>12, <1>13 DEF Knows, MakingSteps, BatchSteps
<1>15. Free(c, h)
  <2>1. h.step \notin MakingSteps /\ h.on = call[c].on
    BY <1>3, <1>4 DEF MakingSteps
  <2> QED
    BY <2>1, SameBatch, Zenon
<1> QED
  BY <1>3, <1>5, <1>10, <1>14, <1>15, StepKeeps

LEMMA HandlerKeeps ==
  ASSUME DividendInv, NEW c \in Calls, Handler(c)
  PROVE  DividendInv'
<1>1. {"advance", "approveRead", "approve", "approveRecords", "creditRead", "find", "credited",
       "remit", "cancelRead", "cancel", "cancelRecords"} \subseteq BatchSteps
  BY DEF BatchSteps
<1>2. {"advance", "approveRead", "approve", "approveRecords", "creditRead", "find",
       "remit", "cancelRead", "cancel", "cancelRecords"} \subseteq PlainSteps
  BY DEF BatchSteps, PlainSteps
<1>3. CASE Fresh(c) \/ GenerateRead(c) \/ InsertRecord(c) \/ InsertBatch(c)
  BY <1>3, FreshKeeps, GenerateReadKeeps, InsertRecordKeeps, InsertBatchKeeps
<1>4. CASE AdvancePlan(c)
  BY <1>1, <1>2, <1>4, SameDocuments, DoneKeeps DEF AdvancePlan
<1>5. CASE ApproveRead(c) \/ CreditRead(c) \/ CancelRead(c)
  BY <1>1, <1>2, <1>5, ReadBatchKeeps DEF ApproveRead, CreditRead, CancelRead
<1>6. CASE ApproveBatch(c)
  BY <1>1, <1>2, <1>6, SetBatchKeeps DEF ApproveBatch
<1>7. CASE CreditBatch(c)
  BY <1>1, <1>2, <1>7, SetBatchKeeps DEF CreditBatch
<1>8. CASE CancelBatch(c)
  BY <1>1, <1>2, <1>8, SetBatchKeeps DEF CancelBatch
<1>9. CASE ApproveRecords(c) \/ CancelRecords(c)
  BY <1>9, ApproveRecordsKeeps, CancelRecordsKeeps
<1>10. CASE FindRecords(c) \/ AppendEntry(c) \/ TagEntry(c) \/ MarkRecord(c)
  BY <1>10, FindRecordsKeeps, AppendEntryKeeps, TagEntryKeeps, MarkRecordKeeps
<1>11. CASE RemitTax(c)
  BY <1>1, <1>11, SameDocuments, DoneKeeps DEF RemitTax
<1> QED
  BY <1>3, <1>4, <1>5, <1>6, <1>7, <1>8, <1>9, <1>10, <1>11 DEF Handler

LEMMA StepDividendInv ==
  ASSUME DividendInv, [Next]_vars
  PROVE  DividendInv'
<1>1. ASSUME NEW status, UpdatePlan(status) PROVE DividendInv'
  BY <1>1, UpdatePlanKeeps DEF UpdatePlan
<1>2. ASSUME NEW c \in Calls, NEW date, Generate(c, date) PROVE DividendInv'
  BY <1>2, GenerateKeeps
<1>3. ASSUME NEW c \in Calls, NEW mode, RunDuePlans(c, mode) PROVE DividendInv'
  BY <1>3, RunDuePlansKeeps
<1>4. ASSUME NEW c \in Calls, NEW b \in Batches,
             NEW step \in {"approveRead", "creditRead", "cancelRead"}, OnBatch(c, step, b)
      PROVE  DividendInv'
  BY <1>4, OnBatchKeeps
<1>5. ASSUME NEW c \in Calls, Handler(c) PROVE DividendInv'
  BY <1>5, HandlerKeeps
<1>6. CASE UNCHANGED vars
  BY <1>6, UpdatePlanKeeps DEF vars
<1> QED
  BY <1>1, <1>2, <1>3, <1>4, <1>5, <1>6 DEF Next

\* No batch is called credited, by the scheduler or by an administrator, while
\* an owner in it still waits for money, whatever approvals, credits and
\* cancellations of it overlap or die, for any owners, amounts and tax rates
\* (lumen_payouts.py, credit_batch).
THEOREM CreditedIsSettled == Spec => []NobodyIsForgotten
<1>1. ASSUME DividendInv PROVE NobodyIsForgotten
  BY <1>1 DEF DividendInv, Documents, Settled, Served, NobodyIsForgotten
<1>2. Init => DividendInv
  BY InitDividendInv
<1>3. DividendInv /\ [Next]_vars => DividendInv'
  BY StepDividendInv
<1> QED
  BY <1>1, <1>2, <1>3, PTL DEF Spec

-----------------------------------------------------------------------------
(* Calls that come one after the other.                                    *)

OneAtATime == \A c, d \in Calls : call[c] # Idle /\ call[d] # Idle => c = d

Orderly == orderly => OneAtATime

\* Handler c becomes h, and nobody else is under way.
Turn(c, h) ==
  /\ call'[c] = h
  /\ \A d \in Calls \ {c} : call[d] = Idle /\ call'[d] = Idle

LEMMA TurnIsOrderly ==
  ASSUME NEW c \in Calls, NEW h, Turn(c, h)
  PROVE  OneAtATime'
BY DEF Turn, OneAtATime

LEMMA BeginIsTurn ==
  ASSUME DividendInv, Orderly, NEW c \in Calls, NEW h, NEW ok, Begin(c, h, ok), orderly'
  PROVE  Turn(c, h) /\ call[c] = Idle /\ ok /\ orderly
BY DEF DividendInv, Begin, Quiet, Turn

LEMMA ContinueIsTurn ==
  ASSUME DividendInv, Orderly, NEW c \in Calls, NEW h, NEW from, from # "idle",
         Continue(c, from, h), orderly'
  PROVE  Turn(c, h) /\ call[c].step = from /\ orderly
<1>1. call' = [call EXCEPT ![c] = h] /\ call[c].step = from /\ orderly
  BY DEF Continue
<1>2. call[c] # Idle
  BY <1>1, IdleIs
<1>3. \A d \in Calls \ {c} : call[d] = Idle
  BY <1>1, <1>2 DEF Orderly, OneAtATime
<1> QED
  BY <1>1, <1>3 DEF DividendInv, Turn

LEMMA GotoIsTurn ==
  ASSUME DividendInv, Orderly, NEW c \in Calls, NEW from, from # "idle", NEW to,
         Goto(c, from, to), orderly'
  PROVE  \E h : /\ Turn(c, h) /\ call[c].step = from /\ orderly
                /\ IsHandler(h) /\ h.step = to /\ h.on = call[c].on /\ h.period = call[c].period
                /\ h.gross = call[c].gross /\ h.split = call[c].split
                /\ h.todo = call[c].todo /\ h.owner = call[c].owner
<1> PICK h : h = [call[c] EXCEPT !.step = to]
  OBVIOUS
<1>1. Continue(c, from, h)
  BY DEF Goto
<1>2. /\ IsHandler(h) /\ h.step = to /\ h.on = call[c].on /\ h.period = call[c].period
      /\ h.gross = call[c].gross /\ h.split = call[c].split
      /\ h.todo = call[c].todo /\ h.owner = call[c].owner
  BY DEF DividendInv, IsHandler
<1>3. Turn(c, h) /\ call[c].step = from /\ orderly
  BY <1>1, ContinueIsTurn
<1> QED
  BY <1>2, <1>3

LEMMA DoneIsTurn ==
  ASSUME DividendInv, Orderly, NEW c \in Calls, NEW from, from # "idle", NEW next,
         Done(c, from, next), orderly'
  PROVE  \E h : /\ Turn(c, h) /\ call[c].step = from /\ orderly
                /\ h = Idle \/ (h.step = next /\ h.on = call[c].on /\ h.period = 0)
<1> PICK h : h = [Idle EXCEPT !.step = next, !.mode = call[c].mode, !.on = call[c].on]
  OBVIOUS
<1>1. h.step = next /\ h.on = call[c].on /\ h.period = 0
  BY DEF Idle
<1>2. Continue(c, from, h) \/ Continue(c, from, Idle)
  BY DEF Done
<1>3. CASE Continue(c, from, h)
  BY <1>1, <1>3, ContinueIsTurn
<1>4. CASE Continue(c, from, Idle)
  BY <1>4, ContinueIsTurn
<1> QED
  BY <1>2, <1>3, <1>4

-----------------------------------------------------------------------------
(* Each period once.                                                       *)

Made == {b \in Batches : batch[b].status # "none"}

Advancing == \E c \in Calls : call[c].step = "advance"
Latest == IF Advancing THEN plan.last + 1 ELSE plan.last

InSequence ==
  /\ plan.last \in Nat
  /\ IsFiniteSet(Made) /\ Cardinality(Made) = Latest
  /\ {batch[b].period : b \in Made} = 1..Latest

\* The period of a batch is settled when the plan is read.
OnTime(h) ==
  /\ h.step \in {"fresh", "generate"} => h.period = 0
  /\ h.step \in {"records", "batch", "advance"} => h.period = plan.last + 1

PlanIs == plan = [status |-> plan.status, last |-> plan.last]

PeriodInv ==
  /\ PlanIs
  /\ orderly => OneAtATime /\ InSequence /\ \A c \in Calls : OnTime(call[c])

LEMMA InitPeriodInv == Init => PeriodInv
<1> SUFFICES ASSUME Init PROVE PeriodInv
  OBVIOUS
<1>1. \A c \in Calls : call[c] = Idle /\ call[c].step = "idle"
  BY IdleIs DEF Init
<1>2. Made = {} /\ ~Advancing
  BY <1>1 DEF Init, Made, Advancing
<1>3. IsFiniteSet({}) /\ Cardinality({}) = 0
  BY FS_EmptySet
<1>4. plan.last = 0 /\ PlanIs
  BY DEF Init, PlanIs
<1>5. {batch[b].period : b \in {}} = 1..0
  OBVIOUS
<1>6. InSequence
  BY <1>2, <1>3, <1>4, <1>5 DEF InSequence, Latest
<1> QED
  BY <1>1, <1>4, <1>6 DEF PeriodInv, OneAtATime, OnTime

\* A turn that makes no batch.
LEMMA PlainTurn ==
  ASSUME PeriodInv, orderly, NEW c \in Calls, NEW h, Turn(c, h), OnTime(h),
         call[c].step # "advance", h.step # "advance", UNCHANGED plan,
         Made' = Made, \A b \in Made : batch'[b].period = batch[b].period
  PROVE  PeriodInv'
<1>1. OneAtATime' /\ PlanIs'
  BY TurnIsOrderly DEF PeriodInv, PlanIs
<1>2. \A d \in Calls : OnTime(call[d])'
  BY IdleIs DEF Turn, OnTime
<1>3. ~Advancing /\ ~Advancing'
  BY IdleIs DEF Turn, Advancing
<1>4. Latest' = Latest
  BY <1>3 DEF Latest
<1>5. {batch'[b].period : b \in Made'} = {batch[b].period : b \in Made}
  OBVIOUS
<1>6. InSequence'
  BY <1>4, <1>5 DEF InSequence, PeriodInv
<1> QED
  BY <1>1, <1>2, <1>6 DEF PeriodInv

Timed == {"fresh", "generate", "records", "batch", "advance"}

LEMMA UntimedTurn ==
  ASSUME PeriodInv, orderly, NEW c \in Calls, NEW h, Turn(c, h), h.step \notin Timed,
         call[c].step # "advance", UNCHANGED <<plan, batch>>
  PROVE  PeriodInv'
<1>1. OnTime(h) /\ h.step # "advance" /\ Made' = Made
  BY DEF OnTime, Timed, Made
<1> QED
  BY <1>1, PlainTurn

LEMMA SetBatchSequence ==
  ASSUME DividendInv, PeriodInv, NEW c \in Calls, NEW from \in BatchSteps, NEW to, NEW s,
         SetBatch(c, from, to, s), orderly', s # "none", to \notin Timed, from # "advance"
  PROVE  PeriodInv'
<1>1. from # "idle" /\ Orderly /\ Goto(c, from, to)
  BY DEF BatchSteps, PeriodInv, Orderly, SetBatch
<1>2. PICK h : Turn(c, h) /\ call[c].step = from /\ orderly /\ h.step = to
  BY <1>1, GotoIsTurn
<1>3. call[c].on \in Batches /\ batch[call[c].on].status # "none"
  BY <1>2 DEF DividendInv, Knows
<1>4. /\ batch = [b \in Batches |-> batch[b]] /\ IsBatch(batch[call[c].on])
      /\ batch' = [batch EXCEPT ![call[c].on].status = s] /\ UNCHANGED plan
  BY <1>3 DEF DividendInv, Shapes, SetBatch
<1>5. batch'[call[c].on].status = s /\ batch'[call[c].on].period = batch[call[c].on].period
  <2> PICK v : v = batch[call[c].on]
    OBVIOUS
  <2> PICK w : w = [v EXCEPT !.status = s]
    OBVIOUS
  <2>1. w.status = s /\ w.period = v.period
    BY <1>4 DEF IsBatch
  <2>2. batch'[call[c].on] = w
    BY <1>3, <1>4
  <2> QED
    BY <2>1, <2>2
<1>6. \A b \in Batches \ {call[c].on} : batch'[b] = batch[b]
  BY <1>4
<1>7. Made' = Made /\ \A b \in Made : batch'[b].period = batch[b].period
  BY <1>3, <1>5, <1>6 DEF Made
<1>8. OnTime(h) /\ h.step # "advance"
  BY <1>2 DEF OnTime, Timed
<1> QED
  BY <1>2, <1>4, <1>7, <1>8, PlainTurn

LEMMA InsertBatchSequence ==
  ASSUME DividendInv, PeriodInv, NEW c \in Calls, InsertBatch(c), orderly'
  PROVE  PeriodInv'
<1>1. Orderly /\ Goto(c, "batch", "advance") /\ UNCHANGED plan
  BY DEF PeriodInv, Orderly, InsertBatch
<1>2. PICK h : /\ Turn(c, h) /\ call[c].step = "batch" /\ orderly
               /\ h.step = "advance" /\ h.period = call[c].period
  BY <1>1, GotoIsTurn
<1> PICK b : b = call[c].on
  OBVIOUS
<1>3. b \in Batches /\ batch[b].status = "none"
  BY <1>2 DEF DividendInv, Knows, MakingSteps
<1>4. /\ batch'[b].status = "generated" /\ batch'[b].period = call[c].period
      /\ \A d \in Batches \ {b} : batch'[d] = batch[d]
  BY <1>3 DEF DividendInv, Shapes, InsertBatch
<1>5. Made' = Made \cup {b} /\ b \notin Made
  BY <1>3, <1>4 DEF Made
<1>6. ~Advancing /\ Advancing'
  BY <1>2, IdleIs DEF Turn, Advancing
<1>7. Latest = plan.last /\ Latest' = plan.last + 1 /\ plan.last \in Nat
      /\ call[c].period = plan.last + 1
  BY <1>1, <1>2, <1>6 DEF Latest, PeriodInv, InSequence, OnTime
<1>8. IsFiniteSet(Made') /\ Cardinality(Made') = Latest'
  <2>1. IsFiniteSet(Made) /\ Cardinality(Made) = plan.last
    BY <1>2, <1>7 DEF PeriodInv, InSequence
  <2> HIDE DEF Made
  <2> QED
    BY <1>5, <1>7, <2>1, FS_AddElement
<1>9. {batch'[d].period : d \in Made'} = 1..Latest'
  <2>1. {batch[d].period : d \in Made} = 1..plan.last
    BY <1>2, <1>7 DEF PeriodInv, InSequence
  <2>2. \A d \in Made : batch'[d].period = batch[d].period
    BY <1>4, <1>5 DEF Made
  <2>3. {batch'[d].period : d \in Made \cup {b}}
          = {batch[d].period : d \in Made} \cup {plan.last + 1}
    BY <1>4, <1>7, <2>2
  <2>4. 1..(plan.last + 1) = 1..plan.last \cup {plan.last + 1}
    BY <1>7
  <2>5. {batch'[d].period : d \in Made'} = 1..plan.last \cup {plan.last + 1}
    BY <1>5, <2>1, <2>3
  <2>6. 1..Latest' = 1..(plan.last + 1)
    BY <1>7
  <2> QED
    BY <2>4, <2>5, <2>6, Zenon
<1>10. \A d \in Calls : OnTime(call[d])'
  <2>1. OnTime(call[c])'
    BY <1>1, <1>2, <1>7 DEF Turn, OnTime
  <2> QED
    BY <1>2, <2>1, IdleIs DEF Turn, OnTime
<1> QED
  BY <1>1, <1>2, <1>7, <1>8, <1>9, <1>10, TurnIsOrderly DEF PeriodInv, InSequence, PlanIs

LEMMA AdvanceSequence ==
  ASSUME DividendInv, PeriodInv, NEW c \in Calls, AdvancePlan(c), orderly'
  PROVE  PeriodInv'
<1> DEFINE next == IF call[c].mode = "credit" THEN "approveRead" ELSE "fresh"
<1>1. Orderly /\ Done(c, "advance", next) /\ UNCHANGED batch
  BY DEF PeriodInv, Orderly, AdvancePlan
<1>2. next \in {"approveRead", "fresh"}
  OBVIOUS
<1> HIDE DEF next
<1>3. PICK h : /\ Turn(c, h) /\ call[c].step = "advance" /\ orderly
               /\ h = Idle \/ (h.step = next /\ h.on = call[c].on /\ h.period = 0)
  BY <1>1, DoneIsTurn
<1>4. OnTime(h)' /\ h.step # "advance"
  BY <1>2, <1>3, IdleIs DEF OnTime
<1>5. call[c].period = plan.last + 1 /\ plan.last \in Nat
      /\ plan = [status |-> plan.status, last |-> plan.last]
  BY <1>3 DEF PeriodInv, OnTime, InSequence, PlanIs
<1>6. plan'.last = plan.last + 1 /\ PlanIs'
  BY <1>5 DEF AdvancePlan, PlanIs
<1>7. Advancing /\ ~Advancing'
  BY <1>3, <1>4, IdleIs DEF Turn, Advancing
<1>8. Latest' = Latest /\ Made' = Made
  BY <1>1, <1>6, <1>7 DEF Latest, Made
<1>9. InSequence'
  BY <1>1, <1>3, <1>5, <1>6, <1>8 DEF InSequence, PeriodInv
<1>10. \A d \in Calls : OnTime(call[d])'
  BY <1>3, <1>4, IdleIs DEF Turn, OnTime
<1> QED
  BY <1>3, <1>6, <1>9, <1>10, TurnIsOrderly DEF PeriodInv

LEMMA ReadSequence ==
  ASSUME DividendInv, PeriodInv, NEW c \in Calls, NEW from \in BatchSteps, NEW to, NEW S,
         ReadBatch(c, from, to, S), orderly', to \notin Timed, from # "advance"
  PROVE  PeriodInv'
<1>1. Orderly /\ from # "idle" /\ UNCHANGED <<plan, batch>>
  BY DEF PeriodInv, Orderly, BatchSteps, ReadBatch
<1>2. CASE batch[call[c].on].status \in S
  <2>1. Goto(c, from, to)
    BY <1>2 DEF ReadBatch, Goto, Continue
  <2>2. PICK h : Turn(c, h) /\ call[c].step = from /\ orderly /\ h.step = to
    BY <1>1, <2>1, GotoIsTurn
  <2> QED
    BY <1>1, <2>2, UntimedTurn
<1>3. CASE batch[call[c].on].status \notin S
  <2>1. Continue(c, from, Idle)
    BY <1>3 DEF ReadBatch
  <2>2. Turn(c, Idle) /\ call[c].step = from /\ orderly
    BY <1>1, <2>1, ContinueIsTurn
  <2> QED
    BY <1>1, <2>2, UntimedTurn, IdleIs DEF Timed
<1> QED
  BY <1>2, <1>3

\* Requests and runs of the scheduler that begin.
LEMMA BeginSequence ==
  ASSUME DividendInv, PeriodInv, orderly', NEW c \in Calls,
         \/ \E date \in Dates \cup {0} : Generate(c, date)
         \/ \E mode \in {"queue", "credit"} : RunDuePlans(c, mode)
         \/ \E b \in Batches, step \in {"approveRead", "creditRead", "cancelRead"} :
              OnBatch(c, step, b)
  PROVE  PeriodInv'
<1>1. Orderly /\ UNCHANGED <<plan, batch>>
  BY DEF PeriodInv, Orderly, Generate, RunDuePlans, OnBatch
<1>2. ASSUME NEW date, Generate(c, date) PROVE PeriodInv'
  <2> PICK h : h = [Idle EXCEPT !.step = "generate", !.period = date]
    OBVIOUS
  <2>1. h.step = "generate" /\ h.period = date
    BY DEF Idle
  <2>2. Begin(c, h, date = 0)
    BY <1>2 DEF Generate
  <2>3. Turn(c, h) /\ call[c] = Idle /\ date = 0 /\ orderly
    BY <1>1, <2>2, BeginIsTurn
  <2>4. OnTime(h) /\ Made' = Made
    BY <1>1, <2>1, <2>3 DEF OnTime, Made
  <2> QED
    BY <1>1, <2>1, <2>3, <2>4, PlainTurn, IdleIs
<1>3. ASSUME NEW mode, RunDuePlans(c, mode) PROVE PeriodInv'
  <2> PICK h : h = [Idle EXCEPT !.step = "fresh", !.mode = mode]
    OBVIOUS
  <2>1. h.step = "fresh" /\ h.period = 0
    BY DEF Idle
  <2>2. Begin(c, h, TRUE)
    BY <1>3 DEF RunDuePlans
  <2>3. Turn(c, h) /\ call[c] = Idle /\ orderly
    BY <1>1, <2>2, BeginIsTurn
  <2>4. OnTime(h) /\ Made' = Made
    BY <1>1, <2>1, <2>3 DEF OnTime, Made
  <2> QED
    BY <1>1, <2>1, <2>3, <2>4, PlainTurn, IdleIs
<1>4. ASSUME NEW b, NEW step \in {"approveRead", "creditRead", "cancelRead"}, OnBatch(c, step, b)
      PROVE  PeriodInv'
  <2> PICK h : h = [Idle EXCEPT !.step = step, !.on = b]
    OBVIOUS
  <2>1. h.step = step
    BY DEF Idle
  <2>2. Begin(c, h, TRUE)
    BY <1>4 DEF OnBatch
  <2>3. Turn(c, h) /\ call[c] = Idle /\ orderly
    BY <1>1, <2>2, BeginIsTurn
  <2> QED
    BY <1>1, <2>1, <2>3, UntimedTurn, IdleIs DEF Timed
<1> QED
  BY <1>2, <1>3, <1>4

LEMMA FreshSequence ==
  ASSUME DividendInv, PeriodInv, orderly', NEW c \in Calls, Fresh(c)
  PROVE  PeriodInv'
<1>1. Orderly /\ UNCHANGED <<plan, batch>>
  BY DEF PeriodInv, Orderly, Fresh
<1>2. CASE IsDue
  <2>1. Goto(c, "fresh", "generate")
    BY <1>2 DEF Fresh, Goto
  <2>2. PICK h : /\ Turn(c, h) /\ call[c].step = "fresh" /\ orderly /\ h.step = "generate"
                 /\ h.period = call[c].period
    BY <1>1, <2>1, GotoIsTurn
  <2>3. OnTime(h) /\ Made' = Made
    BY <1>1, <2>2 DEF OnTime, PeriodInv, Made
  <2> QED
    BY <1>1, <2>2, <2>3, PlainTurn
<1>3. CASE ~IsDue
  <2>1. Continue(c, "fresh", Idle)
    BY <1>3 DEF Fresh
  <2>2. Turn(c, Idle) /\ call[c].step = "fresh" /\ orderly
    BY <1>1, <2>1, ContinueIsTurn
  <2> QED
    BY <1>1, <2>2, UntimedTurn, IdleIs DEF Timed
<1> QED
  BY <1>2, <1>3

\* What generate_batch has read.
Drafts(c, h, b, amount, units) ==
  /\ batch[b].status = "none" /\ (\A d \in Calls : call[d].on # b)
  /\ Sum(units) > 0 /\ Continue(c, "generate", h) /\ IsHandler(h)
  /\ h.step = "records" /\ h.on = b /\ h.gross = amount
  /\ h.period = (IF call[c].period # 0 THEN call[c].period ELSE plan.last + 1)
  /\ h.split \in Splits(amount, units)
  /\ h.todo = {i \in Investors : units[i] > 0}

LEMMA GenerateIs ==
  ASSUME DividendInv, NEW c \in Calls, GenerateRead(c)
  PROVE  \/ Continue(c, "generate", Idle)
         \/ \E b \in Batches, amount \in Amounts, units \in Holdings :
              \E h : Drafts(c, h, b, amount, units)
<1>1. CASE plan.status = "ended"
  BY <1>1 DEF GenerateRead
<1>2. CASE plan.status # "ended"
  <2>1. PICK b \in Batches, amount \in Amounts, units \in {u \in Holdings : Sum(u) > 0} :
          /\ batch[b].status = "none" /\ \A d \in Calls : call[d].on # b
          /\ \E split \in Splits(amount, units) :
               Continue(c, "generate",
                 [call[c] EXCEPT !.step = "records", !.on = b, !.period = NextPeriod(c),
                                 !.gross = amount, !.split = split,
                                 !.todo = {i \in Investors : units[i] > 0}])
    BY <1>2, Zenon DEF GenerateRead
  <2>2. PICK split \in Splits(amount, units) :
          Continue(c, "generate",
            [call[c] EXCEPT !.step = "records", !.on = b, !.period = NextPeriod(c),
                            !.gross = amount, !.split = split,
                            !.todo = {i \in Investors : units[i] > 0}])
    BY <2>1, Zenon
  <2> PICK period, todo : period = NextPeriod(c) /\ todo = {i \in Investors : units[i] > 0}
    OBVIOUS
  <2> PICK h : h = [call[c] EXCEPT !.step = "records", !.on = b, !.period = period,
                                   !.gross = amount, !.split = split, !.todo = todo]
    OBVIOUS
  <2>3. IsHandler(call[c])
    BY DEF DividendInv
  <2>4. /\ IsHandler(h) /\ h.step = "records" /\ h.on = b /\ h.gross = amount
        /\ h.period = period /\ h.split = split /\ h.todo = todo
    BY <2>3 DEF IsHandler
  <2>5. Continue(c, "generate", h)
    BY <2>2, Zenon
  <2>6. units \in Holdings /\ Sum(units) > 0
    BY <2>1, Zenon
  <2>7. period = (IF call[c].period # 0 THEN call[c].period ELSE plan.last + 1)
    BY Zenon DEF NextPeriod
  <2>8. /\ h.period = (IF call[c].period # 0 THEN call[c].period ELSE plan.last + 1)
        /\ h.split \in Splits(amount, units) /\ h.todo = {i \in Investors : units[i] > 0}
    BY <2>2, <2>4, <2>7
  <2>9. batch[b].status = "none" /\ (\A d \in Calls : call[d].on # b)
    BY <2>1, Zenon
  <2>10. Drafts(c, h, b, amount, units)
    BY <2>4, <2>5, <2>6, <2>8, <2>9 DEF Drafts
  <2>11. units \in Holdings
    BY <2>6
  <2> QED
    BY <2>10, <2>11, Zenon
<1> QED
  BY <1>1, <1>2

LEMMA GenerateSequence ==
  ASSUME DividendInv, PeriodInv, orderly', NEW c \in Calls, GenerateRead(c)
  PROVE  PeriodInv'
<1>1. Orderly /\ UNCHANGED <<plan, batch>>
  BY DEF PeriodInv, Orderly, GenerateRead
<1>2. CASE Continue(c, "generate", Idle)
  <2>1. Turn(c, Idle) /\ call[c].step = "generate" /\ orderly
    BY <1>1, <1>2, ContinueIsTurn
  <2> QED
    BY <1>1, <2>1, UntimedTurn, IdleIs DEF Timed
<1>3. ASSUME NEW h, Continue(c, "generate", h), h.step = "records",
             h.period = (IF call[c].period # 0 THEN call[c].period ELSE plan.last + 1)
      PROVE  PeriodInv'
  <2>1. Turn(c, h) /\ call[c].step = "generate" /\ orderly
    BY <1>1, <1>3, ContinueIsTurn
  <2>2. OnTime(h) /\ Made' = Made
    BY <1>1, <1>3, <2>1 DEF OnTime, PeriodInv, Made
  <2> QED
    BY <1>1, <1>3, <2>1, <2>2, PlainTurn
<1> QED
  BY <1>2, <1>3, GenerateIs DEF Drafts

\* A record is inserted: the handler goes on with the next, or with the batch.
LEMMA InsertRecordIs ==
  ASSUME DividendInv, NEW c \in Calls, InsertRecord(c)
  PROVE  \E i \in call[c].todo : \E h :
           /\ Continue(c, "records", h) /\ IsHandler(h)
           /\ h.step = (IF call[c].todo = {i} THEN "batch" ELSE "records")
           /\ h.on = call[c].on /\ h.period = call[c].period /\ h.gross = call[c].gross
           /\ h.split = call[c].split /\ h.todo = call[c].todo \ {i}
           /\ \E tax \in Taxes(i, call[c].split[i]) :
                record' = [record EXCEPT ![call[c].on][i] =
                             [status |-> "generated", net |-> call[c].split[i] - tax,
                              tax |-> tax]]
<1>1. PICK i \in call[c].todo :
        /\ Continue(c, "records", [call[c] EXCEPT !.todo = @ \ {i},
                      !.step = IF call[c].todo = {i} THEN "batch" ELSE @])
        /\ \E tax \in Taxes(i, call[c].split[i]) :
             record' = [record EXCEPT ![call[c].on][i] =
                          [status |-> "generated", net |-> call[c].split[i] - tax, tax |-> tax]]
  BY Zenon DEF InsertRecord
<1> PICK h : h = [call[c] EXCEPT !.todo = @ \ {i},
                                 !.step = IF call[c].todo = {i} THEN "batch" ELSE @]
  OBVIOUS
<1>2. Continue(c, "records", h)
  BY <1>1, Zenon
<1>3. IsHandler(call[c]) /\ call[c].step = "records"
  BY <1>1 DEF DividendInv, Continue
<1>4. /\ IsHandler(h)
      /\ h.step = (IF call[c].todo = {i} THEN "batch" ELSE "records")
      /\ h.on = call[c].on /\ h.period = call[c].period /\ h.gross = call[c].gross
      /\ h.split = call[c].split /\ h.todo = call[c].todo \ {i}
  BY <1>3 DEF IsHandler
<1> QED
  BY <1>1, <1>2, <1>4, Zenon

LEMMA InsertRecordSequence ==
  ASSUME DividendInv, PeriodInv, orderly', NEW c \in Calls, InsertRecord(c)
  PROVE  PeriodInv'
<1>1. Orderly /\ UNCHANGED <<plan, batch>>
  BY DEF PeriodInv, Orderly, InsertRecord
<1>2. PICK h : Continue(c, "records", h) /\ h.step \in {"batch", "records"}
               /\ h.period = call[c].period
  BY InsertRecordIs
<1>3. Turn(c, h) /\ call[c].step = "records" /\ orderly
  BY <1>1, <1>2, ContinueIsTurn
<1>4. OnTime(h) /\ Made' = Made
  BY <1>1, <1>2, <1>3 DEF OnTime, PeriodInv, Made
<1> QED
  BY <1>1, <1>2, <1>3, <1>4, PlainTurn

Waiting(b) == {i \in Investors : record[b][i].status \in {"approved", "generated"}
                                 /\ record[b][i].net > 0}

LEMMA IsCall == ASSUME DividendInv, NEW c \in Calls PROVE IsHandler(call[c])
BY DEF DividendInv

LEMMA FindIs ==
  ASSUME DividendInv, NEW c \in Calls, FindRecords(c)
  PROVE  \E h : /\ Continue(c, "find", h) /\ IsHandler(h) /\ h.on = call[c].on
                /\ h.todo = Waiting(call[c].on) /\ h.step \in {"credited", "append"}
                /\ h.step = "credited" <=> h.todo = {}
<1>a. IsHandler(call[c])
  BY IsCall
<1> PICK S : S = Waiting(call[c].on)
  OBVIOUS
<1> PICK s : s = IF S = {} THEN "credited" ELSE "append"
  OBVIOUS
<1> PICK h : h = [call[c] EXCEPT !.step = s, !.todo = S]
  OBVIOUS
<1>1. Continue(c, "find", h)
  BY Zenon DEF FindRecords, Waiting
<1>2. IsHandler(h) /\ h.on = call[c].on /\ h.todo = S /\ h.step = s
  BY <1>a DEF IsHandler
<1>3. s \in {"credited", "append"} /\ (s = "credited" <=> S = {})
  OBVIOUS
<1> QED
  BY <1>1, <1>2, <1>3

LEMMA AppendIs ==
  ASSUME DividendInv, NEW c \in Calls, AppendEntry(c)
  PROVE  \E i \in call[c].todo : \E h :
           /\ Continue(c, "append", h) /\ IsHandler(h) /\ h.step = "tag"
           /\ h.on = call[c].on /\ h.todo = call[c].todo /\ h.owner = i
           /\ entries' = [entries EXCEPT ![call[c].on][i] = @ + 1]
<1>a. IsHandler(call[c])
  BY IsCall
<1>1. PICK i \in call[c].todo :
        /\ Continue(c, "append", [call[c] EXCEPT !.step = "tag", !.owner = i])
        /\ entries' = [entries EXCEPT ![call[c].on][i] = @ + 1]
  BY Zenon DEF AppendEntry
<1> PICK h : h = [call[c] EXCEPT !.step = "tag", !.owner = i]
  OBVIOUS
<1>2. /\ IsHandler(h) /\ h.step = "tag"
      /\ h.on = call[c].on /\ h.todo = call[c].todo /\ h.owner = i
  BY <1>a DEF IsHandler
<1>3. Continue(c, "append", h)
  BY <1>1
<1>4. entries' = [entries EXCEPT ![call[c].on][i] = @ + 1]
  BY <1>1
<1> QED
  BY <1>2, <1>3, <1>4

LEMMA MarkIs ==
  ASSUME DividendInv, NEW c \in Calls, MarkRecord(c)
  PROVE  \E h : /\ Continue(c, "mark", h) /\ IsHandler(h) /\ h.on = call[c].on
                /\ h.todo = call[c].todo \ {call[c].owner} /\ h.step \in {"credited", "append"}
                /\ h.step = "credited" <=> call[c].todo = {call[c].owner}
<1>a. IsHandler(call[c])
  BY IsCall
<1> PICK s : s = IF call[c].todo = {call[c].owner} THEN "credited" ELSE "append"
  OBVIOUS
<1> PICK h : h = [call[c] EXCEPT !.todo = @ \ {call[c].owner}, !.owner = None, !.step = s]
  OBVIOUS
<1>1. Continue(c, "mark", h)
  BY Zenon DEF MarkRecord
<1>2. /\ IsHandler(h) /\ h.on = call[c].on /\ h.todo = call[c].todo \ {call[c].owner}
      /\ h.step = s
  BY <1>a DEF IsHandler
<1>3. s \in {"credited", "append"} /\ (s = "credited" <=> call[c].todo = {call[c].owner})
  OBVIOUS
<1> QED
  BY <1>1, <1>2, <1>3

LEMMA CreditSequence ==
  ASSUME DividendInv, PeriodInv, orderly', NEW c \in Calls,
         FindRecords(c) \/ AppendEntry(c) \/ TagEntry(c) \/ MarkRecord(c)
  PROVE  PeriodInv'
<1>1. Orderly /\ UNCHANGED <<plan, batch>>
  BY DEF PeriodInv, Orderly, FindRecords, AppendEntry, TagEntry, MarkRecord
<1>2. \E from \in {"find", "append", "tag", "mark"} : \E h :
        Continue(c, from, h) /\ h.step \in {"credited", "append", "tag", "mark"}
  <2>1. CASE FindRecords(c)
    BY <2>1, FindIs
  <2>2. CASE AppendEntry(c)
    BY <2>2, AppendIs
  <2>3. CASE TagEntry(c)
    <3> PICK h : h = [call[c] EXCEPT !.step = "mark"]
      OBVIOUS
    <3>1. Continue(c, "tag", h) /\ h.step = "mark"
      BY <2>3, IsCall DEF TagEntry, Goto, IsHandler
    <3> QED
      BY <3>1
  <2>4. CASE MarkRecord(c)
    BY <2>4, MarkIs
  <2> QED
    BY <2>1, <2>2, <2>3, <2>4
<1>3. ASSUME NEW from \in {"find", "append", "tag", "mark"}, NEW h, Continue(c, from, h),
             h.step \in {"credited", "append", "tag", "mark"}
      PROVE  PeriodInv'
  <2>1. Turn(c, h) /\ call[c].step = from /\ orderly
    BY <1>1, <1>3, ContinueIsTurn
  <2> QED
    BY <1>1, <1>3, <2>1, UntimedTurn DEF Timed
<1> QED
  BY <1>2, <1>3

LEMMA DoneSequence ==
  ASSUME DividendInv, PeriodInv, orderly', NEW c \in Calls, NEW from \in BatchSteps,
         NEW next \in {"creditRead", "fresh"}, Done(c, from, next), from # "advance",
         UNCHANGED <<plan, batch>>
  PROVE  PeriodInv'
<1>1. Orderly /\ from # "idle"
  BY DEF PeriodInv, Orderly, BatchSteps
<1>2. PICK h : /\ Turn(c, h) /\ call[c].step = from /\ orderly
               /\ h = Idle \/ (h.step = next /\ h.on = call[c].on /\ h.period = 0)
  BY <1>1, DoneIsTurn
<1>3. OnTime(h) /\ h.step # "advance" /\ Made' = Made
  BY <1>2, IdleIs DEF OnTime, Made
<1> QED
  BY <1>2, <1>3, PlainTurn

LEMMA CancelRecordsSequence ==
  ASSUME DividendInv, PeriodInv, orderly', NEW c \in Calls, CancelRecords(c)
  PROVE  PeriodInv'
<1>1. Orderly /\ UNCHANGED <<plan, batch>>
  BY DEF PeriodInv, Orderly, CancelRecords
<1>2. Continue(c, "cancelRecords", Idle)
  BY DEF CancelRecords
<1>3. Turn(c, Idle) /\ call[c].step = "cancelRecords" /\ orderly
  BY <1>1, <1>2, ContinueIsTurn
<1> QED
  BY <1>1, <1>3, UntimedTurn, IdleIs DEF Timed

LEMMA HandlerSequence ==
  ASSUME DividendInv, PeriodInv, orderly', NEW c \in Calls, Handler(c)
  PROVE  PeriodInv'
<1>1. {"approveRead", "approve", "approveRecords", "creditRead", "find", "credited", "remit",
       "cancelRead", "cancel", "cancelRecords"} \subseteq BatchSteps \ {"advance"}
  BY DEF BatchSteps
<1>2. {"approve", "approveRecords", "find", "remit", "cancel", "cancelRecords"} \cap Timed = {}
  BY DEF Timed
<1>3. CASE Fresh(c) \/ GenerateRead(c) \/ InsertRecord(c) \/ InsertBatch(c) \/ AdvancePlan(c)
  BY <1>3, FreshSequence, GenerateSequence, InsertRecordSequence, InsertBatchSequence,
     AdvanceSequence
<1>4. CASE ApproveRead(c) \/ CreditRead(c) \/ CancelRead(c)
  BY <1>1, <1>2, <1>4, ReadSequence DEF ApproveRead, CreditRead, CancelRead
<1>5. CASE ApproveBatch(c)
  BY <1>1, <1>2, <1>5, SetBatchSequence DEF ApproveBatch
<1>6. CASE CreditBatch(c)
  BY <1>1, <1>2, <1>6, SetBatchSequence DEF CreditBatch
<1>7. CASE CancelBatch(c)
  BY <1>1, <1>2, <1>7, SetBatchSequence DEF CancelBatch
<1>8. CASE ApproveRecords(c)
  <2>1. Done(c, "approveRecords", "creditRead") /\ UNCHANGED <<plan, batch>>
    BY <1>8 DEF ApproveRecords
  <2> QED
    BY <1>1, <2>1, DoneSequence
<1>9. CASE FindRecords(c) \/ AppendEntry(c) \/ TagEntry(c) \/ MarkRecord(c)
  BY <1>9, CreditSequence
<1>10. CASE RemitTax(c)
  <2>1. Done(c, "remit", "fresh") /\ UNCHANGED <<plan, batch>>
    BY <1>10 DEF RemitTax
  <2> QED
    BY <1>1, <2>1, DoneSequence
<1>11. CASE CancelRecords(c)
  BY <1>11, CancelRecordsSequence
<1> QED
  BY <1>3, <1>4, <1>5, <1>6, <1>7, <1>8, <1>9, <1>10, <1>11 DEF Handler

LEMMA StepPeriodInv ==
  ASSUME DividendInv, PeriodInv, [Next]_vars
  PROVE  PeriodInv'
<1>1. ASSUME NEW status, UpdatePlan(status) PROVE PeriodInv'
  <2>1. plan' = [plan EXCEPT !.status = status] /\ UNCHANGED <<batch, call, orderly>>
    BY <1>1 DEF UpdatePlan
  <2>2. PlanIs' /\ plan'.last = plan.last
    BY <2>1 DEF PeriodInv, PlanIs
  <2>3. Latest' = Latest /\ Made' = Made
    BY <2>1, <2>2 DEF Latest, Advancing, Made
  <2>4. InSequence => InSequence'
    BY <2>1, <2>2, <2>3 DEF InSequence
  <2> QED
    BY <2>1, <2>2, <2>4 DEF PeriodInv, OneAtATime, OnTime
<1>2. CASE UNCHANGED vars
  BY <1>2 DEF vars, PeriodInv, PlanIs, OneAtATime, InSequence, Latest, Advancing, Made, OnTime
<1>3. ASSUME NEW c \in Calls,
             \/ \E date \in Dates \cup {0} : Generate(c, date)
             \/ \E mode \in {"queue", "credit"} : RunDuePlans(c, mode)
             \/ \E b \in Batches, step \in {"approveRead", "creditRead", "cancelRead"} :
                  OnBatch(c, step, b)
             \/ Handler(c)
      PROVE  PeriodInv'
  <2>1. CASE orderly'
    BY <1>3, <2>1, BeginSequence, HandlerSequence
  <2>2. CASE ~orderly'
    <3>1. PlanIs'
      <4>1. UNCHANGED plan \/ AdvancePlan(c)
        BY <1>3 DEF Generate, RunDuePlans, OnBatch, Handler, Fresh, GenerateRead, InsertRecord,
             InsertBatch, ApproveRead, ApproveBatch, ApproveRecords, CreditRead, FindRecords,
             AppendEntry, TagEntry, MarkRecord, CreditBatch, RemitTax, CancelRead, CancelBatch,
             CancelRecords, SetBatch, ReadBatch
      <4> QED
        BY <4>1 DEF PeriodInv, PlanIs, AdvancePlan
    <3> QED
      BY <2>2, <3>1 DEF PeriodInv
  <2> QED
    BY <2>1, <2>2
<1> QED
  BY <1>1, <1>2, <1>3 DEF Next

\* "Idempotent per period" (lumen_payouts.py:581): as long as calls come one
\* after the other and nobody names a period, the plan's periods are generated
\* one after the other and once each, by the scheduler and by requests, for any
\* number of periods and batches.
THEOREM PeriodsComeOnce == Spec => []PeriodsInSequence
<1>1. ASSUME PeriodInv PROVE PeriodsInSequence
  <2> SUFFICES ASSUME orderly, Quiet
               PROVE  {batch[b].period : b \in Made} = 1..plan.last
                      /\ Cardinality(Made) = plan.last
    BY DEF PeriodsInSequence, Made
  <2>1. ~Advancing
    BY IdleIs DEF Quiet, Advancing
  <2> QED
    BY <1>1, <2>1 DEF PeriodInv, InSequence, Latest
<1>2. Init => PeriodInv
  BY InitPeriodInv
<1>3. DividendInv /\ PeriodInv /\ [Next]_vars => PeriodInv'
  BY StepPeriodInv
<1>4. Init => DividendInv
  BY InitDividendInv
<1>5. DividendInv /\ [Next]_vars => DividendInv'
  BY StepDividendInv
<1> QED
  BY <1>1, <1>2, <1>3, <1>4, <1>5, PTL DEF Spec

-----------------------------------------------------------------------------
(* What a batch splits, withholds and pays.                                *)

LEMMA SumIs == ASSUME NEW f PROVE Sum(f) = SumOver(f, Investors)
BY DEF Sum, SumOver

LEMMA NearestIsNatural ==
  ASSUME NEW n \in Nat, NEW d \in Nat \ {0}, NEW k \in Nearest(n, d)
  PROVE  k \in Nat /\ (n = 0 => k = 0)
<1>1. n \div d \in Nat /\ (n = 0 => n \div d = 0 /\ n % d = 0)
  OBVIOUS
<1>2. k \in {n \div d, (n \div d) + 1}
  BY DEF Nearest
<1>3. n = 0 /\ k # n \div d => 2 * (n % d) >= d
  BY DEF Nearest
<1> QED
  BY <1>1, <1>2, <1>3

\* The shares of a split add up to the amount, and who owns nothing has none.
LEMMA SplitsAddUp ==
  ASSUME NEW amount \in Amounts, NEW units \in Holdings, Sum(units) > 0,
         NEW split \in Splits(amount, units)
  PROVE  /\ split \in [Investors -> Int] /\ Sum(split) = amount
         /\ \A i \in Investors : ~(units[i] > 0) => split[i] = 0
<1> DEFINE shares == [i \in Investors |-> Nearest(amount * units[i], Sum(units))]
           rounded == {f \in [Investors -> UNION {shares[i] : i \in Investors}] :
                         \A i \in Investors : f[i] \in shares[i]}
           largest == {i \in Investors : \A j \in Investors : units[j] <= units[i]}
<1>1. PICK f \in rounded, i \in largest : split = [f EXCEPT ![i] = @ + amount - Sum(f)]
  BY DEF Splits
<1>2. /\ IsFiniteSet(Investors) /\ amount \in Nat
      /\ \A j \in Investors : units[j] \in Nat
  BY DividendConstants
<1>3. Sum(units) \in Nat \ {0}
  BY <1>2, SumIs, SumNatural
<1>4. \A j \in Investors : amount * units[j] \in Nat /\ (units[j] = 0 => amount * units[j] = 0)
  BY <1>2
<1>5. \A j \in Investors : f[j] \in Nat /\ (units[j] = 0 => f[j] = 0)
  <2> SUFFICES ASSUME NEW j \in Investors PROVE f[j] \in Nat /\ (units[j] = 0 => f[j] = 0)
    OBVIOUS
  <2>1. f[j] \in Nearest(amount * units[j], Sum(units))
    BY <1>1
  <2> PICK n, d : n = amount * units[j] /\ d = Sum(units)
    OBVIOUS
  <2>2. n \in Nat /\ d \in Nat \ {0} /\ f[j] \in Nearest(n, d) /\ (units[j] = 0 => n = 0)
    BY <1>3, <1>4, <2>1
  <2> HIDE DEF shares, rounded, largest
  <2> QED
    BY <2>2, NearestIsNatural
<1>6. f = [j \in Investors |-> f[j]] /\ i \in Investors
  BY <1>1
<1>7. \A j \in Investors : units[j] <= units[i]
  BY <1>1
<1> HIDE DEF shares, rounded, largest
<1>8. Sum(f) \in Int
  BY <1>2, <1>5, SumIs, SumNatural
<1>9. split \in [Investors -> Int] /\ split[i] = f[i] + amount - Sum(f)
      /\ \A j \in Investors \ {i} : split[j] = f[j]
  BY <1>1, <1>2, <1>5, <1>6, <1>8
<1>10. Sum(split) = amount
  <2>1. \A j \in Investors : f[j] \in Int /\ split[j] \in Int
    BY <1>5, <1>9
  <2>2. SumOver(split, Investors) = SumOver(f, Investors) - f[i] + split[i]
    BY <1>2, <1>6, <1>9, <2>1, SumChange
  <2>3. Sum(split) = Sum(f) - f[i] + split[i]
    BY <2>2, SumIs
  <2> QED
    BY <1>2, <1>6, <1>8, <1>9, <2>1, <2>3
<1>11. units[i] > 0
  <2> SUFFICES ASSUME ~(units[i] > 0) PROVE FALSE
    OBVIOUS
  <2>1. \A j \in Investors : units[j] = 0
    BY <1>2, <1>6, <1>7
  <2>2. SumOver(units, Investors) = 0
    BY <1>2, <2>1, SumZero
  <2> QED
    BY <1>3, <2>2, SumIs
<1>12. \A j \in Investors : ~(units[j] > 0) => split[j] = 0
  BY <1>2, <1>5, <1>6, <1>9, <1>11
<1> QED
  BY <1>9, <1>10, <1>12

LEMMA TaxIsNatural ==
  ASSUME NEW i, NEW gross \in Int, NEW tax \in Taxes(i, gross)
  PROVE  tax \in Nat
<1>1. CASE i \in Exempt \/ gross <= 0
  BY <1>1 DEF Taxes
<1>2. CASE ~(i \in Exempt \/ gross <= 0)
  <2>1. PICK p \in Nearest(gross * Pdfo, 1000), v \in Nearest(gross * Vz, 1000) : tax = p + v
    BY <1>2 DEF Taxes
  <2> PICK m, n : m = gross * Pdfo /\ n = gross * Vz
    OBVIOUS
  <2>2. gross \in Nat /\ Pdfo \in Nat /\ Vz \in Nat
    BY <1>2, DividendConstants
  <2>3. m \in Nat /\ n \in Nat
    BY <2>2
  <2>4. p \in Nat /\ v \in Nat
    BY <2>1, <2>3, NearestIsNatural
  <2> QED
    BY <2>1, <2>4
<1> QED
  BY <1>1, <1>2

-----------------------------------------------------------------------------
(* The types.                                                              *)

Handlers == [step : Steps, mode : {"one", "queue", "credit"}, on : Batches \cup {None},
             period : Nat, gross : Nat, split : [Investors -> Int], todo : SUBSET Investors,
             owner : Investors \cup {None}]
Records == [status : RecordStatuses \cup {"none"}, net : Int, tax : Int]

\* Writing to one entry of a function, or of a table, keeps its type.
LEMMA PutOne ==
  ASSUME NEW S, NEW T, NEW f \in [S -> T], NEW a, NEW v, a \in S => v \in T
  PROVE  [f EXCEPT ![a] = v] \in [S -> T]
OBVIOUS

LEMMA PutTwo ==
  ASSUME NEW S, NEW U, NEW T, NEW f \in [S -> [U -> T]], NEW a, NEW b, NEW v,
         a \in S /\ b \in U => v \in T
  PROVE  [f EXCEPT ![a][b] = v] \in [S -> [U -> T]]
<1>1. a \in S => [f[a] EXCEPT ![b] = v] \in [U -> T]
  <2> SUFFICES ASSUME a \in S PROVE [f[a] EXCEPT ![b] = v] \in [U -> T]
    OBVIOUS
  <2>1. f[a] \in [U -> T] /\ (b \in U => v \in T)
    OBVIOUS
  <2> QED
    BY <2>1, PutOne
<1> PICK g : g = [f[a] EXCEPT ![b] = v]
  OBVIOUS
<1> PICK V : V = [U -> T]
  OBVIOUS
<1>2. a \in S => g \in V
  BY <1>1
<1>3. f \in [S -> V]
  OBVIOUS
<1>4. [f EXCEPT ![a] = g] \in [S -> V]
  BY ONLY <1>2, <1>3, PutOne
<1> QED
  BY <1>4

LEMMA HandlerTypes ==
  ASSUME NEW h \in Handlers
  PROVE  /\ h.step \in Steps /\ h.mode \in {"one", "queue", "credit"} /\ h.on \in Batches \cup {None}
         /\ h.period \in Nat /\ h.gross \in Nat /\ h.split \in [Investors -> Int]
         /\ h.todo \in SUBSET Investors /\ h.owner \in Investors \cup {None}
BY DEF Handlers

LEMMA IdleTypes ==
  ASSUME NEW step \in Steps, NEW mode \in {"one", "queue", "credit"},
         NEW on \in Batches \cup {None}, NEW period \in Nat
  PROVE  /\ Idle \in Handlers
         /\ [Idle EXCEPT !.step = step, !.mode = mode, !.on = on] \in Handlers
         /\ [Idle EXCEPT !.step = step, !.period = period] \in Handlers
         /\ [Idle EXCEPT !.step = step, !.on = on] \in Handlers
         /\ [Idle EXCEPT !.step = step, !.mode = mode] \in Handlers
<1>1. Idle \in Handlers
  <2>1. [i \in Investors |-> 0] \in [Investors -> Int]
    OBVIOUS
  <2> QED
    BY <2>1 DEF Idle, Handlers, Steps
<1> QED
  BY <1>1 DEF Handlers

LEMMA CallTypes ==
  ASSUME TypeOK, NEW c \in Calls, NEW h \in Handlers, call' = [call EXCEPT ![c] = h]
  PROVE  call' \in [Calls -> Handlers]
BY DEF TypeOK, Handlers

LEMMA BeginTypes ==
  ASSUME TypeOK, NEW c \in Calls, NEW h \in Handlers, NEW ok \in BOOLEAN, Begin(c, h, ok)
  PROVE  call' \in [Calls -> Handlers] /\ orderly' \in BOOLEAN
<1>1. orderly' = (orderly /\ Quiet /\ ok)
  BY DEF Begin
<1> QED
  BY <1>1, CallTypes DEF Begin

LEMMA ContinueTypes ==
  ASSUME TypeOK, NEW c \in Calls, NEW h \in Handlers, NEW from, Continue(c, from, h)
  PROVE  call' \in [Calls -> Handlers] /\ orderly' \in BOOLEAN
BY CallTypes DEF Continue, TypeOK

LEMMA GotoTypes ==
  ASSUME TypeOK, NEW c \in Calls, NEW from, NEW to \in Steps, Goto(c, from, to)
  PROVE  call' \in [Calls -> Handlers] /\ orderly' \in BOOLEAN
<1>1. call[c] \in Handlers
  BY DEF TypeOK, Handlers
<1>2. [call[c] EXCEPT !.step = to] \in Handlers
  BY <1>1 DEF Handlers
<1> QED
  BY <1>2, ContinueTypes DEF Goto

LEMMA DoneTypes ==
  ASSUME TypeOK, NEW c \in Calls, NEW from, NEW to \in Steps, Done(c, from, to)
  PROVE  call' \in [Calls -> Handlers] /\ orderly' \in BOOLEAN
<1> PICK h : h = IF call[c].mode = "one" THEN Idle
                 ELSE [Idle EXCEPT !.step = to, !.mode = call[c].mode, !.on = call[c].on]
  OBVIOUS
<1>1. call[c].mode \in {"one", "queue", "credit"} /\ call[c].on \in Batches \cup {None}
  BY DEF TypeOK
<1>2. h \in Handlers
  BY <1>1, IdleTypes
<1>3. Continue(c, from, h)
  BY DEF Done
<1> QED
  BY <1>2, <1>3, ContinueTypes

\* Whatever a handler does, it keeps its own type; the actions that write the
\* records are the only ones about which there is more to say.
LEMMA HandlerStepTypes ==
  ASSUME TypeOK, NEW c \in Calls, Handler(c)
  PROVE  call' \in [Calls -> Handlers] /\ orderly' \in BOOLEAN
<1> PICK k : k = call[c]
  OBVIOUS
<1>0. k \in Handlers
  BY DEF TypeOK, Handlers
<1>1. CASE Fresh(c)
  <2> PICK h : h = IF IsDue THEN [k EXCEPT !.step = "generate"] ELSE Idle
    OBVIOUS
  <2>1. h \in Handlers
    <3>1. Idle \in Handlers
      BY IdleTypes DEF Steps
    <3>2. [k EXCEPT !.step = "generate"] \in Handlers
      BY ONLY <1>0 DEF Handlers, Steps
    <3> QED
      BY <3>1, <3>2
  <2> QED
    BY <1>1, <2>1, ContinueTypes DEF Fresh
<1>2. CASE GenerateRead(c)
  <2>1. CASE Continue(c, "generate", Idle)
    BY <2>1, IdleTypes, ContinueTypes DEF Steps
  <2>2. CASE plan.status # "ended"
    <3>1. PICK b \in Batches, amount \in Amounts, units \in {u \in Holdings : Sum(u) > 0} :
            \E split \in Splits(amount, units) :
              Continue(c, "generate",
                [call[c] EXCEPT !.step = "records", !.on = b, !.period = NextPeriod(c),
                                !.gross = amount, !.split = split,
                                !.todo = {i \in Investors : units[i] > 0}])
      BY <1>2, <2>2, Zenon DEF GenerateRead
    <3>2. PICK split \in Splits(amount, units) :
            Continue(c, "generate",
              [call[c] EXCEPT !.step = "records", !.on = b, !.period = NextPeriod(c),
                              !.gross = amount, !.split = split,
                              !.todo = {i \in Investors : units[i] > 0}])
      BY <3>1, Zenon
    <3> PICK period, todo : period = NextPeriod(c) /\ todo = {i \in Investors : units[i] > 0}
      OBVIOUS
    <3>3. PICK h : h = [k EXCEPT !.step = "records", !.on = b, !.period = period,
                                 !.gross = amount, !.split = split, !.todo = todo]
      OBVIOUS
    <3>4. split \in [Investors -> Int]
      BY SplitsAddUp
    <3>5. amount \in Nat /\ todo \in SUBSET Investors
      BY DividendConstants
    <3>6. period \in Nat
      BY DEF NextPeriod, TypeOK
    <3>7. h \in Handlers
      BY ONLY <1>0, <3>3, <3>4, <3>5, <3>6, b \in Batches DEF Handlers, Steps
    <3>8. Continue(c, "generate", h)
      BY <3>2, <3>3, Zenon
    <3> QED
      BY <3>7, <3>8, ContinueTypes
  <2> QED
    BY <1>2, <2>1, <2>2 DEF GenerateRead
<1>3. CASE InsertRecord(c)
  <2>1. PICK i \in call[c].todo :
          Continue(c, "records", [call[c] EXCEPT !.todo = @ \ {i},
                     !.step = IF call[c].todo = {i} THEN "batch" ELSE @])
    BY <1>3 DEF InsertRecord
  <2>2. PICK h : h = [k EXCEPT !.todo = k.todo \ {i},
                               !.step = IF k.todo = {i} THEN "batch" ELSE k.step]
    OBVIOUS
  <2>3. h \in Handlers
    BY ONLY <1>0, <2>2 DEF Handlers, Steps
  <2> QED
    BY <2>1, <2>2, <2>3, ContinueTypes
<1>4. CASE AdvancePlan(c) \/ ApproveRecords(c) \/ RemitTax(c)
  BY <1>4, DoneTypes DEF AdvancePlan, ApproveRecords, RemitTax, Steps
<1>5. CASE InsertBatch(c) \/ ApproveBatch(c) \/ CreditBatch(c) \/ CancelBatch(c) \/ TagEntry(c)
  BY <1>5, GotoTypes
  DEF InsertBatch, ApproveBatch, CreditBatch, CancelBatch, SetBatch, TagEntry, Steps
<1>6. CASE ApproveRead(c) \/ CreditRead(c) \/ CancelRead(c)
  <2>1. ASSUME NEW from, NEW to \in Steps, NEW S, ReadBatch(c, from, to, S)
        PROVE  call' \in [Calls -> Handlers] /\ orderly' \in BOOLEAN
    <3> PICK h : h = IF batch[k.on].status \in S THEN [k EXCEPT !.step = to] ELSE Idle
      OBVIOUS
    <3>1. h \in Handlers
      <4>1. Idle \in Handlers
        BY IdleTypes DEF Steps
      <4>2. [k EXCEPT !.step = to] \in Handlers
        BY ONLY <1>0, to \in Steps DEF Handlers
      <4> QED
        BY <4>1, <4>2
    <3> QED
      BY <2>1, <3>1, ContinueTypes DEF ReadBatch
  <2> QED
    BY <1>6, <2>1 DEF ApproveRead, CreditRead, CancelRead, Steps
<1>7. CASE FindRecords(c)
  <2> PICK S : S = {i \in Investors : record[k.on][i].status \in {"approved", "generated"}
                                      /\ record[k.on][i].net > 0}
    OBVIOUS
  <2>1. PICK h : h = [k EXCEPT !.step = IF S = {} THEN "credited" ELSE "append", !.todo = S]
    OBVIOUS
  <2>2. S \in SUBSET Investors
    OBVIOUS
  <2>3. h \in Handlers
    BY ONLY <1>0, <2>1, <2>2 DEF Handlers, Steps
  <2>4. Continue(c, "find", h)
    BY <1>7, <2>1 DEF FindRecords
  <2> QED
    BY <2>3, <2>4, ContinueTypes
<1>8. CASE AppendEntry(c)
  <2>1. PICK i \in call[c].todo :
          Continue(c, "append", [call[c] EXCEPT !.step = "tag", !.owner = i])
    BY <1>8 DEF AppendEntry
  <2>2. PICK h : h = [k EXCEPT !.step = "tag", !.owner = i]
    OBVIOUS
  <2>3. i \in Investors
    BY <1>0, HandlerTypes
  <2>4. h \in Handlers
    BY ONLY <1>0, <2>2, <2>3 DEF Handlers, Steps
  <2> QED
    BY <2>1, <2>2, <2>4, ContinueTypes
<1>9. CASE MarkRecord(c)
  <2>1. PICK h : h = [k EXCEPT !.todo = k.todo \ {k.owner}, !.owner = None,
                               !.step = IF k.todo = {k.owner} THEN "credited" ELSE "append"]
    OBVIOUS
  <2>2. h \in Handlers
    BY ONLY <1>0, <2>1 DEF Handlers, Steps
  <2>3. Continue(c, "mark", h)
    BY <1>9, <2>1 DEF MarkRecord
  <2> QED
    BY <2>2, <2>3, ContinueTypes
<1>10. CASE CancelRecords(c)
  BY <1>10, IdleTypes, ContinueTypes DEF CancelRecords, Steps
<1> QED
  BY <1>1, <1>2, <1>3, <1>4, <1>5, <1>6, <1>7, <1>8, <1>9, <1>10 DEF Handler

\* A record that is inserted splits an integer into a net amount and a tax; the
\* other actions change statuses.
LEMMA DocumentStepTypes ==
  ASSUME TypeOK, NEW c \in Calls, Handler(c)
  PROVE  /\ plan' \in [status : PlanStatuses, last : Nat]
         /\ batch' \in [Batches -> [status : BatchStatuses \cup {"none"}, period : Nat, gross : Nat]]
         /\ record' \in [Batches -> [Investors -> Records]]
<1> PICK k : k = call[c]
  OBVIOUS
<1>0. k \in Handlers
  BY DEF TypeOK, Handlers
<1>1. record \in [Batches -> [Investors -> Records]]
  BY DEF TypeOK, Records
<1>2. CASE InsertRecord(c)
  <2>1. PICK i \in k.todo : \E tax \in Taxes(i, k.split[i]) :
          record' = [record EXCEPT ![k.on][i] = [status |-> "generated", net |-> k.split[i] - tax,
                                                 tax |-> tax]]
    BY <1>2 DEF InsertRecord
  <2>2. PICK tax \in Taxes(i, k.split[i]) :
          record' = [record EXCEPT ![k.on][i] = [status |-> "generated", net |-> k.split[i] - tax,
                                                 tax |-> tax]]
    BY <2>1
  <2>3. i \in Investors /\ k.split[i] \in Int
    BY <1>0, HandlerTypes
  <2>4. tax \in Nat
    BY <2>3, TaxIsNatural
  <2>5. PICK new : new = [status |-> "generated", net |-> k.split[i] - tax, tax |-> tax]
    OBVIOUS
  <2>6. new \in Records
    BY <2>3, <2>4, <2>5 DEF Records, RecordStatuses
  <2>7. record' = [record EXCEPT ![k.on][i] = new]
    BY <2>2, <2>5
  <2>8. record' \in [Batches -> [Investors -> Records]]
    BY ONLY <1>1, <2>6, <2>7
  <2> QED
    BY <1>2, <2>8 DEF InsertRecord, TypeOK
<1>3. CASE InsertBatch(c)
  <2>1. k.period \in Nat /\ k.gross \in Nat
    BY <1>0, HandlerTypes
  <2>2. PICK new : new = [status |-> "generated", period |-> k.period, gross |-> k.gross]
    OBVIOUS
  <2>3. new \in [status : BatchStatuses \cup {"none"}, period : Nat, gross : Nat]
    BY <2>1, <2>2 DEF BatchStatuses, RecordStatuses
  <2>4. batch' = [batch EXCEPT ![k.on] = new] /\ plan' = plan /\ record' = record
    BY <1>3, <2>2 DEF InsertBatch
  <2> QED
    BY <1>1, <2>3, <2>4 DEF TypeOK
<1>4. CASE AdvancePlan(c)
  <2>1. k.period \in Nat
    BY <1>0, HandlerTypes
  <2> QED
    BY <1>1, <1>4, <2>1 DEF AdvancePlan, TypeOK
<1>5. ASSUME NEW from, NEW to, NEW status \in BatchStatuses, SetBatch(c, from, to, status)
      PROVE  /\ plan' = plan /\ record' = record
             /\ batch' \in [Batches -> [status : BatchStatuses \cup {"none"}, period : Nat,
                                        gross : Nat]]
  <2>1. PICK T : T = [status : BatchStatuses \cup {"none"}, period : Nat, gross : Nat]
    OBVIOUS
  <2>2. batch \in [Batches -> T]
    BY <2>1 DEF TypeOK
  <2>3. batch' = [batch EXCEPT ![k.on] = [batch[k.on] EXCEPT !.status = status]]
    BY <1>5 DEF SetBatch
  <2>4. k.on \in Batches => [batch[k.on] EXCEPT !.status = status] \in T
    <3> SUFFICES ASSUME k.on \in Batches PROVE [batch[k.on] EXCEPT !.status = status] \in T
      OBVIOUS
    <3>1. batch[k.on] \in T
      BY ONLY <2>2, k.on \in Batches
    <3> QED
      BY ONLY <2>1, <3>1, status \in BatchStatuses
  <2>5. batch' \in [Batches -> T]
    BY ONLY <2>2, <2>3, <2>4, PutOne
  <2> QED
    BY <1>5, <2>1, <2>5 DEF SetBatch
<1>6. CASE ApproveBatch(c) \/ CreditBatch(c) \/ CancelBatch(c)
  BY <1>1, <1>5, <1>6
  DEF ApproveBatch, CreditBatch, CancelBatch, TypeOK, BatchStatuses, RecordStatuses
<1>7. ASSUME NEW from, NEW to \in RecordStatuses, SetRecords(c, from, to)
      PROVE  record' \in [Batches -> [Investors -> Records]]
  <2>1. PICK f : f = [i \in Investors |-> IF record[k.on][i].status \in from
                                          THEN [record[k.on][i] EXCEPT !.status = to]
                                          ELSE record[k.on][i]]
    OBVIOUS
  <2>2. k.on \in Batches => f \in [Investors -> Records]
    <3> SUFFICES ASSUME k.on \in Batches PROVE f \in [Investors -> Records]
      OBVIOUS
    <3>1. ASSUME NEW i \in Investors
          PROVE  /\ record[k.on][i] \in Records
                 /\ [record[k.on][i] EXCEPT !.status = to] \in Records
      <4>1. record[k.on][i] \in Records
        BY ONLY <1>1, k.on \in Batches, i \in Investors
      <4> QED
        BY ONLY <4>1, to \in RecordStatuses DEF Records
    <3> QED
      BY ONLY <2>1, <3>1
  <2>3. record' = [record EXCEPT ![k.on] = f]
    BY <1>7, <2>1 DEF SetRecords
  <2> QED
    BY ONLY <1>1, <2>2, <2>3
<1>8. CASE ApproveRecords(c) \/ CancelRecords(c)
  BY <1>7, <1>8 DEF ApproveRecords, CancelRecords, TypeOK, RecordStatuses
<1>9. CASE MarkRecord(c)
  <2>1. record' = [record EXCEPT ![k.on][k.owner].status = "credited"]
        /\ plan' = plan /\ batch' = batch
    BY <1>9 DEF MarkRecord
  <2>2. record' \in [Batches -> [Investors -> Records]]
    <3>1. k.on \in Batches /\ k.owner \in Investors
            => [record[k.on][k.owner] EXCEPT !.status = "credited"] \in Records
      <4> SUFFICES ASSUME k.on \in Batches, k.owner \in Investors
                   PROVE  [record[k.on][k.owner] EXCEPT !.status = "credited"] \in Records
        OBVIOUS
      <4>1. record[k.on][k.owner] \in Records
        BY ONLY <1>1, k.on \in Batches, k.owner \in Investors
      <4> QED
        BY ONLY <4>1 DEF Records, RecordStatuses
    <3>2. PICK new : new = [record[k.on][k.owner] EXCEPT !.status = "credited"]
      OBVIOUS
    <3>3. record' = [record EXCEPT ![k.on][k.owner] = new]
      BY ONLY <2>1, <3>2
    <3>4. k.on \in Batches /\ k.owner \in Investors => new \in Records
      BY ONLY <3>1, <3>2
    <3>5. [record EXCEPT ![k.on][k.owner] = new] \in [Batches -> [Investors -> Records]]
      BY ONLY <1>1, <3>4, PutTwo, Zenon
    <3> QED
      BY ONLY <3>3, <3>5
  <2> QED
    BY <2>1, <2>2 DEF TypeOK
<1>10. CASE UNCHANGED <<plan, batch, record>>
  BY <1>1, <1>10 DEF TypeOK
<1> QED
  BY <1>2, <1>3, <1>4, <1>6, <1>8, <1>9, <1>10
  DEF Handler, Fresh, GenerateRead, ApproveRead, CreditRead, CancelRead, ReadBatch, FindRecords,
      AppendEntry, TagEntry, RemitTax

LEMMA LedgerStepTypes ==
  ASSUME TypeOK, DividendInv, NEW c \in Calls, Handler(c)
  PROVE  /\ entries' \in [Batches -> [Investors -> Nat]]
         /\ tagged' \in [Batches -> [Investors -> Nat]]
         /\ remitted' \in [Batches -> Nat]
         /\ lapsed' \subseteq Batches
<1> PICK b : b = call[c].on
  OBVIOUS
<1>0. ASSUME NEW f \in [Batches -> [Investors -> Nat]], NEW i
      PROVE  [f EXCEPT ![b][i] = @ + 1] \in [Batches -> [Investors -> Nat]]
  <2>1. b \in Batches /\ i \in Investors => f[b][i] + 1 \in Nat
    <3> SUFFICES ASSUME b \in Batches, i \in Investors PROVE f[b][i] + 1 \in Nat
      OBVIOUS
    <3>1. f[b][i] \in Nat
      BY ONLY f \in [Batches -> [Investors -> Nat]], b \in Batches, i \in Investors
    <3> QED
      BY ONLY <3>1
  <2>2. PICK n : n = f[b][i] + 1
    OBVIOUS
  <2>3. b \in Batches /\ i \in Investors => n \in Nat
    BY ONLY <2>1, <2>2
  <2>4. [f EXCEPT ![b][i] = n] \in [Batches -> [Investors -> Nat]]
    BY ONLY <2>3, f \in [Batches -> [Investors -> Nat]], PutTwo, Zenon
  <2> QED
    BY ONLY <2>2, <2>4
<1>1. CASE AppendEntry(c)
  <2>1. PICK i : entries' = [entries EXCEPT ![b][i] = @ + 1]
    BY <1>1 DEF AppendEntry
  <2> QED
    BY <1>0, <1>1, <2>1 DEF AppendEntry, TypeOK
<1>2. CASE TagEntry(c)
  <2>1. tagged' = [tagged EXCEPT ![b][call[c].owner] = @ + 1]
    BY <1>2 DEF TagEntry
  <2> QED
    BY <1>0, <1>2, <2>1 DEF TagEntry, TypeOK
<1>3. CASE RemitTax(c)
  <2>1. PICK n : /\ remitted' = [remitted EXCEPT ![b] = n] \/ remitted' = remitted
                 /\ n = remitted[b] \/ n = remitted[b] + 1
    BY <1>3 DEF RemitTax
  <2>2. remitted \in [Batches -> Nat]
    BY DEF TypeOK
  <2>3. b \in Batches => n \in Nat
    BY ONLY <2>1, <2>2
  <2>4. remitted' \in [Batches -> Nat]
    BY ONLY <2>1, <2>2, <2>3, PutOne
  <2>5. b \in Batches
    BY <1>3 DEF RemitTax, DividendInv, Knows, BatchSteps
  <2> QED
    BY <1>3, <2>4, <2>5 DEF RemitTax, TypeOK
<1>4. CASE UNCHANGED ledgerVars
  BY <1>4 DEF TypeOK, ledgerVars
<1> QED
  BY <1>1, <1>2, <1>3, <1>4
  DEF Handler, Fresh, GenerateRead, InsertRecord, InsertBatch, AdvancePlan, ApproveRead, ReadBatch,
      ApproveBatch, SetBatch, ApproveRecords, CreditRead, FindRecords, MarkRecord, CreditBatch,
      CancelRead, CancelBatch, CancelRecords

LEMMA StepTypes ==
  ASSUME TypeOK, DividendInv, [Next]_vars
  PROVE  TypeOK'
<1>1. CASE \E status \in Updates : UpdatePlan(status)
  <2>1. PICK status \in Updates : UpdatePlan(status)
    BY <1>1
  <2>2. plan' \in [status : PlanStatuses, last : Nat]
    BY <2>1, DividendConstants DEF UpdatePlan, TypeOK, PlanStatuses
  <2>3. UNCHANGED <<batch, record, entries, tagged, remitted, lapsed, call, orderly>>
    BY <2>1 DEF UpdatePlan, ledgerVars
  <2> QED
    BY <2>2, <2>3 DEF TypeOK
<1>2. ASSUME NEW c \in Calls, NEW h \in Handlers, NEW ok \in BOOLEAN, Begin(c, h, ok),
             UNCHANGED <<plan, batch, record, ledgerVars>>
      PROVE  TypeOK'
  <2>1. call' \in [Calls -> Handlers] /\ orderly' \in BOOLEAN
    BY <1>2, BeginTypes
  <2>2. UNCHANGED <<plan, batch, record, entries, tagged, remitted, lapsed>>
    BY <1>2 DEF ledgerVars
  <2> QED
    BY <2>1, <2>2 DEF TypeOK, Handlers
<1>3. ASSUME NEW c \in Calls, NEW date \in Dates \cup {0}, Generate(c, date) PROVE TypeOK'
  <2>1. date \in Nat /\ (date = 0) \in BOOLEAN
    BY DividendConstants
  <2>2. [Idle EXCEPT !.step = "generate", !.period = date] \in Handlers
    BY <2>1, IdleTypes DEF Steps
  <2> QED
    BY <1>2, <1>3, <2>1, <2>2 DEF Generate
<1>4. ASSUME NEW c \in Calls, NEW mode \in {"queue", "credit"}, RunDuePlans(c, mode)
      PROVE  TypeOK'
  <2>1. [Idle EXCEPT !.step = "fresh", !.mode = mode] \in Handlers
    BY IdleTypes DEF Steps
  <2> QED
    BY <1>2, <1>4, <2>1 DEF RunDuePlans
<1>5. ASSUME NEW c \in Calls, NEW b \in Batches,
             NEW step \in {"approveRead", "creditRead", "cancelRead"}, OnBatch(c, step, b)
      PROVE  TypeOK'
  <2>1. [Idle EXCEPT !.step = step, !.on = b] \in Handlers
    BY IdleTypes DEF Steps
  <2> QED
    BY <1>2, <1>5, <2>1 DEF OnBatch
<1>6. ASSUME NEW c \in Calls, Handler(c) PROVE TypeOK'
  BY <1>6, HandlerStepTypes, DocumentStepTypes, LedgerStepTypes DEF TypeOK, Handlers, Records
<1>7. CASE UNCHANGED vars
  BY <1>7 DEF vars, TypeOK, ledgerVars
<1> QED
  BY <1>1, <1>3, <1>4, <1>5, <1>6, <1>7 DEF Next

\* Plan, batches, records, ledger and handlers keep their types, whatever
\* overlaps or dies.
THEOREM TypeCorrect == Spec => []TypeOK
<1>1. Init => TypeOK
  <2> SUFFICES ASSUME Init PROVE TypeOK
    OBVIOUS
  <2>1. Idle \in Handlers
    BY IdleTypes DEF Steps
  <2>2. call \in [Calls -> Handlers]
    BY <2>1 DEF Init
  <2>3. NoRecord \in [status : RecordStatuses \cup {"none"}, net : Int, tax : Int]
    BY DEF NoRecord
  <2> QED
    BY <2>2, <2>3 DEF Init, TypeOK, Handlers, PlanStatuses
<1>2. TypeOK /\ DividendInv /\ [Next]_vars => TypeOK'
  BY StepTypes
<1>3. Init => DividendInv
  BY InitDividendInv
<1>4. DividendInv /\ [Next]_vars => DividendInv'
  BY StepDividendInv
<1> QED
  BY <1>1, <1>2, <1>3, <1>4, PTL DEF Spec

-----------------------------------------------------------------------------
(* The books of calls that come one after the other.                       *)

\* Amounts are not so small against the number of owners that rounding makes
\* a share negative: five equal owners of 3 hundredths get one each, and a
\* largest owner is charged the 2 too many.
SharesArePayable ==
  \A amount \in Amounts, units \in Holdings :
    Sum(units) > 0 =>
      \A split \in Splits(amount, units), i \in Investors :
        split[i] >= 0 /\ \A tax \in Taxes(i, split[i]) : tax <= split[i]

LedgerShapes ==
  /\ entries = [b \in Batches |-> entries[b]] /\ remitted = [b \in Batches |-> remitted[b]]
  /\ \A b \in Batches : entries[b] = [i \in Investors |-> entries[b][i]]

\* Whoever of S is owed money by b has one entry, and nobody else has any.
Entered(b, S) ==
  \A i \in Investors : entries[b][i] = IF record[b][i].net > 0 /\ i \in S THEN 1 ELSE 0

Blank(b) == \A i \in Investors : record[b][i].net = 0 /\ record[b][i].tax = 0

Payable(b) == \A i \in Investors : record[b][i].net \in Nat /\ record[b][i].tax \in Nat

\* The records of b, as net amounts and tax, add up to its gross amount.
Gross(b) == Sum([i \in Investors |-> record[b][i].net + record[b][i].tax])

AddsUp(b) == Payable(b) /\ Gross(b) = batch[b].gross

Open(b) ==
  \A i \in Investors : record[b][i].net > 0 => record[b][i].status \in {"generated", "approved"}

\* A batch that nobody makes or credits at the moment.
Rests(b) ==
  \/ batch[b].status = "none" /\ Blank(b) /\ Entered(b, {}) /\ remitted[b] = 0
  \/ /\ batch[b].status \in {"generated", "approved", "cancelled"}
     /\ AddsUp(b) /\ Entered(b, {}) /\ remitted[b] = 0
     /\ batch[b].status # "cancelled" => Open(b)
  \/ /\ batch[b].status = "credited"
     /\ AddsUp(b) /\ Entered(b, Investors) /\ TaxIsHandedOver(b)

\* What handler h has done so far for the batch it makes.
Makes(h) ==
  /\ Entered(h.on, {}) /\ remitted[h.on] = 0
  /\ h.split \in [Investors -> Int] /\ Sum(h.split) = h.gross
  /\ h.step = "batch" => h.todo = {}
  /\ \A i \in Investors :
       IF i \in h.todo
       THEN h.split[i] >= 0 /\ \A tax \in Taxes(i, h.split[i]) : tax <= h.split[i]
       ELSE /\ record[h.on][i].net \in Nat /\ record[h.on][i].tax \in Nat
            /\ record[h.on][i].net + record[h.on][i].tax = h.split[i]
            /\ record[h.on][i].net > 0 => record[h.on][i].status = "generated"

\* And for the batch it credits.
Credits(h) ==
  /\ batch[h.on].status = "approved" /\ AddsUp(h.on) /\ remitted[h.on] = 0
  /\ \A i \in h.todo : i \in Investors /\ record[h.on][i].net > 0
  /\ h.step \in {"tag", "mark"} => h.owner \in h.todo
  /\ h.step = "credited" => h.todo = {}
  /\ Entered(h.on, IF h.step \in {"tag", "mark"} THEN (Investors \ h.todo) \cup {h.owner}
                   ELSE Investors \ h.todo)

CreditingSteps == {"append", "tag", "mark", "credited"}
WorkingSteps == MakingSteps \cup CreditingSteps \cup {"remit"}

Counts(h) ==
  /\ h.step \in MakingSteps => Makes(h)
  /\ h.step = "approve" => batch[h.on].status = "generated"
  /\ h.step = "find" => batch[h.on].status = "approved"
  /\ h.step \in CreditingSteps => Credits(h)
  /\ h.step = "remit" => /\ batch[h.on].status = "credited" /\ AddsUp(h.on)
                         /\ Entered(h.on, Investors) /\ remitted[h.on] = 0
  /\ h.step = "cancel" => batch[h.on].status \in {"generated", "approved"}
  /\ h.step = "cancelRecords" => batch[h.on].status = "cancelled"

WorkedOn(b) == \E c \in Calls : call[c].on = b /\ call[c].step \in WorkingSteps

BooksInv ==
  orderly => /\ OneAtATime /\ LedgerShapes
             /\ \A b \in Batches : WorkedOn(b) \/ Rests(b)
             /\ \A c \in Calls : Counts(call[c])

\* Nothing of b is written.
Same(b) ==
  /\ batch'[b] = batch[b] /\ record'[b] = record[b]
  /\ entries'[b] = entries[b] /\ remitted'[b] = remitted[b]
  /\ b \in lapsed => b \in lapsed'

LEMMA SameRests ==
  ASSUME NEW b, Same(b), Rests(b)
  PROVE  Rests(b)'
BY Zenon DEF Same, Rests, Blank, Entered, AddsUp, Payable, Gross, Open, Tax, TaxIsHandedOver

LEMMA InitBooksInv == Init => BooksInv
<1> SUFFICES ASSUME Init PROVE BooksInv
  OBVIOUS
<1>1. \A c \in Calls : call[c] = Idle /\ call[c].step = "idle"
  BY IdleIs DEF Init
<1>2. \A b \in Batches, i \in Investors :
        record[b][i].net = 0 /\ record[b][i].tax = 0 /\ entries[b][i] = 0
  BY DEF Init, NoRecord
<1>3. \A b \in Batches : batch[b].status = "none" /\ remitted[b] = 0
  BY DEF Init
<1>4. \A b \in Batches : Rests(b)
  BY <1>2, <1>3 DEF Rests, Blank, Entered
<1>5. LedgerShapes
  BY DEF Init, LedgerShapes
<1>6. \A c \in Calls : Counts(call[c])
  BY <1>1 DEF Counts, MakingSteps, CreditingSteps
<1> QED
  BY <1>1, <1>4, <1>5, <1>6 DEF BooksInv, OneAtATime

\* A turn of handler c that writes of no batch but b, and leaves b alone, or
\* at work.
LEMMA BooksTurn ==
  ASSUME BooksInv, orderly, NEW c \in Calls, NEW h, Turn(c, h), LedgerShapes', Counts(h)', NEW b,
         \A d \in Batches : d # b => Same(d),
         call[c].step \in WorkingSteps => call[c].on = b,
         b \in Batches => Rests(b)' \/ (h.on = b /\ h.step \in WorkingSteps)
  PROVE  BooksInv'
<1>1. OneAtATime'
  BY TurnIsOrderly
<1>2. call'[c] = h /\ \A d \in Calls \ {c} : call[d] = Idle /\ call'[d] = Idle
  BY DEF Turn
<1>3. Idle.step \notin WorkingSteps
  BY IdleIs DEF WorkingSteps, MakingSteps, CreditingSteps
<1>4. ASSUME NEW d \in Batches, d # b PROVE Rests(d)'
  <2>1. ~WorkedOn(d)
    BY <1>2, <1>3, <1>4 DEF WorkedOn
  <2>2. Rests(d) /\ Same(d)
    BY <1>4, <2>1 DEF BooksInv
  <2> QED
    BY <2>2, SameRests
<1>5. b \in Batches => WorkedOn(b)' \/ Rests(b)'
  BY <1>2 DEF WorkedOn
<1>6. ASSUME NEW d \in Calls PROVE Counts(call[d])'
  <2>1. CASE d = c
    BY <1>2, <2>1 DEF Counts, Makes, Credits
  <2>2. CASE d # c
    <3>1. call'[d].step = "idle"
      BY <1>2, <2>2, IdleIs
    <3> QED
      BY <3>1 DEF Counts, MakingSteps, CreditingSteps
  <2> QED
    BY <2>1, <2>2
<1>7. \A d \in Batches : WorkedOn(d)' \/ Rests(d)'
  BY <1>4, <1>5
<1> QED
  BY <1>1, <1>6, <1>7 DEF BooksInv

LEMMA BooksAre ==
  ASSUME BooksInv, orderly
  PROVE  /\ OneAtATime /\ LedgerShapes
         /\ \A b \in Batches : WorkedOn(b) \/ Rests(b)
         /\ \A c \in Calls : Counts(call[c])
BY DEF BooksInv

\* A turn that writes nothing, of a handler that works on nothing.
LEMMA IdleTurn ==
  ASSUME BooksInv, orderly, NEW c \in Calls, NEW h, Turn(c, h), Counts(h)',
         UNCHANGED <<batch, record, entries, remitted, lapsed>>, call[c].step \notin WorkingSteps
  PROVE  BooksInv'
<1>1. LedgerShapes' /\ \A d \in Batches : Same(d)
  BY BooksAre DEF LedgerShapes, Same
<1>2. PICK b : b = h.on
  OBVIOUS
<1>3. b \in Batches => WorkedOn(b) \/ Rests(b)
  BY BooksAre
<1>4. ~WorkedOn(b)
  BY IdleIs DEF Turn, WorkedOn, WorkingSteps, MakingSteps, CreditingSteps
<1>5. b \in Batches => Rests(b)'
  BY <1>1, <1>3, <1>4, SameRests
<1> QED
  BY <1>1, <1>5, BooksTurn

CheckedSteps == WorkingSteps \cup {"approve", "find", "cancel", "cancelRecords"}

LEMMA NothingToCount ==
  ASSUME NEW h, h.step \notin CheckedSteps
  PROVE  Counts(h)'
BY DEF Counts, CheckedSteps, WorkingSteps, MakingSteps, CreditingSteps

\* Requests and runs of the scheduler that begin.
LEMMA BeginBooks ==
  ASSUME DividendInv, BooksInv, orderly', NEW c \in Calls,
         \/ \E date \in Dates \cup {0} : Generate(c, date)
         \/ \E mode \in {"queue", "credit"} : RunDuePlans(c, mode)
         \/ \E b \in Batches, step \in {"approveRead", "creditRead", "cancelRead"} :
              OnBatch(c, step, b)
  PROVE  BooksInv'
<1>1. Orderly /\ UNCHANGED <<batch, record, entries, remitted, lapsed>>
  BY DEF BooksInv, Orderly, Generate, RunDuePlans, OnBatch, ledgerVars
<1>2. \E h : \E ok : Begin(c, h, ok) /\ h.step \notin CheckedSteps
  <2>1. ASSUME NEW date, Generate(c, date)
        PROVE  \E h : \E ok : Begin(c, h, ok) /\ h.step \notin CheckedSteps
    <3> PICK h : h = [Idle EXCEPT !.step = "generate", !.period = date]
      OBVIOUS
    <3>1. h.step \notin CheckedSteps
      BY DEF Idle, CheckedSteps, WorkingSteps, MakingSteps, CreditingSteps
    <3>2. Begin(c, h, date = 0)
      BY <2>1 DEF Generate
    <3> QED
      BY <3>1, <3>2
  <2>2. ASSUME NEW mode, RunDuePlans(c, mode)
        PROVE  \E h : \E ok : Begin(c, h, ok) /\ h.step \notin CheckedSteps
    <3> PICK h : h = [Idle EXCEPT !.step = "fresh", !.mode = mode]
      OBVIOUS
    <3>1. h.step \notin CheckedSteps
      BY DEF Idle, CheckedSteps, WorkingSteps, MakingSteps, CreditingSteps
    <3>2. Begin(c, h, TRUE)
      BY <2>2 DEF RunDuePlans
    <3> QED
      BY <3>1, <3>2
  <2>3. ASSUME NEW b, NEW step \in {"approveRead", "creditRead", "cancelRead"},
               OnBatch(c, step, b)
        PROVE  \E h : \E ok : Begin(c, h, ok) /\ h.step \notin CheckedSteps
    <3> PICK h : h = [Idle EXCEPT !.step = step, !.on = b]
      OBVIOUS
    <3>1. h.step = step
      BY DEF Idle
    <3>2. h.step \notin CheckedSteps
      BY <3>1 DEF CheckedSteps, WorkingSteps, MakingSteps, CreditingSteps
    <3>3. Begin(c, h, TRUE)
      BY <2>3 DEF OnBatch
    <3> QED
      BY <3>2, <3>3
  <2> QED
    BY <2>1, <2>2, <2>3
<1>3. PICK h, ok : Begin(c, h, ok) /\ h.step \notin CheckedSteps
  BY <1>2
<1>4. Turn(c, h) /\ call[c] = Idle /\ orderly
  BY <1>1, <1>3, BeginIsTurn
<1>5. call[c].step \notin WorkingSteps
  BY <1>4, IdleIs DEF WorkingSteps, MakingSteps, CreditingSteps
<1>6. Counts(h)'
  BY <1>3, NothingToCount
<1> QED
  BY <1>1, <1>4, <1>5, <1>6, IdleTurn

\* A step of a handler that works on nothing and writes nothing.
LEMMA LooksBooks ==
  ASSUME DividendInv, BooksInv, orderly', NEW c \in Calls, NEW from, NEW h,
         Continue(c, from, h), from # "idle", from \notin WorkingSteps, Counts(h)',
         UNCHANGED <<batch, record, entries, remitted, lapsed>>
  PROVE  BooksInv'
<1>1. Orderly
  BY DEF BooksInv, Orderly, Continue
<1>2. Turn(c, h) /\ call[c].step = from /\ orderly
  BY <1>1, ContinueIsTurn
<1> QED
  BY <1>2, IdleTurn

LEMMA IdleCounts == Counts(Idle)'
BY NothingToCount, IdleIs DEF CheckedSteps, WorkingSteps, MakingSteps, CreditingSteps

LEMMA FreshBooks ==
  ASSUME DividendInv, BooksInv, orderly', NEW c \in Calls, Fresh(c)
  PROVE  BooksInv'
<1> PICK h : h = [call[c] EXCEPT !.step = "generate"]
  OBVIOUS
<1>1. h.step = "generate"
  BY IsCall DEF IsHandler
<1>2. Continue(c, "fresh", h) \/ Continue(c, "fresh", Idle)
  BY DEF Fresh
<1>3. Counts(h)' /\ Counts(Idle)'
  BY <1>1, NothingToCount, IdleCounts DEF CheckedSteps, WorkingSteps, MakingSteps, CreditingSteps
<1>4. UNCHANGED <<batch, record, entries, remitted, lapsed>>
  BY DEF Fresh, ledgerVars
<1>5. "fresh" # "idle" /\ "fresh" \notin WorkingSteps
  BY DEF WorkingSteps, MakingSteps, CreditingSteps
<1> QED
  BY <1>2, <1>3, <1>4, <1>5, LooksBooks

LEMMA ReadBooks ==
  ASSUME DividendInv, BooksInv, orderly', NEW c \in Calls,
         ApproveRead(c) \/ CreditRead(c) \/ CancelRead(c)
  PROVE  BooksInv'
<1>1. PICK from, to, S :
        /\ from \in {"approveRead", "creditRead", "cancelRead"} /\ ReadBatch(c, from, to, S)
        /\ \/ to = "approve" /\ S = {"generated"}
           \/ to = "find" /\ S = {"approved"}
           \/ to = "cancel" /\ S = {"generated", "approved"}
  BY DEF ApproveRead, CreditRead, CancelRead
<1> PICK h : h = [call[c] EXCEPT !.step = to]
  OBVIOUS
<1>2. h.step = to /\ h.on = call[c].on
  BY IsCall DEF IsHandler
<1>3. UNCHANGED <<batch, record, entries, remitted, lapsed>>
  BY <1>1 DEF ReadBatch, ledgerVars
<1>4. from # "idle" /\ from \notin WorkingSteps
  BY <1>1 DEF WorkingSteps, MakingSteps, CreditingSteps
<1>5. CASE batch[call[c].on].status \in S
  <2>1. Continue(c, from, h)
    BY <1>1, <1>5 DEF ReadBatch
  <2>2. Counts(h)'
    BY <1>1, <1>2, <1>3, <1>5 DEF Counts, MakingSteps, CreditingSteps
  <2> QED
    BY <1>3, <1>4, <2>1, <2>2, LooksBooks
<1>6. CASE batch[call[c].on].status \notin S
  <2>1. Continue(c, from, Idle)
    BY <1>1, <1>6 DEF ReadBatch
  <2> QED
    BY <1>3, <1>4, <2>1, IdleCounts, LooksBooks
<1> QED
  BY <1>5, <1>6

LEMMA DoneCounts ==
  ASSUME NEW c \in Calls, NEW from, NEW next \in {"approveRead", "creditRead", "fresh"},
         Done(c, from, next)
  PROVE  \E h : Continue(c, from, h) /\ Counts(h)'
<1> PICK h : h = [Idle EXCEPT !.step = next, !.mode = call[c].mode, !.on = call[c].on]
  OBVIOUS
<1>1. h.step = next
  BY DEF Idle
<1>2. Continue(c, from, h) \/ Continue(c, from, Idle)
  BY DEF Done
<1>3. Counts(h)'
  BY <1>1, NothingToCount DEF CheckedSteps, WorkingSteps, MakingSteps, CreditingSteps
<1> QED
  BY <1>2, <1>3, IdleCounts

LEMMA AdvanceBooks ==
  ASSUME DividendInv, BooksInv, orderly', NEW c \in Calls, AdvancePlan(c)
  PROVE  BooksInv'
<1> PICK next : next = IF call[c].mode = "credit" THEN "approveRead" ELSE "fresh"
  OBVIOUS
<1>1. Done(c, "advance", next) /\ next \in {"approveRead", "creditRead", "fresh"}
  BY DEF AdvancePlan
<1>2. PICK h : Continue(c, "advance", h) /\ Counts(h)'
  BY <1>1, DoneCounts
<1>3. UNCHANGED <<batch, record, entries, remitted, lapsed>>
  BY DEF AdvancePlan, ledgerVars
<1>4. "advance" # "idle" /\ "advance" \notin WorkingSteps
  BY DEF WorkingSteps, MakingSteps, CreditingSteps
<1> QED
  BY <1>2, <1>3, <1>4, LooksBooks

-----------------------------------------------------------------------------
(* Making a batch.                                                         *)

LEMMA GenerateBooks ==
  ASSUME SharesArePayable, DividendInv, BooksInv, orderly', NEW c \in Calls, GenerateRead(c)
  PROVE  BooksInv'
<1>1. UNCHANGED <<batch, record, entries, remitted, lapsed>>
  BY DEF GenerateRead, ledgerVars
<1>2. "generate" # "idle" /\ "generate" \notin WorkingSteps
  BY DEF WorkingSteps, MakingSteps, CreditingSteps
<1>3. CASE Continue(c, "generate", Idle)
  BY <1>1, <1>2, <1>3, IdleCounts, LooksBooks
<1>4. ASSUME NEW b \in Batches, NEW amount \in Amounts, NEW units \in Holdings, NEW h,
             Drafts(c, h, b, amount, units)
      PROVE  BooksInv'
  <2>1. /\ Continue(c, "generate", h) /\ h.step = "records" /\ h.on = b /\ h.gross = amount
        /\ h.split \in Splits(amount, units) /\ Sum(units) > 0
        /\ h.todo = {i \in Investors : units[i] > 0}
        /\ batch[b].status = "none" /\ \A d \in Calls : call[d].on # b
    BY <1>4 DEF Drafts
  <2>2. orderly
    BY <2>1 DEF Continue
  <2>3. Rests(b)
    BY <2>1, <2>2, BooksAre DEF WorkedOn
  <2>4. Blank(b) /\ Entered(b, {}) /\ remitted[b] = 0
    BY <2>1, <2>3 DEF Rests
  <2> PICK split : split = h.split
    OBVIOUS
  <2>5. /\ split \in [Investors -> Int] /\ Sum(split) = amount
        /\ \A i \in Investors : ~(units[i] > 0) => split[i] = 0
    BY <2>1, SplitsAddUp
  <2>6. \A i \in Investors : split[i] >= 0 /\ \A tax \in Taxes(i, split[i]) : tax <= split[i]
    BY <2>1 DEF SharesArePayable
  <2>7. \A i \in Investors : i \notin h.todo =>
          /\ record[b][i].net = 0 /\ record[b][i].tax = 0 /\ split[i] = 0
    BY <2>1, <2>4, <2>5 DEF Blank
  <2>8. Makes(h)
    BY <2>1, <2>4, <2>5, <2>6, <2>7 DEF Makes
  <2>9. Makes(h)'
    BY <1>1, <2>8 DEF Makes, Entered
  <2>10. Counts(h)'
    BY <2>1, <2>9 DEF Counts, CreditingSteps
  <2> QED
    BY <1>1, <1>2, <2>1, <2>10, LooksBooks
<1> QED
  BY <1>3, <1>4, GenerateIs

LEMMA InsertRecordBooks ==
  ASSUME DividendInv, BooksInv, orderly', NEW c \in Calls, InsertRecord(c)
  PROVE  BooksInv'
<1>1. PICK i \in call[c].todo : \E h :
        /\ Continue(c, "records", h) /\ IsHandler(h)
        /\ h.step = (IF call[c].todo = {i} THEN "batch" ELSE "records")
        /\ h.on = call[c].on /\ h.period = call[c].period /\ h.gross = call[c].gross
        /\ h.split = call[c].split /\ h.todo = call[c].todo \ {i}
        /\ \E tax \in Taxes(i, call[c].split[i]) :
             record' = [record EXCEPT ![call[c].on][i] =
                          [status |-> "generated", net |-> call[c].split[i] - tax,
                           tax |-> tax]]
  BY InsertRecordIs
<1>2. PICK h :
        /\ Continue(c, "records", h)
        /\ h.step = (IF call[c].todo = {i} THEN "batch" ELSE "records")
        /\ h.on = call[c].on /\ h.gross = call[c].gross
        /\ h.split = call[c].split /\ h.todo = call[c].todo \ {i}
        /\ \E tax \in Taxes(i, call[c].split[i]) :
             record' = [record EXCEPT ![call[c].on][i] =
                          [status |-> "generated", net |-> call[c].split[i] - tax,
                           tax |-> tax]]
  BY <1>1
<1>3. PICK tax \in Taxes(i, call[c].split[i]) :
        record' = [record EXCEPT ![call[c].on][i] =
                     [status |-> "generated", net |-> call[c].split[i] - tax, tax |-> tax]]
  BY <1>2
<1> PICK b, share : b = call[c].on /\ share = call[c].split[i]
  OBVIOUS
<1>4. Orderly
  BY DEF BooksInv, Orderly, InsertRecord, Continue
<1>5. Turn(c, h) /\ call[c].step = "records" /\ orderly
  BY <1>2, <1>4, ContinueIsTurn
<1>6. Makes(call[c])
  BY <1>5, BooksAre DEF Counts, MakingSteps
<1>7. b \in Batches /\ call[c].todo \subseteq Investors /\ i \in Investors
  BY <1>5 DEF DividendInv, Knows, MakingSteps
<1>8. share \in Int /\ share >= 0 /\ tax <= share /\ call[c].split \in [Investors -> Int]
  BY <1>3, <1>6, <1>7 DEF Makes
<1>9. tax \in Nat
  BY <1>3, <1>8, TaxIsNatural
<1>10. /\ record'[b][i] = [status |-> "generated", net |-> share - tax, tax |-> tax]
       /\ \A j \in Investors \ {i} : record'[b][j] = record[b][j]
       /\ \A d \in Batches \ {b} : record'[d] = record[d]
  BY <1>3, <1>7 DEF DividendInv, Shapes
<1>11. /\ record'[b][i].status = "generated" /\ record'[b][i].tax = tax
       /\ record'[b][i].net = share - tax
  BY <1>10
<1>12. UNCHANGED <<batch, entries, remitted, lapsed>>
  BY DEF InsertRecord, ledgerVars
<1>13. \A d \in Batches \ {b} : Same(d)
  BY <1>10, <1>12 DEF Same
<1>14. LedgerShapes'
  BY <1>5, <1>12, BooksAre DEF LedgerShapes
<1>15. Makes(h)'
  <2>1. Entered(b, {})' /\ remitted'[b] = 0
    BY <1>6, <1>12 DEF Makes, Entered
  <2>2. h.step = "batch" => h.todo = {}
    BY <1>2
  <2>3. h.split \in [Investors -> Int] /\ Sum(h.split) = h.gross
    BY <1>2, <1>6 DEF Makes
  <2>4. ASSUME NEW j \in Investors
        PROVE  IF j \in h.todo
               THEN h.split[j] >= 0 /\ \A t \in Taxes(j, h.split[j]) : t <= h.split[j]
               ELSE /\ record'[b][j].net \in Nat /\ record'[b][j].tax \in Nat
                    /\ record'[b][j].net + record'[b][j].tax = h.split[j]
                    /\ record'[b][j].net > 0 => record'[b][j].status = "generated"
    <3>1. CASE j = i
      BY <1>2, <1>8, <1>9, <1>11, <3>1
    <3>2. CASE j # i
      <4>1. record'[b][j] = record[b][j] /\ (j \in h.todo <=> j \in call[c].todo)
            /\ h.split[j] = call[c].split[j]
        BY <1>2, <1>10, <3>2
      <4> QED
        BY <1>6, <4>1 DEF Makes
    <3> QED
      BY <3>1, <3>2
  <2> QED
    BY <1>2, <2>1, <2>2, <2>3, <2>4 DEF Makes
<1>16. h.step \in MakingSteps /\ h.on = b
  BY <1>2 DEF MakingSteps
<1>17. Counts(h)'
  BY <1>15, <1>16 DEF Counts, CreditingSteps, MakingSteps
<1> QED
  BY <1>5, <1>13, <1>14, <1>16, <1>17, BooksTurn DEF WorkingSteps

LEMMA InsertBatchBooks ==
  ASSUME DividendInv, BooksInv, orderly', NEW c \in Calls, InsertBatch(c)
  PROVE  BooksInv'
<1>1. Orderly /\ Goto(c, "batch", "advance") /\ UNCHANGED <<record, entries, remitted, lapsed>>
  BY DEF BooksInv, Orderly, InsertBatch, Goto, Continue, ledgerVars
<1>2. PICK h : /\ Turn(c, h) /\ call[c].step = "batch" /\ orderly /\ h.step = "advance"
  BY <1>1, GotoIsTurn
<1> PICK b : b = call[c].on
  OBVIOUS
<1>3. b \in Batches
  BY <1>2 DEF DividendInv, Knows, MakingSteps
<1>4. Makes(call[c])
  BY <1>2, BooksAre DEF Counts, MakingSteps
<1>5. /\ batch'[b].status = "generated" /\ batch'[b].gross = call[c].gross
      /\ \A d \in Batches \ {b} : batch'[d] = batch[d]
  BY <1>3 DEF DividendInv, Shapes, InsertBatch
<1>6. /\ Entered(b, {}) /\ remitted[b] = 0 /\ Payable(b)
      /\ call[c].split \in [Investors -> Int] /\ Sum(call[c].split) = call[c].gross
      /\ \A i \in Investors :
           /\ record[b][i].net + record[b][i].tax = call[c].split[i]
           /\ record[b][i].net > 0 => record[b][i].status = "generated"
  BY <1>2, <1>4 DEF Makes, Payable
<1>7. Gross(b) = call[c].gross
  <2> PICK f : f = [i \in Investors |-> record[b][i].net + record[b][i].tax]
    OBVIOUS
  <2>1. \A i \in Investors : f[i] = call[c].split[i]
    BY <1>6
  <2>2. SumOver(f, Investors) = SumOver(call[c].split, Investors)
    BY <2>1, SumAgree, DividendConstants
  <2> QED
    BY <1>6, <2>2, SumIs DEF Gross
<1>8. Gross(b)' = Gross(b) /\ Payable(b)' /\ Entered(b, {})' /\ Open(b)'
  BY <1>1, <1>6 DEF Gross, Payable, Entered, Open
<1>9. AddsUp(b)'
  BY <1>5, <1>7, <1>8 DEF AddsUp
<1>10. Rests(b)'
  BY <1>1, <1>5, <1>6, <1>8, <1>9 DEF Rests
<1>11. \A d \in Batches \ {b} : Same(d)
  BY <1>1, <1>5 DEF Same
<1>12. LedgerShapes'
  BY <1>1, <1>2, BooksAre DEF LedgerShapes
<1>13. Counts(h)'
  BY <1>2, NothingToCount DEF CheckedSteps, WorkingSteps, MakingSteps, CreditingSteps
<1> QED
  BY <1>2, <1>10, <1>11, <1>12, <1>13, BooksTurn

-----------------------------------------------------------------------------
(* Approving, cancelling and crediting a batch.                            *)

LEMMA StatusIs ==
  ASSUME DividendInv, NEW b \in Batches, NEW s, batch' = [batch EXCEPT ![b].status = s]
  PROVE  /\ batch'[b].status = s /\ batch'[b].gross = batch[b].gross
         /\ \A d \in Batches \ {b} : batch'[d] = batch[d]
<1>1. batch = [d \in Batches |-> batch[d]] /\ IsBatch(batch[b])
  BY DEF DividendInv, Shapes
<1> PICK v : v = batch[b]
  OBVIOUS
<1> PICK w : w = [v EXCEPT !.status = s]
  OBVIOUS
<1>2. w.status = s /\ w.gross = v.gross
  BY <1>1 DEF IsBatch
<1>3. batch'[b] = w /\ \A d \in Batches \ {b} : batch'[d] = batch[d]
  BY <1>1
<1> QED
  BY <1>2, <1>3

\* What the amounts of b say does not depend on statuses.
LEMMA AmountsStay ==
  ASSUME NEW b, batch'[b].gross = batch[b].gross, entries'[b] = entries[b],
         \A i \in Investors : /\ record'[b][i].net = record[b][i].net
                              /\ record'[b][i].tax = record[b][i].tax
  PROVE  /\ AddsUp(b) => AddsUp(b)'
         /\ Tax(b)' = Tax(b)
         /\ \A S : Entered(b, S) => Entered(b, S)'
<1>1. Gross(b)' = Gross(b)
  <2>1. [i \in Investors |-> record'[b][i].net + record'[b][i].tax]
          = [i \in Investors |-> record[b][i].net + record[b][i].tax]
    OBVIOUS
  <2> QED
    BY <2>1, Zenon DEF Gross
<1>2. Tax(b)' = Tax(b)
  <2>1. [i \in Investors |-> record'[b][i].tax] = [i \in Investors |-> record[b][i].tax]
    OBVIOUS
  <2> QED
    BY <2>1, Zenon DEF Tax
<1> QED
  BY <1>1, <1>2 DEF AddsUp, Payable, Entered

LEMMA SetBatchIs ==
  ASSUME DividendInv, BooksInv, orderly', NEW c \in Calls, NEW from \in BatchSteps, NEW to,
         NEW s, SetBatch(c, from, to, s)
  PROVE  /\ \E h : /\ Turn(c, h) /\ call[c].step = from /\ orderly /\ h.step = to
                   /\ h.on = call[c].on
         /\ call[c].on \in Batches /\ LedgerShapes' /\ UNCHANGED <<record, entries, remitted, lapsed>>
         /\ batch'[call[c].on].status = s /\ batch'[call[c].on].gross = batch[call[c].on].gross
         /\ \A d \in Batches : d # call[c].on => Same(d)
<1>1. Orderly /\ Goto(c, from, to) /\ from # "idle" /\ UNCHANGED <<record, entries, remitted, lapsed>>
  BY DEF BooksInv, Orderly, SetBatch, Goto, Continue, BatchSteps, ledgerVars
<1>2. PICK h : Turn(c, h) /\ call[c].step = from /\ orderly /\ h.step = to /\ h.on = call[c].on
  BY <1>1, GotoIsTurn
<1>3. call[c].on \in Batches
  BY <1>2 DEF DividendInv, Knows
<1>4. /\ batch'[call[c].on].status = s /\ batch'[call[c].on].gross = batch[call[c].on].gross
      /\ \A d \in Batches \ {call[c].on} : batch'[d] = batch[d]
  BY <1>3, StatusIs DEF SetBatch
<1>5. LedgerShapes'
  BY <1>1, <1>2, BooksAre DEF LedgerShapes
<1>6. \A d \in Batches : d # call[c].on => Same(d)
  BY <1>1, <1>4 DEF Same
<1> QED
  BY <1>1, <1>2, <1>3, <1>4, <1>5, <1>6

\* The batch of a turn that works on nothing rests.
LEMMA BatchRests ==
  ASSUME BooksInv, orderly, NEW c \in Calls, NEW h, Turn(c, h), call[c].step \notin WorkingSteps,
         NEW b \in Batches
  PROVE  Rests(b)
<1>1. ~WorkedOn(b)
  BY IdleIs DEF Turn, WorkedOn, WorkingSteps, MakingSteps, CreditingSteps
<1> QED
  BY <1>1, BooksAre

LEMMA ApproveBatchBooks ==
  ASSUME DividendInv, BooksInv, orderly', NEW c \in Calls, ApproveBatch(c)
  PROVE  BooksInv'
<1> PICK b : b = call[c].on
  OBVIOUS
<1>1. "approve" \in BatchSteps /\ "approve" \notin WorkingSteps
  BY DEF BatchSteps, WorkingSteps, MakingSteps, CreditingSteps
<1>2. SetBatch(c, "approve", "approveRecords", "approved")
  BY DEF ApproveBatch
<1>3. PICK h : /\ Turn(c, h) /\ call[c].step = "approve" /\ orderly /\ h.step = "approveRecords"
               /\ h.on = b
  BY <1>1, <1>2, SetBatchIs
<1>4. /\ b \in Batches /\ LedgerShapes' /\ UNCHANGED <<record, entries, remitted, lapsed>>
      /\ batch'[b].status = "approved" /\ batch'[b].gross = batch[b].gross
      /\ \A d \in Batches : d # b => Same(d)
  BY <1>1, <1>2, SetBatchIs
<1>5. Rests(b) /\ batch[b].status = "generated"
  BY <1>1, <1>3, <1>4, BatchRests, BooksAre DEF Counts
<1>6. AddsUp(b) /\ Entered(b, {}) /\ remitted[b] = 0 /\ Open(b)
  BY <1>5 DEF Rests
<1>7. AddsUp(b)' /\ Entered(b, {})' /\ Open(b)'
  BY <1>4, <1>6, AmountsStay DEF Open
<1>8. Rests(b)'
  BY <1>4, <1>6, <1>7 DEF Rests
<1>9. Counts(h)'
  BY <1>3, NothingToCount DEF CheckedSteps, WorkingSteps, MakingSteps, CreditingSteps
<1> QED
  BY <1>1, <1>3, <1>4, <1>8, <1>9, BooksTurn

LEMMA CancelBatchBooks ==
  ASSUME DividendInv, BooksInv, orderly', NEW c \in Calls, CancelBatch(c)
  PROVE  BooksInv'
<1> PICK b : b = call[c].on
  OBVIOUS
<1>1. "cancel" \in BatchSteps /\ "cancel" \notin WorkingSteps
  BY DEF BatchSteps, WorkingSteps, MakingSteps, CreditingSteps
<1>2. SetBatch(c, "cancel", "cancelRecords", "cancelled")
  BY DEF CancelBatch
<1>3. PICK h : /\ Turn(c, h) /\ call[c].step = "cancel" /\ orderly /\ h.step = "cancelRecords"
               /\ h.on = b
  BY <1>1, <1>2, SetBatchIs
<1>4. /\ b \in Batches /\ LedgerShapes' /\ UNCHANGED <<record, entries, remitted, lapsed>>
      /\ batch'[b].status = "cancelled" /\ batch'[b].gross = batch[b].gross
      /\ \A d \in Batches : d # b => Same(d)
  BY <1>1, <1>2, SetBatchIs
<1>5. Rests(b) /\ batch[b].status \in {"generated", "approved"}
  BY <1>1, <1>3, <1>4, BatchRests, BooksAre DEF Counts
<1>6. AddsUp(b) /\ Entered(b, {}) /\ remitted[b] = 0
  BY <1>5 DEF Rests
<1>7. AddsUp(b)' /\ Entered(b, {})'
  BY <1>4, <1>6, AmountsStay
<1>8. Rests(b)'
  BY <1>4, <1>6, <1>7 DEF Rests
<1>9. Counts(h)'
  BY <1>3, <1>4 DEF Counts, MakingSteps, CreditingSteps
<1> QED
  BY <1>1, <1>3, <1>4, <1>8, <1>9, BooksTurn

LEMMA CreditBatchBooks ==
  ASSUME DividendInv, BooksInv, orderly', NEW c \in Calls, CreditBatch(c)
  PROVE  BooksInv'
<1> PICK b : b = call[c].on
  OBVIOUS
<1>1. "credited" \in BatchSteps /\ "credited" \in CreditingSteps /\ "remit" \in WorkingSteps
  BY DEF BatchSteps, WorkingSteps, CreditingSteps
<1>2. SetBatch(c, "credited", "remit", "credited")
  BY DEF CreditBatch
<1>3. PICK h : /\ Turn(c, h) /\ call[c].step = "credited" /\ orderly /\ h.step = "remit"
               /\ h.on = b
  BY <1>1, <1>2, SetBatchIs
<1>4. /\ b \in Batches /\ LedgerShapes' /\ UNCHANGED <<record, entries, remitted, lapsed>>
      /\ batch'[b].status = "credited" /\ batch'[b].gross = batch[b].gross
      /\ \A d \in Batches : d # b => Same(d)
  BY <1>1, <1>2, SetBatchIs
<1>5. Credits(call[c])
  BY <1>1, <1>3, BooksAre DEF Counts
<1>6. AddsUp(b) /\ Entered(b, Investors) /\ remitted[b] = 0
  BY <1>3, <1>5 DEF Credits, Entered
<1>7. AddsUp(b)' /\ Entered(b, Investors)'
  BY <1>4, <1>6, AmountsStay
<1>8. Counts(h)'
  BY <1>3, <1>4, <1>6, <1>7 DEF Counts, MakingSteps, CreditingSteps
<1> QED
  BY <1>1, <1>3, <1>4, <1>8, BooksTurn

LEMMA SetRecordsIs ==
  ASSUME DividendInv, NEW c \in Calls, call[c].on \in Batches, NEW from, NEW to,
         SetRecords(c, from, to)
  PROVE  /\ \A d \in Batches \ {call[c].on} : record'[d] = record[d]
         /\ \A i \in Investors :
              /\ record'[call[c].on][i].net = record[call[c].on][i].net
              /\ record'[call[c].on][i].tax = record[call[c].on][i].tax
              /\ record'[call[c].on][i].status \in {to, record[call[c].on][i].status}
<1> PICK b : b = call[c].on
  OBVIOUS
<1> PICK new : new = [i \in Investors |->
                        IF record[b][i].status \in from THEN [record[b][i] EXCEPT !.status = to]
                        ELSE record[b][i]]
  OBVIOUS
<1>1. record' = [record EXCEPT ![b] = new] /\ record = [d \in Batches |-> record[d]]
  BY DEF SetRecords, DividendInv, Shapes
<1>2. record'[b] = new /\ \A d \in Batches \ {b} : record'[d] = record[d]
  BY <1>1
<1>3. ASSUME NEW i \in Investors
      PROVE  /\ new[i].net = record[b][i].net /\ new[i].tax = record[b][i].tax
             /\ new[i].status \in {to, record[b][i].status}
  <2>1. IsRecord(record[b][i])
    BY DEF DividendInv, Shapes
  <2> PICK r, q : r = record[b][i] /\ q = [r EXCEPT !.status = to]
    OBVIOUS
  <2>2. q.net = r.net /\ q.tax = r.tax /\ q.status = to
    BY <2>1 DEF IsRecord
  <2>3. new[i] = IF r.status \in from THEN q ELSE r
    OBVIOUS
  <2> QED
    BY <2>2, <2>3
<1> QED
  BY <1>2, <1>3

LEMMA ApproveRecordsBooks ==
  ASSUME DividendInv, BooksInv, orderly', NEW c \in Calls, ApproveRecords(c)
  PROVE  BooksInv'
<1> PICK b : b = call[c].on
  OBVIOUS
<1>1. /\ Done(c, "approveRecords", "creditRead") /\ SetRecords(c, {"generated"}, "approved")
      /\ UNCHANGED <<batch, entries, remitted, lapsed>>
  BY DEF ApproveRecords, ledgerVars
<1>2. PICK h : Continue(c, "approveRecords", h) /\ Counts(h)'
  BY <1>1, DoneCounts
<1>3. Orderly
  BY <1>2 DEF BooksInv, Orderly, Continue
<1>4. Turn(c, h) /\ call[c].step = "approveRecords" /\ orderly
  BY <1>2, <1>3, ContinueIsTurn
<1>5. b \in Batches /\ call[c].step \notin WorkingSteps
  BY <1>4 DEF DividendInv, Knows, BatchSteps, WorkingSteps, MakingSteps, CreditingSteps
<1>6. /\ \A d \in Batches \ {b} : record'[d] = record[d]
      /\ \A i \in Investors :
           /\ record'[b][i].net = record[b][i].net /\ record'[b][i].tax = record[b][i].tax
           /\ record'[b][i].status \in {"approved", record[b][i].status}
  BY <1>1, <1>5, SetRecordsIs
<1>7. Rests(b)
  BY <1>4, <1>5, BatchRests
<1>8. /\ AddsUp(b) => AddsUp(b)'
      /\ Tax(b)' = Tax(b)
      /\ \A S : Entered(b, S) => Entered(b, S)'
  BY <1>1, <1>6, AmountsStay
<1>9. (Blank(b) => Blank(b)') /\ (Open(b) => Open(b)')
  BY <1>6 DEF Blank, Open
<1>10. Rests(b)'
  BY <1>1, <1>7, <1>8, <1>9 DEF Rests, TaxIsHandedOver
<1>11. (\A d \in Batches : d # b => Same(d)) /\ LedgerShapes'
  BY <1>1, <1>4, <1>6, BooksAre DEF Same, LedgerShapes
<1> QED
  BY <1>2, <1>4, <1>5, <1>10, <1>11, BooksTurn

LEMMA CancelRecordsBooks ==
  ASSUME DividendInv, BooksInv, orderly', NEW c \in Calls, CancelRecords(c)
  PROVE  BooksInv'
<1> PICK b : b = call[c].on
  OBVIOUS
<1>1. /\ Continue(c, "cancelRecords", Idle)
      /\ SetRecords(c, {"generated", "approved"}, "cancelled")
      /\ UNCHANGED <<batch, entries, remitted, lapsed>>
  BY DEF CancelRecords, ledgerVars
<1>2. Orderly
  BY <1>1 DEF BooksInv, Orderly, Continue
<1>3. Turn(c, Idle) /\ call[c].step = "cancelRecords" /\ orderly
  BY <1>1, <1>2, ContinueIsTurn
<1>4. b \in Batches /\ call[c].step \notin WorkingSteps
  BY <1>3 DEF DividendInv, Knows, BatchSteps, WorkingSteps, MakingSteps, CreditingSteps
<1>5. /\ \A d \in Batches \ {b} : record'[d] = record[d]
      /\ \A i \in Investors :
           record'[b][i].net = record[b][i].net /\ record'[b][i].tax = record[b][i].tax
  BY <1>1, <1>4, SetRecordsIs
<1>6. Rests(b) /\ batch[b].status = "cancelled"
  BY <1>3, <1>4, BatchRests, BooksAre DEF Counts
<1>7. AddsUp(b) /\ Entered(b, {}) /\ remitted[b] = 0
  BY <1>6 DEF Rests
<1>8. AddsUp(b)' /\ Entered(b, {})'
  BY <1>1, <1>5, <1>7, AmountsStay
<1>9. Rests(b)'
  BY <1>1, <1>6, <1>7, <1>8 DEF Rests
<1>10. (\A d \in Batches : d # b => Same(d)) /\ LedgerShapes'
  BY <1>1, <1>3, <1>5, BooksAre DEF Same, LedgerShapes
<1> QED
  BY <1>3, <1>4, <1>9, <1>10, IdleCounts, BooksTurn

LEMMA FindBooks ==
  ASSUME DividendInv, BooksInv, orderly', NEW c \in Calls, FindRecords(c)
  PROVE  BooksInv'
<1> PICK b : b = call[c].on
  OBVIOUS
<1>1. PICK h : /\ Continue(c, "find", h) /\ h.on = b /\ h.todo = Waiting(b)
               /\ h.step \in {"credited", "append"} /\ (h.step = "credited" <=> h.todo = {})
  BY FindIs
<1>2. Orderly
  BY <1>1 DEF BooksInv, Orderly, Continue
<1>3. Turn(c, h) /\ call[c].step = "find" /\ orderly
  BY <1>1, <1>2, ContinueIsTurn
<1>4. b \in Batches /\ "find" # "idle" /\ "find" \notin WorkingSteps
  BY <1>3 DEF DividendInv, Knows, BatchSteps, WorkingSteps, MakingSteps, CreditingSteps
<1>5. Rests(b) /\ batch[b].status = "approved"
  BY <1>3, <1>4, BatchRests, BooksAre DEF Counts
<1>6. AddsUp(b) /\ Entered(b, {}) /\ remitted[b] = 0 /\ Open(b)
  BY <1>5 DEF Rests
<1>7. Waiting(b) = {i \in Investors : record[b][i].net > 0}
  BY <1>6 DEF Open, Waiting
<1>8. Entered(b, Investors \ h.todo)
  BY <1>1, <1>6, <1>7 DEF Entered
<1>9. Credits(h)
  BY <1>1, <1>5, <1>6, <1>7, <1>8 DEF Credits
<1>10. UNCHANGED <<batch, record, entries, remitted, lapsed>>
  BY DEF FindRecords, ledgerVars
<1>11. Credits(h)'
  BY <1>9, <1>10 DEF Credits, AddsUp, Payable, Gross, Entered
<1>12. Counts(h)'
  BY <1>1, <1>11 DEF Counts, MakingSteps
<1> QED
  BY <1>1, <1>4, <1>10, <1>12, LooksBooks

LEMMA CreditsIs ==
  ASSUME BooksInv, orderly, NEW c \in Calls, call[c].step \in CreditingSteps
  PROVE  Credits(call[c])
BY BooksAre DEF Counts

LEMMA AppendBooks ==
  ASSUME DividendInv, BooksInv, orderly', NEW c \in Calls, AppendEntry(c)
  PROVE  BooksInv'
<1> PICK b : b = call[c].on
  OBVIOUS
<1>1. PICK i \in call[c].todo : \E h :
        /\ Continue(c, "append", h) /\ IsHandler(h) /\ h.step = "tag"
        /\ h.on = call[c].on /\ h.todo = call[c].todo /\ h.owner = i
        /\ entries' = [entries EXCEPT ![call[c].on][i] = @ + 1]
  BY AppendIs
<1>2. PICK h : /\ Continue(c, "append", h) /\ h.step = "tag"
               /\ h.on = b /\ h.todo = call[c].todo /\ h.owner = i
               /\ entries' = [entries EXCEPT ![b][i] = @ + 1]
  BY <1>1
<1>3. Orderly
  BY <1>2 DEF BooksInv, Orderly, Continue
<1>4. Turn(c, h) /\ call[c].step = "append" /\ orderly
  BY <1>2, <1>3, ContinueIsTurn
<1>5. b \in Batches /\ i \in Investors
  BY <1>4 DEF DividendInv, Knows, BatchSteps
<1>6. Credits(call[c])
  BY <1>4, CreditsIs DEF CreditingSteps
<1>7. /\ batch[b].status = "approved" /\ AddsUp(b) /\ remitted[b] = 0
      /\ \A j \in call[c].todo : j \in Investors /\ record[b][j].net > 0
      /\ Entered(b, Investors \ call[c].todo)
  BY <1>4, <1>6 DEF Credits
<1>8. UNCHANGED <<batch, record, remitted, lapsed>>
  BY DEF AppendEntry
<1>9. /\ entries = [d \in Batches |-> entries[d]]
      /\ \A d \in Batches : entries[d] = [j \in Investors |-> entries[d][j]]
  BY <1>4, BooksAre DEF LedgerShapes
<1>10. /\ entries' = [d \in Batches |-> entries'[d]]
       /\ \A d \in Batches \ {b} : entries'[d] = entries[d]
       /\ entries'[b] = [j \in Investors |-> entries'[b][j]]
       /\ entries'[b][i] = entries[b][i] + 1
       /\ \A j \in Investors \ {i} : entries'[b][j] = entries[b][j]
  BY <1>2, <1>5, <1>9
<1>11. LedgerShapes'
  <2>1. \A d \in Batches : entries'[d] = [j \in Investors |-> entries'[d][j]]
    BY <1>9, <1>10
  <2>2. remitted' = [d \in Batches |-> remitted'[d]]
    BY <1>4, <1>8, BooksAre DEF LedgerShapes
  <2> QED
    BY <1>10, <2>1, <2>2 DEF LedgerShapes
<1>12. \A d \in Batches : d # b => Same(d)
  BY <1>8, <1>10 DEF Same
<1>13. Entered(b, (Investors \ h.todo) \cup {h.owner})'
  <2> SUFFICES ASSUME NEW j \in Investors
               PROVE  entries'[b][j] = IF record'[b][j].net > 0
                                          /\ j \in (Investors \ h.todo) \cup {h.owner}
                                       THEN 1 ELSE 0
    BY DEF Entered
  <2>1. CASE j = i
    BY <1>2, <1>5, <1>7, <1>8, <1>10, <2>1 DEF Entered
  <2>2. CASE j # i
    BY <1>2, <1>5, <1>7, <1>8, <1>10, <2>2 DEF Entered
  <2> QED
    BY <2>1, <2>2
<1>14. AddsUp(b)'
  BY <1>7, <1>8 DEF AddsUp, Payable, Gross
<1>15. Credits(h)'
  BY <1>2, <1>7, <1>8, <1>13, <1>14 DEF Credits
<1>16. Counts(h)' /\ call[c].step \in WorkingSteps /\ h.step \in WorkingSteps
  BY <1>2, <1>4, <1>15 DEF Counts, MakingSteps, WorkingSteps, CreditingSteps
<1> QED
  BY <1>2, <1>4, <1>11, <1>12, <1>16, BooksTurn

LEMMA TagBooks ==
  ASSUME DividendInv, BooksInv, orderly', NEW c \in Calls, TagEntry(c)
  PROVE  BooksInv'
<1> PICK b : b = call[c].on
  OBVIOUS
<1>1. Goto(c, "tag", "mark") /\ UNCHANGED <<batch, record, entries, remitted, lapsed>> /\ Orderly
  BY DEF TagEntry, BooksInv, Orderly, Goto, Continue
<1>2. PICK h : /\ Turn(c, h) /\ call[c].step = "tag" /\ orderly /\ h.step = "mark"
               /\ h.on = b /\ h.todo = call[c].todo /\ h.owner = call[c].owner
  BY <1>1, GotoIsTurn
<1>3. Credits(call[c])
  BY <1>2, CreditsIs DEF CreditingSteps
<1>4. Credits(h)
  BY <1>2, <1>3 DEF Credits
<1>5. Credits(h)'
  BY <1>1, <1>4 DEF Credits, AddsUp, Payable, Gross, Entered
<1>6. Counts(h)' /\ call[c].step \in WorkingSteps /\ h.step \in WorkingSteps
  BY <1>2, <1>5 DEF Counts, MakingSteps, WorkingSteps, CreditingSteps
<1>7. (\A d \in Batches : d # b => Same(d)) /\ LedgerShapes'
  BY <1>1, <1>2, BooksAre DEF Same, LedgerShapes
<1> QED
  BY <1>2, <1>6, <1>7, BooksTurn

LEMMA MarkedIs ==
  ASSUME DividendInv, NEW b \in Batches, NEW i \in Investors,
         record' = [record EXCEPT ![b][i].status = "credited"]
  PROVE  /\ \A d \in Batches \ {b} : record'[d] = record[d]
         /\ \A j \in Investors : /\ record'[b][j].net = record[b][j].net
                                 /\ record'[b][j].tax = record[b][j].tax
<1>1. /\ record = [d \in Batches |-> record[d]] /\ IsRecord(record[b][i])
      /\ record[b] = [j \in Investors |-> record[b][j]]
  BY DEF DividendInv, Shapes
<1> PICK v : v = record[b][i]
  OBVIOUS
<1> PICK w : w = [v EXCEPT !.status = "credited"]
  OBVIOUS
<1>2. w.net = v.net /\ w.tax = v.tax
  BY <1>1 DEF IsRecord
<1> PICK new : new = [record[b] EXCEPT ![i] = w]
  OBVIOUS
<1>3. record' = [record EXCEPT ![b] = new]
  OBVIOUS
<1>4. record'[b] = new /\ \A d \in Batches \ {b} : record'[d] = record[d]
  BY <1>1, <1>3
<1>5. new[i] = w /\ \A j \in Investors \ {i} : new[j] = record[b][j]
  BY <1>1
<1> QED
  BY <1>2, <1>4, <1>5

LEMMA MarkBooks ==
  ASSUME DividendInv, BooksInv, orderly', NEW c \in Calls, MarkRecord(c)
  PROVE  BooksInv'
<1> PICK b, i : b = call[c].on /\ i = call[c].owner
  OBVIOUS
<1>1. PICK h : /\ Continue(c, "mark", h) /\ h.on = b /\ h.todo = call[c].todo \ {i}
               /\ h.step \in {"credited", "append"}
               /\ (h.step = "credited" <=> call[c].todo = {i})
  BY MarkIs
<1>2. Orderly
  BY <1>1 DEF BooksInv, Orderly, Continue
<1>3. Turn(c, h) /\ call[c].step = "mark" /\ orderly
  BY <1>1, <1>2, ContinueIsTurn
<1>4. b \in Batches /\ i \in Investors
  BY <1>3 DEF DividendInv, Knows, BatchSteps
<1>5. Credits(call[c])
  BY <1>3, CreditsIs DEF CreditingSteps
<1>6. /\ batch[b].status = "approved" /\ AddsUp(b) /\ remitted[b] = 0 /\ i \in call[c].todo
      /\ \A j \in call[c].todo : j \in Investors /\ record[b][j].net > 0
      /\ Entered(b, (Investors \ call[c].todo) \cup {i})
  BY <1>3, <1>5 DEF Credits
<1>7. UNCHANGED <<batch, entries, remitted, lapsed>>
      /\ record' = [record EXCEPT ![b][i].status = "credited"]
  BY DEF MarkRecord, ledgerVars
<1>8. /\ \A d \in Batches \ {b} : record'[d] = record[d]
      /\ \A j \in Investors : /\ record'[b][j].net = record[b][j].net
                              /\ record'[b][j].tax = record[b][j].tax
  BY <1>4, <1>7, MarkedIs
<1>9. (Investors \ call[c].todo) \cup {i} = Investors \ h.todo
  BY <1>1, <1>4
<1>10. AddsUp(b)' /\ Entered(b, Investors \ h.todo)'
  <2> PICK S : S = Investors \ h.todo
    OBVIOUS
  <2>1. AddsUp(b) /\ Entered(b, S)
    BY <1>6, <1>9
  <2>2. AddsUp(b)' /\ Entered(b, S)'
    BY <1>7, <1>8, <2>1, AmountsStay
  <2> QED
    BY <2>2
<1>11. \A j \in h.todo : j \in Investors /\ record'[b][j].net > 0
  BY <1>1, <1>6, <1>8
<1>12. h.step = "credited" => h.todo = {}
  BY <1>1
<1>13. Credits(h)'
  BY <1>1, <1>6, <1>7, <1>10, <1>11, <1>12 DEF Credits
<1>14. Counts(h)' /\ call[c].step \in WorkingSteps /\ h.step \in WorkingSteps
  BY <1>1, <1>3, <1>13 DEF Counts, MakingSteps, WorkingSteps, CreditingSteps
<1>15. (\A d \in Batches : d # b => Same(d)) /\ LedgerShapes'
  BY <1>3, <1>7, <1>8, BooksAre DEF Same, LedgerShapes
<1> QED
  BY <1>1, <1>3, <1>14, <1>15, BooksTurn

LEMMA RemitBooks ==
  ASSUME DividendInv, BooksInv, orderly', NEW c \in Calls, RemitTax(c)
  PROVE  BooksInv'
<1> PICK b : b = call[c].on
  OBVIOUS
<1>1. Done(c, "remit", "fresh") /\ UNCHANGED <<batch, record, entries>>
      /\ \/ remitted' = [remitted EXCEPT ![b] = IF Tax(b) > 0 THEN @ + 1 ELSE @]
            /\ lapsed' = lapsed
         \/ remitted' = remitted /\ lapsed' = lapsed \cup {b}
  BY Zenon DEF RemitTax
<1>2. PICK h : Continue(c, "remit", h) /\ Counts(h)'
  BY <1>1, DoneCounts
<1>3. Orderly
  BY <1>2 DEF BooksInv, Orderly, Continue
<1>4. Turn(c, h) /\ call[c].step = "remit" /\ orderly
  BY <1>2, <1>3, ContinueIsTurn
<1>5. b \in Batches /\ call[c].step \in WorkingSteps
  BY <1>4 DEF DividendInv, Knows, BatchSteps, WorkingSteps
<1>6. /\ batch[b].status = "credited" /\ AddsUp(b) /\ Entered(b, Investors) /\ remitted[b] = 0
  BY <1>4, BooksAre DEF Counts
<1>7. AddsUp(b)' /\ Entered(b, Investors)' /\ Tax(b)' = Tax(b)
  BY <1>1, <1>6, AmountsStay
<1>8. LedgerShapes
  BY <1>4, BooksAre
<1>9. /\ \/ remitted'[b] = (IF Tax(b) > 0 THEN 1 ELSE 0)
         \/ remitted'[b] = 0 /\ b \in lapsed'
      /\ \A d \in Batches \ {b} : remitted'[d] = remitted[d]
      /\ lapsed \subseteq lapsed'
  BY <1>1, <1>5, <1>6, <1>8 DEF LedgerShapes
<1>10. Rests(b)'
  BY <1>1, <1>6, <1>7, <1>9 DEF Rests, TaxIsHandedOver
<1>11. (\A d \in Batches : d # b => Same(d)) /\ LedgerShapes'
  BY <1>1, <1>8, <1>9 DEF Same, LedgerShapes
<1> QED
  BY <1>2, <1>4, <1>10, <1>11, BooksTurn

LEMMA StepBooksInv ==
  ASSUME SharesArePayable, DividendInv, BooksInv, [Next]_vars
  PROVE  BooksInv'
<1>1. ASSUME UNCHANGED <<batch, record, entries, remitted, lapsed, call, orderly>> PROVE BooksInv'
  <2> SUFFICES ASSUME orderly PROVE BooksInv'
    BY <1>1 DEF BooksInv
  <2>1. /\ OneAtATime /\ LedgerShapes /\ \A b \in Batches : WorkedOn(b) \/ Rests(b)
        /\ \A c \in Calls : Counts(call[c])
    BY BooksAre
  <2>2. OneAtATime' /\ LedgerShapes' /\ \A b \in Batches : WorkedOn(b)' <=> WorkedOn(b)
    BY <1>1, <2>1 DEF OneAtATime, LedgerShapes, WorkedOn
  <2>3. \A b \in Batches : Rests(b) => Rests(b)'
    BY <1>1, SameRests DEF Same
  <2>4. \A c \in Calls : Counts(call[c])'
    <3> SUFFICES ASSUME NEW c \in Calls PROVE Counts(call[c])'
      OBVIOUS
    <3> PICK h : h = call[c] /\ h = call'[c]
      BY <1>1
    <3>1. Counts(h)
      BY <2>1
    <3>2. Makes(h) => Makes(h)'
      BY <1>1 DEF Makes, Entered
    <3>3. \A b : AddsUp(b) => AddsUp(b)'
      BY <1>1 DEF AddsUp, Payable, Gross
    <3>4. Credits(h) => Credits(h)'
      BY <1>1, <3>3 DEF Credits, Entered
    <3>5. Entered(h.on, Investors) => Entered(h.on, Investors)'
      BY <1>1 DEF Entered
    <3>6. Counts(h)'
      BY <1>1, <3>1, <3>2, <3>3, <3>4, <3>5 DEF Counts
    <3> QED
      BY <3>6 DEF Counts, Makes, Credits
  <2> QED
    BY <2>1, <2>2, <2>3, <2>4 DEF BooksInv
<1>2. CASE \E status \in Updates : UpdatePlan(status)
  BY <1>1, <1>2 DEF UpdatePlan, ledgerVars
<1>3. CASE UNCHANGED vars
  BY <1>1, <1>3 DEF vars, ledgerVars
<1>4. ASSUME NEW c \in Calls,
             \/ \E date \in Dates \cup {0} : Generate(c, date)
             \/ \E mode \in {"queue", "credit"} : RunDuePlans(c, mode)
             \/ \E b \in Batches, step \in {"approveRead", "creditRead", "cancelRead"} :
                  OnBatch(c, step, b)
             \/ Handler(c)
      PROVE  BooksInv'
  <2>1. CASE ~orderly'
    BY <2>1 DEF BooksInv
  <2>2. CASE orderly' /\ ~Handler(c)
    BY <1>4, <2>2, BeginBooks
  <2>3. CASE orderly' /\ Handler(c)
    BY <2>3, FreshBooks, GenerateBooks, InsertRecordBooks, InsertBatchBooks, AdvanceBooks,
       ReadBooks, ApproveBatchBooks, ApproveRecordsBooks, FindBooks, AppendBooks, TagBooks, MarkBooks,
       CreditBatchBooks, RemitBooks, CancelBatchBooks, CancelRecordsBooks DEF Handler
  <2> QED
    BY <2>1, <2>2, <2>3
<1> QED
  BY <1>2, <1>3, <1>4 DEF Next

\* What one entry each pays is what the records owe, and with the tax it is the
\* gross amount.
LEMMA PaidInFull ==
  ASSUME NEW b \in Batches, AddsUp(b), Entered(b, Investors)
  PROVE  Paid(b) + Tax(b) = batch[b].gross
<1> PICK paid, tax, gross : /\ paid = [i \in Investors |-> entries[b][i] * record[b][i].net]
                            /\ tax = [i \in Investors |-> record[b][i].tax]
                            /\ gross = [i \in Investors |-> record[b][i].net + record[b][i].tax]
  OBVIOUS
<1>1. \A i \in Investors : record[b][i].net \in Nat /\ record[b][i].tax \in Nat
  BY DEF AddsUp, Payable
<1>2. \A i \in Investors : paid[i] = record[b][i].net
  <2> SUFFICES ASSUME NEW i \in Investors PROVE entries[b][i] * record[b][i].net = record[b][i].net
    OBVIOUS
  <2>1. CASE record[b][i].net > 0
    <3>1. entries[b][i] = 1
      BY <2>1 DEF Entered
    <3> QED
      BY <1>1, <3>1
  <2>2. CASE ~(record[b][i].net > 0)
    <3>1. entries[b][i] = 0 /\ record[b][i].net = 0
      BY <1>1, <2>2 DEF Entered
    <3> QED
      BY <3>1
  <2> QED
    BY <2>1, <2>2
<1>3. \A i \in Investors : paid[i] \in Int /\ tax[i] \in Int /\ gross[i] = paid[i] + tax[i]
  BY <1>1, <1>2
<1>4. SumOver(gross, Investors) = SumOver(paid, Investors) + SumOver(tax, Investors)
  BY <1>3, SumPlus, DividendConstants
<1>5. Paid(b) = SumOver(paid, Investors) /\ Tax(b) = SumOver(tax, Investors)
      /\ Gross(b) = SumOver(gross, Investors)
  BY SumIs DEF Paid, Tax, Gross
<1> QED
  BY <1>4, <1>5 DEF AddsUp

LEMMA NothingPaid ==
  ASSUME NEW b \in Batches, Payable(b) \/ Blank(b), Entered(b, {})
  PROVE  Paid(b) = 0
<1> PICK paid : paid = [i \in Investors |-> entries[b][i] * record[b][i].net]
  OBVIOUS
<1>1. \A i \in Investors : record[b][i].net \in Int /\ entries[b][i] = 0
  BY DEF Payable, Blank, Entered
<1>2. \A i \in Investors : paid[i] = 0
  BY <1>1
<1> QED
  BY <1>2, SumZero, SumIs, DividendConstants DEF Paid

\* What calls that come one after the other leave behind, for any number of
\* owners and batches: each credited batch has paid its gross amount to the
\* hundredth, as net amounts and tax, once each, however distribute_amount and
\* compute_withholding round, but for a tax whose write failed; any other batch
\* has paid nothing.
THEOREM BatchesPayTheirGross ==
  ASSUME SharesArePayable PROVE Spec => []BooksBalance
<1>1. ASSUME BooksInv PROVE BooksBalance
  <2> SUFFICES ASSUME orderly, Quiet, NEW b \in Batches
               PROVE  IF batch[b].status = "credited"
                      THEN Paid(b) + Tax(b) = batch[b].gross /\ TaxIsHandedOver(b)
                      ELSE Paid(b) = 0 /\ remitted[b] = 0
    BY DEF BooksBalance
  <2>1. ~WorkedOn(b)
    BY IdleIs DEF Quiet, WorkedOn, WorkingSteps, MakingSteps, CreditingSteps
  <2>2. Rests(b)
    BY <1>1, <2>1, BooksAre
  <2>3. CASE batch[b].status = "credited"
    <3>1. AddsUp(b) /\ Entered(b, Investors) /\ TaxIsHandedOver(b)
      BY <2>2, <2>3 DEF Rests
    <3> QED
      BY <2>3, <3>1, PaidInFull
  <2>4. CASE batch[b].status # "credited"
    <3>1. (Payable(b) \/ Blank(b)) /\ Entered(b, {}) /\ remitted[b] = 0
      BY <2>2, <2>4 DEF Rests, AddsUp
    <3> QED
      BY <2>4, <3>1, NothingPaid
  <2> QED
    BY <2>3, <2>4
<1>2. Init => BooksInv
  BY InitBooksInv
<1>3. DividendInv /\ BooksInv /\ [Next]_vars => BooksInv'
  BY StepBooksInv
<1>4. Init => DividendInv
  BY InitDividendInv
<1>5. DividendInv /\ [Next]_vars => DividendInv'
  BY StepDividendInv
<1> QED
  BY <1>1, <1>2, <1>3, <1>4, <1>5, PTL DEF Spec
=============================================================================
