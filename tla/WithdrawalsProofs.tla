-------------------------- MODULE WithdrawalsProofs --------------------------
(***************************************************************************)
(* For any number of requests and calls, overlapping and dying anywhere:   *)
(* no debit without an approval, no paid request without its debit, and    *)
(* no debit that its request's history does not tell of.  While calls do   *)
(* not overlap: what is claimed was there.  While they run to their ends   *)
(* as well: the debits are the paid requests', and the wallet shows the    *)
(* ledger.                                                                 *)
(***************************************************************************)
EXTENDS Withdrawals, SumTheorems, TLAPS

\* What a handler between its read and its write knows of its request: which
\* one it is, and, if it is about to move it past the approval, that the
\* approval is in the history.  This is what the two invariants need to be
\* inductive: a handler acts on what it read, whatever the status is by then.
Busy == {"checkLedger", "checkReserved", "insert", "debit", "tag", "write"}

Informed(c) ==
  /\ call[c].step \in Busy => call[c].req \in Requests
  /\ call[c].step \in {"debit", "tag", "write"} => call[c].target \in Statuses
  /\ call[c].step \in {"debit", "tag"} => call[c].target = "paid"
  /\ call[c].step \in {"debit", "tag", "write"} /\ call[c].target \in {"processing", "paid"}
       => history[call[c].req]["approved"] > 0
  /\ call[c].step = "write" /\ call[c].target = "paid" => tagged[call[c].req] > 0

Approved(r) == status[r] \in {"approved", "processing"} => history[r]["approved"] > 0

\* The types of all but the wallet document.
Typed ==
  /\ status \in [Requests -> Statuses \cup {"none"}]
  /\ history \in [Requests -> [Statuses -> Nat]]
  /\ amount \in [Requests -> Nat]
  /\ debits \in [Requests -> Nat]
  /\ tagged \in [Requests -> Nat]
  /\ settled \in Int
  /\ call \in [Calls -> Call]

WithdrawalInv ==
  /\ Typed
  /\ \A c \in Calls : Informed(c)
  /\ \A r \in Requests : Approved(r)
  /\ DebitNeedsApproval
  /\ PaidHasDebit

\* Only a request that is approved or processing can be sent on to processing
\* or paid.
LEMMA LateTransitions ==
  ASSUME NEW s \in Statuses, NEW t \in AdminTransitions[s]
  PROVE  /\ t \in Statuses
         /\ t \in {"processing", "paid"} => s \in {"approved", "processing"}
<1> USE DEF Statuses, Reserved, Terminal
<1>1. CASE s = "requested"
  BY <1>1 DEF AdminTransitions
<1>2. CASE s = "under_review"
  BY <1>2 DEF AdminTransitions
<1>3. CASE s = "approved"
  BY <1>3 DEF AdminTransitions
<1>4. CASE s = "processing"
  BY <1>4 DEF AdminTransitions
<1>5. CASE s \in Terminal
  BY <1>5 DEF AdminTransitions
<1> QED
  BY <1>1, <1>2, <1>3, <1>4, <1>5

LEMMA PendingIsInt == ASSUME Typed PROVE Pending \in Int
<1>1. IsFiniteSet(OpenRequests)
  BY FiniteRequests, FS_Subset DEF OpenRequests
<1>2. \A r \in OpenRequests : amount[r] \in Int
  BY DEF Typed, OpenRequests
<1>3. SumOver(amount, OpenRequests) \in Int
  BY <1>1, <1>2, SumType
<1> QED
  BY <1>3 DEF Pending, Total, SumOver

LEMMA InitWithdrawalInv == Init => WithdrawalInv
BY WithdrawalConstants
   DEF Init, WithdrawalInv, Typed, Call, Idle, Statuses, Reserved, Terminal, Active,
       Informed, Busy, Approved, DebitNeedsApproval, PaidHasDebit

\* A handler moves by itself: the others stay where they are.
Moves(c) == call' \in [Calls -> Call] /\ \A d \in Calls \ {c} : call'[d] = call[d]

LEMMA GotoMoves ==
  ASSUME Typed, NEW c \in Calls, NEW from, NEW to \in Active, Goto(c, from, to)
  PROVE  /\ Moves(c)
         /\ call[c].step = from
         /\ call'[c].step = to
         /\ call'[c].req = call[c].req
         /\ call'[c].target = call[c].target
         /\ call'[c].asked = call[c].asked
         /\ call'[c].sum = call[c].sum
         /\ call'[c].held = call[c].held
BY DEF Typed, Goto, Moves, Call

LEMMA SumMoves ==
  ASSUME Typed, NEW c \in Calls, NEW to \in Active, NEW n \in Int,
         call' = [call EXCEPT ![c].step = to, ![c].sum = n]
  PROVE  /\ Moves(c)
         /\ call'[c].step = to /\ call'[c].sum = n
         /\ call'[c].req = call[c].req /\ call'[c].asked = call[c].asked
<1> DEFINE h == [call[c] EXCEPT !.step = to, !.sum = n]
<1>1. h \in Call /\ h.step = to /\ h.sum = n /\ h.req = call[c].req /\ h.asked = call[c].asked
  BY DEF Typed, Call
<1>2. call' = [call EXCEPT ![c] = h]
  BY DEF Typed
<1> QED
  BY <1>1, <1>2 DEF Typed, Moves

LEMMA HeldMoves ==
  ASSUME Typed, NEW c \in Calls, NEW to \in Active, NEW n \in Int,
         call' = [call EXCEPT ![c].step = to, ![c].held = n]
  PROVE  /\ Moves(c)
         /\ call'[c].step = to /\ call'[c].held = n
         /\ call'[c].req = call[c].req /\ call'[c].sum = call[c].sum
<1> DEFINE h == [call[c] EXCEPT !.step = to, !.held = n]
<1>1. h \in Call /\ h.step = to /\ h.held = n /\ h.req = call[c].req /\ h.sum = call[c].sum
  BY DEF Typed, Call
<1>2. call' = [call EXCEPT ![c] = h]
  BY DEF Typed
<1> QED
  BY <1>1, <1>2 DEF Typed, Moves

LEMMA FinishMoves ==
  ASSUME Typed, NEW c \in Calls, Finish(c)
  PROVE  Moves(c) /\ call'[c].step = "done"
<1>1. Done \in Call /\ Done.step = "done"
  BY DEF Done, Idle, Call
<1> QED
  BY <1>1 DEF Typed, Finish, Moves

\* A handler that dies is done, or lost between its debit and the status.
LEMMA CrashMoves ==
  ASSUME Typed, NEW c \in Calls, Crash(c)
  PROVE  /\ Moves(c)
         /\ IF OnItsWay(c, call[c].req)
            THEN call'[c].step = "lost" /\ call'[c].req = call[c].req
            ELSE call'[c].step = "done"
<1>1. CASE OnItsWay(c, call[c].req)
  <2> DEFINE h == [call[c] EXCEPT !.step = "lost"]
  <2>1. h \in Call /\ h.step = "lost" /\ h.req = call[c].req
    BY DEF Typed, Call
  <2>2. call' = [call EXCEPT ![c] = h]
    BY <1>1 DEF Crash
  <2> QED
    BY <1>1, <2>1, <2>2 DEF Typed, Moves
<1>2. CASE ~OnItsWay(c, call[c].req)
  BY <1>2, FinishMoves DEF Crash
<1> QED
  BY <1>1, <1>2

\* Histories and tags only grow: what a waiting handler knows stays true.
LEMMA StillInformed ==
  ASSUME Typed, NEW d \in Calls, Informed(d), call'[d] = call[d],
         \A r \in Requests : /\ \A s \in Statuses : history'[r][s] >= history[r][s]
                             /\ tagged'[r] >= tagged[r],
         history' \in [Requests -> [Statuses -> Nat]], tagged' \in [Requests -> Nat]
  PROVE  Informed(d)'
<1>1. {"approved", "paid"} \in SUBSET Statuses
  BY DEF Statuses, Reserved, Terminal
<1>2. call[d].step \in Busy => history'[call[d].req]["approved"] >= history[call[d].req]["approved"]
  BY <1>1 DEF Informed
<1>3. call[d].step \in Busy => /\ history'[call[d].req]["approved"] \in Nat
                              /\ history[call[d].req]["approved"] \in Nat
  BY <1>1 DEF Informed, Typed
<1>4. call[d].step \in {"debit", "tag", "write"} => call[d].step \in Busy
  BY DEF Busy
<1>5. call[d].step \in Busy => /\ tagged'[call[d].req] >= tagged[call[d].req]
                              /\ tagged'[call[d].req] \in Nat /\ tagged[call[d].req] \in Nat
  BY DEF Informed, Typed
<1> QED
  BY <1>2, <1>3, <1>4, <1>5 DEF Informed

\* A step of a handler that touches neither requests nor ledger.
LEMMA QuietStep ==
  ASSUME WithdrawalInv, NEW c \in Calls, Moves(c), Informed(c)',
         UNCHANGED <<status, history, amount, debits, tagged, settled>>
  PROVE  WithdrawalInv'
<1> USE DEF WithdrawalInv
<1>1. Typed'
  BY DEF Typed, Moves
<1>2. \A d \in Calls \ {c} : Informed(d)'
  BY DEF Informed, Moves
<1>3. (\A r \in Requests : Approved(r))' /\ DebitNeedsApproval' /\ PaidHasDebit'
  BY DEF Approved, DebitNeedsApproval, PaidHasDebit
<1> QED
  BY <1>1, <1>2, <1>3

LEMMA BeginMoves ==
  ASSUME Typed, NEW c \in Calls, NEW r \in Requests \cup {None}, NEW s \in Active,
         NEW t \in Statuses \cup {None}, NEW a \in Nat, Begin(c, r, s, t, a)
  PROVE  /\ Moves(c)
         /\ call'[c].step = s /\ call'[c].req = r /\ call'[c].target = t
         /\ call'[c].asked = a
<1>1. [step |-> s, req |-> r, target |-> t, asked |-> a, sum |-> 0, held |-> 0] \in Call
  BY DEF Call
<1> QED
  BY <1>1 DEF Begin, Moves, Typed

LEMMA SetStatusGrows ==
  ASSUME Typed, NEW c \in Calls, NEW s \in Statuses, SetStatus(c, s), call[c].req \in Requests
  PROVE  /\ status' \in [Requests -> Statuses \cup {"none"}]
         /\ history' \in [Requests -> [Statuses -> Nat]]
         /\ status'[call[c].req] = s
         /\ history'[call[c].req][s] = history[call[c].req][s] + 1
         /\ \A t \in Statuses \ {s} : history'[call[c].req][t] = history[call[c].req][t]
         /\ \A r \in Requests \ {call[c].req} :
              status'[r] = status[r] /\ history'[r] = history[r]
         /\ \A r \in Requests : \A t \in Statuses : history'[r][t] >= history[r][t]
<1> DEFINE q == call[c].req
           h == [history[q] EXCEPT ![s] = @ + 1]
<1>1. history[q] \in [Statuses -> Nat]
  BY DEF Typed
<1>2. /\ h \in [Statuses -> Nat] /\ h[s] = history[q][s] + 1
      /\ \A t \in Statuses \ {s} : h[t] = history[q][t]
  BY <1>1
<1>3. history' = [history EXCEPT ![q] = h]
  BY DEF SetStatus
<1> HIDE DEF q, h
<1>4. /\ history' \in [Requests -> [Statuses -> Nat]]
      /\ history'[q] = h
      /\ \A r \in Requests \ {q} : history'[r] = history[r]
  BY <1>2, <1>3 DEF Typed, q
<1>5. \A r \in Requests : \A t \in Statuses : history'[r][t] >= history[r][t]
  <2>1. ASSUME NEW r \in Requests \ {q}, NEW t \in Statuses
        PROVE  history'[r][t] >= history[r][t]
    BY <1>4, <2>1 DEF Typed
  <2>2. ASSUME NEW t \in Statuses
        PROVE  history'[q][t] >= history[q][t]
    BY <1>1, <1>2, <1>4
  <2> QED
    BY <2>1, <2>2
<1>6. /\ status' \in [Requests -> Statuses \cup {"none"}]
      /\ status'[q] = s
      /\ \A r \in Requests \ {q} : status'[r] = status[r]
  BY DEF Typed, SetStatus, q
<1> QED
  BY <1>2, <1>4, <1>5, <1>6 DEF q

\* A status pushed leaves the others informed, and what the history says holds.
LEMMA PushInforms ==
  ASSUME Typed, Typed', NEW c \in Calls, NEW s \in Statuses, SetStatus(c, s),
         call[c].req \in Requests, tagged' = tagged,
         NEW d \in Calls, Informed(d), call'[d] = call[d]
  PROVE  Informed(d)'
<1>1. \A r \in Requests : \A t \in Statuses : history'[r][t] >= history[r][t]
  BY SetStatusGrows
<1>2. \A r \in Requests : tagged'[r] >= tagged[r]
  BY DEF Typed
<1>3. history' \in [Requests -> [Statuses -> Nat]] /\ tagged' \in [Requests -> Nat]
  BY DEF Typed
<1> QED
  BY <1>1, <1>2, <1>3, StillInformed

LEMMA PushKeeps ==
  ASSUME Typed, \A r \in Requests : Approved(r), DebitNeedsApproval, PaidHasDebit,
         NEW c \in Calls, NEW s \in Statuses, SetStatus(c, s), call[c].req \in Requests,
         UNCHANGED <<debits, tagged>>,
         s = "processing" => history[call[c].req]["approved"] > 0,
         s = "paid" => tagged[call[c].req] > 0
  PROVE  (\A r \in Requests : Approved(r))' /\ DebitNeedsApproval' /\ PaidHasDebit'
<1> PICK q \in Requests : q = call[c].req
  OBVIOUS
<1>1. {"approved", "paid"} \in SUBSET Statuses
  BY DEF Statuses, Reserved, Terminal
<1>2. /\ history' \in [Requests -> [Statuses -> Nat]]
      /\ history \in [Requests -> [Statuses -> Nat]]
      /\ status'[q] = s /\ history'[q][s] = history[q][s] + 1
      /\ \A t \in Statuses \ {s} : history'[q][t] = history[q][t]
      /\ \A r \in Requests \ {q} : status'[r] = status[r] /\ history'[r] = history[r]
      /\ \A r \in Requests : \A t \in Statuses : history'[r][t] >= history[r][t]
  BY SetStatusGrows DEF Typed
<1>3. \A r \in Requests :
        /\ history[r]["approved"] \in Nat /\ history'[r]["approved"] \in Nat
        /\ history[r]["paid"] \in Nat /\ history'[r]["paid"] \in Nat
        /\ history'[r]["approved"] >= history[r]["approved"]
  BY <1>1, <1>2
<1>4. s = "approved" => history'[q]["approved"] > 0
  BY <1>1, <1>2, <1>3
<1>5. (\A r \in Requests : Approved(r))'
  <2>1. ASSUME NEW r \in Requests \ {q} PROVE Approved(r)'
    BY <1>2 DEF Approved
  <2>2. s = "processing" => history[q]["approved"] > 0
    OBVIOUS
  <2>3. Approved(q)'
    BY <1>2, <1>3, <1>4, <2>2 DEF Approved
  <2> QED
    BY <2>1, <2>3
<1>6. DebitNeedsApproval'
  BY <1>3 DEF DebitNeedsApproval
<1>7. PaidHasDebit'
  <2>1. s = "paid" => tagged[q] > 0
    OBVIOUS
  <2>2. s # "paid" => history'[q]["paid"] = history[q]["paid"]
    BY <1>1, <1>2
  <2> QED
    BY <1>2, <2>1, <2>2 DEF PaidHasDebit
<1> QED
  BY <1>5, <1>6, <1>7

LEMMA StepWithdrawalInv == WithdrawalInv /\ [Next]_vars => WithdrawalInv'
<1> SUFFICES ASSUME WithdrawalInv, [Next]_vars PROVE WithdrawalInv'
  OBVIOUS
<1> USE DEF WithdrawalInv
<1>1. ASSUME NEW c \in Calls, NEW r \in Requests, NEW a \in Amounts, CreateBegin(c, r, a)
      PROVE  WithdrawalInv'
  <2>1. a \in Nat /\ "checkLedger" \in Active
    BY WithdrawalConstants DEF Active
  <2>2. Moves(c) /\ call'[c].step = "checkLedger" /\ call'[c].req = r
    BY <1>1, <2>1, BeginMoves DEF CreateBegin
  <2>3. Informed(c)'
    BY <2>2 DEF Informed
  <2> QED
    BY <1>1, <2>2, <2>3, QuietStep DEF CreateBegin, requestVars, ledgerVars
<1>2. ASSUME NEW c \in Calls, CreateReadLedger(c) PROVE WithdrawalInv'
  <2>1. Moves(c) /\ call'[c].step = "checkReserved" /\ call'[c].req = call[c].req
    <3>1. settled \in Int /\ "checkReserved" \in Active
      BY DEF Typed, Active
    <3> QED
      BY <1>2, <3>1, SumMoves DEF CreateReadLedger
  <2>2. Informed(c)'
    BY <1>2, <2>1 DEF Informed, CreateReadLedger, Busy
  <2> QED
    BY <1>2, <2>1, <2>2, QuietStep DEF CreateReadLedger, requestVars, ledgerVars
<1>3. ASSUME NEW c \in Calls, CreateCheck(c) PROVE WithdrawalInv'
  <2>1. CASE Finish(c)
    BY <1>3, <2>1, FinishMoves, QuietStep DEF CreateCheck, Informed, Busy, requestVars, ledgerVars
  <2>2. CASE Goto(c, "checkReserved", "insert")
    <3>1. Moves(c) /\ call'[c].step = "insert" /\ call'[c].req \in Requests
      BY <2>2, GotoMoves DEF Active, Informed, Busy
    <3>2. Informed(c)'
      BY <3>1 DEF Informed
    <3> QED
      BY <1>3, <3>1, <3>2, QuietStep DEF CreateCheck, requestVars, ledgerVars
  <2> QED
    BY <1>3, <2>1, <2>2 DEF CreateCheck
<1>4. ASSUME NEW c \in Calls, CreateInsert(c) PROVE WithdrawalInv'
  <2>1. /\ Moves(c) /\ call'[c].step = "sumLedger" /\ call[c].step = "insert"
        /\ call[c].req \in Requests /\ "requested" \in Statuses
    BY <1>4, GotoMoves DEF CreateInsert, Active, Informed, Busy, Statuses, Reserved
  <2>2. Typed'
    BY <1>4, <2>1, SetStatusGrows DEF CreateInsert, Typed, Moves, Call, ledgerVars
  <2>3. Informed(c)'
    BY <2>1 DEF Informed, Busy
  <2>4. \A d \in Calls \ {c} : Informed(d)'
    BY <1>4, <2>1, <2>2, PushInforms DEF CreateInsert, Moves, ledgerVars
  <2>5. (\A r \in Requests : Approved(r))' /\ DebitNeedsApproval' /\ PaidHasDebit'
    BY <1>4, <2>1, PushKeeps DEF CreateInsert, ledgerVars
  <2> QED
    BY <2>2, <2>3, <2>4, <2>5
<1>5. ASSUME NEW c \in Calls, NEW r \in Requests, CancelRead(c, r) PROVE WithdrawalInv'
  <2>1. "write" \in Active /\ "cancelled" \in Statuses
    BY DEF Active, Statuses, Terminal
  <2>2. /\ Moves(c) /\ call'[c].step = "write" /\ call'[c].req = r
        /\ call'[c].target = "cancelled"
    BY <1>5, <2>1, BeginMoves DEF CancelRead
  <2>3. Informed(c)'
    BY <2>1, <2>2 DEF Informed
  <2> QED
    BY <1>5, <2>2, <2>3, QuietStep DEF CancelRead, requestVars, ledgerVars
<1>6. ASSUME NEW c \in Calls, NEW r \in Requests, NEW t \in Statuses, AdminRead(c, r, t)
      PROVE  WithdrawalInv'
  <2>1. t \in {"processing", "paid"} => history[r]["approved"] > 0
    BY <1>6, LateTransitions DEF AdminRead, Approved
  <2>2. "write" \in Active /\ "debit" \in Active
    BY DEF Active
  <2>3. /\ Moves(c) /\ call'[c].req = r /\ call'[c].target = t
        /\ call'[c].step = IF t = "paid" THEN "debit" ELSE "write"
    BY <1>6, <2>2, BeginMoves DEF AdminRead
  <2>4. UNCHANGED <<status, history, amount, debits, tagged, settled>>
    BY <1>6 DEF AdminRead, requestVars, ledgerVars
  <2>5. Informed(c)'
    BY <2>1, <2>3, <2>4 DEF Informed
  <2> QED
    BY <2>3, <2>4, <2>5, QuietStep
<1>7. ASSUME NEW c \in Calls, Debit(c) PROVE WithdrawalInv'
  <2>1. /\ Moves(c) /\ call[c].step = "debit" /\ call'[c].step = "tag"
        /\ call'[c].req = call[c].req /\ call'[c].target = call[c].target
    BY <1>7, GotoMoves DEF Debit, Active
  <2>2. /\ call[c].req \in Requests /\ call[c].target = "paid" /\ "paid" \in Statuses
        /\ history[call[c].req]["approved"] > 0
    BY <2>1 DEF Informed, Busy, Statuses, Terminal
  <2>3. UNCHANGED <<status, history, amount, tagged>>
    BY <1>7 DEF Debit, requestVars
  <2>4. Typed'
    BY <1>7, <2>1, <2>2, <2>3 DEF Debit, Typed, Moves
  <2>5. Informed(c)' /\ \A d \in Calls \ {c} : Informed(d)'
    BY <2>1, <2>2, <2>3 DEF Informed, Moves
  <2>6. (\A r \in Requests : Approved(r))' /\ DebitNeedsApproval' /\ PaidHasDebit'
    BY <1>7, <2>2, <2>3 DEF Debit, Typed, Approved, DebitNeedsApproval, PaidHasDebit
  <2> QED
    BY <2>4, <2>5, <2>6
<1>8. ASSUME NEW c \in Calls, TagDebit(c) PROVE WithdrawalInv'
  <2>1. /\ Moves(c) /\ call[c].step = "tag" /\ call'[c].step = "write"
        /\ call'[c].req = call[c].req /\ call'[c].target = call[c].target
    BY <1>8, GotoMoves DEF TagDebit, Active
  <2>2. /\ call[c].req \in Requests /\ call[c].target = "paid" /\ "paid" \in Statuses
        /\ history[call[c].req]["approved"] > 0
    BY <2>1 DEF Informed, Busy, Statuses, Terminal
  <2>3. UNCHANGED <<status, history, amount, debits, settled>>
    BY <1>8 DEF TagDebit, requestVars
  <2>4. /\ tagged' \in [Requests -> Nat]
        /\ tagged'[call[c].req] > 0
        /\ \A r \in Requests : tagged'[r] >= tagged[r]
    BY <1>8, <2>2 DEF TagDebit, Typed
  <2>5. Typed'
    BY <2>1, <2>3, <2>4 DEF Typed, Moves
  <2>6. Informed(c)'
    BY <2>1, <2>2, <2>3, <2>4 DEF Informed
  <2>7. \A d \in Calls \ {c} : Informed(d)'
    BY <2>1, <2>3, <2>4, <2>5, StillInformed DEF Moves, Typed
  <2>8. (\A r \in Requests : Approved(r))' /\ DebitNeedsApproval' /\ PaidHasDebit'
    BY <2>3, <2>4 DEF Typed, Approved, DebitNeedsApproval, PaidHasDebit
  <2> QED
    BY <2>5, <2>6, <2>7, <2>8
<1>9. ASSUME NEW c \in Calls, WriteStatus(c) PROVE WithdrawalInv'
  <2>1. /\ Moves(c) /\ call[c].step = "write" /\ call'[c].step = "sumLedger"
    BY <1>9, GotoMoves DEF WriteStatus, Active
  <2>2. /\ call[c].req \in Requests /\ call[c].target \in Statuses
        /\ call[c].target \in {"processing", "paid"} => history[call[c].req]["approved"] > 0
        /\ call[c].target = "paid" => tagged[call[c].req] > 0
    BY <2>1 DEF Informed, Busy
  <2>3. UNCHANGED <<amount, debits, tagged, settled>>
    BY <1>9 DEF WriteStatus, ledgerVars
  <2>4. Typed'
    BY <1>9, <2>1, <2>2, <2>3, SetStatusGrows DEF WriteStatus, Typed, Moves
  <2>5. Informed(c)'
    BY <2>1 DEF Informed, Busy
  <2>6. \A d \in Calls \ {c} : Informed(d)'
    BY <1>9, <2>1, <2>2, <2>3, <2>4, PushInforms DEF WriteStatus, Moves
  <2>7. (\A r \in Requests : Approved(r))' /\ DebitNeedsApproval' /\ PaidHasDebit'
    BY <1>9, <2>2, <2>3, PushKeeps DEF WriteStatus
  <2> QED
    BY <2>4, <2>5, <2>6, <2>7
<1>10. ASSUME NEW c \in Calls, GetWallet(c) PROVE WithdrawalInv'
  <2>1. "sumLedger" \in Active
    BY DEF Active
  <2>2. Moves(c) /\ call'[c].step = "sumLedger"
    BY <1>10, <2>1, BeginMoves DEF GetWallet
  <2>3. Informed(c)'
    BY <2>2 DEF Informed, Busy
  <2> QED
    BY <1>10, <2>2, <2>3, QuietStep DEF GetWallet, requestVars, ledgerVars
<1>11. ASSUME NEW c \in Calls, SumLedger(c) PROVE WithdrawalInv'
  <2>1. Moves(c) /\ call'[c].step = "sumReserved"
    <3>1. settled \in Int /\ "sumReserved" \in Active
      BY DEF Typed, Active
    <3> QED
      BY <1>11, <3>1, SumMoves DEF SumLedger
  <2>2. Informed(c)'
    BY <2>1 DEF Informed, Busy
  <2> QED
    BY <1>11, <2>1, <2>2, QuietStep DEF SumLedger, requestVars, ledgerVars
<1>12. ASSUME NEW c \in Calls, SumReserved(c) PROVE WithdrawalInv'
  <2>1. Moves(c) /\ call'[c].step = "save"
    <3>1. Pending \in Int /\ "save" \in Active
      BY PendingIsInt DEF Active
    <3> QED
      BY <1>12, <3>1, HeldMoves DEF SumReserved
  <2>2. Informed(c)'
    BY <2>1 DEF Informed, Busy
  <2> QED
    BY <1>12, <2>1, <2>2, QuietStep DEF SumReserved, requestVars, ledgerVars
<1>13. ASSUME NEW c \in Calls, SaveWallet(c) \/ Crash(c) PROVE WithdrawalInv'
  <2>1. Moves(c) /\ call'[c].step \in {"done", "lost"}
    BY <1>13, FinishMoves, CrashMoves DEF SaveWallet
  <2>2. Informed(c)'
    BY <2>1 DEF Informed, Busy
  <2> QED
    BY <1>13, <2>1, <2>2, QuietStep DEF SaveWallet, Crash, requestVars, ledgerVars
<1>14. ASSUME NEW a \in Purchases, Buy(a) PROVE WithdrawalInv'
  <2>1. a \in Nat
    BY WithdrawalConstants
  <2>2. settled' \in Int
    BY <1>14, <2>1 DEF Buy, Typed
  <2>3. UNCHANGED <<status, history, amount, debits, tagged, call>>
    BY <1>14 DEF Buy, requestVars
  <2> QED
    BY <2>2, <2>3 DEF Typed, Informed, Approved, DebitNeedsApproval, PaidHasDebit
<1>15. CASE UNCHANGED vars
  BY <1>15
  DEF vars, requestVars, ledgerVars, Typed, Informed, Approved, DebitNeedsApproval, PaidHasDebit
<1> QED
  BY <1>1, <1>2, <1>3, <1>4, <1>5, <1>6, <1>7, <1>8, <1>9, <1>10, <1>11, <1>12, <1>13, <1>14,
     <1>15
  DEF Next, CallStep

LEMMA WithdrawalInvariant == Spec => []WithdrawalInv
  BY InitWithdrawalInv, StepWithdrawalInv, PTL DEF Spec

\* No debit without an approval, whatever overlaps and wherever calls die.
THEOREM DebitsAreApproved == Spec => []DebitNeedsApproval
<1>1. WithdrawalInv => DebitNeedsApproval
  BY DEF WithdrawalInv
<1> QED
  BY <1>1, WithdrawalInvariant, PTL

\* A request that was ever marked paid has a debit that carries its id.
THEOREM PaidIsDebited == Spec => []PaidHasDebit
<1>1. WithdrawalInv => PaidHasDebit
  BY DEF WithdrawalInv
<1> QED
  BY <1>1, WithdrawalInvariant, PTL

\* The wallet document takes its balances from what a handler has summed up.
LEMMA StepWallet ==
  ASSUME WithdrawalInv, wallet \in [settled : Int, pending : Int], [Next]_vars
  PROVE  wallet' \in [settled : Int, pending : Int]
<1>1. CASE UNCHANGED wallet
  BY <1>1
<1>2. ASSUME NEW c \in Calls, SaveWallet(c)
      PROVE  wallet' \in [settled : Int, pending : Int]
  <2>1. call[c].sum \in Int /\ call[c].held \in Int
    BY DEF WithdrawalInv, Typed, Call
  <2> QED
    BY <1>2, <2>1 DEF SaveWallet
<1>3. ASSUME NEW a \in Purchases, Buy(a)
      PROVE  wallet' \in [settled : Int, pending : Int]
  <2>1. settled - a \in Int /\ Pending \in Int
    BY PendingIsInt, WithdrawalConstants DEF WithdrawalInv, Typed
  <2> QED
    BY <1>3, <2>1 DEF Buy
<1> QED
  BY <1>1, <1>2, <1>3
  DEF Next, vars, CallStep, CreateBegin, CreateReadLedger, CreateCheck, CreateInsert, CancelRead,
      AdminRead, Debit, TagDebit, WriteStatus, GetWallet, SumLedger, SumReserved, Crash, ledgerVars

\* Requests, ledger, wallet document and handlers keep their types, in whatever
\* order calls overlap and wherever they die.
THEOREM TypeCorrect == Spec => []TypeOK
<1>1. Init => wallet \in [settled : Int, pending : Int]
  BY WithdrawalConstants DEF Init
<1>2. WithdrawalInv /\ wallet \in [settled : Int, pending : Int] /\ [Next]_vars
      => (wallet \in [settled : Int, pending : Int])'
  BY StepWallet
<1>3. WithdrawalInv /\ wallet \in [settled : Int, pending : Int] => TypeOK
  BY DEF WithdrawalInv, Typed, TypeOK
<1> QED
  BY <1>1, <1>2, <1>3, WithdrawalInvariant, PTL DEF Spec

-----------------------------------------------------------------------------
(* The history tells of every debit.                                       *)

\* The calls that have debited r and have not told the history.
Untold(c, r) == OnItsWay(c, r) \/ (call[c].step = "lost" /\ call[c].req = r)
UntoldOf(r) == {c \in Calls : Untold(c, r)}

LEMMA BeginsIdle ==
  ASSUME NEW c \in Calls, NEW r, NEW s, NEW t, NEW a, Begin(c, r, s, t, a)
  PROVE  call[c].step = "idle"
BY DEF Begin, Idle

\* A step that pushes no payment and debits nothing leaves who has told.
LEMMA NothingToTell ==
  ASSUME PaymentsAreTold, NEW c \in Calls, Moves(c), debits' = debits,
         \A r \in Requests : history'[r]["paid"] = history[r]["paid"],
         \A r \in Requests : Untold(c, r)' <=> Untold(c, r)
  PROVE  PaymentsAreTold'
<1>1. ASSUME NEW r \in Requests PROVE UntoldOf(r)' = UntoldOf(r)
  <2>1. \A d \in Calls : Untold(d, r)' <=> Untold(d, r)
    BY DEF Moves, Untold, OnItsWay
  <2> QED
    BY <2>1 DEF UntoldOf
<1> QED
  BY <1>1 DEF PaymentsAreTold, UntoldOf, Untold

LEMMA UntoldIsCounted ==
  ASSUME NEW r \in Requests, NEW c \in Calls, Moves(c)
  PROVE  /\ IsFiniteSet(UntoldOf(r)) /\ Cardinality(UntoldOf(r)) \in Nat
         /\ Untold(c, r)' /\ ~Untold(c, r)
              => Cardinality(UntoldOf(r)') = Cardinality(UntoldOf(r)) + 1
         /\ ~Untold(c, r)' /\ Untold(c, r)
              => Cardinality(UntoldOf(r)') = Cardinality(UntoldOf(r)) - 1
         /\ (Untold(c, r)' <=> Untold(c, r)) => UntoldOf(r)' = UntoldOf(r)
<1>1. IsFiniteSet(UntoldOf(r)) /\ Cardinality(UntoldOf(r)) \in Nat
  BY FiniteCalls, FS_Subset, FS_CardinalityType DEF UntoldOf
<1>2. \A d \in Calls \ {c} : Untold(d, r)' <=> Untold(d, r)
  BY DEF Moves, Untold, OnItsWay
<1>3. ASSUME Untold(c, r)', ~Untold(c, r)
      PROVE  Cardinality(UntoldOf(r)') = Cardinality(UntoldOf(r)) + 1
  <2>1. UntoldOf(r)' = UntoldOf(r) \cup {c} /\ c \notin UntoldOf(r)
    BY <1>2, <1>3 DEF UntoldOf
  <2> QED
    BY <1>1, <2>1, FS_AddElement
<1>4. ASSUME ~Untold(c, r)', Untold(c, r)
      PROVE  Cardinality(UntoldOf(r)') = Cardinality(UntoldOf(r)) - 1
  <2>1. UntoldOf(r)' = UntoldOf(r) \ {c} /\ c \in UntoldOf(r)
    BY <1>2, <1>4 DEF UntoldOf
  <2> QED
    BY <1>1, <2>1, FS_RemoveElement
<1>5. ASSUME Untold(c, r)' <=> Untold(c, r) PROVE UntoldOf(r)' = UntoldOf(r)
  BY <1>2, <1>5 DEF UntoldOf
<1> QED
  BY <1>1, <1>3, <1>4, <1>5

LEMMA StepPaymentsTold == WithdrawalInv /\ PaymentsAreTold /\ [Next]_vars => PaymentsAreTold'
<1> SUFFICES ASSUME WithdrawalInv, PaymentsAreTold, [Next]_vars PROVE PaymentsAreTold'
  OBVIOUS
<1>a. Typed /\ \A c \in Calls : Informed(c)
  BY DEF WithdrawalInv
<1>b. {"requested", "paid"} \in SUBSET Statuses
  BY DEF Statuses, Reserved, Terminal
<1>c. \A r \in Requests : debits[r] = history[r]["paid"] + Cardinality(UntoldOf(r))
  BY DEF PaymentsAreTold, UntoldOf, Untold
<1>1. ASSUME NEW c \in Calls, Moves(c), UNCHANGED <<debits, history>>,
             call[c].step \notin {"tag", "write", "lost"},
             call'[c].step \in (Active \ {"tag", "write"}) \cup {"done"}
                \/ (call'[c].step = "write" /\ call'[c].target # "paid")
      PROVE  PaymentsAreTold'
  <2>1. \A r \in Requests : Untold(c, r)' <=> Untold(c, r)
    BY <1>1 DEF Untold, OnItsWay, Active
  <2> QED
    BY <1>1, <2>1, NothingToTell
<1>2. ASSUME NEW c \in Calls, NEW r \in Requests, NEW a \in Amounts, CreateBegin(c, r, a)
      PROVE  PaymentsAreTold'
  <2>1. a \in Nat /\ "checkLedger" \in Active
    BY WithdrawalConstants DEF Active
  <2>2. Moves(c) /\ call'[c].step = "checkLedger" /\ call[c].step = "idle"
    BY <1>2, <1>a, <2>1, BeginMoves, BeginsIdle DEF CreateBegin
  <2> QED
    BY <1>1, <1>2, <2>1, <2>2 DEF CreateBegin, requestVars, ledgerVars
<1>3. ASSUME NEW c \in Calls, CreateReadLedger(c) \/ CreateCheck(c) PROVE PaymentsAreTold'
  <2>1. call[c].step \in {"checkLedger", "checkReserved"} /\ settled \in Int
        /\ "checkReserved" \in Active /\ "insert" \in Active
    BY <1>3, <1>a DEF CreateReadLedger, CreateCheck, Active, Typed
  <2>2. Moves(c) /\ call'[c].step \in {"checkReserved", "insert", "done"}
    <3>1. CASE CreateReadLedger(c)
      BY <1>a, <2>1, <3>1, SumMoves DEF CreateReadLedger
    <3>2. CASE Finish(c)
      BY <1>a, <3>2, FinishMoves
    <3>3. CASE Goto(c, "checkReserved", "insert")
      BY <1>a, <2>1, <3>3, GotoMoves
    <3> QED
      BY <1>3, <3>1, <3>2, <3>3 DEF CreateCheck
  <2> QED
    BY <1>1, <1>3, <2>1, <2>2
    DEF CreateReadLedger, CreateCheck, requestVars, ledgerVars, Active
<1>4. ASSUME NEW c \in Calls, CreateInsert(c) PROVE PaymentsAreTold'
  <2>1. /\ Moves(c) /\ call'[c].step = "sumLedger" /\ call[c].step = "insert"
        /\ call[c].req \in Requests
    BY <1>4, <1>a, GotoMoves DEF CreateInsert, Active, Informed, Busy
  <2>2. \A r \in Requests : history'[r]["paid"] = history[r]["paid"]
    BY <1>4, <1>a, <1>b, <2>1, SetStatusGrows DEF CreateInsert
  <2>3. \A r \in Requests : Untold(c, r)' <=> Untold(c, r)
    BY <2>1 DEF Untold, OnItsWay
  <2> QED
    BY <1>4, <2>1, <2>2, <2>3, NothingToTell DEF CreateInsert, ledgerVars
<1>5. ASSUME NEW c \in Calls, NEW r \in Requests, CancelRead(c, r) PROVE PaymentsAreTold'
  <2>1. "write" \in Active /\ "cancelled" \in Statuses
    BY DEF Active, Statuses, Terminal
  <2>2. /\ Moves(c) /\ call'[c].step = "write" /\ call[c].step = "idle"
        /\ call'[c].target = "cancelled"
    BY <1>5, <1>a, <2>1, BeginMoves, BeginsIdle DEF CancelRead
  <2> QED
    BY <1>1, <1>5, <2>2 DEF CancelRead, requestVars, ledgerVars
<1>6. ASSUME NEW c \in Calls, NEW r \in Requests, NEW t \in Statuses, AdminRead(c, r, t)
      PROVE  PaymentsAreTold'
  <2>1. "write" \in Active /\ "debit" \in Active
    BY DEF Active
  <2>2. /\ Moves(c) /\ call'[c].target = t /\ call[c].step = "idle"
        /\ call'[c].step = IF t = "paid" THEN "debit" ELSE "write"
    BY <1>6, <1>a, <2>1, BeginMoves, BeginsIdle DEF AdminRead
  <2> QED
    BY <1>1, <1>6, <2>1, <2>2 DEF AdminRead, requestVars, ledgerVars
<1>7. ASSUME NEW c \in Calls, Debit(c) PROVE PaymentsAreTold'
  <2>1. /\ Moves(c) /\ call[c].step = "debit" /\ call'[c].step = "tag"
        /\ call'[c].req = call[c].req /\ call[c].req \in Requests
    BY <1>7, <1>a, GotoMoves DEF Debit, Active, Informed, Busy
  <2>2. PICK q \in Requests : q = call[c].req
    BY <2>1
  <2>3. /\ Untold(c, q)' /\ ~Untold(c, q)
        /\ \A r \in Requests \ {q} : Untold(c, r)' <=> Untold(c, r)
    BY <2>1, <2>2 DEF Untold, OnItsWay
  <2>4. /\ history' = history /\ debits'[q] = debits[q] + 1
        /\ \A r \in Requests \ {q} : debits'[r] = debits[r]
    BY <1>7, <1>a, <2>2 DEF Debit, requestVars, Typed
  <2>5. ASSUME NEW r \in Requests
        PROVE  debits'[r] = history'[r]["paid"] + Cardinality(UntoldOf(r)')
    <3>1. history[r]["paid"] \in Nat /\ Cardinality(UntoldOf(r)) \in Nat
      BY <1>a, <1>b, <2>1, UntoldIsCounted DEF Typed
    <3>2. CASE r = q
      BY <1>c, <2>1, <2>3, <2>4, <3>1, <3>2, UntoldIsCounted
    <3>3. CASE r # q
      <4>1. UntoldOf(r)' = UntoldOf(r)
        BY <2>1, <2>3, <3>3, UntoldIsCounted
      <4> QED
        BY <1>c, <2>4, <3>3, <4>1
    <3> QED
      BY <3>2, <3>3
  <2> QED
    BY <2>5 DEF PaymentsAreTold, UntoldOf, Untold
<1>8. ASSUME NEW c \in Calls, TagDebit(c) PROVE PaymentsAreTold'
  <2>1. /\ Moves(c) /\ call[c].step = "tag" /\ call'[c].step = "write"
        /\ call'[c].req = call[c].req /\ call'[c].target = call[c].target
        /\ call[c].target = "paid"
    BY <1>8, <1>a, GotoMoves DEF TagDebit, Active, Informed
  <2>2. \A r \in Requests : Untold(c, r)' <=> Untold(c, r)
    BY <2>1 DEF Untold, OnItsWay
  <2> QED
    BY <1>8, <2>1, <2>2, NothingToTell DEF TagDebit, requestVars
<1>9. ASSUME NEW c \in Calls, WriteStatus(c) PROVE PaymentsAreTold'
  <2>1. /\ Moves(c) /\ call[c].step = "write" /\ call'[c].step = "sumLedger"
        /\ call[c].req \in Requests /\ call[c].target \in Statuses /\ debits' = debits
    BY <1>9, <1>a, GotoMoves DEF WriteStatus, Active, Informed, Busy, ledgerVars
  <2>2. PICK q \in Requests, t \in Statuses : q = call[c].req /\ t = call[c].target
    BY <2>1
  <2>3. /\ history'[q][t] = history[q][t] + 1
        /\ \A s \in Statuses \ {t} : history'[q][s] = history[q][s]
        /\ \A r \in Requests \ {q} : history'[r] = history[r]
    BY <1>9, <1>a, <2>1, <2>2, SetStatusGrows DEF WriteStatus
  <2>4. \A r \in Requests : ~Untold(c, r)' /\ (Untold(c, r) <=> r = q /\ t = "paid")
    BY <2>1, <2>2 DEF Untold, OnItsWay
  <2>5. ASSUME NEW r \in Requests
        PROVE  debits'[r] = history'[r]["paid"] + Cardinality(UntoldOf(r)')
    <3>1. history[r]["paid"] \in Nat /\ Cardinality(UntoldOf(r)) \in Nat
      BY <1>a, <1>b, <2>1, UntoldIsCounted DEF Typed
    <3>2. CASE r = q /\ t = "paid"
      BY <1>c, <2>1, <2>3, <2>4, <3>1, <3>2, UntoldIsCounted
    <3>3. CASE ~(r = q /\ t = "paid")
      <4>1. UntoldOf(r)' = UntoldOf(r)
        BY <2>1, <2>4, <3>3, UntoldIsCounted
      <4>2. history'[r]["paid"] = history[r]["paid"]
        BY <1>b, <2>3, <3>3
      <4> QED
        BY <1>c, <2>1, <4>1, <4>2
    <3> QED
      BY <3>2, <3>3
  <2> QED
    BY <2>5 DEF PaymentsAreTold, UntoldOf, Untold
<1>10. ASSUME NEW c \in Calls, GetWallet(c) PROVE PaymentsAreTold'
  <2>1. "sumLedger" \in Active
    BY DEF Active
  <2>2. Moves(c) /\ call'[c].step = "sumLedger" /\ call[c].step = "idle"
    BY <1>10, <1>a, <2>1, BeginMoves, BeginsIdle DEF GetWallet
  <2> QED
    BY <1>1, <1>10, <2>1, <2>2 DEF GetWallet, requestVars, ledgerVars
<1>11. ASSUME NEW c \in Calls, SumLedger(c) \/ SumReserved(c) \/ SaveWallet(c)
       PROVE  PaymentsAreTold'
  <2>1. settled \in Int /\ Pending \in Int /\ "sumReserved" \in Active /\ "save" \in Active
    BY <1>a, PendingIsInt DEF Typed, Active
  <2>2. Moves(c) /\ call'[c].step \in {"sumReserved", "save", "done"}
    BY <1>11, <1>a, <2>1, SumMoves, HeldMoves, FinishMoves
    DEF SumLedger, SumReserved, SaveWallet
  <2>3. call[c].step \in {"sumLedger", "sumReserved", "save"}
    BY <1>11 DEF SumLedger, SumReserved, SaveWallet
  <2> QED
    BY <1>1, <1>11, <2>1, <2>2, <2>3
    DEF SumLedger, SumReserved, SaveWallet, requestVars, ledgerVars
<1>12. ASSUME NEW c \in Calls, Crash(c) PROVE PaymentsAreTold'
  <2>1. Moves(c) /\ UNCHANGED <<debits, history>> /\ call[c].step # "lost"
    BY <1>12, <1>a, CrashMoves DEF Crash, requestVars, ledgerVars, Active
  <2>2. \A r \in Requests : Untold(c, r)' <=> Untold(c, r)
    BY <1>12, <1>a, <2>1, CrashMoves DEF Untold, OnItsWay
  <2> QED
    BY <2>1, <2>2, NothingToTell
<1>13. ASSUME NEW a \in Purchases, Buy(a) PROVE PaymentsAreTold'
  BY <1>13 DEF Buy, PaymentsAreTold, OnItsWay, requestVars
<1>14. CASE UNCHANGED vars
  BY <1>14 DEF vars, PaymentsAreTold, OnItsWay, requestVars, ledgerVars
<1> QED
  BY <1>2, <1>3, <1>4, <1>5, <1>6, <1>7, <1>8, <1>9, <1>10, <1>11, <1>12, <1>13, <1>14
  DEF Next, CallStep

\* However payments, rejections and cancellations overwrite each other's status
\* and wherever they die, the history of a request tells of every debit but
\* those of calls on their way between the two writes, or lost there.
THEOREM DebitsAreTold == Spec => []PaymentsAreTold
<1>1. Init => PaymentsAreTold
  <2> SUFFICES ASSUME Init, NEW r \in Requests
               PROVE  debits[r] = history[r]["paid"] + Cardinality(UntoldOf(r))
    BY DEF PaymentsAreTold, UntoldOf, Untold
  <2>1. UntoldOf(r) = {}
    BY DEF Init, Idle, UntoldOf, Untold, OnItsWay
  <2>2. debits[r] = 0 /\ history[r]["paid"] = 0
    BY DEF Init, Statuses, Terminal
  <2> QED
    BY <2>1, <2>2, FS_EmptySet
<1>2. WithdrawalInv /\ PaymentsAreTold /\ [Next]_vars => PaymentsAreTold'
  BY StepPaymentsTold
<1> QED
  BY <1>1, <1>2, WithdrawalInvariant, PTL DEF Spec

-----------------------------------------------------------------------------
(* One call at a time.                                                     *)

SumOpen == SumOver(amount, OpenRequests)
Claimed == {r \in Requests : status[r] \in Reserved \cup {"paid"}}
Debited == {r \in Requests : debits[r] > 0}

OneAtATime ==
  \A c, d \in Calls : call[c].step \in Active /\ call[d].step \in Active => c = d

\* What a handler has read still holds, because nothing moves in between.
Aware(c) ==
  /\ call[c].step \in {"checkLedger", "checkReserved", "insert"} => status[call[c].req] = "none"
  /\ call[c].step \in {"debit", "tag", "write"} => status[call[c].req] \in Reserved
  /\ (call[c].step = "tag" \/ (call[c].step = "write" /\ call[c].target = "paid"))
       => debits[call[c].req] > 0
  /\ call[c].step = "checkReserved" => call[c].sum = settled
  /\ call[c].step = "insert" => call[c].asked + Pending <= settled + Tol

\* A request is debited before it is paid, and not before it exists.
Backed ==
  \A r \in Requests : /\ status[r] = "none" => debits[r] = 0
                      /\ status[r] = "paid" => debits[r] > 0

\* What is left and what was debited were there at the start.
Spent == settled + SumOver(amount, Debited) <= Opening

SerialInv ==
  /\ OneAtATime
  /\ \A c \in Calls : Aware(c)
  /\ Backed
  /\ Spent
  /\ RequestsAreFunded

LEMMA FundedIsSum == RequestsAreFunded <=> SumOver(amount, Claimed) <= Opening + Tol
BY DEF RequestsAreFunded, Claimed, Total, SumOver

LEMMA PendingIsSum == Pending = SumOver(amount, OpenRequests)
BY DEF Pending, Total, SumOver

LEMMA FundedIsSumNext == RequestsAreFunded' <=> SumOver(amount', Claimed') <= Opening + Tol
<1>1. (RequestsAreFunded <=> SumOver(amount, Claimed) <= Opening + Tol)'
  BY FundedIsSum, PTL
<1> QED
  BY <1>1

LEMMA AmountsAreSummable ==
  ASSUME Typed
  PROVE  /\ IsFiniteSet(OpenRequests) /\ IsFiniteSet(Claimed) /\ IsFiniteSet(Debited)
         /\ \A r \in Requests : amount[r] \in Nat
         /\ SumOver(amount, OpenRequests) \in Nat /\ SumOver(amount, Claimed) \in Nat
         /\ SumOver(amount, Debited) \in Nat
<1>1. IsFiniteSet(OpenRequests) /\ IsFiniteSet(Claimed) /\ IsFiniteSet(Debited)
  BY FiniteRequests, FS_Subset DEF OpenRequests, Claimed, Debited
<1>2. \A r \in Requests : amount[r] \in Nat
  BY DEF Typed
<1>3. /\ \A r \in OpenRequests : amount[r] \in Nat
      /\ \A r \in Claimed : amount[r] \in Nat
      /\ \A r \in Debited : amount[r] \in Nat
  BY <1>2 DEF OpenRequests, Claimed, Debited
<1> QED
  BY <1>1, <1>2, <1>3, SumNatural

\* c moves and no other handler is under way.
Serial(c) == Moves(c) /\ \A d \in Calls \ {c} : call[d].step \notin Active

LEMMA SerialStep ==
  ASSUME NEW c \in Calls, Serial(c), Aware(c)'
  PROVE  OneAtATime' /\ (\A d \in Calls : Aware(d))'
BY DEF Serial, Moves, OneAtATime, Aware, Active

LEMMA ActiveIsSerial ==
  ASSUME OneAtATime, NEW c \in Calls, call[c].step \in Active, Moves(c)
  PROVE  Serial(c)
BY DEF OneAtATime, Serial

LEMMA BeginIsSerial ==
  ASSUME ~Overlap, NEW c \in Calls, NEW r, NEW s, NEW t, NEW a, Begin(c, r, s, t, a), Moves(c)
  PROVE  Serial(c)
BY DEF Begin, Serial

\* A handler reads, begins or ends.
LEMMA SerialRead ==
  ASSUME SerialInv, NEW c \in Calls, Serial(c), Aware(c)', UNCHANGED <<requestVars, ledgerVars>>
  PROVE  SerialInv'
<1>1. OneAtATime' /\ (\A d \in Calls : Aware(d))'
  BY SerialStep
<1>2. Backed' /\ Spent' /\ RequestsAreFunded'
  BY DEF SerialInv, Backed, Spent, Debited, RequestsAreFunded, requestVars, ledgerVars
<1> QED
  BY <1>1, <1>2 DEF SerialInv

LEMMA SamePending ==
  ASSUME UNCHANGED <<status, amount>>
  PROVE  Pending' = Pending
BY DEF Pending, OpenRequests

\* What the account held covers what is open once what is asked is free.
LEMMA OpenAndPaid ==
  ASSUME Typed, SerialInv
  PROVE  SumOver(amount, Claimed) <= Pending + Opening - settled
<1> DEFINE Paid == {r \in Requests : status[r] = "paid"}
<1>1. /\ Claimed = OpenRequests \cup Paid /\ OpenRequests \cap Paid = {} /\ Paid \in SUBSET Debited
  BY DEF Claimed, OpenRequests, Reserved, SerialInv, Backed, Debited
<1>2. IsFiniteSet(Paid) /\ IsFiniteSet(OpenRequests) /\ IsFiniteSet(Debited)
  BY FiniteRequests, FS_Subset, AmountsAreSummable
<1>3. \A r \in Requests : amount[r] \in Nat /\ amount[r] \in Int
  BY AmountsAreSummable
<1>4. SumOver(amount, Claimed) = SumOver(amount, OpenRequests) + SumOver(amount, Paid)
  <2>1. \A r \in OpenRequests \cup Paid : amount[r] \in Int
    BY <1>3 DEF OpenRequests
  <2> HIDE DEF Paid
  <2> QED
    BY <1>1, <1>2, <2>1, SumUnion
<1>5. SumOver(amount, Paid) <= SumOver(amount, Debited)
  <2>1. \A r \in Debited : amount[r] \in Nat
    BY <1>3 DEF Debited
  <2> HIDE DEF Paid
  <2> QED
    BY <1>1, <1>2, <2>1, SumPart
<1>6. SumOver(amount, Paid) \in Nat
  <2>1. \A r \in Paid : amount[r] \in Nat
    BY <1>3
  <2> HIDE DEF Paid
  <2> QED
    BY <1>2, <2>1, SumNatural
<1>7. /\ SumOver(amount, OpenRequests) \in Nat /\ SumOver(amount, Debited) \in Nat
      /\ settled \in Int /\ Opening \in Int
  BY AmountsAreSummable, WithdrawalConstants DEF Typed
<1>8. settled + SumOver(amount, Debited) <= Opening
  BY DEF SerialInv, Spent
<1> HIDE DEF Paid
<1> QED
  BY <1>4, <1>5, <1>6, <1>7, <1>8, PendingIsSum

\* An administrator moves no request on that is paid, rejected or cancelled.
LEMMA MovableIsReserved ==
  ASSUME NEW s \in Statuses, NEW t \in AdminTransitions[s]
  PROVE  s \in Reserved
BY DEF AdminTransitions, Statuses, Reserved, Terminal

LEMMA InitSerialInv == Init => SerialInv
<1> SUFFICES ASSUME Init PROVE SerialInv
  OBVIOUS
<1>1. Claimed = {} /\ Debited = {}
  BY DEF Init, Claimed, Debited, Reserved
<1>2. SumOver(amount, {}) = 0
  BY SumEmpty
<1>3. OneAtATime /\ \A c \in Calls : Aware(c)
  BY DEF Init, Idle, OneAtATime, Aware, Active
<1>4. Backed
  BY DEF Init, Backed
<1>5. Spent /\ RequestsAreFunded
  BY <1>1, <1>2, FundedIsSum, WithdrawalConstants DEF Spent, Init
<1> QED
  BY <1>3, <1>4, <1>5 DEF SerialInv

\* What claims money and what was debited, when a step leaves the amounts.
LEMMA FundsStay ==
  ASSUME RequestsAreFunded, Typed, amount' = amount, Claimed' \in SUBSET Claimed
  PROVE  RequestsAreFunded'
<1>1. IsFiniteSet(Claimed) /\ \A r \in Claimed : amount[r] \in Nat
  BY AmountsAreSummable DEF Claimed
<1>2. SumOver(amount, Claimed') <= SumOver(amount, Claimed)
  BY <1>1, SumPart
<1>3. SumOver(amount, Claimed) <= Opening + Tol
  BY FundedIsSum
<1>4. SumOver(amount, Claimed') \in Nat /\ SumOver(amount, Claimed) \in Nat
  <2>1. IsFiniteSet(Claimed') /\ \A r \in Claimed' : amount[r] \in Nat
    BY <1>1, FS_Subset
  <2> QED
    BY <1>1, <2>1, SumNatural
<1>5. SumOver(amount, Claimed') <= Opening + Tol
  BY <1>2, <1>3, <1>4, WithdrawalConstants
<1> QED
  BY <1>5, FundedIsSumNext

LEMMA InsertIsFunded ==
  ASSUME Typed, WithdrawalInv, SerialInv, NEW c \in Calls, CreateInsert(c)
  PROVE  Spent' /\ RequestsAreFunded' /\ Backed'
<1> DEFINE q == call[c].req
           a == call[c].asked
<1>1. /\ call[c].step = "insert" /\ q \in Requests /\ a \in Nat /\ status[q] = "none"
      /\ debits[q] = 0 /\ a + Pending <= settled + Tol
  BY DEF CreateInsert, Goto, WithdrawalInv, Informed, Busy, SerialInv, Aware, Backed, Typed, Call
<1>2. /\ UNCHANGED <<debits, settled>>
      /\ amount' \in [Requests -> Nat] /\ amount'[q] = a
      /\ \A r \in Requests \ {q} : amount'[r] = amount[r]
      /\ status'[q] = "requested" /\ \A r \in Requests \ {q} : status'[r] = status[r]
  BY <1>1 DEF CreateInsert, SetStatus, Typed, ledgerVars
<1>3. Debited' = Debited /\ Claimed' = Claimed \cup {q} /\ q \notin Debited /\ q \notin Claimed
  BY <1>1, <1>2 DEF Debited, Claimed, Reserved
<1> HIDE DEF q, a
<1>4. /\ IsFiniteSet(Claimed) /\ IsFiniteSet(Debited)
      /\ Claimed \in SUBSET Requests /\ Debited \in SUBSET Requests
      /\ \A r \in Requests : amount[r] \in Int /\ amount'[r] \in Int
  BY <1>2, AmountsAreSummable DEF Claimed, Debited, Typed
<1>5. SumOver(amount', Debited) = SumOver(amount, Debited)
  <2>1. \A r \in Debited : amount'[r] = amount[r]
    BY <1>2, <1>3, <1>4
  <2> QED
    BY <1>4, <2>1, SumAgree
<1>6. SumOver(amount', Claimed) = SumOver(amount, Claimed)
  <2>1. \A r \in Claimed : amount'[r] = amount[r]
    BY <1>2, <1>3, <1>4
  <2> QED
    BY <1>4, <2>1, SumAgree
<1>7. SumOver(amount', Claimed \cup {q}) = a + SumOver(amount', Claimed)
  <2>1. \A r \in Claimed \cup {q} : amount'[r] \in Int
    BY <1>1, <1>4
  <2> QED
    BY <1>1, <1>2, <1>3, <1>4, <2>1, SumAdd
<1>8. SumOver(amount', Claimed \cup {q}) <= Opening + Tol
  <2>1. SumOver(amount, Claimed) <= Pending + Opening - settled
    BY OpenAndPaid
  <2>2. /\ SumOver(amount, Claimed) \in Nat /\ Pending \in Int /\ settled \in Int
        /\ Opening \in Nat /\ Tol \in Nat
    BY AmountsAreSummable, PendingIsInt, WithdrawalConstants DEF Typed
  <2> QED
    BY <1>1, <1>6, <1>7, <2>1, <2>2
<1>9. RequestsAreFunded'
  BY <1>3, <1>8, FundedIsSumNext
<1>10. Spent'
  BY <1>2, <1>3, <1>5 DEF SerialInv, Spent
<1>11. Backed'
  BY <1>1, <1>2 DEF SerialInv, Backed
<1> QED
  BY <1>9, <1>10, <1>11

LEMMA DebitIsFunded ==
  ASSUME Typed, WithdrawalInv, SerialInv, NEW c \in Calls, Debit(c)
  PROVE  Spent' /\ RequestsAreFunded' /\ Backed' /\ debits'[call[c].req] > 0
<1> DEFINE q == call[c].req
<1>1. call[c].step = "debit" /\ q \in Requests /\ status[q] \in Reserved
  BY DEF Debit, Goto, WithdrawalInv, Informed, Busy, SerialInv, Aware
<1>2. /\ UNCHANGED <<status, amount>> /\ settled' = settled - amount[q]
      /\ debits' \in [Requests -> Nat] /\ debits'[q] > 0
      /\ \A r \in Requests \ {q} : debits'[r] = debits[r]
  BY <1>1 DEF Debit, requestVars, Typed
<1>3. Debited' = Debited \cup {q}
  BY <1>1, <1>2 DEF Debited
<1> HIDE DEF q
<1>4. /\ IsFiniteSet(Debited) /\ Debited \in SUBSET Requests /\ amount[q] \in Nat
      /\ \A r \in Requests : amount[r] \in Int
      /\ SumOver(amount, Debited) \in Nat /\ settled \in Int /\ Opening \in Nat
  BY <1>1, AmountsAreSummable, WithdrawalConstants DEF Debited, Typed
<1>5. SumOver(amount, Debited') <= SumOver(amount, Debited) + amount[q]
  <2>1. CASE q \in Debited
    <3>1. Debited' = Debited
      BY <1>3, <2>1
    <3> QED
      BY <1>4, <3>1
  <2>2. CASE q \notin Debited
    <3>1. \A r \in Debited \cup {q} : amount[r] \in Int
      BY <1>1, <1>4
    <3>2. SumOver(amount, Debited \cup {q}) = SumOver(amount, Debited) + amount[q]
      BY <1>4, <2>2, <3>1, SumAdd
    <3> QED
      BY <1>3, <1>4, <3>2
  <2> QED
    BY <2>1, <2>2
<1>6. SumOver(amount, Debited') \in Nat
  <2>1. IsFiniteSet(Debited') /\ \A r \in Debited' : amount[r] \in Nat
    BY <1>1, <1>3, <1>4, FS_AddElement, AmountsAreSummable
  <2> QED
    BY <2>1, SumNatural
<1>7. Spent'
  BY <1>2, <1>4, <1>5, <1>6 DEF SerialInv, Spent
<1>8. RequestsAreFunded'
  BY <1>2 DEF SerialInv, RequestsAreFunded
<1>9. Backed'
  BY <1>1, <1>2 DEF SerialInv, Backed, Reserved
<1> QED
  BY <1>2, <1>7, <1>8, <1>9 DEF q

LEMMA WriteIsFunded ==
  ASSUME Typed, WithdrawalInv, SerialInv, NEW c \in Calls, WriteStatus(c)
  PROVE  Spent' /\ RequestsAreFunded' /\ Backed'
<1> DEFINE q == call[c].req
<1>1. /\ call[c].step = "write" /\ q \in Requests /\ status[q] \in Reserved
      /\ call[c].target \in Statuses /\ (call[c].target = "paid" => debits[q] > 0)
  BY DEF WriteStatus, Goto, WithdrawalInv, Informed, Busy, SerialInv, Aware
<1>2. /\ UNCHANGED <<amount, debits, settled>>
      /\ status'[q] = call[c].target /\ \A r \in Requests \ {q} : status'[r] = status[r]
  BY <1>1 DEF WriteStatus, SetStatus, ledgerVars, Typed
<1>3. Claimed' \in SUBSET Claimed
  BY <1>1, <1>2 DEF Claimed
<1>4. RequestsAreFunded'
  BY <1>2, <1>3, FundsStay DEF SerialInv
<1>5. Spent'
  BY <1>2 DEF SerialInv, Spent, Debited
<1>6. Backed'
  <2>1. call[c].target # "none"
    BY <1>1 DEF Statuses, Reserved, Terminal
  <2> QED
    BY <1>1, <1>2, <2>1 DEF SerialInv, Backed
<1> QED
  BY <1>4, <1>5, <1>6

LEMMA StepSerialInv ==
  ASSUME ~Overlap
  PROVE  WithdrawalInv /\ SerialInv /\ [Next]_vars => SerialInv'
<1> SUFFICES ASSUME WithdrawalInv, SerialInv, [Next]_vars PROVE SerialInv'
  OBVIOUS
<1>a. Typed /\ OneAtATime /\ \A c \in Calls : Aware(c) /\ Informed(c)
  BY DEF WithdrawalInv, SerialInv
<1>1. ASSUME NEW c \in Calls, NEW r \in Requests, NEW a \in Amounts, CreateBegin(c, r, a)
      PROVE  SerialInv'
  <2>1. a \in Nat /\ "checkLedger" \in Active
    BY WithdrawalConstants DEF Active
  <2>2. Moves(c) /\ call'[c].step = "checkLedger" /\ call'[c].req = r
    BY <1>1, <1>a, <2>1, BeginMoves DEF CreateBegin
  <2>3. Serial(c)
    BY <1>1, <2>2, BeginIsSerial DEF CreateBegin
  <2>4. UNCHANGED <<requestVars, ledgerVars>>
    BY <1>1 DEF CreateBegin
  <2>5. Aware(c)'
    BY <1>1, <2>2, <2>4 DEF CreateBegin, Aware, requestVars
  <2> QED
    BY <2>3, <2>4, <2>5, SerialRead
<1>2. ASSUME NEW c \in Calls, CreateReadLedger(c) PROVE SerialInv'
  <2>1. settled \in Int /\ "checkReserved" \in Active
    BY <1>a DEF Typed, Active
  <2>2. /\ Moves(c) /\ call'[c].step = "checkReserved" /\ call'[c].req = call[c].req
        /\ call'[c].sum = settled
    BY <1>2, <1>a, <2>1, SumMoves DEF CreateReadLedger
  <2>3. Serial(c) /\ call[c].step = "checkLedger"
    BY <1>2, <1>a, <2>2, ActiveIsSerial DEF CreateReadLedger, Active
  <2>4. UNCHANGED <<requestVars, ledgerVars>>
    BY <1>2 DEF CreateReadLedger
  <2>5. Aware(c)'
    BY <1>a, <2>2, <2>3, <2>4 DEF Aware, requestVars, ledgerVars
  <2> QED
    BY <2>3, <2>4, <2>5, SerialRead
<1>3. ASSUME NEW c \in Calls, CreateCheck(c) PROVE SerialInv'
  <2>1. UNCHANGED <<requestVars, ledgerVars>> /\ call[c].step = "checkReserved"
    BY <1>3 DEF CreateCheck
  <2>2. CASE Finish(c)
    <3>1. Moves(c) /\ call'[c].step = "done"
      BY <1>a, <2>2, FinishMoves
    <3>2. Serial(c)
      BY <1>a, <2>1, <3>1, ActiveIsSerial DEF Active
    <3>3. Aware(c)'
      BY <3>1 DEF Aware
    <3> QED
      BY <2>1, <3>2, <3>3, SerialRead
  <2>3. CASE ~(call[c].asked > call[c].sum - Pending + Tol) /\ Goto(c, "checkReserved", "insert")
    <3>1. /\ Moves(c) /\ call'[c].step = "insert" /\ call'[c].req = call[c].req
          /\ call'[c].asked = call[c].asked
      BY <1>a, <2>3, GotoMoves DEF Active
    <3>2. Serial(c)
      BY <1>a, <2>1, <3>1, ActiveIsSerial DEF Active
    <3>3. call[c].sum = settled /\ status[call[c].req] = "none"
      BY <1>a, <2>1 DEF Aware
    <3>4. call[c].asked \in Nat /\ settled \in Int /\ Pending \in Int /\ Tol \in Nat
      BY <1>a, PendingIsInt, WithdrawalConstants DEF Typed, Call
    <3>5. call[c].asked + Pending <= settled + Tol
      BY <2>3, <3>3, <3>4
    <3>6. Pending' = Pending /\ status' = status /\ settled' = settled
      BY <2>1, SamePending DEF requestVars, ledgerVars
    <3>7. Aware(c)'
      BY <3>1, <3>3, <3>5, <3>6 DEF Aware
    <3> QED
      BY <2>1, <3>2, <3>7, SerialRead
  <2> QED
    BY <1>3, <2>2, <2>3 DEF CreateCheck
<1>4. ASSUME NEW c \in Calls, CreateInsert(c) PROVE SerialInv'
  <2>1. Moves(c) /\ call'[c].step = "sumLedger" /\ call[c].step = "insert"
    BY <1>4, <1>a, GotoMoves DEF CreateInsert, Active
  <2>2. Serial(c)
    BY <1>a, <2>1, ActiveIsSerial DEF Active
  <2>3. Aware(c)'
    BY <2>1 DEF Aware
  <2> QED
    BY <1>4, <1>a, <2>2, <2>3, SerialStep, InsertIsFunded DEF SerialInv
<1>5. ASSUME NEW c \in Calls, NEW r \in Requests, CancelRead(c, r) PROVE SerialInv'
  <2>1. "write" \in Active /\ "cancelled" \in Statuses /\ Cancellable \in SUBSET Reserved
    BY DEF Active, Statuses, Terminal, Cancellable, Reserved
  <2>2. /\ Moves(c) /\ call'[c].step = "write" /\ call'[c].req = r
        /\ call'[c].target = "cancelled"
    BY <1>5, <1>a, <2>1, BeginMoves DEF CancelRead
  <2>3. Serial(c)
    BY <1>5, <2>2, BeginIsSerial DEF CancelRead
  <2>4. UNCHANGED <<requestVars, ledgerVars>>
    BY <1>5 DEF CancelRead
  <2>5. Aware(c)'
    BY <1>5, <2>1, <2>2, <2>4 DEF CancelRead, Aware, requestVars
  <2> QED
    BY <2>3, <2>4, <2>5, SerialRead
<1>6. ASSUME NEW c \in Calls, NEW r \in Requests, NEW t \in Statuses, AdminRead(c, r, t)
      PROVE  SerialInv'
  <2>1. "write" \in Active /\ "debit" \in Active
    BY DEF Active
  <2>2. /\ Moves(c) /\ call'[c].req = r /\ call'[c].target = t
        /\ call'[c].step = IF t = "paid" THEN "debit" ELSE "write"
    BY <1>6, <1>a, <2>1, BeginMoves DEF AdminRead
  <2>3. Serial(c)
    BY <1>6, <2>2, BeginIsSerial DEF AdminRead
  <2>4. UNCHANGED <<requestVars, ledgerVars>>
    BY <1>6 DEF AdminRead
  <2>5. status[r] \in Reserved
    BY <1>6, MovableIsReserved DEF AdminRead
  <2>6. Aware(c)'
    BY <2>2, <2>4, <2>5 DEF Aware, requestVars
  <2> QED
    BY <2>3, <2>4, <2>6, SerialRead
<1>7. ASSUME NEW c \in Calls, Debit(c) PROVE SerialInv'
  <2>1. /\ Moves(c) /\ call[c].step = "debit" /\ call'[c].step = "tag"
        /\ call'[c].req = call[c].req
    BY <1>7, <1>a, GotoMoves DEF Debit, Active
  <2>2. Serial(c)
    BY <1>a, <2>1, ActiveIsSerial DEF Active
  <2>3. status' = status /\ status[call[c].req] \in Reserved
    BY <1>7, <1>a, <2>1 DEF Debit, requestVars, Aware
  <2>4. Spent' /\ RequestsAreFunded' /\ Backed' /\ debits'[call[c].req] > 0
    BY <1>7, <1>a, DebitIsFunded
  <2>5. Aware(c)'
    BY <2>1, <2>3, <2>4 DEF Aware
  <2> QED
    BY <2>2, <2>4, <2>5, SerialStep DEF SerialInv
<1>8. ASSUME NEW c \in Calls, TagDebit(c) PROVE SerialInv'
  <2>1. /\ Moves(c) /\ call[c].step = "tag" /\ call'[c].step = "write"
        /\ call'[c].req = call[c].req
    BY <1>8, <1>a, GotoMoves DEF TagDebit, Active
  <2>2. Serial(c)
    BY <1>a, <2>1, ActiveIsSerial DEF Active
  <2>3. UNCHANGED <<status, amount, debits, settled>>
    BY <1>8 DEF TagDebit, requestVars
  <2>4. Aware(c)'
    BY <1>a, <2>1, <2>3 DEF Aware
  <2>5. Spent' /\ RequestsAreFunded' /\ Backed'
    BY <2>3 DEF SerialInv, Backed, Spent, Debited, RequestsAreFunded
  <2> QED
    BY <2>2, <2>4, <2>5, SerialStep DEF SerialInv
<1>9. ASSUME NEW c \in Calls, WriteStatus(c) PROVE SerialInv'
  <2>1. Moves(c) /\ call[c].step = "write" /\ call'[c].step = "sumLedger"
    BY <1>9, <1>a, GotoMoves DEF WriteStatus, Active
  <2>2. Serial(c)
    BY <1>a, <2>1, ActiveIsSerial DEF Active
  <2>3. Aware(c)'
    BY <2>1 DEF Aware
  <2> QED
    BY <1>9, <1>a, <2>2, <2>3, SerialStep, WriteIsFunded DEF SerialInv
<1>10. ASSUME NEW c \in Calls, GetWallet(c) PROVE SerialInv'
  <2>1. "sumLedger" \in Active
    BY DEF Active
  <2>2. Moves(c) /\ call'[c].step = "sumLedger"
    BY <1>10, <1>a, <2>1, BeginMoves DEF GetWallet
  <2>3. Serial(c)
    BY <1>10, <2>2, BeginIsSerial DEF GetWallet
  <2>4. Aware(c)' /\ UNCHANGED <<requestVars, ledgerVars>>
    BY <1>10, <2>2 DEF Aware, GetWallet
  <2> QED
    BY <2>3, <2>4, SerialRead
<1>11. ASSUME NEW c \in Calls, SumLedger(c) \/ SumReserved(c) \/ SaveWallet(c) \/ Crash(c)
       PROVE  SerialInv'
  <2>1. settled \in Int /\ Pending \in Int /\ "sumReserved" \in Active /\ "save" \in Active
    BY <1>a, PendingIsInt DEF Typed, Active
  <2>2. Moves(c) /\ call'[c].step \in {"sumReserved", "save", "done", "lost"}
    BY <1>11, <1>a, <2>1, SumMoves, HeldMoves, FinishMoves, CrashMoves
    DEF SumLedger, SumReserved, SaveWallet
  <2>3. call[c].step \in Active
    BY <1>11 DEF SumLedger, SumReserved, SaveWallet, Crash, Active
  <2>4. Serial(c)
    BY <1>a, <2>2, <2>3, ActiveIsSerial
  <2>5. Aware(c)' /\ UNCHANGED <<requestVars, ledgerVars>>
    BY <1>11, <2>2 DEF Aware, SumLedger, SumReserved, SaveWallet, Crash
  <2> QED
    BY <2>4, <2>5, SerialRead
<1>12. ASSUME NEW a \in Purchases, Buy(a) PROVE SerialInv'
  <2>1. \A d \in Calls : call[d].step \notin Active
    BY <1>12 DEF Buy
  <2>2. OneAtATime' /\ (\A d \in Calls : Aware(d))'
    BY <1>12, <2>1 DEF Buy, OneAtATime, Aware, Active
  <2>3. UNCHANGED <<status, amount, debits>> /\ settled' = settled - a
    BY <1>12 DEF Buy, requestVars
  <2>4. RequestsAreFunded' /\ Backed'
    BY <2>3 DEF SerialInv, Backed, RequestsAreFunded
  <2>5. a \in Nat /\ settled \in Int /\ SumOver(amount, Debited) \in Nat /\ Opening \in Nat
    BY <1>a, AmountsAreSummable, WithdrawalConstants DEF Typed
  <2>6. Spent'
    BY <2>3, <2>5 DEF SerialInv, Spent, Debited
  <2> QED
    BY <2>2, <2>4, <2>6 DEF SerialInv
<1>13. CASE UNCHANGED vars
  <2>1. UNCHANGED <<status, amount, debits, settled, call, Pending>>
    BY <1>13, SamePending DEF vars, requestVars, ledgerVars
  <2> QED
    BY <2>1 DEF SerialInv, OneAtATime, Aware, Backed, Spent, Debited, RequestsAreFunded
<1> QED
  BY <1>1, <1>2, <1>3, <1>4, <1>5, <1>6, <1>7, <1>8, <1>9, <1>10, <1>11, <1>12, <1>13
  DEF Next, CallStep

LEMMA SerialInvariant == ASSUME ~Overlap PROVE Spec => []SerialInv
<1>1. Init => SerialInv
  BY InitSerialInv
<1>2. WithdrawalInv /\ SerialInv /\ [Next]_vars => SerialInv'
  BY StepSerialInv
<1> QED
  BY <1>1, <1>2, WithdrawalInvariant, PTL DEF Spec

\* While calls do not overlap, the requests that are open or paid never claim
\* more than the account held, wherever calls die: what the check finds free is
\* still free when the request is inserted, so the tolerance is granted once.
THEOREM RequestsStayFunded == ASSUME ~Overlap PROVE Spec => []RequestsAreFunded
<1>1. SerialInv => RequestsAreFunded
  BY DEF SerialInv
<1> QED
  BY <1>1, SerialInvariant, PTL

-----------------------------------------------------------------------------
(* One call at a time, and each runs to its end.                           *)

DebitsFollow ==
  \A r \in Requests :
    debits[r] = IF status[r] = "paid" \/ \E c \in Calls : OnItsWay(c, r) THEN 1 ELSE 0

\* The wallet document may lag from the first write of a handler to its last.
Lagging == {"tag", "write", "sumLedger", "sumReserved", "save"}

WalletFollows ==
  (\A c \in Calls : call[c].step \notin Lagging) => wallet = [settled |-> settled, pending |-> Pending]

Recomputing(c) ==
  /\ call[c].step \in {"sumReserved", "save"} => call[c].sum = settled
  /\ call[c].step = "save" => call[c].held = Pending

CompleteInv == DebitsFollow /\ WalletFollows /\ \A c \in Calls : Recomputing(c)

LEMMA InitCompleteInv == Init => CompleteInv
<1> SUFFICES ASSUME Init PROVE CompleteInv
  OBVIOUS
<1>1. OpenRequests = {}
  BY DEF Init, OpenRequests, Reserved
<1>2. Pending = 0
  BY <1>1, PendingIsSum, SumEmpty
<1>3. \A c \in Calls : call[c].step = "idle"
  BY DEF Init, Idle
<1> QED
  BY <1>2, <1>3 DEF Init, CompleteInv, DebitsFollow, OnItsWay, WalletFollows, Recomputing

\* A handler that writes nothing the wallet shows.
LEMMA CompleteRead ==
  ASSUME CompleteInv, NEW c \in Calls, Moves(c),
         UNCHANGED <<status, amount, debits, settled, wallet>>, Recomputing(c)',
         \A r \in Requests : OnItsWay(c, r)' <=> OnItsWay(c, r),
         call[c].step \in Lagging => call'[c].step \in Lagging
  PROVE  CompleteInv'
<1>1. Pending' = Pending
  BY SamePending
<1>2. \A d \in Calls \ {c} : call'[d] = call[d]
  BY DEF Moves
<1>3. \A d \in Calls, r \in Requests : OnItsWay(d, r)' <=> OnItsWay(d, r)
  BY <1>2 DEF OnItsWay
<1>4. DebitsFollow'
  BY <1>3 DEF CompleteInv, DebitsFollow
<1>5. WalletFollows'
  BY <1>1, <1>2 DEF CompleteInv, WalletFollows
<1>6. \A d \in Calls : Recomputing(d)'
  BY <1>1, <1>2 DEF CompleteInv, Recomputing
<1> QED
  BY <1>4, <1>5, <1>6 DEF CompleteInv

\* A handler that writes has the wallet yet to recompute.
LEMMA CompleteWrite ==
  ASSUME NEW c \in Calls, Serial(c), call'[c].step \in {"tag", "sumLedger"}, DebitsFollow'
  PROVE  CompleteInv'
<1>1. WalletFollows'
  BY DEF WalletFollows, Lagging
<1>2. \A d \in Calls : Recomputing(d)'
  BY DEF Recomputing, Serial, Moves, Active
<1> QED
  BY <1>1, <1>2 DEF CompleteInv

\* While c moves, a payment is on its way by no other handler.
LEMMA OnlyOneOnItsWay ==
  ASSUME NEW c \in Calls, Serial(c), NEW d \in Calls \ {c}, NEW r
  PROVE  ~OnItsWay(d, r) /\ ~OnItsWay(d, r)'
BY DEF Serial, Moves, OnItsWay, Active

LEMMA StepCompleteInv ==
  ASSUME ~Overlap, ~AllowCrash
  PROVE  WithdrawalInv /\ SerialInv /\ CompleteInv /\ [Next]_vars => CompleteInv'
<1> SUFFICES ASSUME WithdrawalInv, SerialInv, CompleteInv, [Next]_vars PROVE CompleteInv'
  OBVIOUS
<1>a. Typed /\ OneAtATime /\ \A c \in Calls : Aware(c) /\ Informed(c) /\ Recomputing(c)
  BY DEF WithdrawalInv, SerialInv, CompleteInv
<1>1. ASSUME NEW c \in Calls, NEW r \in Requests, NEW a \in Amounts, CreateBegin(c, r, a)
      PROVE  CompleteInv'
  <2>1. a \in Nat /\ "checkLedger" \in Active
    BY WithdrawalConstants DEF Active
  <2>2. Moves(c) /\ call'[c].step = "checkLedger" /\ call[c].step = "idle"
    BY <1>1, <1>a, <2>1, BeginMoves, BeginsIdle DEF CreateBegin
  <2>3. Recomputing(c)' /\ call[c].step \notin Lagging
        /\ \A q \in Requests : ~OnItsWay(c, q) /\ ~OnItsWay(c, q)'
    BY <2>2 DEF Recomputing, Lagging, OnItsWay
  <2>4. UNCHANGED <<status, amount, debits, settled, wallet>>
    BY <1>1 DEF CreateBegin, requestVars, ledgerVars
  <2> QED
    BY <2>2, <2>3, <2>4, CompleteRead
<1>2. ASSUME NEW c \in Calls, CreateReadLedger(c) \/ CreateCheck(c) PROVE CompleteInv'
  <2>1. call[c].step \in {"checkLedger", "checkReserved"} /\ settled \in Int
        /\ "checkReserved" \in Active /\ "insert" \in Active
    BY <1>2, <1>a DEF CreateReadLedger, CreateCheck, Active, Typed
  <2>2. Moves(c) /\ call'[c].step \in {"checkReserved", "insert", "done"}
    <3>1. CASE CreateReadLedger(c)
      BY <1>a, <2>1, <3>1, SumMoves DEF CreateReadLedger
    <3>2. CASE Finish(c)
      BY <1>a, <3>2, FinishMoves
    <3>3. CASE Goto(c, "checkReserved", "insert")
      BY <1>a, <2>1, <3>3, GotoMoves
    <3> QED
      BY <1>2, <3>1, <3>2, <3>3 DEF CreateCheck
  <2>3. Recomputing(c)' /\ call[c].step \notin Lagging
        /\ \A q \in Requests : ~OnItsWay(c, q) /\ ~OnItsWay(c, q)'
    BY <2>1, <2>2 DEF Recomputing, Lagging, OnItsWay
  <2>4. UNCHANGED <<status, amount, debits, settled, wallet>>
    BY <1>2 DEF CreateReadLedger, CreateCheck, requestVars, ledgerVars
  <2> QED
    BY <2>2, <2>3, <2>4, CompleteRead
<1>3. ASSUME NEW c \in Calls, CreateInsert(c) PROVE CompleteInv'
  <2>1. Moves(c) /\ call'[c].step = "sumLedger" /\ call[c].step = "insert"
    BY <1>3, <1>a, GotoMoves DEF CreateInsert, Active
  <2>2. Serial(c)
    BY <1>a, <2>1, ActiveIsSerial DEF Active
  <2>3. /\ call[c].req \in Requests /\ status[call[c].req] = "none" /\ debits' = debits
        /\ status'[call[c].req] = "requested"
        /\ \A r \in Requests \ {call[c].req} : status'[r] = status[r]
    BY <1>3, <1>a, <2>1 DEF CreateInsert, SetStatus, Informed, Busy, Aware, Typed, ledgerVars
  <2>4. \A d \in Calls, r \in Requests : ~OnItsWay(d, r) /\ ~OnItsWay(d, r)'
    BY <2>1, <2>2, OnlyOneOnItsWay DEF OnItsWay
  <2>5. DebitsFollow'
    BY <2>3, <2>4 DEF CompleteInv, DebitsFollow
  <2> QED
    BY <2>1, <2>2, <2>5, CompleteWrite
<1>4. ASSUME NEW c \in Calls, NEW r \in Requests, CancelRead(c, r) PROVE CompleteInv'
  <2>1. "write" \in Active /\ "cancelled" \in Statuses
    BY DEF Active, Statuses, Terminal
  <2>2. /\ Moves(c) /\ call'[c].step = "write" /\ call[c].step = "idle"
        /\ call'[c].target = "cancelled"
    BY <1>4, <1>a, <2>1, BeginMoves, BeginsIdle DEF CancelRead
  <2>3. Recomputing(c)' /\ call[c].step \notin Lagging
        /\ \A q \in Requests : ~OnItsWay(c, q) /\ ~OnItsWay(c, q)'
    BY <2>2 DEF Recomputing, Lagging, OnItsWay
  <2>4. UNCHANGED <<status, amount, debits, settled, wallet>>
    BY <1>4 DEF CancelRead, requestVars, ledgerVars
  <2> QED
    BY <2>2, <2>3, <2>4, CompleteRead
<1>5. ASSUME NEW c \in Calls, NEW r \in Requests, NEW t \in Statuses, AdminRead(c, r, t)
      PROVE  CompleteInv'
  <2>1. "write" \in Active /\ "debit" \in Active
    BY DEF Active
  <2>2. /\ Moves(c) /\ call'[c].target = t /\ call[c].step = "idle"
        /\ call'[c].step = IF t = "paid" THEN "debit" ELSE "write"
    BY <1>5, <1>a, <2>1, BeginMoves, BeginsIdle DEF AdminRead
  <2>3. Recomputing(c)' /\ call[c].step \notin Lagging
        /\ \A q \in Requests : ~OnItsWay(c, q) /\ ~OnItsWay(c, q)'
    BY <2>2 DEF Recomputing, Lagging, OnItsWay
  <2>4. UNCHANGED <<status, amount, debits, settled, wallet>>
    BY <1>5 DEF AdminRead, requestVars, ledgerVars
  <2> QED
    BY <2>2, <2>3, <2>4, CompleteRead
<1>6. ASSUME NEW c \in Calls, Debit(c) PROVE CompleteInv'
  <2>1. /\ Moves(c) /\ call[c].step = "debit" /\ call'[c].step = "tag"
        /\ call'[c].req = call[c].req
    BY <1>6, <1>a, GotoMoves DEF Debit, Active
  <2>2. Serial(c)
    BY <1>a, <2>1, ActiveIsSerial DEF Active
  <2>3. /\ call[c].req \in Requests /\ status[call[c].req] \in Reserved /\ status' = status
        /\ debits'[call[c].req] = debits[call[c].req] + 1
        /\ \A r \in Requests \ {call[c].req} : debits'[r] = debits[r]
    BY <1>6, <1>a, <2>1 DEF Debit, requestVars, Informed, Busy, Aware, Typed
  <2>4. \A d \in Calls, r \in Requests : ~OnItsWay(d, r)
    BY <2>1, <2>2, OnlyOneOnItsWay DEF OnItsWay
  <2>5. \A r \in Requests : (\E d \in Calls : OnItsWay(d, r)') <=> r = call[c].req
    BY <2>1, <2>2, OnlyOneOnItsWay DEF OnItsWay
  <2>6. DebitsFollow'
    BY <2>3, <2>4, <2>5 DEF CompleteInv, DebitsFollow, Reserved
  <2> QED
    BY <2>1, <2>2, <2>6, CompleteWrite
<1>7. ASSUME NEW c \in Calls, TagDebit(c) PROVE CompleteInv'
  <2>1. /\ Moves(c) /\ call[c].step = "tag" /\ call'[c].step = "write"
        /\ call'[c].req = call[c].req /\ call'[c].target = call[c].target
    BY <1>7, <1>a, GotoMoves DEF TagDebit, Active
  <2>2. call[c].target = "paid"
    BY <1>a, <2>1 DEF Informed
  <2>3. Recomputing(c)' /\ call'[c].step \in Lagging
        /\ \A r \in Requests : OnItsWay(c, r)' <=> OnItsWay(c, r)
    BY <2>1, <2>2 DEF Recomputing, Lagging, OnItsWay
  <2>4. UNCHANGED <<status, amount, debits, settled, wallet>>
    BY <1>7 DEF TagDebit, requestVars
  <2> QED
    BY <2>1, <2>3, <2>4, CompleteRead
<1>8. ASSUME NEW c \in Calls, WriteStatus(c) PROVE CompleteInv'
  <2>1. Moves(c) /\ call[c].step = "write" /\ call'[c].step = "sumLedger"
    BY <1>8, <1>a, GotoMoves DEF WriteStatus, Active
  <2>2. Serial(c)
    BY <1>a, <2>1, ActiveIsSerial DEF Active
  <2>3. /\ call[c].req \in Requests /\ status[call[c].req] \in Reserved /\ debits' = debits
        /\ status'[call[c].req] = call[c].target
        /\ \A r \in Requests \ {call[c].req} : status'[r] = status[r]
    BY <1>8, <1>a, <2>1 DEF WriteStatus, SetStatus, ledgerVars, Informed, Busy, Aware, Typed
  <2>4. \A r \in Requests :
          (\E d \in Calls : OnItsWay(d, r)) <=> r = call[c].req /\ call[c].target = "paid"
    BY <2>1, <2>2, OnlyOneOnItsWay DEF OnItsWay
  <2>5. \A d \in Calls, r \in Requests : ~OnItsWay(d, r)'
    BY <2>1, <2>2, OnlyOneOnItsWay DEF OnItsWay
  <2>6. DebitsFollow'
    BY <2>3, <2>4, <2>5 DEF CompleteInv, DebitsFollow, Reserved
  <2> QED
    BY <2>1, <2>2, <2>6, CompleteWrite
<1>9. ASSUME NEW c \in Calls, GetWallet(c) PROVE CompleteInv'
  <2>1. "sumLedger" \in Active
    BY DEF Active
  <2>2. Moves(c) /\ call'[c].step = "sumLedger" /\ call[c].step = "idle"
    BY <1>9, <1>a, <2>1, BeginMoves, BeginsIdle DEF GetWallet
  <2>3. Recomputing(c)' /\ call[c].step \notin Lagging
        /\ \A q \in Requests : ~OnItsWay(c, q) /\ ~OnItsWay(c, q)'
    BY <2>2 DEF Recomputing, Lagging, OnItsWay
  <2>4. UNCHANGED <<status, amount, debits, settled, wallet>>
    BY <1>9 DEF GetWallet, requestVars, ledgerVars
  <2> QED
    BY <2>2, <2>3, <2>4, CompleteRead
<1>10. ASSUME NEW c \in Calls, SumLedger(c) PROVE CompleteInv'
  <2>1. settled \in Int /\ "sumReserved" \in Active
    BY <1>a DEF Typed, Active
  <2>2. /\ Moves(c) /\ call'[c].step = "sumReserved" /\ call'[c].sum = settled
        /\ call[c].step = "sumLedger"
    BY <1>10, <1>a, <2>1, SumMoves DEF SumLedger
  <2>3. UNCHANGED <<status, amount, debits, settled, wallet>>
    BY <1>10 DEF SumLedger, requestVars, ledgerVars
  <2>4. Recomputing(c)' /\ call'[c].step \in Lagging
        /\ \A q \in Requests : ~OnItsWay(c, q) /\ ~OnItsWay(c, q)'
    BY <2>2, <2>3 DEF Recomputing, Lagging, OnItsWay
  <2> QED
    BY <2>2, <2>3, <2>4, CompleteRead
<1>11. ASSUME NEW c \in Calls, SumReserved(c) PROVE CompleteInv'
  <2>1. Pending \in Int /\ "save" \in Active
    BY <1>a, PendingIsInt DEF Active
  <2>2. /\ Moves(c) /\ call'[c].step = "save" /\ call'[c].held = Pending
        /\ call[c].step = "sumReserved" /\ call'[c].sum = call[c].sum
    BY <1>11, <1>a, <2>1, HeldMoves DEF SumReserved
  <2>3. UNCHANGED <<status, amount, debits, settled, wallet, Pending>>
    BY <1>11, SamePending DEF SumReserved, requestVars, ledgerVars
  <2>4. Recomputing(c)' /\ call'[c].step \in Lagging
        /\ \A q \in Requests : ~OnItsWay(c, q) /\ ~OnItsWay(c, q)'
    BY <1>a, <2>2, <2>3 DEF Recomputing, Lagging, OnItsWay
  <2> QED
    BY <2>2, <2>3, <2>4, CompleteRead
<1>12. ASSUME NEW c \in Calls, SaveWallet(c) PROVE CompleteInv'
  <2>1. Moves(c) /\ call'[c].step = "done" /\ call[c].step = "save"
    BY <1>12, <1>a, FinishMoves DEF SaveWallet
  <2>2. Serial(c)
    BY <1>a, <2>1, ActiveIsSerial DEF Active
  <2>3. UNCHANGED <<status, amount, debits, settled, Pending>>
    BY <1>12, SamePending DEF SaveWallet, requestVars, ledgerVars
  <2>4. wallet' = [settled |-> settled, pending |-> Pending]
    BY <1>12, <1>a, <2>1 DEF SaveWallet, Recomputing
  <2>5. \A d \in Calls, r \in Requests : ~OnItsWay(d, r) /\ ~OnItsWay(d, r)'
    BY <2>1, <2>2, OnlyOneOnItsWay DEF OnItsWay
  <2>6. DebitsFollow'
    BY <2>3, <2>5 DEF CompleteInv, DebitsFollow
  <2>7. \A d \in Calls : Recomputing(d)'
    BY <2>1, <2>2 DEF Recomputing, Serial, Moves, Active
  <2> QED
    BY <2>3, <2>4, <2>6, <2>7 DEF CompleteInv, WalletFollows
<1>13. ASSUME NEW a \in Purchases, Buy(a) PROVE CompleteInv'
  <2>1. \A d \in Calls : call[d].step \notin Active
    BY <1>13 DEF Buy
  <2>2. UNCHANGED <<status, amount, debits, call, Pending>>
        /\ wallet' = [settled |-> settled', pending |-> Pending]
    BY <1>13, SamePending DEF Buy, requestVars
  <2>3. DebitsFollow'
    BY <2>2 DEF CompleteInv, DebitsFollow, OnItsWay
  <2>4. \A d \in Calls : Recomputing(d)'
    BY <2>1, <2>2 DEF Recomputing, Active
  <2> QED
    BY <2>2, <2>3, <2>4 DEF CompleteInv, WalletFollows
<1>14. CASE UNCHANGED vars
  <2>1. UNCHANGED <<status, amount, debits, settled, wallet, call, Pending>>
    BY <1>14, SamePending DEF vars, requestVars, ledgerVars
  <2> QED
    BY <2>1 DEF CompleteInv, DebitsFollow, OnItsWay, WalletFollows, Recomputing
<1> QED
  BY <1>1, <1>2, <1>3, <1>4, <1>5, <1>6, <1>7, <1>8, <1>9, <1>10, <1>11, <1>12, <1>13, <1>14
  DEF Next, CallStep, Crash

LEMMA CompleteInvariant == ASSUME ~Overlap, ~AllowCrash PROVE Spec => []CompleteInv
<1>1. Init => CompleteInv
  BY InitCompleteInv
<1>2. WithdrawalInv /\ SerialInv /\ CompleteInv /\ [Next]_vars => CompleteInv'
  BY StepCompleteInv
<1> QED
  BY <1>1, <1>2, WithdrawalInvariant, SerialInvariant, PTL DEF Spec

\* Check I5: while calls neither overlap nor die, once no call is under way
\* exactly the paid requests have a debit, and exactly one.
THEOREM DebitsFollowPayments == ASSUME ~Overlap, ~AllowCrash PROVE Spec => []DebitsMatchPaid
<1>1. CompleteInv => DebitsMatchPaid
  BY DEF CompleteInv, DebitsFollow, OnItsWay, DebitsMatchPaid, Quiet, Active
<1> QED
  BY <1>1, CompleteInvariant, PTL

\* Check I3: while calls neither overlap nor die, once no call is under way the
\* wallet document shows the ledger and the open requests as they are.
THEOREM WalletTellsTheTruth == ASSUME ~Overlap, ~AllowCrash PROVE Spec => []WalletIsFresh
<1>1. CompleteInv => WalletIsFresh
  BY DEF CompleteInv, WalletFollows, WalletIsFresh, Quiet, Active, Lagging
<1> QED
  BY <1>1, CompleteInvariant, PTL
=============================================================================
