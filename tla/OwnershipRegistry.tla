-------------------------- MODULE OwnershipRegistry --------------------------
(***************************************************************************)
(* What is derived from the ownership of one asset: whole units on the     *)
(* ownership rows (lumen_unit_registry.py), one certificate per owner      *)
(* (lumen_certificates.py) and the link from the row to the certificate    *)
(* (lumen_ownership_lifecycle.py).  A settled trade rebuilds all three one *)
(* after the other, so do the hooks of a restart, and an administrator     *)
(* rebuilds each of them alone.  A failure of one part is caught and the   *)
(* next one runs.  Events, numbers and codes of certificates are left out. *)
(*                                                                         *)
(* A call id is a slot for one handler, which runs from await to await.    *)
(* Nobody waits for anybody, and nothing is undone when a handler dies.    *)
(***************************************************************************)
EXTENDS OwnershipRecords

CONSTANTS
  Invested,     \* Invested[h]: active primary investments at first, in UAH
  Amounts,      \* amounts of trades and of further investments, in UAH
  Calls,        \* slots for handlers
  MaxBegun,     \* bound on what is begun: calls and further investments
  None          \* Python's None

\* None is not a holder, a certificate, a handler or a part.
ConstantsFit ==
  /\ IsFiniteSet(Holders) /\ Holders \subseteq Nat
  /\ Invested \in [Holders -> Nat] /\ Amounts \subseteq Nat \ {0}
  /\ Price \in Nat \ {0} /\ TotalUnits \in Nat \ {0}
  /\ MaxBegun \in Nat /\ MaxCerts \in Nat
  /\ None \notin Nat \cup Calls \cup Parts

ASSUME RegistryConstants == ConstantsFit

VARIABLES
  invested,   \* the active investments among cap, whose rest are transfers
  begun,      \* how much has begun
  call,       \* the handlers
  alone       \* the handler that took all steps since its part began; no guard
              \* reads it, and none reads healed

rows == <<units, issued>>
watch == <<alone, healed>>
vars == <<cap, invested, begun, rows, cert, bound, call, watch>>

\* part is where the handler is, last the part after which it ends, None if it
\* is about one certificate; held maps holders to what was read of them, todo
\* is what its loop has left, old the certificate at hand.
Idle == [step |-> "idle", part |-> None, last |-> None, held |-> <<>>, todo |-> {}, old |-> None]

Init ==
  /\ cap = Invested /\ invested = Invested /\ begun = 0
  /\ units = [h \in Holders |-> 0] /\ issued = 0
  /\ cert = [k \in Certs |-> [status |-> "none", owner |-> None, units |-> 0]]
  /\ bound = [h \in Holders |-> None]
  /\ call = [c \in Calls |-> Idle]
  /\ alone = None /\ healed = {}

-----------------------------------------------------------------------------
(* Largest remainders.                                                     *)

\* round() of Python: halves go to the even neighbour.
RoundHalfEven(n, d) ==
  LET q == n \div d
      r == 2 * (n % d)
  IN IF r < d \/ (r = d /\ q % 2 = 0) THEN q ELSE q + 1

\* Whole units in proportion to the weights w of S; what the floors leave goes
\* to the largest remainders, to the first of those that are equal.
LargestRemainder(w, S, total) ==
  LET sum == SumFunctionOnSet(w, S)
      floor == [h \in S |-> (w[h] * total) \div sum]
      part == [h \in S |-> (w[h] * total) % sum]
      left == total - SumFunctionOnSet(floor, S)
      before(h) == {g \in S : part[g] > part[h] \/ (part[g] = part[h] /\ g < h)}
  IN [h \in S |-> floor[h] + IF Cardinality(before(h)) < left THEN 1 ELSE 0]

\* Mutant: units are rounded one by one.
RoundedShares(w) == [h \in Owners(w) |-> RoundHalfEven(w[h], Price)]

\* The units of a cap table, and no more of them than there are.
Shares(w) ==
  LET S == Owners(w)
      raised == SumFunctionOnSet(w, S)
      wanted == RoundHalfEven(raised, Price)
  IN LargestRemainder(w, S, IF wanted < TotalUnits THEN wanted ELSE TotalUnits)

-----------------------------------------------------------------------------
(* Handlers.                                                               *)

FirstStep(part) ==
  CASE part = "registry" -> "capRead"
    [] part = "certificates" -> "ownersRead"
    [] part = "binding" -> "bindRead"

NextPart(part) == IF part = "registry" THEN "certificates" ELSE "binding"

\* What part builds and what is built on it.
From(part) ==
  CASE part = "registry" -> Parts
    [] part = "certificates" -> {"certificates", "binding"}
    [] part = "binding" -> {"binding"}
    [] OTHER -> {}

Run(part, last) == [Idle EXCEPT !.step = FirstStep(part), !.part = part, !.last = last]

\* The part of a handler is over: it goes on with the next one or ends.
Ended(k) == IF k.last \in {k.part, None} THEN Idle ELSE Run(NextPart(k.part), k.last)

Count ==
  /\ begun < MaxBegun
  /\ begun' = begun + 1

Begin(c, k) ==
  /\ Count
  /\ call[c] = Idle
  /\ call' = [call EXCEPT ![c] = k]

Goes(c, from, k, heals) ==
  /\ UNCHANGED begun
  /\ call[c].step = from
  /\ call' = [call EXCEPT ![c] = k]
  /\ alone' = IF alone = c \/ from = FirstStep(call[c].part) THEN c ELSE None
  /\ healed' = (healed \ From(call[c].part)) \cup {p \in {call[c].part} : heals /\ alone' = c}

Go(c, from, k) == Goes(c, from, k, FALSE)
Goto(c, from, step) == Go(c, from, [call[c] EXCEPT !.step = step])

\* The last step of a part that has run to its end.
Finish(c, from) == Goes(c, from, Ended(call[c]), TRUE)

\* A loop over todo, then step; without anything to do step at once.
Loop(k, step, todo, then) == [k EXCEPT !.step = IF todo = {} THEN then ELSE step, !.todo = todo]

Disturb(S) == alone' = None /\ healed' = healed \ S

-----------------------------------------------------------------------------
(* The cap table: a trade of _settle_trade, whose hooks rebuild what is    *)
(* derived, and an investment that becomes active, which rebuilds nothing. *)

Transfer(c, seller, buyer, amount) ==
  /\ seller # buyer
  /\ cap' = [cap EXCEPT ![seller] = @ - amount, ![buyer] = @ + amount]
  /\ Begin(c, Run("registry", "binding"))
  /\ Disturb(Parts)
  /\ UNCHANGED <<invested, rows, cert, bound>>

Activate(h, amount) ==
  /\ Count
  /\ cap' = [cap EXCEPT ![h] = @ + amount] /\ invested' = [invested EXCEPT ![h] = @ + amount]
  /\ Disturb(Parts)
  /\ UNCHANGED <<rows, cert, bound, call>>

\* The hooks of a restart run through all parts; an administrator asks for one.
Rebuild(c) ==
  /\ \/ Begin(c, Run("registry", "binding"))
     \/ \E part \in Parts : Begin(c, Run(part, part))
  /\ UNCHANGED <<cap, invested, rows, cert, bound, watch>>

-----------------------------------------------------------------------------
(* recompute_asset: the cap table is read, the investments first and the   *)
(* transfers after them, then the rows are written one by one, then those  *)
(* that are not in it, then the sum.                                       *)

CapRead(c) ==
  /\ Go(c, "capRead", [call[c] EXCEPT !.step = "movedRead", !.held = invested])
  /\ UNCHANGED <<cap, invested, rows, cert, bound>>

MovedRead(c) ==
  LET share == Shares([h \in Holders |-> call[c].held[h] + (cap[h] - invested[h])])
  IN /\ Go(c, "movedRead", Loop([call[c] EXCEPT !.held = share], "writeRow", DOMAIN share, "zeroRead"))
     /\ UNCHANGED <<cap, invested, rows, cert, bound>>

WriteRow(c) ==
  LET k == call[c]
  IN \E h \in k.todo :
       /\ h = Min(k.todo)
       /\ Go(c, "writeRow", Loop(k, "writeRow", k.todo \ {h}, "zeroRead"))
       /\ units' = [units EXCEPT ![h] = k.held[h]]
       /\ UNCHANGED <<cap, invested, issued, cert, bound>>

\* Mutant: rows that left the cap table are left alone.
ZeroNothing(c) ==
  /\ Goto(c, "zeroRead", "writeIssued")
  /\ UNCHANGED <<cap, invested, rows, cert, bound>>

ZeroRead(c) ==
  LET gone == Owners(units) \ DOMAIN call[c].held
  IN /\ Go(c, "zeroRead", Loop(call[c], "zeroRow", gone, "writeIssued"))
     /\ UNCHANGED <<cap, invested, rows, cert, bound>>

ZeroRow(c) ==
  LET k == call[c]
  IN \E h \in k.todo :
       /\ h = Min(k.todo)
       /\ Go(c, "zeroRow", Loop(k, "zeroRow", k.todo \ {h}, "writeIssued"))
       /\ units' = [units EXCEPT ![h] = 0]
       /\ UNCHANGED <<cap, invested, issued, cert, bound>>

WriteIssued(c) ==
  /\ Finish(c, "writeIssued")
  /\ issued' = SumFunction(call[c].held)
  /\ UNCHANGED <<cap, invested, units, cert, bound>>

-----------------------------------------------------------------------------
(* reconcile_asset: the rows are read; every owner comes to have an active *)
(* certificate of its units, by "burn and re-issue"; those of others are   *)
(* voided.                                                                 *)

\* What find_one may return for a certificate of h that is active.
AnyActive(h) == IF Active(h) = {} THEN {None} ELSE Active(h)

\* Owner h is done with; a handler about one certificate ends there.
Certified(k, h) ==
  IF k.last = None THEN Idle
  ELSE Loop([k EXCEPT !.old = None], "findActive", k.todo \ {h}, "exitsRead")

SetStatus(k, status) == cert' = [cert EXCEPT ![k].status = status]

OwnersRead(c) ==
  LET S == Owners(units)
  IN /\ Go(c, "ownersRead", Loop([call[c] EXCEPT !.held = Restrict(units, S)], "findActive", S,
                                 "exitsRead"))
     /\ UNCHANGED <<cap, invested, rows, cert, bound>>

\* Mutant: a certificate that is there is taken to be right.
FindAnyActive(c) ==
  LET k == call[c]
      h == Min(k.todo)
  IN /\ call[c].step = "findActive"
     /\ Go(c, "findActive", IF Active(h) = {} THEN [k EXCEPT !.step = "issue"] ELSE Certified(k, h))
     /\ UNCHANGED <<cap, invested, rows, cert, bound>>

FindActive(c) ==
  LET k == call[c]
      h == Min(k.todo)
  IN /\ call[c].step = "findActive"
     /\ \E a \in AnyActive(h) :
          Go(c, "findActive", IF a # None /\ cert[a].units = k.held[h] THEN Certified(k, h)
                              ELSE [k EXCEPT !.step = "issue", !.old = a])
     /\ UNCHANGED <<cap, invested, rows, cert, bound>>

Issue(c) ==
  LET k == call[c]
      h == Min(k.todo)
  IN \E new \in Certs :
       /\ call[c].step = "issue" /\ cert[new].status = "none"
       /\ \A x \in 1 .. new - 1 : cert[x].status # "none"
       /\ Go(c, "issue", IF k.old = None THEN Certified(k, h) ELSE [k EXCEPT !.step = "replace"])
       /\ cert' = [cert EXCEPT ![new] = [status |-> "active", owner |-> h, units |-> k.held[h]]]
       /\ UNCHANGED <<cap, invested, rows, bound>>

Replace(c) ==
  /\ Go(c, "replace", Certified(call[c], Min(call[c].todo)))
  /\ SetStatus(call[c].old, "replaced")
  /\ UNCHANGED <<cap, invested, rows, bound>>

ExitsRead(c) ==
  LET gone == {k \in Certs : cert[k].status = "active" /\ cert[k].owner \notin DOMAIN call[c].held}
  IN /\ IF gone = {} THEN Finish(c, "exitsRead")
        ELSE Go(c, "exitsRead", Loop(call[c], "void", gone, "void"))
     /\ UNCHANGED <<cap, invested, rows, cert, bound>>

Void(c) ==
  LET k == Min(call[c].todo)
  IN /\ call[c].step = "void"
     /\ IF call[c].todo = {k} THEN Finish(c, "void")
        ELSE Go(c, "void", [call[c] EXCEPT !.todo = @ \ {k}])
     /\ SetStatus(k, "voided")
     /\ UNCHANGED <<cap, invested, rows, bound>>

\* admin_void and admin_reissue: the certificate is read, and in the second
\* case, whatever its status is, the row of its owner after it.
ForOne == [Idle EXCEPT !.part = "certificates"]

AdminVoid(c, k) ==
  /\ cert[k].status = "active"
  /\ Begin(c, [ForOne EXCEPT !.step = "void", !.todo = {k}])
  /\ Disturb({})
  /\ UNCHANGED <<cap, invested, rows, cert, bound>>

AdminReissue(c, k) ==
  /\ cert[k].status # "none"
  /\ Begin(c, [ForOne EXCEPT !.step = "reissue", !.todo = {k}])
  /\ Disturb({})
  /\ UNCHANGED <<cap, invested, rows, cert, bound>>

ReissueRead(c) ==
  LET k == Min(call[c].todo)
      h == cert[k].owner
  IN /\ call[c].step = "reissue"
     /\ Go(c, "reissue",
           IF units[h] = 0 THEN [call[c] EXCEPT !.step = "void"]
           ELSE [call[c] EXCEPT !.step = "issue", !.todo = {h}, !.held = Restrict(units, {h}),
                                !.old = k])
     /\ UNCHANGED <<cap, invested, rows, cert, bound>>

-----------------------------------------------------------------------------
(* bind_all: every active certificate is linked from its owner's row, then *)
(* links to certificates that are not active are mended.                   *)

BindRead(c) ==
  LET S == {k \in Certs : cert[k].status = "active"}
  IN /\ Go(c, "bindRead", Loop(call[c], "bindRow", S, "staleRead"))
     /\ UNCHANGED <<cap, invested, rows, cert, bound>>

BindRow(c) ==
  LET k == Min(call[c].todo)
  IN /\ Go(c, "bindRow", Loop(call[c], "bindRow", call[c].todo \ {k}, "staleRead"))
     /\ bound' = [bound EXCEPT ![cert[k].owner] = k]
     /\ UNCHANGED <<cap, invested, rows, cert>>

StaleRead(c) ==
  LET S == {h \in Holders : bound[h] # None}
  IN /\ IF S = {} THEN Finish(c, "staleRead")
        ELSE Go(c, "staleRead", Loop([call[c] EXCEPT !.held = Restrict(bound, S)], "staleCheck", S,
                                     "staleCheck"))
     /\ UNCHANGED <<cap, invested, rows, cert, bound>>

\* The row of h is done with.
Mended(c, from, h) ==
  IF call[c].todo = {h} THEN Finish(c, from)
  ELSE Go(c, from, [call[c] EXCEPT !.step = "staleCheck", !.todo = @ \ {h}, !.old = None])

StaleCheck(c) ==
  LET h == Min(call[c].todo)
  IN /\ call[c].step = "staleCheck"
     /\ IF cert[call[c].held[h]].status = "active" THEN Mended(c, "staleCheck", h)
        ELSE Goto(c, "staleCheck", "staleActive")
     /\ UNCHANGED <<cap, invested, rows, cert, bound>>

StaleActive(c) ==
  /\ call[c].step = "staleActive"
  /\ \E a \in AnyActive(Min(call[c].todo)) :
       Go(c, "staleActive", [call[c] EXCEPT !.step = "staleWrite", !.old = a])
  /\ UNCHANGED <<cap, invested, rows, cert, bound>>

StaleWrite(c) ==
  LET h == Min(call[c].todo)
  IN /\ call[c].step = "staleWrite"
     /\ Mended(c, "staleWrite", h)
     /\ bound' = [bound EXCEPT ![h] = call[c].old]
     /\ UNCHANGED <<cap, invested, rows, cert>>

-----------------------------------------------------------------------------
\* A part raises, which is caught, or the handler dies with its process.
Break(c) ==
  /\ call[c] # Idle
  /\ \E k \in {Ended(call[c]), Idle} : call' = [call EXCEPT ![c] = k]
  /\ UNCHANGED <<cap, invested, begun, rows, cert, bound, watch>>

Recompute(c) ==
  \/ CapRead(c) \/ MovedRead(c) \/ WriteRow(c) \/ ZeroRead(c) \/ ZeroRow(c) \/ WriteIssued(c)

Reconcile(c) ==
  \/ OwnersRead(c) \/ FindActive(c) \/ Issue(c) \/ Replace(c) \/ ExitsRead(c) \/ Void(c)

Bind(c) ==
  \/ BindRead(c) \/ BindRow(c) \/ StaleRead(c) \/ StaleCheck(c) \/ StaleActive(c) \/ StaleWrite(c)

Admin(c) == ReissueRead(c) \/ \E k \in Certs : AdminVoid(c, k) \/ AdminReissue(c, k)

Next ==
  \/ \E h \in Holders, amount \in Amounts : Activate(h, amount)
  \/ \E c \in Calls :
       \/ \E seller, buyer \in Holders, amount \in Amounts : Transfer(c, seller, buyer, amount)
       \/ Rebuild(c) \/ Admin(c)
       \/ Recompute(c) \/ Reconcile(c) \/ Bind(c)
       \/ Break(c)

Spec == Init /\ [][Next]_vars

-----------------------------------------------------------------------------
(* Properties.                                                             *)

CertDocs == [status : {"none", "active", "replaced", "voided"}, owner : Holders \cup {None},
             units : Nat]

\* Documents and handlers hold what the code can put there.
TypeOK ==
  /\ cap \in [Holders -> Int] /\ invested \in [Holders -> Int] /\ begun \in 0 .. MaxBegun
  /\ units \in [Holders -> 0 .. TotalUnits] /\ issued \in 0 .. TotalUnits
  /\ cert \in [Certs -> CertDocs]
  /\ bound \in [Holders -> Certs \cup {None}]
  /\ \A c \in Calls : call[c].part \in Parts \cup {None} /\ call[c].last \in Parts \cup {None}
  /\ alone \in Calls \cup {None} /\ healed \subseteq Parts

\* Check "single_active_per_owner" of the certificates.
SingleActive == "certificates" \in healed => \A h \in Holders : Cardinality(Active(h)) <= 1
=============================================================================
