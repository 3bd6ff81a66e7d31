---------------------------- MODULE TradePromise ----------------------------
(***************************************************************************)
(* What the secondary market promises about trades, with none of its       *)
(* machinery: whether a trade goes through is decided in one atomic step   *)
(* against the capacity of its listing; a trade that went through is first *)
(* paid in full, then delivered, then closed; nothing is ever undone.      *)
(* SecondaryMarket implements it (its module SecondaryMarketRefinement).   *)
(***************************************************************************)
EXTENDS Integers

CONSTANTS Listings, Trades, Tol

VARIABLES
  offered,  \* offered[l]: units put on sale, 0 while l does not exist
  sold,     \* sold[l]: units decided as sold
  phase     \* phase[t]: how far the outcome of t is visible

pvars == <<offered, sold, phase>>

Phases == {"open", "refused", "sold", "paid", "delivered", "closed"}

Init ==
  /\ offered = [l \in Listings |-> 0]
  /\ sold = [l \in Listings |-> 0]
  /\ phase = [t \in Trades |-> "open"]

Offer(l, u) ==
  /\ offered[l] = 0
  /\ u > 0
  /\ offered' = [offered EXCEPT ![l] = u]
  /\ UNCHANGED <<sold, phase>>

Sell(t, l, u) ==
  /\ phase[t] = "open"
  /\ offered[l] > 0
  /\ sold[l] + u <= offered[l] + Tol
  /\ sold' = [sold EXCEPT ![l] = @ + u]
  /\ phase' = [phase EXCEPT ![t] = "sold"]
  /\ UNCHANGED offered

Advance(t, from, to) ==
  /\ phase[t] = from
  /\ phase' = [phase EXCEPT ![t] = to]
  /\ UNCHANGED <<offered, sold>>

Next ==
  \/ \E l \in Listings : Offer(l, offered'[l])
  \/ \E t \in Trades :
       \/ \E l \in Listings : Sell(t, l, sold'[l] - sold[l])
       \/ Advance(t, "open", "refused")
       \/ Advance(t, "sold", "paid")
       \/ Advance(t, "paid", "delivered")
       \/ Advance(t, "delivered", "closed")

Spec == Init /\ [][Next]_pvars
=============================================================================
