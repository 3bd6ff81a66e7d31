---------------------- MODULE SecondaryMarketRefinement ----------------------
(* SecondaryMarket implements TradePromise: the refinement mapping.        *)
EXTENDS SecondaryMarket

\* A trade is paid once every ledger entry it owes is in, delivered once its
\* transfer row exists, closed once its document says settled.
VisiblePhase(t) ==
  CASE trades[t].status = "settled"             -> "closed"
    [] trades[t].status # "settled" /\ t \in transferred -> "delivered"
    [] t \notin transferred /\ pc[t] \in AfterReserve
         /\ ledger[t] = Owed(t)                 -> "paid"
    [] t \notin transferred /\ pc[t] \in AfterReserve
         /\ ledger[t] # Owed(t)                 -> "sold"
    [] pc[t] = "refused"                        -> "refused"
    [] pc[t] \notin AfterReserve \cup {"refused"} -> "open"

Promise == INSTANCE TradePromise
  WITH offered <- [l \in Listings |-> listings[l].units],
       sold    <- [l \in Listings |-> listings[l].filled],
       phase   <- [t \in Trades |-> VisiblePhase(t)]

\* Every interleaving of the handlers, with crashes, looks from outside like
\* atomic sales that are paid for before they are delivered.
ImplementsTradePromise == Promise!Init /\ [][Promise!Next]_(Promise!pvars)
=============================================================================
