-------------------------- MODULE OwnershipRecords --------------------------
(***************************************************************************)
(* The documents of one asset that say who owns how much of it, and what   *)
(* those that are derived owe to those they are derived from once they     *)
(* have been rebuilt.  OwnershipRegistry has the handlers that write them. *)
(***************************************************************************)
EXTENDS Integers, FiniteSets, FiniteSetsExt, Functions

CONSTANTS
  Holders,      \* investors, numbered as the cap table meets them
  Price,        \* unit_price_uah
  TotalUnits,   \* total_units, which never changes
  MaxCerts      \* bound on certificates

VARIABLES
  cap,        \* investments and transfers summed up: what everyone owns in UAH
  units,      \* units_int of the ownership rows
  issued,     \* issued_units of the asset
  cert,       \* lumen_certificates: owner, units and status
  bound,      \* certificate_id of the ownership rows
  healed      \* parts that last ended in a handler that was alone, with
              \* nothing before them changed since

\* What is rebuilt, in this order.
Parts == {"registry", "certificates", "binding"}

Certs == 1 .. MaxCerts

Owners(w) == {h \in DOMAIN w : w[h] > 0}

Active(h) == {k \in Certs : cert[k].status = "active" /\ cert[k].owner = h}

-----------------------------------------------------------------------------
(* Properties.                                                             *)

\* "So the conservation invariant always holds": one recomputation that nobody
\* disturbs leaves everyone with the quota of what he owns, rounded to one side
\* or the other, and their sum is what is issued and no more than there is,
\* whatever overlaps, deaths and oversold listings left behind before.
RegistryHeals ==
  "registry" \in healed =>
    LET raised == SumFunctionOnSet(cap, Owners(cap))
    IN /\ SumFunction(units) = issued
       /\ issued <= TotalUnits
       /\ Owners(units) \subseteq Owners(cap)
       /\ \A h \in Owners(cap) : /\ units[h] * raised > (issued * cap[h]) - raised
                                 /\ units[h] * raised < (issued * cap[h]) + raised
       /\ issued < TotalUnits => /\ 2 * issued * Price <= 2 * raised + Price
                                 /\ 2 * issued * Price >= 2 * raised - Price

\* "Make certificates match the registry" and "the link mandatory and
\* consistent": undisturbed, every owner comes to have an active certificate of
\* the units of his row and nobody else has one, and every row links to an
\* active certificate of its owner if there is one, and to none otherwise.
CertificatesHeal ==
  /\ "certificates" \in healed =>
       \A h \in Holders : IF units[h] = 0 THEN Active(h) = {}
                          ELSE \E k \in Active(h) : cert[k].units = units[h]
  /\ "binding" \in healed =>
       \A h \in Holders : IF Active(h) = {} THEN bound[h] \notin Certs ELSE bound[h] \in Active(h)
=============================================================================
