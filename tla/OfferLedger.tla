---------------------------- MODULE OfferLedger ----------------------------
(***************************************************************************)
(* What the scheduler promises Mesos about offers: each one it is sent is  *)
(* answered (declined or launched on) once, unless Mesos takes it back     *)
(* while it is waiting to be used; few wait at a time, and at most one per *)
(* slave if so configured.  Nothing is said of channels, locks or timers.  *)
(***************************************************************************)
EXTENDS Naturals, FiniteSets

CONSTANTS Offers, SlaveOf, maxOffers, singleInstancePerSlave

VARIABLES where,    \* where each offer is
          answers   \* how often each offer has been answered

ledgerVars == <<where, answers>>

Places == {"unseen", "cached", "held", "closed", "revoked"}

LedgerInit ==
  /\ where = [o \in Offers |-> "unseen"]
  /\ answers = [o \in Offers |-> 0]

At(p) == {o \in Offers : where[o] = p}

Move(o, p) == where' = [where EXCEPT ![o] = p]

Answer(o) == answers' = [answers EXCEPT ![o] = @ + 1]

\* An offer is kept for later.
Keep(o) ==
  /\ where[o] = "unseen"
  /\ Cardinality(At("cached")) < maxOffers
  /\ singleInstancePerSlave =>
       \A p \in At("cached") : SlaveOf[p] # SlaveOf[o]
  /\ Move(o, "cached")
  /\ UNCHANGED answers

\* The launcher, which holds one offer at a time, takes a kept offer.
Take(o) ==
  /\ where[o] = "cached"
  /\ At("held") = {}
  /\ Move(o, "held")
  /\ UNCHANGED answers

\* An offer is declined, or the launcher launches on it.
Close(o) ==
  /\ where[o] \in {"unseen", "cached", "held"}
  /\ Move(o, "closed")
  /\ Answer(o)

\* Mesos takes back a kept offer.
Revoke(o) ==
  /\ where[o] = "cached"
  /\ Move(o, "revoked")
  /\ UNCHANGED answers

LedgerNext == \E o \in Offers : Keep(o) \/ Take(o) \/ Close(o) \/ Revoke(o)

LedgerSafety == LedgerInit /\ [][LedgerNext]_ledgerVars

\* No offer waits forever, in the cache or with the launcher.
LedgerSpec ==
  /\ LedgerSafety
  /\ \A o \in Offers : []<>(where[o] \notin {"cached", "held"})
=============================================================================
