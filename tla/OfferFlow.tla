----------------------------- MODULE OfferFlow -----------------------------
(***************************************************************************)
(* The life of an offer in the scheduler: the offer cache composed with    *)
(* the three places of scheduler/scheduler.go that use it,                 *)
(*   - ResourceOffers, which declines an offer or pushes it and starts a   *)
(*     timer that takes it out again and declines it;                      *)
(*   - OfferRescinded;                                                     *)
(*   - launchOne, which pops an offer and launches on it or declines it.   *)
(* Whether an offer is wanted, valid or launched on depends on scheduler   *)
(* state that is left open here.                                           *)
(***************************************************************************)
EXTENDS OfferCache

VARIABLES
  answers,   \* number of DeclineOffer / LaunchTasks calls for each offer
  timers,    \* offers whose goroutine of ResourceOffers sleeps
  held,      \* the offer launchOne has popped and not answered yet
  revoked    \* offers OfferRescinded took out of the cache

flowVars == <<cacheVars, answers, timers, held, revoked>>

FlowTypeOK ==
  /\ TypeOK
  /\ answers \in [Offers -> Nat]
  /\ timers \in SUBSET Offers
  /\ held \in OrNone(Offers)
  /\ revoked \in SUBSET Offers

FlowInit ==
  /\ Init
  /\ answers = [o \in Offers |-> 0]
  /\ timers = {}
  /\ held = None
  /\ revoked = {}

Answered(o) == answers' = [answers EXCEPT ![o] = @ + 1]

-----------------------------------------------------------------------------
(* ResourceOffers.                                                         *)

\* Immutable, slave in use, or not enough resources: declined outright.
DeclineUnwanted(o) ==
  /\ mutFree
  /\ o \notin arrived
  /\ arrived' = arrived \cup {o}
  /\ Answered(o)
  /\ UNCHANGED <<offerSet, offerQueue, pushVars, popHand, timers, held,
                 revoked>>

\* Push returns false at once, and the offer is declined.
OfferRefused(o) ==
  /\ PushReject(o)
  /\ Answered(o)
  /\ UNCHANGED <<timers, held, revoked>>

OfferEntered(o) ==
  /\ PushAccept(o)
  /\ UNCHANGED <<answers, timers, held, revoked>>

\* Mutant: no timer is started.
OfferQueuedNoTimer ==
  /\ PushSend
  /\ UNCHANGED <<answers, timers, held, revoked>>

\* Push returns true, and the timer of the offer is started.
OfferQueued ==
  /\ PushSend
  /\ timers' = timers \cup {pushOffer}
  /\ UNCHANGED <<answers, held, revoked>>

OfferGc ==
  /\ PushFull \/ GcDrop \/ GcTake \/ GcRequeue
  /\ UNCHANGED <<answers, timers, held, revoked>>

\* gc returns into Push; when Push then returns false the offer is declined.
OfferGcReturn ==
  /\ GcReturn
  /\ IF pushTry = 0 THEN UNCHANGED answers ELSE Answered(pushOffer)
  /\ UNCHANGED <<timers, held, revoked>>

\* Mutant: the timer declines without looking at what Rescind returned.
TimerDeclinesAlways(o) ==
  /\ o \in timers
  /\ Rescind(o)
  /\ timers' = timers \ {o}
  /\ Answered(o)
  /\ UNCHANGED <<held, revoked>>

\* The timer goroutine wakes up: it declines the offer if Rescind says that
\* it was still in the cache.
TimerFires(o) ==
  /\ o \in timers
  /\ Rescind(o)
  /\ timers' = timers \ {o}
  /\ IF o \in offerSet THEN Answered(o) ELSE UNCHANGED answers
  /\ UNCHANGED <<held, revoked>>

-----------------------------------------------------------------------------
(* OfferRescinded and launchOne.                                           *)

OfferRescinded(o) ==
  /\ o \in arrived
  /\ Rescind(o)
  /\ revoked' = IF o \in offerSet THEN revoked \cup {o} ELSE revoked
  /\ UNCHANGED <<answers, timers, held>>

LauncherReceives ==
  /\ held = None
  /\ PopReceive
  /\ UNCHANGED <<answers, timers, held, revoked>>

LauncherPops ==
  /\ PopReturn
  /\ held' = popHand
  /\ UNCHANGED <<answers, timers, revoked>>

LauncherSkips ==
  /\ PopSkip
  /\ UNCHANGED <<answers, timers, held, revoked>>

\* launchOne declines the popped offer (it is not valid for the current
\* members, or shouldLaunch has turned false) or launches a task on it.
LauncherAnswers ==
  /\ held # None
  /\ Answered(held)
  /\ held' = None
  /\ UNCHANGED <<cacheVars, timers, revoked>>

-----------------------------------------------------------------------------
OfferArrives(o) == DeclineUnwanted(o) \/ OfferRefused(o) \/ OfferEntered(o)

OfferPushStep == OfferQueued \/ OfferGc \/ OfferGcReturn

FlowNext ==
  \/ \E o \in Offers : OfferArrives(o) \/ TimerFires(o) \/ OfferRescinded(o)
  \/ OfferPushStep
  \/ LauncherReceives \/ LauncherPops \/ LauncherSkips \/ LauncherAnswers

(* Fairness: Go runs every runnable goroutine, a sleep ends, and a         *)
(* goroutine waiting for mut gets it (sync.RWMutex does not starve a       *)
(* writer), hence strong fairness where the step needs the lock.  Nothing  *)
(* is assumed of Mesos, nor that the launcher ever asks for an offer.      *)
FlowFairness ==
  /\ WF_flowVars(OfferPushStep)
  /\ \A o \in Offers : SF_flowVars(TimerFires(o))
  /\ SF_flowVars(LauncherPops \/ LauncherSkips)
  /\ WF_flowVars(LauncherAnswers)

FlowSafety == FlowInit /\ [][FlowNext]_flowVars

FlowSpec == FlowSafety /\ FlowFairness

-----------------------------------------------------------------------------
(* Properties.                                                             *)

(* No offer is answered twice.  The timer (scheduler.go:299-305), the      *)
(* launcher, a failing Push and OfferRescinded race for it, and only the   *)
(* membership test under mut decides who answers.                          *)
AnsweredAtMostOnce == \A o \in Offers : answers[o] <= 1

(* Every offer that reaches the scheduler is in the end answered, or was   *)
(* taken back by Mesos while cached: none is forgotten.                    *)
EveryOfferResolved ==
  \A o \in Offers : o \in arrived ~> (answers[o] = 1 \/ o \in revoked)

\* Where an offer is, as far as Mesos is concerned.
Where ==
  [o \in Offers |->
     IF o \in offerSet THEN "cached"
     ELSE IF o = held THEN "held"
     ELSE IF o \in revoked THEN "revoked"
     ELSE IF o \in arrived THEN "closed"
     ELSE "unseen"]

Ledger == INSTANCE OfferLedger WITH where <- Where, answers <- answers

(* The cache, its timers and the launcher together implement the ledger.   *)
LedgerImplemented == Ledger!LedgerSpec
=============================================================================
