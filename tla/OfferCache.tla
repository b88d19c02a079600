----------------------------- MODULE OfferCache -----------------------------
(***************************************************************************)
(* The cache of Mesos offers, offercache/offercache.go.                    *)
(*                                                                         *)
(* offerSet holds the offers that are still valid; offerQueue is a bounded *)
(* Go channel that also holds entries whose offer has since left the set.  *)
(* Three kinds of goroutines work on them:                                 *)
(*   - the driver's callback goroutine pushes (Push, and gc inside it) and *)
(*     rescinds; callbacks are serialised, so there is one pusher;         *)
(*   - one timer goroutine per cached offer rescinds it;                   *)
(*   - the launcher pops.  Its channel receive takes no lock, so it can    *)
(*     fall between any two channel operations of a Push that holds mut.   *)
(* A critical section without channel operations is one step; Push is one  *)
(* step per channel operation.                                             *)
(***************************************************************************)
EXTENDS Naturals, Sequences, FiniteSets

CONSTANTS Offers,                  \* offer ids; Mesos never reuses one
          SlaveOf,                 \* the slave each offer is for
          maxOffers,               \* capacity of set and channel
          singleInstancePerSlave,  \* the flag of the same name
          None                     \* a value that is not an offer

ASSUME OfferCacheAssumption ==
  /\ IsFiniteSet(Offers)
  /\ SlaveOf = [o \in Offers |-> SlaveOf[o]]
  /\ maxOffers \in Nat \ {0}
  /\ singleInstancePerSlave \in BOOLEAN
  /\ None \notin Offers

VARIABLES
  offerSet,    \* ids of the valid offers
  offerQueue,  \* the channel
  arrived,     \* offers ResourceOffers has been called with
  pushPc,      \* where Push is; mut is held whenever it is not "idle"
  pushOffer,   \* newOffer of the running Push
  pushTry,     \* Push's loop counter
  gcIter,      \* gc's loop counter
  gcHand,      \* the entry gc has received and will put back
  popHand      \* the entry BlockingPop has received but not yet looked up

cacheVars ==
  <<offerSet, offerQueue, arrived, pushPc, pushOffer, pushTry, gcIter, gcHand,
    popHand>>

pushVars == <<pushPc, pushOffer, pushTry, gcIter, gcHand>>

OrNone(S) == S \cup {None}

TypeOK ==
  /\ offerSet \in SUBSET Offers
  /\ offerQueue \in Seq(Offers)
  /\ Len(offerQueue) <= maxOffers
  /\ arrived \in SUBSET Offers
  /\ pushPc \in {"idle", "try", "gc", "requeue"}
  /\ pushOffer \in OrNone(Offers)
  /\ pushTry \in 0..1
  /\ gcIter \in Nat
  /\ gcHand \in OrNone(Offers)
  /\ popHand \in OrNone(Offers)

Init ==
  /\ offerSet = {}
  /\ offerQueue = <<>>
  /\ arrived = {}
  /\ pushPc = "idle"
  /\ pushOffer = None
  /\ pushTry = 0
  /\ gcIter = 0
  /\ gcHand = None
  /\ popHand = None

mutFree == pushPc = "idle"

-----------------------------------------------------------------------------
(* Push.                                                                   *)

SlaveCached(o) ==
  singleInstancePerSlave /\ \E p \in offerSet : SlaveOf[p] = SlaveOf[o]

HasRoom(o) == Cardinality(offerSet) < maxOffers /\ ~SlaveCached(o)

\* Push returns false without touching the cache.
PushReject(o) ==
  /\ mutFree
  /\ o \notin arrived
  /\ ~HasRoom(o)
  /\ arrived' = arrived \cup {o}
  /\ UNCHANGED <<offerSet, offerQueue, pushVars, popHand>>

\* Push enters the offer in the set and goes on to its send loop.
PushAccept(o) ==
  /\ mutFree
  /\ o \notin arrived
  /\ HasRoom(o)
  /\ arrived' = arrived \cup {o}
  /\ offerSet' = offerSet \cup {o}
  /\ pushPc' = "try"
  /\ pushOffer' = o
  /\ pushTry' = 0
  /\ UNCHANGED <<offerQueue, gcIter, gcHand, popHand>>

QueueFull == Len(offerQueue) >= maxOffers

PushReturn ==
  /\ pushPc' = "idle"
  /\ pushOffer' = None
  /\ pushTry' = 0
  /\ gcIter' = 0
  /\ gcHand' = None

\* The non-blocking send succeeds: Push returns true.
PushSend ==
  /\ pushPc = "try"
  /\ ~QueueFull
  /\ offerQueue' = Append(offerQueue, pushOffer)
  /\ PushReturn
  /\ UNCHANGED <<offerSet, arrived, popHand>>

\* The channel is full: the select's default branch calls gc.
PushFull ==
  /\ pushPc = "try"
  /\ QueueFull
  /\ pushPc' = "gc"
  /\ gcIter' = 0
  /\ UNCHANGED <<offerSet, offerQueue, arrived, pushOffer, pushTry, gcHand,
                 popHand>>

\* Mutant: the loop ends too early.
GcBoundShort == Cardinality(offerSet) - 1

GcBound == Cardinality(offerSet) + 1

GcRunning == pushPc = "gc" /\ gcIter < GcBound /\ offerQueue # <<>>

\* gc receives an entry whose offer is gone, and drops it.
GcDrop ==
  /\ GcRunning
  /\ Head(offerQueue) \notin offerSet
  /\ offerQueue' = Tail(offerQueue)
  /\ gcIter' = gcIter + 1
  /\ UNCHANGED <<offerSet, arrived, pushPc, pushOffer, pushTry, gcHand,
                 popHand>>

\* Mutant: the entry is looked at, not received.
GcTakeCopies ==
  /\ GcRunning
  /\ Head(offerQueue) \in offerSet
  /\ gcHand' = Head(offerQueue)
  /\ pushPc' = "requeue"
  /\ UNCHANGED <<offerSet, offerQueue, arrived, pushOffer, pushTry, gcIter,
                 popHand>>

\* gc receives an entry whose offer is valid ...
GcTake ==
  /\ GcRunning
  /\ Head(offerQueue) \in offerSet
  /\ gcHand' = Head(offerQueue)
  /\ offerQueue' = Tail(offerQueue)
  /\ pushPc' = "requeue"
  /\ UNCHANGED <<offerSet, arrived, pushOffer, pushTry, gcIter, popHand>>

\* ... and sends it to the channel again; this send blocks when it is full.
GcRequeue ==
  /\ pushPc = "requeue"
  /\ ~QueueFull
  /\ offerQueue' = Append(offerQueue, gcHand)
  /\ gcHand' = None
  /\ gcIter' = gcIter + 1
  /\ pushPc' = "gc"
  /\ UNCHANGED <<offerSet, arrived, pushOffer, pushTry, popHand>>

GcDone == pushPc = "gc" /\ (gcIter >= GcBound \/ offerQueue = <<>>)

\* gc is over: Push sends again if that was its first attempt; otherwise it
\* leaves its loop and returns false, with the offer still in the set.
GcReturn ==
  /\ GcDone
  /\ IF pushTry = 0
       THEN /\ pushTry' = 1
            /\ pushPc' = "try"
            /\ UNCHANGED <<pushOffer, gcIter, gcHand>>
       ELSE PushReturn
  /\ UNCHANGED <<offerSet, offerQueue, arrived, popHand>>

-----------------------------------------------------------------------------
(* Rescind and BlockingPop.                                                *)

Rescind(o) ==
  /\ mutFree
  /\ offerSet' = offerSet \ {o}
  /\ UNCHANGED <<offerQueue, arrived, pushVars, popHand>>

\* The range over the channel receives an entry, without the lock.
PopReceive ==
  /\ popHand = None
  /\ offerQueue # <<>>
  /\ popHand' = Head(offerQueue)
  /\ offerQueue' = Tail(offerQueue)
  /\ UNCHANGED <<offerSet, arrived, pushVars>>

\* Mutant: the offer is returned and stays in the set.
PopReturnKeeps ==
  /\ mutFree
  /\ popHand \in offerSet
  /\ popHand' = None
  /\ UNCHANGED <<offerSet, offerQueue, arrived, pushVars>>

\* Under the lock: the offer is still valid, BlockingPop returns it.
PopReturn ==
  /\ mutFree
  /\ popHand \in offerSet
  /\ offerSet' = offerSet \ {popHand}
  /\ popHand' = None
  /\ UNCHANGED <<offerQueue, arrived, pushVars>>

\* Under the lock: the offer is gone, BlockingPop loops.
PopSkip ==
  /\ mutFree
  /\ popHand # None
  /\ popHand \notin offerSet
  /\ popHand' = None
  /\ UNCHANGED <<offerSet, offerQueue, arrived, pushVars>>

-----------------------------------------------------------------------------
PushStep ==
  PushSend \/ PushFull \/ GcDrop \/ GcTake \/ GcRequeue \/ GcReturn

Next ==
  \/ \E o \in Offers : PushReject(o) \/ PushAccept(o) \/ Rescind(o)
  \/ PushStep
  \/ PopReceive \/ PopReturn \/ PopSkip

Spec == Init /\ [][Next]_cacheVars

-----------------------------------------------------------------------------
(* Properties.                                                             *)

Queued(o) == \E i \in 1..Len(offerQueue) : offerQueue[i] = o

\* While Push holds an offer it has not sent yet.
Unsent(o) == pushPc # "idle" /\ pushOffer = o

(* Every valid offer can still be found: its entry is in the channel, or   *)
(* in the hands of gc or of BlockingPop, or Push is about to send it.  An  *)
(* offer for which this fails sits in the set, counts against maxOffers,   *)
(* blocks its slave, and can never be launched on.  It relies on gc having *)
(* made room by the time Push's second send is tried.                      *)
NoStrandedOffer ==
  \A o \in offerSet :
    Queued(o) \/ gcHand = o \/ popHand = o \/ Unsent(o)

(* No offer has two entries: in the channel, in gc's hand, in the hand of  *)
(* BlockingPop, and the entry Push has yet to send, all are different.     *)
(* gc takes entries out and puts them back while the launcher receives.    *)
NoDuplicateEntry ==
  /\ \A i, j \in 1..Len(offerQueue) :
       offerQueue[i] = offerQueue[j] => i = j
  /\ gcHand # None => ~Queued(gcHand) /\ gcHand # popHand
  /\ popHand # None => ~Queued(popHand)
  /\ pushPc # "idle" =>
       ~Queued(pushOffer) /\ pushOffer # gcHand /\ pushOffer # popHand

(* The blocking send in gc (offercache.go:111) never blocks: it runs with  *)
(* mut held, and the only receiver may be waiting for mut, so a full       *)
(* channel there would be a deadlock.                                      *)
GcNeverBlocks == pushPc = "requeue" => ~QueueFull

(* With singleInstancePerSlave the cache never holds two offers of a slave.*)
OnePerSlave ==
  singleInstancePerSlave =>
    \A o, p \in offerSet : SlaveOf[o] = SlaveOf[p] => o = p

(* gc always makes room: Push's second send never finds the channel full.  *)
(* Otherwise Push would return false with its offer in the set, and the    *)
(* caller would decline (scheduler.go:307-312) an offer that the cache     *)
(* goes on counting.  gc looks at one entry more than there are valid      *)
(* offers, while the launcher may take entries from under it.              *)
SecondSendHasRoom == pushPc = "try" /\ pushTry = 1 => ~QueueFull
=============================================================================
