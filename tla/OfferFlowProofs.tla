-------------------------- MODULE OfferFlowProofs --------------------------
(***************************************************************************)
(* The offer cache never loses an offer, every offer is answered at most   *)
(* once, and the offer flow implements the safety part of the offer        *)
(* ledger, for any number of offers and slaves and any capacity.           *)
(***************************************************************************)
EXTENDS OfferFlow, FiniteSetTheorems, TLAPS

-----------------------------------------------------------------------------
(* The cache.                                                              *)

\* Push's local variables, by program counter.
PushLocals ==
  /\ pushPc = "idle" <=> pushOffer = None
  /\ pushPc = "idle" => pushTry = 0
  /\ pushPc # "idle" => pushOffer \in offerSet
  /\ pushPc \in {"gc", "requeue"} => pushTry = 0
  /\ pushPc = "requeue" <=> gcHand # None
  /\ gcHand # None => gcHand \in offerSet

\* Only offers that have arrived are in the cache, and the set is bounded.
OnlyArrived ==
  /\ offerSet \subseteq arrived
  /\ \A i \in 1..Len(offerQueue) : offerQueue[i] \in arrived
  /\ popHand # None => popHand \in arrived
  /\ Cardinality(offerSet) <= maxOffers

(* While gc has found nothing to drop and the launcher has taken nothing,  *)
(* the channel is as full as it was (counting gc's hand), and the entries  *)
(* gc has put back, at the tail, are all valid.                            *)
GcProgress ==
  LET n == IF pushPc = "requeue" THEN maxOffers - 1 ELSE maxOffers
  IN  pushPc \in {"gc", "requeue"} /\ Len(offerQueue) = n =>
        \A j \in 1..n : j > n - gcIter => offerQueue[j] \in offerSet

IInv ==
  /\ TypeOK
  /\ PushLocals
  /\ OnlyArrived
  /\ NoDuplicateEntry
  /\ NoStrandedOffer
  /\ GcNeverBlocks
  /\ OnePerSlave
  /\ SecondSendHasRoom
  /\ GcProgress

-----------------------------------------------------------------------------
(* Facts about the channel and the set.                                    *)

\* Receiving from the channel removes exactly its first entry.
LEMMA ReceiveFacts ==
  ASSUME NEW q \in Seq(Offers), q # <<>>
  PROVE  /\ Tail(q) \in Seq(Offers)
         /\ Head(q) \in Offers
         /\ Head(q) = q[1]
         /\ Len(q) \in Nat \ {0}
         /\ Len(Tail(q)) = Len(q) - 1
         /\ \A i \in 1..Len(Tail(q)) : Tail(q)[i] = q[i + 1]
  OBVIOUS

\* Sending to the channel adds exactly one entry, at the end.
LEMMA SendFacts ==
  ASSUME NEW q \in Seq(Offers), NEW o \in Offers
  PROVE  /\ Append(q, o) \in Seq(Offers)
         /\ Len(q) \in Nat
         /\ Len(Append(q, o)) = Len(q) + 1
         /\ \A i \in 1..Len(q) : Append(q, o)[i] = q[i]
         /\ Append(q, o)[Len(q) + 1] = o
  OBVIOUS

\* The set is always finite, so len(oc.offerSet) is a number.
LEMMA SetFinite ==
  ASSUME NEW S \in SUBSET Offers
  PROVE  IsFiniteSet(S) /\ Cardinality(S) \in Nat
  BY FS_Subset, FS_CardinalityType, OfferCacheAssumption

(* The counting argument behind gc: when it has looked at one entry more   *)
(* than there are valid offers, it cannot have found them all valid and    *)
(* the channel still full, because the offer being pushed is valid and has *)
(* no entry yet.                                                           *)
LEMMA GcMakesRoom ==
  ASSUME IInv, GcDone
  PROVE  Len(offerQueue) < maxOffers
<1>. SUFFICES ASSUME Len(offerQueue) = maxOffers
              PROVE  FALSE
  BY OfferCacheAssumption DEF IInv, TypeOK
<1>. DEFINE k == Cardinality(offerSet)
            m == IF k + 1 <= maxOffers THEN k + 1 ELSE maxOffers
            I == (maxOffers - m + 1)..maxOffers
            R == offerSet \ {pushOffer}
            f == [j \in I |-> offerQueue[j]]
<1>1. /\ pushPc = "gc"
      /\ pushOffer \in offerSet
      /\ offerQueue \in Seq(Offers)
      /\ maxOffers \in Nat \ {0}
      /\ gcIter \in Nat
      /\ IsFiniteSet(offerSet)
      /\ k \in Nat
      /\ k <= maxOffers
  BY SetFinite, OfferCacheAssumption
     DEF IInv, TypeOK, PushLocals, OnlyArrived, GcDone
<1>2. gcIter >= k + 1
  BY <1>1 DEF GcDone, GcBound
<1>3. m \in Nat /\ m >= k /\ m <= maxOffers /\ m <= gcIter
  BY <1>1, <1>2
<1>4. IsFiniteSet(R) /\ Cardinality(R) = k - 1
  BY <1>1, FS_RemoveElement
<1>5. IsFiniteSet(I) /\ Cardinality(I) = m
  <2>. DEFINE a == maxOffers - m + 1
  <2>1. a \in Int /\ maxOffers \in Int /\ a <= maxOffers + 1
        /\ maxOffers - a + 1 = m
    BY <1>1, <1>3
  <2>. HIDE DEF a, m
  <2>2. IsFiniteSet(a..maxOffers) /\ Cardinality(a..maxOffers) = m
    BY <1>3, <2>1, FS_Interval
  <2>. QED
    BY <2>2 DEF a
<1>6. ASSUME NEW j \in I
      PROVE  offerQueue[j] \in R
  <2>1. j \in 1..maxOffers /\ j > maxOffers - gcIter
    BY <1>1, <1>3
  <2>2. offerQueue[j] \in offerSet
    BY <1>1, <2>1 DEF IInv, GcProgress
  <2>3. offerQueue[j] # pushOffer
    BY <1>1, <2>1 DEF IInv, NoDuplicateEntry, Queued
  <2>. QED
    BY <2>2, <2>3
<1>7. f \in [I -> R]
  BY <1>6
<1>8. PICK x, y \in I : x # y /\ f[x] = f[y]
  <2>1. Cardinality(R) < Cardinality(I)
    BY <1>1, <1>3, <1>4, <1>5
  <2>. HIDE DEF f, I, R
  <2>. QED
    BY <1>4, <1>5, <1>7, <2>1, FS_PigeonHole
<1>9. x \in 1..Len(offerQueue) /\ y \in 1..Len(offerQueue)
  BY <1>1, <1>3
<1>. QED
  BY <1>8, <1>9 DEF IInv, NoDuplicateEntry

-----------------------------------------------------------------------------
(* Every step preserves the invariant, one lemma per kind of goroutine.    *)

\* Push up to its first send: the offer is rejected, or enters the set.
LEMMA PushEntryPreserves ==
  ASSUME IInv, NEW o \in Offers, PushReject(o) \/ PushAccept(o)
  PROVE  IInv'
<1>. USE DEF IInv
<1>1. CASE PushReject(o)
  BY <1>1 DEF PushReject, pushVars, TypeOK, PushLocals, OnlyArrived,
     NoDuplicateEntry, NoStrandedOffer, GcNeverBlocks, OnePerSlave,
     SecondSendHasRoom, GcProgress, Queued, Unsent, QueueFull, OrNone
<1>2. CASE PushAccept(o)
  <2>. USE <1>2 DEF PushAccept, mutFree
  <2>1. TypeOK' /\ PushLocals'
    BY OfferCacheAssumption DEF TypeOK, PushLocals, OrNone
  <2>2. OnlyArrived'
    <3>1. Cardinality(offerSet \cup {o}) <= maxOffers
      <4>1. IsFiniteSet(offerSet) /\ Cardinality(offerSet) \in Nat
        BY SetFinite DEF TypeOK
      <4>2. o \notin offerSet
        BY DEF OnlyArrived
      <4>3. Cardinality(offerSet \cup {o}) = Cardinality(offerSet) + 1
        BY <4>1, <4>2, FS_AddElement
      <4>. QED
        BY <4>1, <4>3, OfferCacheAssumption DEF HasRoom
    <3>. QED
      BY <3>1 DEF OnlyArrived
  <2>3. NoDuplicateEntry'
    BY OfferCacheAssumption
       DEF NoDuplicateEntry, Queued, OnlyArrived, PushLocals
  <2>4. NoStrandedOffer'
    BY DEF NoStrandedOffer, Queued, Unsent
  <2>5. OnePerSlave'
    BY DEF OnePerSlave, HasRoom, SlaveCached
  <2>6. GcNeverBlocks' /\ SecondSendHasRoom' /\ GcProgress'
    BY DEF GcNeverBlocks, SecondSendHasRoom, GcProgress
  <2>. QED
    BY <2>1, <2>2, <2>3, <2>4, <2>5, <2>6
<1>. QED
  BY <1>1, <1>2

\* Push's sends.
LEMMA PushSendPreserves ==
  ASSUME IInv, PushSend \/ PushFull
  PROVE  IInv'
<1>. USE DEF IInv
<1>1. CASE PushSend
  <2>. USE <1>1 DEF PushSend, PushReturn
  <2>. DEFINE q == Append(offerQueue, pushOffer)
  <2>1. /\ offerQueue \in Seq(Offers)
        /\ pushOffer \in Offers
        /\ pushOffer \in offerSet
        /\ Len(offerQueue) < maxOffers
    BY OfferCacheAssumption DEF TypeOK, PushLocals, QueueFull
  <2>2. /\ q \in Seq(Offers)
        /\ Len(offerQueue) \in Nat
        /\ Len(q) = Len(offerQueue) + 1
        /\ \A i \in 1..Len(offerQueue) : q[i] = offerQueue[i]
        /\ q[Len(offerQueue) + 1] = pushOffer
    BY <2>1, SendFacts
  <2>3. offerQueue' = q
    OBVIOUS
  <2>. HIDE DEF q
  <2>4. TypeOK' /\ PushLocals'
    BY <2>1, <2>2, <2>3, OfferCacheAssumption DEF TypeOK, PushLocals, OrNone
  <2>5. \A i \in 1..Len(q) : i \in 1..Len(offerQueue) \/ i = Len(offerQueue) + 1
    BY <2>2
  <2>6. OnlyArrived'
    BY <2>1, <2>2, <2>3, <2>5 DEF OnlyArrived
  <2>7. NoDuplicateEntry'
    BY <2>1, <2>2, <2>3, <2>5, OfferCacheAssumption
       DEF NoDuplicateEntry, Queued, PushLocals
  <2>8. NoStrandedOffer'
    BY <2>1, <2>2, <2>3 DEF NoStrandedOffer, Queued, Unsent, PushLocals
  <2>9. GcNeverBlocks' /\ OnePerSlave' /\ SecondSendHasRoom' /\ GcProgress'
    BY DEF GcNeverBlocks, OnePerSlave, SecondSendHasRoom, GcProgress
  <2>. QED
    BY <2>4, <2>6, <2>7, <2>8, <2>9
<1>2. CASE PushFull
  <2>1. pushTry = 0
    BY <1>2 DEF PushFull, SecondSendHasRoom, TypeOK
  <2>. QED
    BY <1>2, <2>1, OfferCacheAssumption
       DEF PushFull, TypeOK, PushLocals, OnlyArrived, NoDuplicateEntry,
           NoStrandedOffer, GcNeverBlocks, OnePerSlave, SecondSendHasRoom,
           GcProgress, Queued, Unsent, QueueFull
<1>. QED
  BY <1>1, <1>2

\* gc receives an entry and drops it, or keeps it in hand.
LEMMA GcReceivePreserves ==
  ASSUME IInv, GcDrop \/ GcTake
  PROVE  IInv'
<1>. USE DEF IInv
<1>. DEFINE q == Tail(offerQueue)
<1>1. /\ GcRunning
      /\ offerQueue' = q
      /\ UNCHANGED <<offerSet, arrived, pushOffer, pushTry, popHand>>
  BY DEF GcDrop, GcTake
<1>2. /\ offerQueue \in Seq(Offers)
      /\ offerQueue # <<>>
      /\ pushPc = "gc"
      /\ gcHand = None
      /\ maxOffers \in Nat \ {0}
      /\ gcIter \in Nat
  BY <1>1, OfferCacheAssumption DEF GcRunning, TypeOK, PushLocals
<1>3. /\ q \in Seq(Offers)
      /\ Head(offerQueue) \in Offers
      /\ Head(offerQueue) = offerQueue[1]
      /\ Len(offerQueue) \in Nat \ {0}
      /\ Len(q) = Len(offerQueue) - 1
      /\ \A i \in 1..Len(q) : q[i] = offerQueue[i + 1]
  BY <1>2, ReceiveFacts
<1>4. /\ \A i \in 1..Len(q) : i + 1 \in 1..Len(offerQueue) /\ i + 1 # 1
      /\ \A i \in 1..Len(offerQueue) : i = 1 \/ i - 1 \in 1..Len(q)
      /\ 1 \in 1..Len(offerQueue)
  BY <1>3
<1>5. \A x : Queued(x) =>
        x = Head(offerQueue) \/ \E i \in 1..Len(q) : q[i] = x
  <2>. SUFFICES ASSUME NEW j \in 1..Len(offerQueue), j # 1
                PROVE  \E i \in 1..Len(q) : q[i] = offerQueue[j]
    BY <1>3 DEF Queued
  <2>. HIDE DEF q
  <2>1. j - 1 \in 1..Len(q) /\ (j - 1) + 1 = j
    BY <1>4
  <2>2. q[j - 1] = offerQueue[j]
    BY <1>3, <2>1
  <2>. QED
    BY <2>1, <2>2
<1>6. \A i \in 1..Len(q) : Queued(q[i]) /\ q[i] # Head(offerQueue)
  BY <1>3, <1>4 DEF Queued, NoDuplicateEntry
<1>. HIDE DEF q
<1>7. OnlyArrived' /\ OnePerSlave'
  BY <1>1, <1>3, <1>4 DEF OnlyArrived, OnePerSlave
<1>8. CASE GcDrop
  <2>. USE <1>8 DEF GcDrop
  <2>1. TypeOK' /\ PushLocals'
    BY <1>1, <1>2, <1>3 DEF TypeOK, PushLocals
  <2>2. NoDuplicateEntry'
    BY <1>1, <1>2, <1>3, <1>4, <1>6 DEF NoDuplicateEntry, Queued
  <2>3. NoStrandedOffer'
    BY <1>1, <1>5 DEF NoStrandedOffer, Queued, Unsent
  <2>4. GcNeverBlocks' /\ SecondSendHasRoom'
    BY <1>1, <1>2 DEF GcNeverBlocks, SecondSendHasRoom
  <2>5. GcProgress'
    BY <1>1, <1>2, <1>3 DEF GcProgress, TypeOK
  <2>. QED
    BY <1>7, <2>1, <2>2, <2>3, <2>4, <2>5
<1>9. CASE GcTake
  <2>. USE <1>9 DEF GcTake
  <2>1. TypeOK' /\ PushLocals'
    BY <1>1, <1>2, <1>3, OfferCacheAssumption DEF TypeOK, PushLocals, OrNone
  <2>2. NoDuplicateEntry'
    <3>1. Queued(Head(offerQueue))
      BY <1>3, <1>4 DEF Queued
    <3>. QED
      BY <1>1, <1>2, <1>3, <1>4, <1>6, <3>1 DEF NoDuplicateEntry, Queued
  <2>3. NoStrandedOffer'
    <3>. SUFFICES ASSUME NEW x \in offerSet
                  PROVE  (Queued(x) \/ gcHand = x \/ popHand = x \/ Unsent(x))'
      BY <1>1 DEF NoStrandedOffer
    <3>1. CASE Queued(x)
      BY <1>1, <1>5, <3>1 DEF Queued
    <3>2. CASE popHand = x \/ Unsent(x)
      BY <1>1, <1>2, <3>2 DEF Unsent
    <3>3. x # gcHand
      BY <1>2, OfferCacheAssumption DEF TypeOK
    <3>. QED
      BY <3>1, <3>2, <3>3 DEF NoStrandedOffer
  <2>4. GcNeverBlocks' /\ SecondSendHasRoom'
    <3>1. Len(offerQueue) <= maxOffers
      BY DEF TypeOK
    <3>2. ~(Len(q) >= maxOffers)
      BY <1>2, <1>3, <3>1
    <3>. QED
      BY <1>1, <3>2 DEF GcNeverBlocks, SecondSendHasRoom, QueueFull
  <2>5. GcProgress'
    <3>. SUFFICES ASSUME Len(q) = maxOffers - 1,
                         NEW j \in 1..(maxOffers - 1),
                         j > maxOffers - 1 - gcIter
                  PROVE  q[j] \in offerSet
      BY <1>1 DEF GcProgress
    <3>1. Len(offerQueue) = maxOffers
      BY <1>2, <1>3
    <3>2. j + 1 \in 1..maxOffers /\ j + 1 > maxOffers - gcIter
      BY <1>2
    <3>3. offerQueue[j + 1] \in offerSet
      BY <1>2, <3>1, <3>2 DEF GcProgress
    <3>. QED
      BY <1>3, <3>3
  <2>. QED
    BY <1>7, <2>1, <2>2, <2>3, <2>4, <2>5
<1>. QED
  BY <1>8, <1>9

\* gc puts the entry in its hand back, or returns.
LEMMA GcSendPreserves ==
  ASSUME IInv, GcRequeue \/ GcReturn
  PROVE  IInv'
<1>. USE DEF IInv
<1>1. CASE GcRequeue
  <2>. USE <1>1 DEF GcRequeue
  <2>. DEFINE q == Append(offerQueue, gcHand)
  <2>1. /\ offerQueue \in Seq(Offers)
        /\ gcHand \in Offers
        /\ gcHand \in offerSet
        /\ gcHand # pushOffer
        /\ gcIter \in Nat
        /\ maxOffers \in Nat
        /\ ~(Len(offerQueue) >= maxOffers)
    BY OfferCacheAssumption
       DEF TypeOK, PushLocals, QueueFull, NoDuplicateEntry, OrNone
  <2>2. /\ q \in Seq(Offers)
        /\ Len(offerQueue) \in Nat
        /\ Len(q) = Len(offerQueue) + 1
        /\ \A i \in 1..Len(offerQueue) : q[i] = offerQueue[i]
        /\ q[Len(offerQueue) + 1] = gcHand
    BY <2>1, SendFacts
  <2>3. offerQueue' = q
    OBVIOUS
  <2>. HIDE DEF q
  <2>4. TypeOK' /\ PushLocals'
    BY <2>1, <2>2, <2>3, OfferCacheAssumption DEF TypeOK, PushLocals, OrNone
  <2>5. \A i \in 1..Len(q) : i \in 1..Len(offerQueue) \/ i = Len(offerQueue) + 1
    BY <2>2
  <2>6. OnlyArrived'
    BY <2>1, <2>2, <2>3, <2>5 DEF OnlyArrived
  <2>7. NoDuplicateEntry'
    BY <2>1, <2>2, <2>3, <2>5, OfferCacheAssumption
       DEF NoDuplicateEntry, Queued, PushLocals
  <2>8. NoStrandedOffer'
    BY <2>1, <2>2, <2>3 DEF NoStrandedOffer, Queued, Unsent
  <2>9. GcNeverBlocks' /\ OnePerSlave' /\ SecondSendHasRoom'
    BY DEF GcNeverBlocks, OnePerSlave, SecondSendHasRoom
  <2>10. GcProgress'
    <3>. SUFFICES ASSUME Len(q) = maxOffers,
                         NEW j \in 1..maxOffers,
                         j > maxOffers - (gcIter + 1)
                  PROVE  q[j] \in offerSet
      BY <2>3 DEF GcProgress
    <3>1. CASE j = maxOffers
      BY <2>1, <2>2, <3>1
    <3>2. CASE j # maxOffers
      <4>1. /\ Len(offerQueue) = maxOffers - 1
            /\ j \in 1..(maxOffers - 1)
            /\ j > maxOffers - 1 - gcIter
        BY <2>1, <2>2, <3>2
      <4>2. offerQueue[j] \in offerSet
        BY <4>1 DEF GcProgress
      <4>. QED
        BY <2>2, <4>1, <4>2
    <3>. QED
      BY <3>1, <3>2
  <2>. QED
    BY <2>4, <2>6, <2>7, <2>8, <2>9, <2>10
<1>2. CASE GcReturn
  <2>1. Len(offerQueue) < maxOffers
    BY <1>2, GcMakesRoom DEF GcReturn
  <2>2. pushTry = 0
    BY <1>2 DEF GcReturn, GcDone, PushLocals
  <2>3. ~(Len(offerQueue) >= maxOffers)
    BY <2>1, OfferCacheAssumption DEF TypeOK
  <2>. QED
    BY <1>2, <2>2, <2>3
       DEF GcReturn, GcDone, TypeOK, PushLocals, OnlyArrived,
           NoDuplicateEntry, NoStrandedOffer, GcNeverBlocks, OnePerSlave,
           SecondSendHasRoom, GcProgress, Queued, Unsent, QueueFull
<1>. QED
  BY <1>1, <1>2

\* Rescind, and BlockingPop's look-up, take an offer out of the set.
LEMMA RemovalPreserves ==
  ASSUME IInv,
         (\E o \in Offers : Rescind(o)) \/ PopReturn \/ PopSkip
  PROVE  IInv'
<1>. USE DEF IInv
<1>1. /\ pushPc = "idle"
      /\ UNCHANGED <<offerQueue, arrived, pushVars>>
      /\ offerSet' \subseteq offerSet
      /\ \A p \in offerSet' : popHand = p => popHand' = p
      /\ popHand' \in {popHand, None}
  BY DEF Rescind, PopReturn, PopSkip, mutFree
<1>2. TypeOK' /\ PushLocals'
  BY <1>1 DEF TypeOK, PushLocals, pushVars, OrNone
<1>3. OnlyArrived'
  <2>1. /\ IsFiniteSet(offerSet)
        /\ Cardinality(offerSet) \in Nat
        /\ Cardinality(offerSet') \in Nat
    BY <1>1, SetFinite DEF TypeOK
  <2>2. Cardinality(offerSet') <= Cardinality(offerSet)
    BY <1>1, <2>1, FS_Subset
  <2>3. Cardinality(offerSet') <= maxOffers
    BY <2>1, <2>2, OfferCacheAssumption DEF OnlyArrived
  <2>. QED
    BY <1>1, <2>3 DEF OnlyArrived
<1>4. NoDuplicateEntry'
  BY <1>1 DEF NoDuplicateEntry, Queued, pushVars
<1>5. NoStrandedOffer'
  BY <1>1 DEF NoStrandedOffer, Queued, Unsent, pushVars
<1>6. OnePerSlave'
  BY <1>1 DEF OnePerSlave
<1>7. GcNeverBlocks' /\ SecondSendHasRoom' /\ GcProgress'
  BY <1>1 DEF GcNeverBlocks, SecondSendHasRoom, GcProgress, pushVars
<1>. QED
  BY <1>2, <1>3, <1>4, <1>5, <1>6, <1>7

\* BlockingPop's receive, which may fall into the middle of a Push.
LEMMA PopReceivePreserves ==
  ASSUME IInv, PopReceive
  PROVE  IInv'
<1>. USE DEF IInv
<1>. DEFINE q == Tail(offerQueue)
<1>1. /\ offerQueue \in Seq(Offers)
      /\ offerQueue # <<>>
      /\ popHand = None
      /\ popHand' = Head(offerQueue)
      /\ offerQueue' = q
      /\ UNCHANGED <<offerSet, arrived, pushVars>>
      /\ maxOffers \in Nat \ {0}
      /\ gcIter \in Nat
  BY OfferCacheAssumption DEF PopReceive, TypeOK
<1>2. /\ q \in Seq(Offers)
      /\ Head(offerQueue) \in Offers
      /\ Head(offerQueue) = offerQueue[1]
      /\ Len(offerQueue) \in Nat \ {0}
      /\ Len(q) = Len(offerQueue) - 1
      /\ \A i \in 1..Len(q) : q[i] = offerQueue[i + 1]
  BY <1>1, ReceiveFacts
<1>. HIDE DEF q
<1>3. /\ \A i \in 1..Len(q) : i + 1 \in 1..Len(offerQueue) /\ i + 1 # 1
      /\ \A i \in 1..Len(offerQueue) : i = 1 \/ i - 1 \in 1..Len(q)
      /\ 1 \in 1..Len(offerQueue)
  BY <1>2
<1>4. ASSUME NEW x, Queued(x), x # Head(offerQueue)
      PROVE  \E i \in 1..Len(q) : q[i] = x
  <2>1. PICK j \in 1..Len(offerQueue) : offerQueue[j] = x
    BY <1>4 DEF Queued
  <2>2. j - 1 \in 1..Len(q) /\ q[j - 1] = x
    BY <1>2, <1>3, <1>4, <2>1
  <2>. QED
    BY <2>2
<1>5. /\ \A i \in 1..Len(q) : Queued(q[i]) /\ q[i] # Head(offerQueue)
      /\ Queued(Head(offerQueue))
  BY <1>2, <1>3 DEF Queued, NoDuplicateEntry
<1>6. Len(offerQueue) <= maxOffers
  BY DEF TypeOK
<1>7. TypeOK' /\ PushLocals'
  BY <1>1, <1>2, <1>6 DEF TypeOK, PushLocals, pushVars, OrNone
<1>8. OnlyArrived' /\ OnePerSlave'
  BY <1>1, <1>2, <1>3 DEF OnlyArrived, OnePerSlave
<1>9. NoDuplicateEntry'
  <2>1. \A i, j \in 1..Len(q) : q[i] = q[j] => i = j
    BY <1>2, <1>3 DEF NoDuplicateEntry
  <2>2. \A x : (\E i \in 1..Len(q) : q[i] = x) => Queued(x)
    BY <1>5
  <2>3. ~\E i \in 1..Len(q) : q[i] = Head(offerQueue)
    BY <1>5
  <2>4. gcHand # None => gcHand # Head(offerQueue)
    BY <1>5 DEF NoDuplicateEntry
  <2>5. pushPc # "idle" => pushOffer # Head(offerQueue)
    BY <1>5 DEF NoDuplicateEntry
  <2>. QED
    BY <1>1, <2>1, <2>2, <2>3, <2>4, <2>5
       DEF NoDuplicateEntry, Queued, pushVars
<1>10. NoStrandedOffer'
  <2>. SUFFICES ASSUME NEW x \in offerSet
                PROVE  (Queued(x) \/ gcHand = x \/ popHand = x \/ Unsent(x))'
    BY <1>1 DEF NoStrandedOffer
  <2>1. CASE Queued(x)
    <3>1. x = popHand' \/ \E i \in 1..Len(q) : q[i] = x
      BY <1>1, <1>4, <2>1
    <3>. QED
      BY <1>1, <3>1 DEF Queued
  <2>2. CASE gcHand = x \/ Unsent(x)
    BY <1>1, <2>2 DEF Unsent, pushVars
  <2>3. x # popHand
    BY <1>1, OfferCacheAssumption DEF TypeOK
  <2>. QED
    BY <2>1, <2>2, <2>3 DEF NoStrandedOffer
<1>11. GcNeverBlocks' /\ SecondSendHasRoom'
  BY <1>1, <1>2, <1>6 DEF GcNeverBlocks, SecondSendHasRoom, QueueFull, pushVars
<1>12. GcProgress'
  <2>1. pushPc = "gc" => Len(q) # maxOffers
    BY <1>1, <1>2, <1>6
  <2>2. pushPc = "requeue" => Len(q) # maxOffers - 1
    BY <1>1, <1>2 DEF GcNeverBlocks, QueueFull
  <2>. QED
    BY <1>1, <2>1, <2>2 DEF GcProgress, pushVars
<1>. QED
  BY <1>7, <1>8, <1>9, <1>10, <1>11, <1>12

-----------------------------------------------------------------------------
\* The invariant holds initially and every step preserves it.
LEMMA InitIInv == Init => IInv
<1>. SUFFICES ASSUME Init PROVE IInv
  OBVIOUS
<1>1. Cardinality({}) = 0
  BY FS_EmptySet
<1>. QED
  BY <1>1, OfferCacheAssumption
     DEF Init, IInv, TypeOK, PushLocals, OnlyArrived, NoDuplicateEntry,
         NoStrandedOffer, GcNeverBlocks, OnePerSlave, SecondSendHasRoom,
         GcProgress, Queued, OrNone

LEMMA NextIInv == IInv /\ [Next]_cacheVars => IInv'
<1>. SUFFICES ASSUME IInv, [Next]_cacheVars PROVE IInv'
  OBVIOUS
<1>1. CASE \E o \in Offers : PushReject(o) \/ PushAccept(o)
  BY <1>1, PushEntryPreserves
<1>2. CASE PushStep
  BY <1>2, PushSendPreserves, GcReceivePreserves, GcSendPreserves DEF PushStep
<1>3. CASE (\E o \in Offers : Rescind(o)) \/ PopReturn \/ PopSkip
  BY <1>3, RemovalPreserves
<1>4. CASE PopReceive
  BY <1>4, PopReceivePreserves
<1>5. CASE UNCHANGED cacheVars
  BY <1>5 DEF cacheVars, IInv, TypeOK, PushLocals, OnlyArrived,
     NoDuplicateEntry, NoStrandedOffer, GcNeverBlocks, OnePerSlave,
     SecondSendHasRoom, GcProgress, Queued, Unsent, QueueFull
<1>. QED
  BY <1>1, <1>2, <1>3, <1>4, <1>5 DEF Next

(* The inductive invariant holds in every reachable state of the cache.    *)
THEOREM CacheInvariant == Spec => []IInv
  BY InitIInv, NextIInv, PTL DEF Spec

(* The cache never strands a valid offer: for every capacity and every     *)
(* interleaving of Push, gc, Rescind and BlockingPop, each valid offer     *)
(* still has its entry.                                                    *)
THEOREM NeverStranded == Spec => []NoStrandedOffer
<1>1. IInv => NoStrandedOffer
  BY DEF IInv
<1>. QED
  BY <1>1, CacheInvariant, PTL

(* gc makes room for the second send, so Push never returns false with its *)
(* offer in the set.                                                       *)
THEOREM GcAlwaysMakesRoom == Spec => []SecondSendHasRoom
<1>1. IInv => SecondSendHasRoom
  BY DEF IInv
<1>. QED
  BY <1>1, CacheInvariant, PTL

(* gc's blocking send, made with mut held, never blocks.                   *)
THEOREM GcSendNeverBlocks == Spec => []GcNeverBlocks
<1>1. IInv => GcNeverBlocks
  BY DEF IInv
<1>. QED
  BY <1>1, CacheInvariant, PTL

(* No two entries are of one offer, and no two valid offers of one slave.  *)
THEOREM EntriesDistinct == Spec => [](NoDuplicateEntry /\ OnePerSlave)
<1>1. IInv => NoDuplicateEntry /\ OnePerSlave
  BY DEF IInv
<1>. QED
  BY <1>1, CacheInvariant, PTL

-----------------------------------------------------------------------------
(* The flow.                                                               *)

(* An offer that is cached, held by the launcher, revoked or not yet seen  *)
(* has not been answered, and it is only one of these.                     *)
Disjoint ==
  \A o \in Offers :
    /\ o \in offerSet => answers[o] = 0 /\ o # held /\ o \notin revoked
    /\ o = held => answers[o] = 0 /\ o \in arrived /\ o \notin revoked
    /\ o \in revoked => answers[o] = 0 /\ o \in arrived
    /\ o \notin arrived => answers[o] = 0

\* launchOne does not pop before it has answered the offer it holds.
OneAtATime == popHand # None => held = None

FInv ==
  /\ IInv
  /\ FlowTypeOK
  /\ Disjoint
  /\ OneAtATime
  /\ AnsweredAtMostOnce

\* A step of the flow is a step of the cache, or leaves the cache alone
\* but for recording an arrival.
LEMMA FlowStepIsCacheStep ==
  ASSUME IInv, [FlowNext]_flowVars
  PROVE  IInv'
<1>1. CASE \E o \in Offers : DeclineUnwanted(o)
  BY <1>1 DEF DeclineUnwanted, pushVars, IInv, TypeOK, PushLocals, OnlyArrived,
     NoDuplicateEntry, NoStrandedOffer, GcNeverBlocks, OnePerSlave,
     SecondSendHasRoom, GcProgress, Queued, Unsent, QueueFull, OrNone
<1>2. CASE ~\E o \in Offers : DeclineUnwanted(o)
  <2>1. [Next]_cacheVars
    BY <1>2 DEF FlowNext, flowVars, OfferArrives, OfferRefused, OfferEntered,
       TimerFires, OfferRescinded, OfferPushStep, OfferQueued, OfferGc,
       OfferGcReturn, LauncherReceives, LauncherPops, LauncherSkips,
       LauncherAnswers, Next, PushStep
  <2>. QED
    BY <2>1, NextIInv
<1>. QED
  BY <1>1, <1>2

\* ResourceOffers, up to the first send of Push.
LEMMA ArrivalPreserves ==
  ASSUME FInv, IInv', NEW o \in Offers, OfferArrives(o)
  PROVE  FInv'
  BY OfferCacheAssumption
     DEF OfferArrives, DeclineUnwanted, OfferRefused, OfferEntered, PushReject,
         PushAccept, Answered, FInv, FlowTypeOK, Disjoint, OneAtATime, AnsweredAtMostOnce,
         IInv, OnlyArrived, OrNone

\* The rest of Push.
LEMMA PushStepPreserves ==
  ASSUME FInv, IInv', OfferPushStep
  PROVE  FInv'
<1>1. /\ UNCHANGED <<offerSet, arrived, popHand, answers, held, revoked>>
      /\ timers' \in {timers, timers \cup {pushOffer}}
      /\ timers' # timers => pushPc = "try"
  BY DEF OfferPushStep, OfferQueued, OfferGc, OfferGcReturn, PushSend, PushFull,
     GcDrop, GcTake, GcRequeue, GcReturn, GcDone, FInv, IInv, PushLocals
<1>2. timers' \in SUBSET Offers
  BY <1>1 DEF FInv, FlowTypeOK, IInv, PushLocals, TypeOK
<1>. QED
  BY <1>1, <1>2 DEF FInv, IInv, FlowTypeOK, Disjoint, OneAtATime, AnsweredAtMostOnce

\* The timer and OfferRescinded.
LEMMA RescindPreserves ==
  ASSUME FInv, IInv', NEW o \in Offers, TimerFires(o) \/ OfferRescinded(o)
  PROVE  FInv'
<1>1. FlowTypeOK'
  BY DEF TimerFires, OfferRescinded, Rescind, Answered, FInv, FlowTypeOK, IInv
<1>2. Disjoint' /\ OneAtATime' /\ AnsweredAtMostOnce'
  BY DEF TimerFires, OfferRescinded, Rescind, Answered, FInv, FlowTypeOK,
     Disjoint, OneAtATime, AnsweredAtMostOnce, IInv, OnlyArrived
<1>. QED
  BY <1>1, <1>2 DEF FInv

\* The launcher.
LEMMA LauncherPreserves ==
  ASSUME FInv, IInv',
         LauncherReceives \/ LauncherPops \/ LauncherSkips \/ LauncherAnswers
  PROVE  FInv'
<1>1. CASE LauncherReceives \/ LauncherSkips
  BY <1>1 DEF LauncherReceives, LauncherSkips, PopReceive, PopSkip, FInv, IInv,
     FlowTypeOK, Disjoint, OneAtATime, AnsweredAtMostOnce
<1>2. CASE LauncherPops
  BY <1>2 DEF LauncherPops, PopReturn, FInv, IInv, OnlyArrived, TypeOK,
     FlowTypeOK, Disjoint, OneAtATime, AnsweredAtMostOnce, OrNone
<1>3. CASE LauncherAnswers
  BY <1>3, OfferCacheAssumption DEF LauncherAnswers, Answered, cacheVars, FInv,
     IInv, FlowTypeOK, Disjoint, OneAtATime, AnsweredAtMostOnce, OrNone
<1>. QED
  BY <1>1, <1>2, <1>3

LEMMA InitFInv == FlowInit => FInv
  BY InitIInv, OfferCacheAssumption
     DEF FlowInit, Init, FInv, IInv, FlowTypeOK, Disjoint, OneAtATime, AnsweredAtMostOnce,
         OrNone

LEMMA NextFInv == FInv /\ [FlowNext]_flowVars => FInv'
<1>. SUFFICES ASSUME FInv, [FlowNext]_flowVars PROVE FInv'
  OBVIOUS
<1>1. IInv'
  BY FlowStepIsCacheStep DEF FInv
<1>2. CASE UNCHANGED flowVars
  BY <1>1, <1>2 DEF flowVars, cacheVars, FInv, IInv, FlowTypeOK, Disjoint,
     OneAtATime, AnsweredAtMostOnce
<1>. QED
  BY <1>1, <1>2, ArrivalPreserves, PushStepPreserves, RescindPreserves,
     LauncherPreserves DEF FlowNext, FInv

(* The offer flow keeps its invariant.                                     *)
THEOREM FlowInvariant == FlowSafety => []FInv
  BY InitFInv, NextFInv, PTL DEF FlowSafety

(* Every variable of the offer flow, the cache included, keeps its type:   *)
(* launchOne holds one offer or none.                                      *)
THEOREM FlowTypes == FlowSafety => []FlowTypeOK
<1>1. FInv => FlowTypeOK
  BY DEF FInv
<1>. QED
  BY <1>1, FlowInvariant, PTL

(* No offer is answered twice, whatever the order in which the timer, the  *)
(* launcher, Push and OfferRescinded get to it.                            *)
THEOREM AnsweredOnce == FlowSafety => []AnsweredAtMostOnce
<1>1. FInv => AnsweredAtMostOnce
  BY DEF FInv
<1>. QED
  BY <1>1, FlowInvariant, PTL

-----------------------------------------------------------------------------
(* The refinement.                                                         *)

\* The mapped state of an offer, spelt out.
LEMMA WhereFacts ==
  ASSUME FInv
  PROVE  /\ Where = [o \in Offers |-> Where[o]]
         /\ \A o \in Offers :
              /\ Where[o] = "cached" <=> o \in offerSet
              /\ Where[o] = "held" <=> o = held
              /\ Where[o] = "revoked" <=> o \in revoked
              /\ Where[o] = "unseen" <=> o \notin arrived
              /\ o \in arrived /\ o \notin offerSet /\ o # held /\ o \notin revoked
                   => Where[o] = "closed"
  BY DEF Where, FInv, Disjoint, IInv, OnlyArrived

\* The ledger's sets of cached and held offers are the code's.
LEMMA AtFacts ==
  ASSUME FInv
  PROVE  Ledger!At("cached") = offerSet /\ (held = None => Ledger!At("held") = {})
<1>1. offerSet \subseteq Offers
  BY DEF FInv, IInv, TypeOK
<1>2. Ledger!At("cached") = offerSet
  BY <1>1, WhereFacts DEF Ledger!At
<1>3. ASSUME held = None PROVE Ledger!At("held") = {}
  BY <1>3, WhereFacts, OfferCacheAssumption DEF Ledger!At
<1>. QED
  BY <1>2, <1>3

\* Moving one offer and leaving the others where they are is a ledger move.
LEMMA MoveFacts ==
  ASSUME FInv, FInv', NEW o \in Offers, NEW p, Where'[o] = p,
         \A x \in Offers \ {o} : Where'[x] = Where[x]
  PROVE  Ledger!Move(o, p)
<1>1. /\ Where = [x \in Offers |-> Where[x]]
      /\ Where' = [x \in Offers |-> Where'[x]]
  BY DEF Where
<1>. HIDE DEF Where
<1>. QED
  BY <1>1 DEF Ledger!Move

\* Where every place is as it was, nothing moved.
LEMMA StayFacts ==
  ASSUME UNCHANGED <<offerSet, arrived, held, revoked>>
  PROVE  UNCHANGED Where
  BY DEF Where

\* ResourceOffers up to Push's first send keeps an offer or closes it.
LEMMA ArrivalRefines ==
  ASSUME FInv, FInv', NEW o \in Offers, OfferArrives(o)
  PROVE  Ledger!LedgerNext
<1>1. /\ o \notin arrived
      /\ arrived' = arrived \cup {o}
      /\ UNCHANGED <<held, revoked>>
      /\ offerSet' \in {offerSet, offerSet \cup {o}}
  BY DEF OfferArrives, DeclineUnwanted, OfferRefused, OfferEntered, PushReject,
     PushAccept
<1>2. Where[o] = "unseen"
  BY <1>1, WhereFacts
<1>3. \A x \in Offers \ {o} : Where'[x] = Where[x]
  BY <1>1 DEF Where
<1>4. CASE OfferEntered(o)
  <2>1. HasRoom(o) /\ offerSet' = offerSet \cup {o} /\ UNCHANGED answers
    BY <1>4 DEF OfferEntered, PushAccept
  <2>2. Where'[o] = "cached"
    BY <2>1 DEF Where
  <2>3. Ledger!Move(o, "cached")
    BY <1>3, <2>2, MoveFacts
  <2>4. Ledger!At("cached") = offerSet
    BY AtFacts
  <2>5. /\ Cardinality(offerSet) < maxOffers
        /\ singleInstancePerSlave =>
             \A p \in offerSet : SlaveOf[p] # SlaveOf[o]
    BY <2>1 DEF HasRoom, SlaveCached
  <2>6. Ledger!Cardinality(offerSet) = Cardinality(offerSet)
    BY Zenon DEF Ledger!Cardinality, Cardinality
  <2>7. Ledger!Keep(o)
    BY <1>2, <2>1, <2>3, <2>4, <2>5, <2>6 DEF Ledger!Keep
  <2>. QED
    BY <2>7 DEF Ledger!LedgerNext
<1>5. CASE DeclineUnwanted(o) \/ OfferRefused(o)
  <2>1. offerSet' = offerSet /\ Ledger!Answer(o)
    BY <1>5 DEF DeclineUnwanted, OfferRefused, PushReject, Answered,
       Ledger!Answer
  <2>2. Where'[o] = "closed"
    BY <1>1, <2>1 DEF Where, FInv, Disjoint, IInv, OnlyArrived
  <2>3. Ledger!Move(o, "closed")
    BY <1>3, <2>2, MoveFacts
  <2>4. Ledger!Close(o)
    BY <1>2, <2>1, <2>3 DEF Ledger!Close
  <2>. QED
    BY <2>4 DEF Ledger!LedgerNext
<1>. QED
  BY <1>4, <1>5 DEF OfferArrives

\* The timer closes a cached offer and OfferRescinded revokes it; neither
\* does anything to an offer that has left the cache.
LEMMA RescindRefines ==
  ASSUME FInv, FInv', NEW o \in Offers, TimerFires(o) \/ OfferRescinded(o)
  PROVE  [Ledger!LedgerNext]_(Ledger!ledgerVars)
<1>1. offerSet' = offerSet \ {o} /\ UNCHANGED <<arrived, held>>
  BY DEF TimerFires, OfferRescinded, Rescind
<1>2. CASE o \notin offerSet
  <2>1. UNCHANGED <<offerSet, arrived, held, revoked, answers>>
    BY <1>1, <1>2 DEF TimerFires, OfferRescinded
  <2>. QED
    BY <2>1, StayFacts DEF Ledger!ledgerVars
<1>3. CASE o \in offerSet
  <2>1. Where[o] = "cached"
    BY <1>3, WhereFacts
  <2>2. revoked' \in {revoked, revoked \cup {o}}
    BY DEF TimerFires, OfferRescinded
  <2>3. \A x \in Offers \ {o} : Where'[x] = Where[x]
    BY <1>1, <2>2 DEF Where
  <2>4. CASE TimerFires(o)
    <3>1. UNCHANGED revoked /\ Ledger!Answer(o)
      BY <1>3, <2>4 DEF TimerFires, Answered, Ledger!Answer
    <3>2. Where'[o] = "closed"
      BY <1>1, <1>3, <3>1 DEF Where, FInv, Disjoint, IInv, OnlyArrived
    <3>3. Ledger!Move(o, "closed")
      BY <2>3, <3>2, MoveFacts
    <3>4. Ledger!Close(o)
      BY <2>1, <3>1, <3>3 DEF Ledger!Close
    <3>. QED
      BY <3>4 DEF Ledger!LedgerNext
  <2>5. CASE OfferRescinded(o)
    <3>1. revoked' = revoked \cup {o} /\ UNCHANGED answers
      BY <1>3, <2>5 DEF OfferRescinded
    <3>2. Where'[o] = "revoked"
      BY <1>1, <1>3, <3>1 DEF Where, FInv, Disjoint
    <3>3. Ledger!Move(o, "revoked")
      BY <2>3, <3>2, MoveFacts
    <3>4. Ledger!Revoke(o)
      BY <2>1, <3>1, <3>3 DEF Ledger!Revoke
    <3>. QED
      BY <3>4 DEF Ledger!LedgerNext
  <2>. QED
    BY <2>4, <2>5
<1>. QED
  BY <1>2, <1>3

\* The launcher takes a cached offer, and closes it.
LEMMA LauncherRefines ==
  ASSUME FInv, FInv', LauncherPops \/ LauncherAnswers
  PROVE  Ledger!LedgerNext
<1>1. CASE LauncherPops
  <2>1. /\ popHand \in offerSet
        /\ popHand \in Offers
        /\ popHand # None
        /\ offerSet' = offerSet \ {popHand}
        /\ held' = popHand
        /\ UNCHANGED <<arrived, revoked, answers>>
    BY <1>1, OfferCacheAssumption
       DEF LauncherPops, PopReturn, FInv, IInv, TypeOK
  <2>2. held = None
    BY <2>1 DEF FInv, OneAtATime
  <2>3. Where[popHand] = "cached" /\ Ledger!At("held") = {}
    BY <2>1, <2>2, WhereFacts, AtFacts
  <2>4. Where'[popHand] = "held"
    BY <2>1 DEF Where
  <2>5. \A x \in Offers \ {popHand} : Where'[x] = Where[x]
    BY <2>1, <2>2, OfferCacheAssumption DEF Where
  <2>6. Ledger!Move(popHand, "held")
    BY <2>1, <2>4, <2>5, MoveFacts
  <2>7. Ledger!Take(popHand)
    BY <2>1, <2>3, <2>6 DEF Ledger!Take
  <2>. QED
    BY <2>1, <2>7 DEF Ledger!LedgerNext
<1>2. CASE LauncherAnswers
  <2>1. /\ held \in Offers
        /\ held' = None
        /\ UNCHANGED <<offerSet, arrived, revoked>>
        /\ Ledger!Answer(held)
    BY <1>2 DEF LauncherAnswers, cacheVars, Answered, FInv, FlowTypeOK, OrNone,
       Ledger!Answer
  <2>2. Where[held] = "held"
    BY <2>1, WhereFacts
  <2>3. Where'[held] = "closed"
    <3>1. held \notin offerSet /\ held \notin revoked /\ held \in arrived
      BY <2>1 DEF FInv, Disjoint
    <3>. QED
      BY <2>1, <3>1, OfferCacheAssumption DEF Where
  <2>4. \A x \in Offers \ {held} : Where'[x] = Where[x]
    BY <2>1, OfferCacheAssumption DEF Where
  <2>5. Ledger!Move(held, "closed")
    BY <2>1, <2>3, <2>4, MoveFacts
  <2>6. Ledger!Close(held)
    BY <2>1, <2>2, <2>5 DEF Ledger!Close
  <2>. QED
    BY <2>1, <2>6 DEF Ledger!LedgerNext
<1>. QED
  BY <1>1, <1>2

LEMMA StepRefines ==
  ASSUME FInv, FInv', [FlowNext]_flowVars
  PROVE  [Ledger!LedgerNext]_(Ledger!ledgerVars)
<1>1. CASE OfferPushStep
  <2>1. UNCHANGED <<offerSet, arrived, answers, held, revoked>>
    BY <1>1 DEF OfferPushStep, OfferQueued, OfferGc, OfferGcReturn, PushSend,
       PushFull, GcDrop, GcTake, GcRequeue, GcReturn, GcDone, FInv, IInv,
       PushLocals
  <2>. QED
    BY <2>1, StayFacts DEF Ledger!ledgerVars
<1>2. CASE LauncherReceives \/ LauncherSkips \/ UNCHANGED flowVars
  <2>1. UNCHANGED <<offerSet, arrived, answers, held, revoked>>
    BY <1>2 DEF LauncherReceives, LauncherSkips, PopReceive, PopSkip, flowVars,
       cacheVars
  <2>. QED
    BY <2>1, StayFacts DEF Ledger!ledgerVars
<1>. QED
  BY <1>1, <1>2, ArrivalRefines, RescindRefines, LauncherRefines DEF FlowNext

(* The cache with its timers, the driver callbacks and the launcher        *)
(* implements the safety part of the ledger: an offer is kept only if      *)
(* there is room for it and its slave has none, and it is answered exactly *)
(* when it is given up or used.                                            *)
THEOREM FlowImplementsLedger == FlowSafety => Ledger!LedgerSafety
<1>1. FlowInit => Ledger!LedgerInit
  BY OfferCacheAssumption DEF FlowInit, Init, Where, Ledger!LedgerInit
<1>2. FInv /\ FInv' /\ [FlowNext]_flowVars
        => [Ledger!LedgerNext]_(Ledger!ledgerVars)
  BY StepRefines
<1>. QED
  BY <1>1, <1>2, FlowInvariant, PTL DEF FlowSafety, Ledger!LedgerSafety
=============================================================================
