---------------------------- MODULE MCOfferFlow ----------------------------
(* A small instance of the offer flow.                                     *)
EXTENDS OfferFlow

CONSTANTS o1, o2, o3, o4, s1, s2

MCOffers == {o1, o2, o3, o4}

MCSlaveOf == [o \in MCOffers |-> IF o \in {o1, o3} THEN s1 ELSE s2]
=============================================================================
