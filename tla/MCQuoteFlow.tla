---------------------------- MODULE MCQuoteFlow ----------------------------
(* An instance of QuoteFlow for TLC.                                       *)
EXTENDS QuoteFlow, TLC

CONSTANTS q1, h1, h2, a1, a2

(* A quote at the limit of underwriting, one at the first risk tier and    *)
(* one of an excluded type just above it.                                  *)
MCOffers == {[type |-> "Home", coverage |-> 750000],
             [type |-> "Travel", coverage |-> 100000],
             [type |-> "Business", coverage |-> 100001]}

Symmetry == Permutations(Handler) \cup Permutations(Acceptance)
=============================================================================
