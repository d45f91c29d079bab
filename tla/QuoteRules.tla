----------------------------- MODULE QuoteRules -----------------------------
(***************************************************************************)
(* The rules about quotes and premiums.  Coverage is in dollars, premiums  *)
(* are in cents; a rate of 0.035 is 35 and a multiplier of 1.05 is 105.    *)
(***************************************************************************)
EXTENDS Naturals

QuoteStatus == {"Requested", "Underwriting", "Approved", "Declined"}

(* QuoteWorkflowService.ValidateQuoteTransition.                           *)
QuoteTransition ==
    {<<"Requested", "Underwriting">>, <<"Requested", "Declined">>,
     <<"Underwriting", "Approved">>, <<"Underwriting", "Declined">>}

PolicyType == {"Auto", "Home", "Life", "Health", "Travel", "Business"}

(* Math.Round(n / d, 2) in cents: to the nearest, ties to the even cent.   *)
RoundHalfEven(n, d) ==
    LET q == n \div d
        twice == 2 * (n % d)
    IN  IF twice > d \/ (twice = d /\ q % 2 = 1) THEN q + 1 ELSE q

(* PolicyService.CalculatePremium: the estimate of the public API.         *)
RateMultiplier ==
    [Auto |-> 35, Home |-> 25, Life |-> 15, Health |-> 45, Travel |-> 20,
     Business |-> 40]

CalculatePremium(type, coverage) ==
    RoundHalfEven(coverage * RateMultiplier[type], 120)

(* QuotesWorker.EvaluateUnderwritingAsync, which has a rate table of its   *)
(* own.  Mutated form: the two tables differ.                              *)
BaseRateChanged ==
    [Auto |-> 35, Home |-> 25, Life |-> 15, Health |-> 45, Travel |-> 18,
     Business |-> 40]
BaseRate ==
    [Auto |-> 35, Home |-> 25, Life |-> 15, Health |-> 45, Travel |-> 20,
     Business |-> 40]

RiskMultiplier(coverage) ==
    IF coverage > 500000 THEN 130
    ELSE IF coverage > 250000 THEN 115
    ELSE IF coverage > 100000 THEN 105
    ELSE 100

(* coverage * rate * risk / 12 in cents, kept small: the rates and the  *)
(* multipliers are multiples of five.                                      *)
UnderwrittenPremium(type, coverage) ==
    RoundHalfEven(coverage * (BaseRate[type] \div 5) * (RiskMultiplier(coverage) \div 5),
                  480)

(* What automated underwriting approves.                                   *)
Insurable(type, coverage) == coverage <= 750000 /\ type # "Business"

(* Mutated form of Evaluate: a coverage at the limit is declined.          *)
EvaluateLow(known, type, coverage) ==
    [status |-> IF known /\ coverage # 750000 /\ Insurable(type, coverage)
               THEN "Approved" ELSE "Declined",
     premium |-> IF known THEN UnderwrittenPremium(type, coverage) ELSE 0]

(* The status and premium of a quote whose customer is known or not.       *)
Evaluate(known, type, coverage) ==
    [status |-> IF known /\ Insurable(type, coverage) THEN "Approved" ELSE "Declined",
     premium |-> IF known THEN UnderwrittenPremium(type, coverage) ELSE 0]
=============================================================================
