--------------------------- MODULE TokenCostProofs ---------------------------
(***************************************************************************)
(* What TokenCost charges, for every price list and every usage.           *)
(***************************************************************************)
EXTENDS TokenCost, TLAPS

LEMMA UsageTypes ==
    ASSUME NEW u \in TokenUsage
    PROVE  /\ u.input \in Nat /\ u.output \in Nat /\ u.cached \in Nat
           /\ u.cached <= u.input /\ Uncached(u) \in Nat
BY DEF TokenUsage, Uncached

LEMMA ProductIsNat == \A m, n \in Nat : m * n \in Nat
OBVIOUS

LEMMA ExactIsNat == \A u \in TokenUsage : Exact(u) \in Nat
<1> TAKE u \in TokenUsage
<1>1. /\ Uncached(u) * InputPrice \in Nat
      /\ u.cached * CachedPrice \in Nat
      /\ u.output * OutputPrice \in Nat
  BY UsageTypes, ProductIsNat, PriceAssumption
<1> QED
  BY <1>1 DEF Exact

\* RoundHalfUp is the integer nearest to n millionths, the upper one of two.
LEMMA HalfUp ==
    ASSUME NEW n \in Nat
    PROVE  /\ RoundHalfUp(n) \in Nat
           /\ 2 * (Million * RoundHalfUp(n) - n) <= Million
           /\ 2 * (n - Million * RoundHalfUp(n)) < Million
BY DEF RoundHalfUp, Million

LEMMA RoundingIsMonotone ==
    ASSUME NEW m \in Nat, NEW n \in Nat, m <= n
    PROVE  RoundHalfUp(m) <= RoundHalfUp(n)
BY HalfUp DEF Million

\* A request is charged its exact price, rounded by at most half a micro-cent
\* (quantize with ROUND_HALF_UP, on the sum).
THEOREM CostIsFair ==
    \A u \in TokenUsage :
        /\ CostOfTokens(u) \in Nat
        /\ 2 * (Million * CostOfTokens(u) - Exact(u)) <= Million
        /\ 2 * (Exact(u) - Million * CostOfTokens(u)) < Million
BY ExactIsNat, HalfUp DEF CostOfTokens

LEMMA ProductGrows ==
    ASSUME NEW m \in Nat, NEW n \in Nat, NEW k \in Nat, m <= n
    PROVE  m * k <= n * k
<1>1. PICK d \in Nat : n = m + d
  <2>1. n - m \in Nat /\ n = m + (n - m)
    OBVIOUS
  <2> QED
    BY <2>1
<1>2. n * k = m * k + d * k
  BY <1>1
<1>3. d * k \in Nat /\ m * k \in Nat
  BY ProductIsNat
<1> QED
  BY <1>2, <1>3

\* Using more tokens of any kind never costs less.
THEOREM MoreCostsMore ==
    \A u, v \in TokenUsage :
        Uncached(u) <= Uncached(v) /\ u.cached <= v.cached /\ u.output <= v.output
            => CostOfTokens(u) <= CostOfTokens(v)
<1> SUFFICES ASSUME NEW u \in TokenUsage, NEW v \in TokenUsage,
                    Uncached(u) <= Uncached(v), u.cached <= v.cached, u.output <= v.output
             PROVE  CostOfTokens(u) <= CostOfTokens(v)
  OBVIOUS
<1>1. /\ Uncached(u) \in Nat /\ u.cached \in Nat /\ u.output \in Nat
      /\ Uncached(v) \in Nat /\ v.cached \in Nat /\ v.output \in Nat
  BY UsageTypes
<1>2. Uncached(u) * InputPrice <= Uncached(v) * InputPrice
  BY <1>1, ProductGrows, PriceAssumption
<1>3. u.cached * CachedPrice <= v.cached * CachedPrice
  BY <1>1, ProductGrows, PriceAssumption
<1>4. u.output * OutputPrice <= v.output * OutputPrice
  BY <1>1, ProductGrows, PriceAssumption
<1>5. /\ Uncached(u) * InputPrice \in Nat /\ Uncached(v) * InputPrice \in Nat
      /\ u.cached * CachedPrice \in Nat /\ v.cached * CachedPrice \in Nat
      /\ u.output * OutputPrice \in Nat /\ v.output * OutputPrice \in Nat
  BY <1>1, ProductIsNat, PriceAssumption
<1>6. Exact(u) <= Exact(v)
  BY <1>2, <1>3, <1>4, <1>5 DEF Exact
<1> QED
  BY <1>6, ExactIsNat, RoundingIsMonotone DEF CostOfTokens

\* A prompt that hits the cache for more of its tokens never costs more, as long
\* as cached input is not priced above uncached input.
THEOREM CachingNeverCostsMore ==
    ASSUME CachedPrice <= InputPrice
    PROVE  \A u, v \in TokenUsage :
               u.input = v.input /\ u.output = v.output /\ u.cached <= v.cached
                   => CostOfTokens(v) <= CostOfTokens(u)
<1> SUFFICES ASSUME NEW u \in TokenUsage, NEW v \in TokenUsage,
                    u.input = v.input, u.output = v.output, u.cached <= v.cached
             PROVE  CostOfTokens(v) <= CostOfTokens(u)
  OBVIOUS
<1> DEFINE d == v.cached - u.cached
<1>1. /\ Uncached(u) \in Nat /\ u.cached \in Nat /\ u.output \in Nat
      /\ Uncached(v) \in Nat /\ v.cached \in Nat /\ d \in Nat
      /\ u.input \in Nat
  BY UsageTypes
<1>2. Uncached(u) = Uncached(v) + d /\ v.cached = u.cached + d
  BY <1>1 DEF Uncached
<1> HIDE DEF d
<1>3. d * CachedPrice <= d * InputPrice
  <2>1. CachedPrice * d <= InputPrice * d
    BY <1>1, ProductGrows, PriceAssumption
  <2> QED
    BY <2>1, <1>1, PriceAssumption
<1>4. Uncached(u) * InputPrice = Uncached(v) * InputPrice + d * InputPrice
  BY <1>1, <1>2, PriceAssumption
<1>5. v.cached * CachedPrice = u.cached * CachedPrice + d * CachedPrice
  BY <1>1, <1>2, PriceAssumption
<1>6. /\ Uncached(v) * InputPrice \in Nat /\ u.cached * CachedPrice \in Nat
      /\ u.output * OutputPrice \in Nat
      /\ d * InputPrice \in Nat /\ d * CachedPrice \in Nat
  BY <1>1, ProductIsNat, PriceAssumption
<1>7. Exact(v) <= Exact(u)
  BY <1>3, <1>4, <1>5, <1>6 DEF Exact
<1> QED
  BY <1>7, ExactIsNat, RoundingIsMonotone DEF CostOfTokens

\* Splitting a request in two changes what is paid by at most one micro-cent:
\* half a micro-cent of rounding for each of the three requests, in whole numbers.
THEOREM SplittingHardlyMatters ==
    \A u, v, w \in TokenUsage :
        /\ Uncached(w) = Uncached(u) + Uncached(v)
        /\ w.cached = u.cached + v.cached
        /\ w.output = u.output + v.output
        => /\ CostOfTokens(u) + CostOfTokens(v) <= CostOfTokens(w) + 1
           /\ CostOfTokens(w) <= CostOfTokens(u) + CostOfTokens(v) + 1
<1> SUFFICES ASSUME NEW u \in TokenUsage, NEW v \in TokenUsage, NEW w \in TokenUsage,
                    Uncached(w) = Uncached(u) + Uncached(v),
                    w.cached = u.cached + v.cached, w.output = u.output + v.output
             PROVE  /\ CostOfTokens(u) + CostOfTokens(v) <= CostOfTokens(w) + 1
                    /\ CostOfTokens(w) <= CostOfTokens(u) + CostOfTokens(v) + 1
  OBVIOUS
<1>1. /\ Uncached(u) \in Nat /\ u.cached \in Nat /\ u.output \in Nat
      /\ Uncached(v) \in Nat /\ v.cached \in Nat /\ v.output \in Nat
  BY UsageTypes
<1>2. /\ Uncached(w) * InputPrice = Uncached(u) * InputPrice + Uncached(v) * InputPrice
      /\ w.cached * CachedPrice = u.cached * CachedPrice + v.cached * CachedPrice
      /\ w.output * OutputPrice = u.output * OutputPrice + v.output * OutputPrice
  BY <1>1, PriceAssumption
<1>3. /\ Uncached(u) * InputPrice \in Nat /\ Uncached(v) * InputPrice \in Nat
      /\ u.cached * CachedPrice \in Nat /\ v.cached * CachedPrice \in Nat
      /\ u.output * OutputPrice \in Nat /\ v.output * OutputPrice \in Nat
  BY <1>1, ProductIsNat, PriceAssumption
<1>4. Exact(w) = Exact(u) + Exact(v)
  BY <1>2, <1>3 DEF Exact
<1> QED
  BY <1>4, CostIsFair, ExactIsNat DEF Million

\* Prices that are whole micro-cents per token, as the configured ones are (150,
\* 75 and 600), are charged exactly: nothing is ever rounded.
THEOREM WholePricesAreExact ==
    ASSUME NEW i \in Nat, NEW c \in Nat, NEW o \in Nat,
           InputPrice = Million * i, CachedPrice = Million * c, OutputPrice = Million * o
    PROVE  \A u \in TokenUsage : 
               CostOfTokens(u) = Uncached(u) * i + u.cached * c + u.output * o
<1> TAKE u \in TokenUsage
<1> DEFINE whole == Uncached(u) * i + u.cached * c + u.output * o
<1>1. Uncached(u) \in Nat /\ u.cached \in Nat /\ u.output \in Nat
  BY UsageTypes
<1>2. /\ Uncached(u) * InputPrice = Million * (Uncached(u) * i)
      /\ u.cached * CachedPrice = Million * (u.cached * c)
      /\ u.output * OutputPrice = Million * (u.output * o)
  BY <1>1 DEF Million
<1>3. Uncached(u) * i \in Nat /\ u.cached * c \in Nat /\ u.output * o \in Nat
  BY <1>1, ProductIsNat
<1>4. whole \in Nat /\ Exact(u) = Million * whole
  BY <1>2, <1>3 DEF Exact, Million
<1> HIDE DEF whole
<1>5. CostOfTokens(u) = whole
  BY <1>4, CostIsFair DEF Million
<1> QED
  BY <1>5 DEF whole
==============================================================================
