------------------------------ MODULE TokenCost ------------------------------
(***************************************************************************)
(* TokenCostCalculator and TokenUsage: what a request costs, in integer    *)
(* micro-cents.                                                            *)
(*                                                                         *)
(* Prices are per million tokens, so the sum of the products counts        *)
(* millionths of a micro-cent; the Decimal arithmetic of the code is exact *)
(* on it, and quantize rounds it once, half up.                            *)
(***************************************************************************)
EXTENDS Integers

CONSTANTS
    InputPrice, CachedPrice, OutputPrice,   \* micro-cents per million tokens
    CallPrice                               \* micro-cents per API call

ASSUME PriceAssumption == /\ InputPrice \in Nat /\ CachedPrice \in Nat
                          /\ OutputPrice \in Nat /\ CallPrice \in Nat

Million == 1000000

\* What __post_init__ accepts: cached tokens are part of the input, reasoning
\* tokens part of the output.
TokenUsage == {u \in [input : Nat, output : Nat, cached : Nat, reasoning : Nat] :
                  u.cached <= u.input /\ u.reasoning <= u.output}

Uncached(u) == u.input - u.cached

TotalTokens(u) == u.input + u.output

\* The usage billed for a token request that came without a breakdown.
AllInput(n) == [input |-> n, output |-> 0, cached |-> 0, reasoning |-> 0]

\* Millionths of a micro-cent.
Exact(u) == Uncached(u) * InputPrice + u.cached * CachedPrice + u.output * OutputPrice

\* ROUND_HALF_UP of n / 1,000,000.
RoundHalfUp(n) == (n + 500000) \div 1000000

\* Mutant: each product is rounded on its own.
CostOfTokensByParts(u) == RoundHalfUp(Uncached(u) * InputPrice)
                       + RoundHalfUp(u.cached * CachedPrice)
                       + RoundHalfUp(u.output * OutputPrice)

\* calculate_token_cost
CostOfTokens(u) == RoundHalfUp(Exact(u))

\* calculate_api_call_cost
CostOfCalls(n) == n * CallPrice
==============================================================================
