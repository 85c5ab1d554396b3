----------------------------- MODULE MCMetering -----------------------------
(***************************************************************************)
(* Small instances of Metering for TLC.                                    *)
(***************************************************************************)
EXTENDS Metering, TLC, FiniteSetsExt

CONSTANTS small, large, huge, tokens        \* payloads

\* Bodies of one usage type, and one of the other.
MCTypeOf   == [p \in Payload |-> IF p = tokens THEN "token" ELSE "api_call"]
MCQuantity == [p \in Payload |-> CASE p = large -> 2 [] p = huge -> 3 [] OTHER -> 1]

\* A free account holds one large or two small requests, a pro account a huge one.
MCPlanLimit == "free" :> ("api_call" :> 2 @@ "token" :> 1) @@
               "pro"  :> ("api_call" :> 3 @@ "token" :> 0)

\* A tenant that never upgrades.
MCFreeLimit == "free" :> ("api_call" :> 2 @@ "token" :> 1)

ThreadSymmetry == Permutations(Thread)
KeySymmetry    == Permutations(Key)
MCSymmetry     == ThreadSymmetry \cup KeySymmetry
==============================================================================
