---------------------------- MODULE MCUsageSummary ----------------------------
(***************************************************************************)
(* Small instances of UsageSummary for TLC.                                *)
(***************************************************************************)
EXTENDS UsageSummary, TLC

CONSTANTS call, chat, prompt               \* payloads

MCTypeOf   == [p \in Payload |-> IF p = call THEN "api_call" ELSE "token"]
MCQuantity == [p \in Payload |-> IF p = chat THEN 3 ELSE 1]

\* A chat with two input tokens, one of them cached, and one output token.
MCBreakdown ==
    [p \in Payload |-> IF p = chat
                       THEN [input |-> 2, output |-> 1, cached |-> 1, reasoning |-> 1]
                       ELSE NoBreakdown]

MCPlanLimit == "free" :> ("api_call" :> 1 @@ "token" :> 4) @@
               "pro"  :> ("api_call" :> 2 @@ "token" :> 0)

\* Every tenant starts on the free plan, as a new tenant does.
FreeInit    == SummaryInit /\ plan = [n \in Tenant |-> "free"]
UpgradeSpec == FreeInit /\ [][SummaryNext]_summaryVars

MCSymmetry == Permutations(Key) \cup Permutations(Thread)
===============================================================================
