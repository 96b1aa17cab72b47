----------------------------- MODULE Economics ------------------------------
(***************************************************************************)
(* The economics engine (infuse/economics): the cost of an execution, from *)
(* its token counts and the rate registered for its provider and model.    *)
(* calculate reads the rate, computes, and stores the summary in three     *)
(* steps with no lock held in between; rates change meanwhile.  Decimal    *)
(* costs are exact: a cost is a number of tokens times a whole rate, in    *)
(* millionths.                                                             *)
(***************************************************************************)
EXTENDS Integers, FiniteSets

CONSTANTS
    Callers,       \* threads that call calculate
    CostedRuns,    \* execution ids
    Usages,        \* the token summaries calculate is called with
    Rates,         \* the rates that may be registered
    Target(_),     \* the key of a provider and model name
    NoCost,        \* an absent value
    MaxCostCalls,  \* bound: calculate calls
    MaxRateChanges \* bound: register, delete and clear calls

Dimensions == {"input", "output", "cached"}

\* Counts and rates are numbers or absent; a summary belongs to an execution.
ASSUME EconomicsAssumption ==
    /\ NoCost \notin Int
    /\ \A u \in Usages : /\ u.execution_id \in CostedRuns
                         /\ u.tokens \in [Dimensions -> Int \cup {NoCost}]
    /\ \A r \in Rates : r.rate \in [Dimensions -> Int \cup {NoCost}]

Factor(unit) ==
    CASE unit = "PER_TOKEN" -> 1 [] unit = "PER_1K_TOKENS" -> 1000 [] OTHER -> 1000000

VARIABLES
    rates,      \* _rates of the pricing registry
    costs,      \* _summaries of the engine
    cost_pc,    \* where each caller stands
    usage,      \* the summary it was called with
    found,      \* the rate it read
    cost_calls, \* how many calculate calls were made
    rate_moves, \* how many times a rate was changed
    offered     \* the rates that were registered at some time during each call

cost_vars == <<rates, costs, cost_pc, usage, found, cost_calls, rate_moves, offered>>

-----------------------------------------------------------------------------
(***************************************************************************)
(* The calculator.                                                         *)
(***************************************************************************)
\* Mutant: an unpriced dimension costs nothing.
Mut_calculate_dimension_cost(tokens, rate, unit) ==
    IF tokens = NoCost THEN NoCost
    ELSE IF rate = NoCost THEN 0
    ELSE tokens * rate * (1000000 \div Factor(unit))

\* In millionths of the rate's currency, exact for every unit.
calculate_dimension_cost(tokens, rate, unit) ==
    IF tokens = NoCost \/ rate = NoCost THEN NoCost
    ELSE tokens * rate * (1000000 \div Factor(unit))

CostOrZero(cost) == IF cost = NoCost THEN 0 ELSE cost

Unpriced(u) ==
    [cost |-> [d \in Dimensions |-> NoCost], total |-> NoCost, currency |-> NoCost,
     completeness |-> "UNKNOWN", source |-> NoCost, components |-> {},
     sequence |-> u.sequence]

calculate_execution_economics(u, rate) ==
    IF rate = NoCost THEN Unpriced(u)
    ELSE LET cost == [d \in Dimensions |->
                        calculate_dimension_cost(u.tokens[d], rate.rate[d], rate.unit)]
             observed == {d \in Dimensions : u.tokens[d] # NoCost}
             known == {d \in Dimensions : cost[d] # NoCost}
             priced == \A d \in observed : rate.rate[d] # NoCost
         IN [cost |-> cost,
             total |-> IF known = {} THEN NoCost
                       ELSE CostOrZero(cost["input"]) + CostOrZero(cost["output"])
                              + CostOrZero(cost["cached"]),
             currency |-> rate.currency,
             completeness |-> IF observed # {} /\ priced THEN "COMPLETE"
                              ELSE IF known # {} THEN "PARTIAL" ELSE "UNKNOWN",
             source |-> rate.target,
             components |-> {d \in Dimensions : u.tokens[d] # NoCost \/ rate.rate[d] # NoCost},
             sequence |-> u.sequence]

-----------------------------------------------------------------------------
(***************************************************************************)
(* The pricing registry.                                                   *)
(***************************************************************************)
Keys == {r.target : r \in Rates}

CostInit ==
    /\ rates = [k \in Keys |-> NoCost]
    /\ costs = [x \in CostedRuns |-> NoCost]
    /\ cost_pc = [c \in Callers |-> "idle"]
    /\ usage = [c \in Callers |-> NoCost]
    /\ found = [c \in Callers |-> NoCost]
    /\ offered = [c \in Callers |-> {}]
    /\ cost_calls = 0 /\ rate_moves = 0

get_rate(u) ==
    IF u.target = NoCost \/ Target(u.target) \notin Keys THEN NoCost
    ELSE rates[Target(u.target)]

RatesMove ==
    /\ rate_moves < MaxRateChanges
    /\ rate_moves' = rate_moves + 1
    /\ offered' = [c \in Callers |->
         IF cost_pc[c] = "idle" THEN {} ELSE offered[c] \cup
           {IF usage[c].target = NoCost \/ Target(usage[c].target) \notin Keys THEN NoCost
            ELSE rates'[Target(usage[c].target)]}]
    /\ UNCHANGED <<costs, cost_pc, usage, found, cost_calls>>

\* A rate with a negative dimension is refused.
register_rate(r) ==
    /\ \A d \in Dimensions : r.rate[d] # NoCost => r.rate[d] >= 0
    /\ rates' = [rates EXCEPT ![r.target] = r]
    /\ RatesMove

delete_rate(k) ==
    /\ rates[k] # NoCost
    /\ rates' = [rates EXCEPT ![k] = NoCost]
    /\ RatesMove

clear_rates ==
    /\ rates' = [k \in Keys |-> NoCost]
    /\ RatesMove

-----------------------------------------------------------------------------
(***************************************************************************)
(* The engine.                                                             *)
(***************************************************************************)
calculate(c, u) ==
    /\ cost_pc[c] = "idle" /\ cost_calls < MaxCostCalls
    /\ cost_calls' = cost_calls + 1
    /\ cost_pc' = [cost_pc EXCEPT ![c] = "read"]
    /\ usage' = [usage EXCEPT ![c] = u]
    /\ offered' = [offered EXCEPT ![c] = {get_rate(u)}]
    /\ UNCHANGED <<rates, costs, found, rate_moves>>

ReadRate(c) ==
    /\ cost_pc[c] = "read"
    /\ cost_pc' = [cost_pc EXCEPT ![c] = "store"]
    /\ found' = [found EXCEPT ![c] = get_rate(usage[c])]
    /\ UNCHANGED <<rates, costs, usage, cost_calls, rate_moves, offered>>

StoreCosts(c) ==
    /\ cost_pc[c] = "store"
    /\ cost_pc' = [cost_pc EXCEPT ![c] = "idle"]
    /\ costs' = [costs EXCEPT ![usage[c].execution_id] =
         calculate_execution_economics(usage[c], found[c])]
    /\ usage' = [usage EXCEPT ![c] = NoCost]
    /\ found' = [found EXCEPT ![c] = NoCost]
    /\ offered' = [offered EXCEPT ![c] = {}]
    /\ UNCHANGED <<rates, cost_calls, rate_moves>>

clear_costs ==
    /\ rate_moves < MaxRateChanges
    /\ rate_moves' = rate_moves + 1
    /\ costs' = [x \in CostedRuns |-> NoCost]
    /\ UNCHANGED <<rates, cost_pc, usage, found, cost_calls, offered>>

CostNext ==
    \/ \E c \in Callers :
         ReadRate(c) \/ StoreCosts(c) \/ \E u \in Usages : calculate(c, u)
    \/ \E r \in Rates : register_rate(r)
    \/ \E k \in Keys : delete_rate(k)
    \/ clear_rates \/ clear_costs

CostSpec == CostInit /\ [][CostNext]_cost_vars

-----------------------------------------------------------------------------
(***************************************************************************)
(* Properties.                                                             *)
(***************************************************************************)
\* No cost is made up: a dimension has a cost just when it was counted and
\* priced, and the total is there just when some dimension is.
Honest(u, rate, s) ==
    /\ \A d \in Dimensions :
         s.cost[d] # NoCost <=> rate # NoCost /\ u.tokens[d] # NoCost /\ rate.rate[d] # NoCost
    /\ s.total # NoCost <=> \E d \in Dimensions : s.cost[d] # NoCost
    /\ s.completeness = "COMPLETE" =>
         \A d \in Dimensions : u.tokens[d] # NoCost => s.cost[d] # NoCost

\* However calls and rate changes interleave: what calculate stores was priced
\* with a rate that was registered at some time during the call, the summary
\* makes no cost up, and its completeness says which counts were priced.
CostsAreEarned ==
    [][\A c \in Callers : cost_pc[c] = "store" /\ cost_pc'[c] = "idle" =>
         LET x == usage[c].execution_id
         IN \E rate \in offered[c] :
              /\ costs'[x] = calculate_execution_economics(usage[c], rate)
              /\ Honest(usage[c], rate, costs'[x])]_cost_vars
=============================================================================
