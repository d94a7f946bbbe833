----------------------------- MODULE MCFreshness -----------------------------
(* What a client is shown of lists that change: the cached list of the API   *)
(* and the positions on the map page.  The two read nothing of each other;   *)
(* one of them runs.                                                         *)
EXTENDS ListCache, FleetMap

VARIABLE chosen     \* the component that runs

bothVars == <<vars, mapVars, chosen>>

FreshnessInit == Init /\ MapInit /\ chosen \in {"cache", "map"}

CacheStep == chosen = "cache" /\ Next /\ UNCHANGED <<mapVars, chosen>>

MapStep == chosen = "map" /\ MapNext /\ UNCHANGED <<vars, chosen>>

FreshnessFairness ==
    /\ WF_vars(chosen = "cache" /\ Tick)
    /\ \A r \in Readers : WF_vars(chosen = "cache" /\ Read(r))
    /\ \A i \in Visits :
          /\ WF_mapVars(chosen = "map" /\ Fire(i))
          /\ \A s \in Slots : WF_mapVars(chosen = "map" /\ Settle(i, s))

FreshnessSpec ==
    FreshnessInit /\ [][CacheStep \/ MapStep]_bothVars /\ FreshnessFairness
=============================================================================
