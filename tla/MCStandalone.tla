---------------------------- MODULE MCStandalone ----------------------------
(* Seven components that read nothing of each other, in one run: a call     *)
(* under the retry policy comes first, and when it has failed for good at   *)
(* once, one of the other six runs; of the rules, one question is asked.   *)
EXTENDS Retry, Pricing, RentalRules, Migrations, Simulator, Export, SeedDemo

VARIABLE chosen     \* the component that runs

MCZoneLists == {<<>>, <<"center">>, <<"center", "suburb", "other">>}
MCHome      == <<1, 2>>
MCHubOf     == <<1, 3>>
MCBankOf    == <<5, 5, 6, 6>>

Others   == {"pricing", "rules", "migrations", "simulator", "export", "seed"}
allVars  == <<vars, pricingVars, rulesVars, migVars, simVars, exportVars, seedVars, chosen>>

StandaloneInit ==
    /\ Init /\ PricingInit /\ RulesInit /\ MigrationInit /\ SimulatorInit /\ ExportInit /\ SeedInit
    /\ chosen = "retry"

Choose ==
    /\ chosen = "retry"
    /\ pc = "raised" /\ attempt = 1 /\ elapsed = 0
    /\ chosen' \in Others
    /\ UNCHANGED <<vars, pricingVars, rulesVars, migVars, simVars, exportVars, seedVars>>

Only(c) == chosen = c /\ UNCHANGED <<chosen, vars>>

RetryStep ==
    Next /\ UNCHANGED <<chosen, pricingVars, rulesVars, migVars, simVars, exportVars, seedVars>>

PricingStep ==
    Only("pricing") /\ PricingNext /\ UNCHANGED <<rulesVars, migVars, simVars, exportVars, seedVars>>

RulesStep ==
    Only("rules") /\ RulesInit /\ RulesNext /\ UNCHANGED <<pricingVars, migVars, simVars, exportVars, seedVars>>

MigrationStep ==
    Only("migrations") /\ MigrationNext /\ UNCHANGED <<pricingVars, rulesVars, simVars, exportVars, seedVars>>

SimulatorStep ==
    Only("simulator") /\ SimulatorNext /\ UNCHANGED <<pricingVars, rulesVars, migVars, exportVars, seedVars>>

ExportStep ==
    Only("export") /\ ExportNext /\ UNCHANGED <<pricingVars, rulesVars, migVars, simVars, seedVars>>

SeedStep ==
    Only("seed") /\ SeedNext /\ UNCHANGED <<pricingVars, rulesVars, migVars, simVars, exportVars>>

StandaloneNext ==
    \/ RetryStep \/ Choose \/ PricingStep \/ RulesStep \/ MigrationStep \/ SimulatorStep \/ ExportStep
    \/ SeedStep

StandaloneFairness ==
    /\ \A p \in Migrators : /\ WF_migVars(chosen = "migrations" /\ Proceed(p))
                            /\ SF_migVars(chosen = "migrations" /\ Lock(p))
    /\ WF_simVars(chosen = "simulator" /\ RunStep)

StandaloneSpec == StandaloneInit /\ [][StandaloneNext]_allVars /\ StandaloneFairness
=============================================================================
