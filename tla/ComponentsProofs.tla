--------------------------- MODULE ComponentsProofs ---------------------------
(***************************************************************************)
(* The components side by side: what a run of MCComponents explores is a    *)
(* behaviour of every component's own specification, so all that is proved  *)
(* of a component holds of the composition, for every value of the          *)
(* constants; its type invariant among them.                                *)
(***************************************************************************)
EXTENDS MCComponents, ConcurrencyProofs, MeasurementProofs, CommandLineProofs, WorkloadProofs

\* A step of one component leaves the variables of the others as they are.
LEMMA ComponentSteps ==
    ASSUME [ComponentsNext]_vars
    PROVE  /\ [PoolNext]_poolVars /\ [PlanNext]_planVars
           /\ [HelperNext]_helperVars /\ [DatasetNext]_datasetVars
           /\ [DiskNext]_diskVars /\ [ClickBenchNext]_queryVars
           /\ [WorkloadNext]_workloadVars /\ [ConfigNext]_configVars
           /\ UNCHANGED component
<1>1. CASE UNCHANGED vars
    BY <1>1 DEF vars
<1>2. CASE ComponentsNext
  <2>1. CASE component = "pool" /\ PoolNext /\ OthersStay
    BY <2>1 DEF OthersStay, Unless
  <2>2. CASE component = "planning" /\ PlanNext /\ OthersStay
    BY <2>2 DEF OthersStay, Unless
  <2>3. CASE component = "helper" /\ HelperNext /\ OthersStay
    BY <2>3 DEF OthersStay, Unless
  <2>4. CASE component = "dataset" /\ DatasetNext /\ OthersStay
    BY <2>4 DEF OthersStay, Unless
  <2>5. CASE component = "disk" /\ DiskNext /\ OthersStay
    BY <2>5 DEF OthersStay, Unless
  <2>6. CASE component = "clickbench" /\ ClickBenchNext /\ OthersStay
    BY <2>6 DEF OthersStay, Unless
  <2>7. CASE component = "workload" /\ WorkloadNext /\ OthersStay
    BY <2>7 DEF OthersStay, Unless
  <2>8. CASE component = "configuration" /\ ConfigNext /\ OthersStay
    BY <2>8 DEF OthersStay, Unless
  <2> QED BY <1>2, <2>1, <2>2, <2>3, <2>4, <2>5, <2>6, <2>7, <2>8 DEF ComponentsNext
<1> QED BY <1>1, <1>2

\* Every behaviour of the composition is one of each component.
THEOREM ComponentsCompose ==
    ComponentsSpec => /\ PoolSpec /\ PlanSpec /\ HelperSpec /\ DatasetSpec
                      /\ DiskSpec /\ ClickBenchSpec /\ WorkloadSpec /\ ConfigSpec
<1>1. ComponentsInit => /\ PoolInit /\ PlanInit /\ HelperInit /\ DatasetInit
                        /\ DiskInit /\ ClickBenchInit /\ WorkloadInit /\ ConfigInit
    BY DEF ComponentsInit
<1>2. [ComponentsNext]_vars =>
          /\ [PoolNext]_poolVars /\ [PlanNext]_planVars
          /\ [HelperNext]_helperVars /\ [DatasetNext]_datasetVars
          /\ [DiskNext]_diskVars /\ [ClickBenchNext]_queryVars
          /\ [WorkloadNext]_workloadVars /\ [ConfigNext]_configVars
    BY ComponentSteps
<1> QED BY <1>1, <1>2, PTL DEF ComponentsSpec, PoolSpec, PlanSpec, HelperSpec, DatasetSpec,
        DiskSpec, ClickBenchSpec, WorkloadSpec, ConfigSpec

\* Every component's variables keep their types, whoever steps.
THEOREM ComponentsTypeCorrect == ComponentsSpec => []ComponentsTypeOK
<1>1. ComponentsInit => component \in Components
    BY DEF ComponentsInit
<1>2. component \in Components /\ [ComponentsNext]_vars => (component \in Components)'
    BY ComponentSteps
<1>3. ComponentsSpec => [](component \in Components)
    BY <1>1, <1>2, PTL DEF ComponentsSpec
<1>4. HelperInv => HelperTypeOK
    BY DEF HelperInv
<1>5. DatasetInv => DatasetTypeOK
    BY DEF DatasetInv
<1>6. DiskInv => DiskTypeOK
    BY DEF DiskInv
<1>7. QueryInv => ClickBenchTypeOK
    BY DEF QueryInv
<1>8. ConfigInv => ConfigTypeOK
    BY DEF ConfigInv
<1>9. ComponentsSpec => []PoolTypeOK /\ []PlanTypeOK /\ []WorkloadTypeOK
    BY ComponentsCompose, PoolTypeCorrect, PlanTypeCorrect, WorkloadTypeCorrect, PTL
<1>10. ComponentsSpec => []HelperTypeOK /\ []DatasetTypeOK
    BY <1>4, <1>5, ComponentsCompose, HelperInvariantHolds, DatasetInvariantHolds, PTL
<1>11. ComponentsSpec => []DiskTypeOK /\ []ClickBenchTypeOK /\ []ConfigTypeOK
    BY <1>6, <1>7, <1>8, ComponentsCompose, DiskInvariantHolds, QueryInvariantHolds,
       ConfigInvariantHolds, PTL
<1>12. (/\ component \in Components
        /\ PoolTypeOK /\ PlanTypeOK /\ HelperTypeOK /\ DatasetTypeOK
        /\ DiskTypeOK /\ ClickBenchTypeOK /\ WorkloadTypeOK /\ ConfigTypeOK) => ComponentsTypeOK
    BY DEF ComponentsTypeOK
<1> QED BY <1>3, <1>9, <1>10, <1>11, <1>12, PTL

\* The safety properties that the run of the components checks hold of the
\* composition, for every value of the constants.
THEOREM ComponentsAreSafe ==
    ComponentsSpec =>
        /\ [](ErrorsAreExact /\ MeasuredOnce /\ CreatesOnlyApproved /\ SharesOnlyApproved)
        /\ [](RunsOnlyReleased /\ ReportsWhatItHashed /\ StaysUsable)
        /\ [](LosesOneBlockPerPass /\ StaysInTheFile /\ LabelsAreTrue)
        /\ [](NamesAreDistinct /\ PlanCoversTheRun /\ StrongestSourceWins)
        /\ QuietAfterReturn
BY ComponentsCompose, ErrorsAreExactHolds, MeasuredOnceHolds, CreatesOnlyApprovedHolds,
   SharesOnlyApprovedHolds, RunsOnlyReleasedHolds, ReportsWhatItHashedHolds, StaysUsableHolds,
   LosesOneBlockPerPassHolds, StaysInTheFileHolds, LabelsAreTrueHolds, NamesAreDistinctHolds,
   PlanCoversTheRunHolds, StrongestSourceWinsHolds, QuietAfterReturnHolds, PTL
===============================================================================
