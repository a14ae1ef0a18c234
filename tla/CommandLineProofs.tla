-------------------------- MODULE CommandLineProofs --------------------------
(***************************************************************************)
(* What the command line and the other sources ask for is what happens:    *)
(* the strongest source of an option wins (Configuration), and no category *)
(* is measured twice, no resource created and nothing shared that was not  *)
(* approved, for every --only and whatever changes after the approval      *)
(* (Planning).                                                             *)
(***************************************************************************)
EXTENDS Configuration, Planning, TLAPS

(* The configuration *)

\* The option as the file leaves it, and as the environment does.
FromFile(o) == IF yaml[o] = "unset" THEN Default[o] ELSE yaml[o]
FromEnvironment(o) == IF Seen[o] = "unset" THEN FromFile(o) ELSE Seen[o]

\* What each stage has made of an option, and why a command was refused.
StageInv ==
    /\ resolving \in {"parse", "load"} => \A o \in Options : config[o] = Default[o]
    /\ resolving = "environment" => \A o \in Options : config[o] = FromFile(o)
    /\ resolving = "flags" => \A o \in Options : config[o] = FromEnvironment(o)
    /\ resolving \in {"validate", "resolved"} => \A o \in Options : config[o] = Strongest(o)
    /\ resolving = "resolved" => \A o \in Options : ~Invalid(o, config[o])
    /\ resolving = "refused" =>
        malformed # {} \/ \E o \in Options : Strongest(o) = "maybe" \/ Invalid(o, Strongest(o))

ConfigInv == ConfigTypeOK /\ StageInv

LEMMA OptionFacts ==
    ASSUME flag \in Flags, environment \in Environments, yaml \in Files
    PROVE  /\ Booleans \subseteq Options /\ DOMAIN Default = Options
           /\ \A o \in Booleans : /\ Default[o] = "false" /\ flag[o] \in {"unset", "false"}
                                  /\ yaml[o] \in {"unset", "true"}
                                  /\ environment[o] \in {"unset", "true", "false", "maybe"}
<1>1. Booleans \subseteq Options /\ DOMAIN Default = Options
    BY DEF Booleans, Options, Default
<1>2. Default["keep"] = "false" /\ Default["s3_enabled"] = "false"
    BY DEF Default
<1>3. flag["keep"] \in {"unset", "false"} /\ flag["s3_enabled"] \in {"unset", "false"}
    BY DEF Flags
<1>4. yaml["keep"] \in {"unset", "true"} /\ yaml["s3_enabled"] \in {"unset", "true"}
    BY DEF Files
<1>5. /\ environment["keep"] \in {"unset", "true", "false", "maybe"}
      /\ environment["s3_enabled"] \in {"unset", "true", "false", "maybe"}
    BY DEF Environments
<1> QED BY <1>1, <1>2, <1>3, <1>4, <1>5 DEF Booleans

\* An overlay keeps what the source does not mention.
LEMMA OverlayFacts ==
    ASSUME NEW source, Overlay(source)
    PROVE  /\ DOMAIN config' = Options
           /\ \A o \in Options : config'[o] = IF source[o] = "unset" THEN config[o] ELSE source[o]
BY DEF Overlay

LEMMA ConfigInitInv == ConfigInit => ConfigInv
BY OptionFacts DEF ConfigInit, ConfigInv, ConfigTypeOK, StageInv

LEMMA ParseFlagsInv == ASSUME ConfigInv, ParseFlags PROVE ConfigInv'
BY DEF ConfigInv, ParseFlags, Refused, ConfigTypeOK, StageInv

LEMMA LoadInv == ASSUME ConfigInv, Load PROVE ConfigInv'
<1>1. CASE "file" \in malformed
    BY <1>1 DEF ConfigInv, Load, Refused, ConfigTypeOK, StageInv
<1>2. CASE "file" \notin malformed
  <2>1. /\ DOMAIN config' = Options /\ resolving' = "environment"
        /\ \A o \in Options : config'[o] = FromFile(o)
    BY <1>2, OverlayFacts DEF ConfigInv, Load, StageInv, FromFile
  <2>2. UNCHANGED <<flag, environment, yaml, malformed>>
    BY DEF Load
  <2>3. \A o \in Booleans : config'[o] \in {"true", "false"}
    BY <2>1, OptionFacts DEF ConfigInv, ConfigTypeOK, FromFile
  <2> QED BY <2>1, <2>2, <2>3 DEF ConfigInv, ConfigTypeOK, StageInv, FromFile
<1> QED BY <1>1, <1>2

\* A variable that is refused is not hidden by a flag: it is the strongest source.
LEMMA ApplyEnvironmentInv == ASSUME ConfigInv, ApplyEnvironment PROVE ConfigInv'
<1>1. UNCHANGED <<flag, environment, yaml, malformed>>
    BY DEF ApplyEnvironment
<1>2. CASE \E o \in Booleans : Seen[o] = "maybe"
  <2>1. PICK o \in Booleans : Seen[o] = "maybe"
    BY <1>2
  <2>2. Strongest(o) = "maybe"
    BY <2>1, OptionFacts DEF ConfigInv, ConfigTypeOK, Seen, Strongest
  <2>3. resolving' = "refused" /\ config' = config
    BY <1>2 DEF ApplyEnvironment, Refused
  <2> QED BY <1>1, <2>2, <2>3, OptionFacts DEF ConfigInv, ConfigTypeOK, StageInv, Strongest
<1>3. CASE ~ \E o \in Booleans : Seen[o] = "maybe"
  <2>1. /\ DOMAIN config' = Options /\ resolving' = "flags"
        /\ \A o \in Options : config'[o] = FromEnvironment(o)
    BY <1>3, OverlayFacts DEF ConfigInv, ApplyEnvironment, StageInv, FromEnvironment
  <2>2. \A o \in Booleans : config'[o] \in {"true", "false"}
    BY <1>3, <2>1, OptionFacts DEF ConfigInv, ConfigTypeOK, FromEnvironment, FromFile, Seen
  <2> QED BY <1>1, <2>1, <2>2 DEF ConfigInv, ConfigTypeOK, StageInv, FromEnvironment, FromFile, Seen
<1> QED BY <1>2, <1>3

LEMMA ApplyFlagsInv == ASSUME ConfigInv, ApplyFlags PROVE ConfigInv'
<1>1. UNCHANGED <<flag, environment, yaml, malformed>> /\ resolving' = "validate"
    BY DEF ApplyFlags
<1>2. DOMAIN config' = Options /\ \A o \in Options : config'[o] = Strongest(o)
    BY OverlayFacts DEF ConfigInv, ApplyFlags, StageInv, FromEnvironment, FromFile, Seen, Strongest
<1>3. \A o \in Booleans : config'[o] \in {"true", "false"}
  <2>1. \A o \in Booleans : config[o] \in {"true", "false"} /\ flag[o] \in {"unset", "false"} /\ o \in Options
    BY OptionFacts DEF ConfigInv, ConfigTypeOK
  <2> QED BY <2>1, OverlayFacts DEF ApplyFlags
<1> QED BY <1>1, <1>2, <1>3 DEF ConfigInv, ConfigTypeOK, StageInv, Strongest

LEMMA ValidateResolvedInv == ASSUME ConfigInv, ValidateResolved PROVE ConfigInv'
<1>1. UNCHANGED <<flag, environment, yaml, malformed, config>>
    BY DEF ValidateResolved, Refused
<1>2. CASE \E o \in Options : Invalid(o, config[o])
  <2>1. resolving' = "refused" /\ \E o \in Options : Invalid(o, Strongest(o))
    BY <1>2 DEF ConfigInv, ValidateResolved, Refused, StageInv
  <2>2. ConfigTypeOK'
    BY <1>1, <2>1 DEF ConfigInv, ConfigTypeOK
  <2>3. PICK o \in Options : Invalid(o, Strongest(o))
    BY <2>1
  <2>4. Invalid(o, Strongest(o))'
    BY <1>1, <2>3 DEF Invalid, Strongest
  <2>5. StageInv'
    BY <2>1, <2>4 DEF StageInv
  <2> QED BY <2>2, <2>5 DEF ConfigInv
<1>3. CASE ~ \E o \in Options : Invalid(o, config[o])
  <2>1. resolving' = "resolved" /\ \A o \in Options : config[o] = Strongest(o)
    BY <1>3 DEF ConfigInv, ValidateResolved, StageInv
  <2> QED BY <1>1, <1>3, <2>1 DEF ConfigInv, ConfigTypeOK, StageInv, Strongest, Invalid
<1> QED BY <1>2, <1>3

LEMMA ConfigNextInv == ConfigInv /\ [ConfigNext]_configVars => ConfigInv'
<1> SUFFICES ASSUME ConfigInv, [ConfigNext]_configVars PROVE ConfigInv'
    OBVIOUS
<1>1. CASE UNCHANGED configVars
  <2>1. UNCHANGED <<flag, environment, yaml, malformed, config, resolving>>
    BY <1>1 DEF configVars
  <2>2. ConfigTypeOK'
    BY <2>1 DEF ConfigInv, ConfigTypeOK
  <2>3. \A o : /\ FromFile(o)' = FromFile(o) /\ FromEnvironment(o)' = FromEnvironment(o)
               /\ Strongest(o)' = Strongest(o)
    BY <2>1 DEF FromFile, FromEnvironment, Seen, Strongest
  <2>4. StageInv'
    BY <2>1, <2>3 DEF ConfigInv, StageInv, Invalid
  <2> QED BY <2>2, <2>4 DEF ConfigInv
<1> QED BY <1>1, ParseFlagsInv, LoadInv, ApplyEnvironmentInv, ApplyFlagsInv, ValidateResolvedInv
        DEF ConfigNext, ConfigOver

\* ConfigInv holds in every reachable state.
THEOREM ConfigInvariantHolds == ConfigSpec => []ConfigInv
BY ConfigInitInv, ConfigNextInv, PTL DEF ConfigSpec

\* Flag, variable, file, default: the strongest source that says something wins,
\* and nothing else can have a command refused (common, lookupEnvironment).
THEOREM StrongestSourceWinsHolds == ConfigSpec => []StrongestSourceWins
<1>1. ConfigInv => StrongestSourceWins
    BY DEF ConfigInv, StageInv, StrongestSourceWins
<1> QED BY <1>1, ConfigInvariantHolds, PTL

-----------------------------------------------------------------------------
(* From the selection to the end of the run *)

PlanSteps == {"select", "choose", "plan", "approve", "execute", "run", "over"}

\* While the defaults decide, what is selected comes from names already looked
\* at: this is why no turn of the loop selects it again.
SelectionInv ==
    /\ enabled \subseteq Configurable /\ only \in Asked
    /\ looked \in 0..Len(Names)
    /\ selected \in Seq(Known) /\ IsInjective(selected)
    /\ only = <<>> => \A i \in DOMAIN selected : \E j \in 1..looked : selected[i] = InOrder[j]

\* What is approved covers everything that the selected categories may do,
\* blocked or not, so it does not matter what has changed when they run.
ApprovalInv ==
    /\ step \in {"approve", "execute", "run"} =>
        /\ approved.resources = PlannedResources
        /\ "network-internet" \in ToSet(selected) => approved.sharing
    /\ step \in {"select", "choose", "plan", "approve", "execute"} =>
        created = {} /\ ~shared /\ statuses = <<>>
    /\ created \subseteq approved.resources
    /\ shared => approved.sharing /\ "consent" \in facts

RunInv ==
    /\ facts \subseteq Facts /\ step \in PlanSteps
    /\ approved \in Plans /\ recorded \in Plans
    /\ statuses \in Seq({"success", "failed", "blocked"}) /\ Len(statuses) <= Len(selected)
    /\ shared \in BOOLEAN

PlanInv == SelectionInv /\ ApprovalInv /\ RunInv

LEMMA InOrderFacts ==
    /\ InOrder \in Seq(Known) /\ Len(InOrder) = 10
    /\ \A i \in 1..10 : InOrder[i] \in Known
    /\ \A i, j \in 1..10 : InOrder[i] = InOrder[j] => i = j
<1>1. InOrder = [i \in 1..10 |-> InOrder[i]] /\ DOMAIN InOrder = 1..10 /\ Len(InOrder) = 10
    BY DEF InOrder
<1>2. \A i \in 1..10 : InOrder[i] \in Known
    BY <1>1 DEF Known, ToSet
<1>3. InOrder \in Seq(Known)
    BY <1>1, <1>2
<1>4. \A i, j \in 1..10 : InOrder[i] = InOrder[j] => i = j
    BY DEF InOrder
<1> QED BY <1>1, <1>2, <1>3, <1>4

LEMMA NamesFacts == ASSUME only \in Asked PROVE Len(Names) \in Nat
<1>1. only \in Seq(STRING)
    BY AskedAssumption
<1> QED BY <1>1, InOrderFacts DEF Names

\* What is not there yet is there once after it was appended.
LEMMA AppendKeepsInjective ==
    ASSUME NEW S, NEW s \in Seq(S), IsInjective(s), NEW e \in S, e \notin ToSet(s)
    PROVE  Append(s, e) \in Seq(S) /\ IsInjective(Append(s, e))
<1> DEFINE t == Append(s, e)
<1>1. /\ DOMAIN t = 1..(Len(s) + 1) /\ DOMAIN s = 1..Len(s) /\ Len(s) \in Nat
      /\ t[Len(s) + 1] = e
      /\ \A i \in 1..Len(s) : t[i] = s[i]
      /\ t \in Seq(S)
    OBVIOUS
<1>2. \A i \in 1..Len(s) : s[i] # e
    BY <1>1 DEF ToSet
<1>3. \A i, j \in 1..Len(s) : s[i] = s[j] => i = j
    BY <1>1 DEF IsInjective
<1>4. \A i \in 1..(Len(s) + 1) : i \in 1..Len(s) \/ i = Len(s) + 1
    BY <1>1
<1> HIDE DEF t
<1>5. \A i, j \in 1..(Len(s) + 1) : t[i] = t[j] => i = j
    BY <1>1, <1>2, <1>3, <1>4
<1>6. IsInjective(t)
    BY <1>1, <1>5 DEF IsInjective
<1> QED BY <1>1, <1>6 DEF t

\* What a plan of the selected categories says is a plan, and covers each of them.
LEMMA PlanFacts ==
    ASSUME selected \in Seq(Known)
    PROVE  /\ PlanNow \in Plans
           /\ \A i \in 1..Len(selected) : ResourceOf(selected[i]) \subseteq PlannedResources
<1>1. /\ DOMAIN selected = 1..Len(selected) /\ Len(selected) \in Nat
      /\ \A i \in 1..Len(selected) : selected[i] \in Known /\ selected[i] \in ToSet(selected)
    BY DEF ToSet
<1>2. ToSet(selected) \subseteq Known
    BY <1>1 DEF ToSet
<1>3. PlannedResources \in SUBSET UNION {ResourceOf(c) : c \in Known}
    BY <1>2 DEF PlannedResources
<1>4. \A c : State(c) \in {"ready", "blocked"}
    BY DEF State
<1>5. [i \in DOMAIN selected |-> State(selected[i])] \in Seq({"ready", "blocked"})
    BY <1>1, <1>4
<1>6. ("network-internet" \in ToSet(selected)) \in BOOLEAN
    OBVIOUS
<1>7. PlanNow \in Plans
    BY <1>3, <1>5, <1>6 DEF PlanNow, Plans
<1>8. \A i \in 1..Len(selected) : ResourceOf(selected[i]) \subseteq PlannedResources
    BY <1>1 DEF PlannedResources
<1> QED BY <1>7, <1>8

LEMMA PlanInitInv == PlanInit => PlanInv
<1> SUFFICES ASSUME PlanInit PROVE PlanInv
    OBVIOUS
<1>1. Len(Names) \in Nat
    BY NamesFacts DEF PlanInit
<1>2. NoPlan \in Plans
    BY DEF NoPlan, Plans
<1>3. SelectionInv
    BY <1>1 DEF PlanInit, SelectionInv, IsInjective
<1>4. ApprovalInv
    BY DEF PlanInit, ApprovalInv, NoPlan
<1>5. statuses \in Seq({"success", "failed", "blocked"}) /\ Len(statuses) <= Len(selected)
    BY DEF PlanInit
<1>6. facts \subseteq Facts /\ step \in PlanSteps /\ shared \in BOOLEAN
    BY GivenAssumption DEF PlanInit, PlanSteps
<1>7. RunInv
    BY <1>2, <1>5, <1>6 DEF PlanInit, RunInv
<1> QED BY <1>3, <1>4, <1>7 DEF PlanInv

LEMMA SelectInv == ASSUME PlanInv, Select PROVE PlanInv'
BY DEF PlanInv, Select, SelectionInv, ApprovalInv, RunInv, Names, PlannedResources, PlanSteps

LEMMA ChooseInv == ASSUME PlanInv, Choose PROVE PlanInv'
<1> DEFINE category == Names[looked + 1]
<1>1. Len(Names) \in Nat /\ looked \in 0..Len(Names)
    BY NamesFacts DEF PlanInv, SelectionInv
<1>2. /\ step = "choose" /\ looked < Len(Names) /\ looked' = looked + 1
      /\ UNCHANGED <<enabled, only, facts, approved, recorded, statuses, created, shared>>
    BY DEF Choose
<1>3. Names' = Names
    BY <1>2 DEF Names
<1>4. looked' \in 0..Len(Names')
    BY <1>1, <1>2, <1>3
<1>5. selected' = selected \/ (selected' = Append(selected, category) /\ category \notin ToSet(selected) /\ category \in Known)
  <2>1. CASE only = <<>>
    <3>1. Names = InOrder
        BY <2>1 DEF Names
    <3>2. category = InOrder[looked + 1] /\ looked + 1 \in 1..10
        BY <1>1, <1>2, <3>1, InOrderFacts
    <3>3. category \in Known
        BY <3>2, InOrderFacts
    <3>4. \A i \in DOMAIN selected : \E j \in 1..looked : selected[i] = InOrder[j]
        BY <2>1 DEF PlanInv, SelectionInv
    <3>5. \A i \in DOMAIN selected : selected[i] # category
      <4>1. \A j \in 1..looked : j \in 1..10 /\ j # looked + 1
        BY <1>1, <3>2
      <4> QED BY <3>2, <3>4, <4>1, InOrderFacts
    <3>6. category \notin ToSet(selected)
        BY <3>5 DEF ToSet
    <3> QED BY <2>1, <3>3, <3>6 DEF Choose
  <2>2. CASE only # <<>>
    BY <2>2 DEF Choose, Added
  <2> QED BY <2>1, <2>2
<1>6. selected' \in Seq(Known) /\ IsInjective(selected')
    BY <1>5, AppendKeepsInjective DEF PlanInv, SelectionInv
<1>7. only' = <<>> => \A i \in DOMAIN selected' : \E j \in 1..looked' : selected'[i] = InOrder[j]
  <2> SUFFICES ASSUME only = <<>>, NEW i \in DOMAIN selected'
               PROVE  \E j \in 1..looked' : selected'[i] = InOrder[j]
    BY <1>2
  <2>1. selected \in Seq(Known) /\ \A k \in 1..Len(selected) : \E j \in 1..looked : selected[k] = InOrder[j]
    BY DEF PlanInv, SelectionInv
  <2>2. CASE selected' = selected
    BY <1>1, <1>2, <2>1, <2>2
  <2>3. CASE selected' = Append(selected, category) /\ category \in Known
    <3>1. i \in 1..(Len(selected) + 1)
        BY <2>1, <2>3
    <3>2. CASE i \in 1..Len(selected)
        BY <1>1, <1>2, <2>1, <2>3, <3>2
    <3>3. CASE i = Len(selected) + 1
      <4>1. selected'[i] = InOrder[looked + 1]
        BY <2>1, <2>3, <3>3 DEF Names
      <4> QED BY <1>1, <1>2, <4>1
    <3> QED BY <2>1, <3>1, <3>2, <3>3
  <2> QED BY <1>5, <2>2, <2>3
<1>8. SelectionInv'
    BY <1>2, <1>4, <1>6, <1>7 DEF PlanInv, SelectionInv
<1>9. step' \in {"choose", "over"}
    BY DEF Choose
<1>10. ApprovalInv'
    BY <1>2, <1>9 DEF PlanInv, ApprovalInv
<1>11. RunInv'
    BY <1>2, <1>6, <1>9 DEF PlanInv, ApprovalInv, RunInv, PlanSteps
<1> QED BY <1>8, <1>10, <1>11 DEF PlanInv

LEMMA ChosenInv == ASSUME PlanInv, Chosen PROVE PlanInv'
BY DEF PlanInv, Chosen, SelectionInv, ApprovalInv, RunInv, Names, PlannedResources, PlanSteps

LEMMA MakePlanInv == ASSUME PlanInv, MakePlan PROVE PlanInv'
<1>1. /\ UNCHANGED <<enabled, only, facts, looked, selected, recorded, statuses, created, shared>>
      /\ step = "plan" /\ selected \in Seq(Known)
    BY DEF PlanInv, SelectionInv, MakePlan
<1>2. SelectionInv'
    BY <1>1 DEF PlanInv, SelectionInv, Names
<1>3. created = {} /\ ~shared /\ statuses = <<>> /\ UNCHANGED PlannedResources
    BY <1>1 DEF PlanInv, ApprovalInv, PlannedResources
<1>4. CASE approved' = PlanNow /\ step' = "approve"
  <2>1. approved'.resources = PlannedResources /\ approved'.sharing = ("network-internet" \in ToSet(selected))
    BY <1>4 DEF PlanNow
  <2>2. ApprovalInv'
    BY <1>1, <1>3, <1>4, <2>1 DEF ApprovalInv
  <2>3. RunInv'
    BY <1>1, <1>4, PlanFacts DEF PlanInv, RunInv, PlanSteps
  <2> QED BY <1>2, <2>2, <2>3 DEF PlanInv
<1>5. CASE step' = "over" /\ UNCHANGED approved
    BY <1>1, <1>2, <1>3, <1>5 DEF PlanInv, ApprovalInv, RunInv, PlanSteps
<1> QED BY <1>4, <1>5 DEF MakePlan

LEMMA ConfirmInv == ASSUME PlanInv, Confirm PROVE PlanInv'
BY DEF PlanInv, Confirm, SelectionInv, ApprovalInv, RunInv, Names, PlannedResources, PlanSteps

LEMMA PlanAgainInv == ASSUME PlanInv, PlanAgain PROVE PlanInv'
<1>1. recorded' \in Plans
    BY PlanFacts DEF PlanInv, SelectionInv, PlanAgain
<1> QED BY <1>1 DEF PlanInv, PlanAgain, SelectionInv, ApprovalInv, RunInv, Names, PlannedResources, PlanSteps

\* A category starts nothing that the plan does not name for it.
LEMMA RunCategoryInv == ASSUME PlanInv, RunCategory PROVE PlanInv'
<1> DEFINE category == selected[Len(statuses) + 1]
<1>1. /\ UNCHANGED <<enabled, only, facts, step, looked, selected, approved, recorded>>
      /\ step = "run" /\ Len(statuses) < Len(selected)
      /\ statuses' \in {Append(statuses, outcome) : outcome \in Outcomes(category)}
      /\ created' = created \/ created' = created \union ResourceOf(category)
      /\ shared' = (shared \/ (category = "network-internet" /\ Blocking(category) \subseteq facts))
    BY DEF RunCategory
<1>2. /\ selected \in Seq(Known) /\ statuses \in Seq({"success", "failed", "blocked"})
      /\ Len(statuses) + 1 \in 1..Len(selected)
    BY <1>1 DEF PlanInv, SelectionInv, RunInv
<1>3. SelectionInv'
    BY <1>1 DEF PlanInv, SelectionInv, Names
<1>4. PICK outcome \in {"success", "failed", "blocked"} : statuses' = Append(statuses, outcome)
  <2>1. Outcomes(category) \subseteq {"success", "failed", "blocked"}
    BY DEF Outcomes
  <2> QED BY <1>1, <2>1
<1>5. statuses' \in Seq({"success", "failed", "blocked"}) /\ Len(statuses') <= Len(selected')
    BY <1>1, <1>2, <1>4
<1>6. ResourceOf(category) \subseteq approved.resources
    BY <1>1, <1>2, PlanFacts DEF PlanInv, ApprovalInv
<1>7. created' \subseteq approved.resources
    BY <1>1, <1>6 DEF PlanInv, ApprovalInv
<1>8. shared' => approved.sharing /\ "consent" \in facts
  <2>1. category = "network-internet" /\ Blocking(category) \subseteq facts => "consent" \in facts
    BY DEF Blocking, Wanted
  <2>2. category = "network-internet" => approved.sharing
    BY <1>1, <1>2 DEF PlanInv, ApprovalInv, ToSet
  <2> QED BY <1>1, <2>1, <2>2 DEF PlanInv, ApprovalInv
<1>9. UNCHANGED PlannedResources
    BY <1>1 DEF PlannedResources
<1>10. ApprovalInv'
    BY <1>1, <1>7, <1>8, <1>9 DEF PlanInv, ApprovalInv
<1>11. RunInv'
    BY <1>1, <1>5 DEF PlanInv, RunInv
<1> QED BY <1>3, <1>10, <1>11 DEF PlanInv

LEMMA EndRunInv == ASSUME PlanInv, EndRun PROVE PlanInv'
BY DEF PlanInv, EndRun, SelectionInv, ApprovalInv, RunInv, Names, PlannedResources, PlanSteps

\* Whatever comes and goes, consent stays: it is read with the configuration.
LEMMA DriftInv == ASSUME PlanInv, Drift PROVE PlanInv'
<1>1. facts' \subseteq Facts /\ ("consent" \in facts => "consent" \in facts')
    BY GivenAssumption DEF PlanInv, RunInv, Drift
<1> QED BY <1>1 DEF PlanInv, Drift, SelectionInv, ApprovalInv, RunInv, Names, PlannedResources

LEMMA PlanNextInv == PlanInv /\ [PlanNext]_planVars => PlanInv'
<1> SUFFICES ASSUME PlanInv, [PlanNext]_planVars PROVE PlanInv'
    OBVIOUS
<1>1. CASE UNCHANGED planVars
    BY <1>1 DEF planVars, PlanInv, SelectionInv, ApprovalInv, RunInv, Names, PlannedResources
<1> QED BY <1>1, SelectInv, ChooseInv, ChosenInv, MakePlanInv, ConfirmInv, PlanAgainInv, RunCategoryInv,
        EndRunInv, DriftInv DEF PlanNext, PlanOver

\* PlanInv holds in every reachable state.
THEOREM PlanInvariantHolds == PlanSpec => []PlanInv
BY PlanInitInv, PlanNextInv, PTL DEF PlanSpec

\* The types of the state of a command, from --only to the result document.
THEOREM PlanTypeCorrect == PlanSpec => []PlanTypeOK
<1>1. PlanInv => PlanTypeOK
    BY DEF PlanInv, SelectionInv, ApprovalInv, RunInv, PlanSteps, PlanTypeOK
<1> QED BY <1>1, PlanInvariantHolds, PTL

\* However --only names the categories, and whatever the configuration enables,
\* none is measured twice (SelectCategories, ConfiguredCategories).
THEOREM MeasuredOnceHolds == PlanSpec => []MeasuredOnce
<1>1. PlanInv => MeasuredOnce
    BY DEF PlanInv, SelectionInv, RunInv, MeasuredOnce
<1> QED BY <1>1, PlanInvariantHolds, PTL

\* No resource is created that the approved plan did not name, whatever was
\* missing then and is there now (Plan, Execute).
THEOREM CreatesOnlyApprovedHolds == PlanSpec => []CreatesOnlyApproved
<1>1. PlanInv => CreatesOnlyApproved
    BY DEF PlanInv, ApprovalInv, CreatesOnlyApproved
<1> QED BY <1>1, PlanInvariantHolds, PTL

\* Nothing is shared with M-Lab that was not announced and consented to.
THEOREM SharesOnlyApprovedHolds == PlanSpec => []SharesOnlyApproved
<1>1. PlanInv => SharesOnlyApproved
    BY DEF PlanInv, ApprovalInv, SharesOnlyApproved
<1> QED BY <1>1, PlanInvariantHolds, PTL
=============================================================================
