--------------------------- MODULE Configuration ---------------------------
(***************************************************************************)
(* How the options of a command get their values: common (internal/cli)     *)
(* with Load, ApplyEnvironment and ValidateResolved (internal/config).  The *)
(* sources overwrite one another, the lowest first, and only the result is  *)
(* validated.                                                               *)
(***************************************************************************)
EXTENDS Naturals

VARIABLES
    flag,           \* flag[o]: what the command line says of o, "unset" if nothing
    environment,    \* environment[o]: what its variable holds
    yaml,           \* yaml[o]: what the file, if there is one, says of o
    malformed,      \* whether the "flags" and the "file" can be parsed at all
    config,         \* config[o]: the Config as it is now
    resolving       \* "parse", "load", "environment", "flags", "validate", "resolved" or "refused"

configVars == <<flag, environment, yaml, malformed, config, resolving>>

\* One option of each sort: a flag with a name, a flag that is a boolean, a
\* boolean without a flag, a name without a flag.
Options == {"profile", "keep", "s3_enabled", "region"}
Booleans == {"keep", "s3_enabled"}

Default == [profile |-> "standard", keep |-> "false", s3_enabled |-> "false", region |-> "us-east-1"]

\* What each source can hold: "gpu" is no profile, "" no region, "maybe" no boolean.
Flags == [profile : {"unset", "quick", "gpu"}, keep : {"unset", "false"},
          s3_enabled : {"unset"}, region : {"unset"}]
Environments == [profile : {"unset", "quick", "gpu"}, keep : {"unset", "true", "maybe"},
                 s3_enabled : {"unset", "false", "maybe"}, region : {"unset", "", "eu"}]
Files == [profile : {"unset", "gpu"}, keep : {"unset", "true"}, s3_enabled : {"unset", "true"},
          region : {"unset", ""}]

Invalid(option, value) ==
    \/ option = "profile" /\ value \notin {"standard", "quick"}
    \/ option = "region" /\ value = ""

ConfigTypeOK ==
    /\ flag \in Flags /\ environment \in Environments /\ yaml \in Files
    /\ malformed \subseteq {"flags", "file"}
    /\ DOMAIN config = Options
    /\ \A o \in Booleans : config[o] \in {"true", "false"}
    /\ resolving \in {"parse", "load", "environment", "flags", "validate", "resolved", "refused"}

ConfigInit ==
    /\ flag \in Flags /\ environment \in Environments /\ yaml \in Files
    /\ malformed \in SUBSET {"flags", "file"}
    /\ malformed # {} => yaml = [o \in Options |-> "unset"]
    /\ config = Default
    /\ resolving = "parse"

\* A source that says something of an option wins over what is there.
Overlay(source) == config' = [o \in Options |-> IF source[o] = "unset" THEN config[o] ELSE source[o]]

Refused == resolving' = "refused" /\ UNCHANGED config

-----------------------------------------------------------------------------
\* flag.Parse: unknown flags, booleans that are none and arguments are refused.
ParseFlags ==
    /\ resolving = "parse"
    /\ IF "flags" \in malformed THEN Refused
       ELSE resolving' = "load" /\ UNCHANGED config
    /\ UNCHANGED <<flag, environment, yaml, malformed>>

\* Load: the file is decoded over the defaults; an absent default file is none.
Load ==
    /\ resolving = "load"
    /\ IF "file" \in malformed THEN Refused
       ELSE Overlay(yaml) /\ resolving' = "environment"
    /\ UNCHANGED <<flag, environment, yaml, malformed>>

\* Mutant of Seen: the variables are read whatever the flags say.
SeenAll == environment

\* lookupEnvironment: a variable whose flag is given is not there.
Seen == [o \in Options |-> IF flag[o] # "unset" THEN "unset" ELSE environment[o]]

\* ApplyEnvironment: a variable that is set overwrites, also with the empty
\* string; a boolean that does not parse is an error.
ApplyEnvironment ==
    /\ resolving = "environment"
    /\ IF \E o \in Booleans : Seen[o] = "maybe" THEN Refused
       ELSE Overlay(Seen) /\ resolving' = "flags"
    /\ UNCHANGED <<flag, environment, yaml, malformed>>

ApplyFlags ==
    /\ resolving = "flags"
    /\ Overlay(flag)
    /\ resolving' = "validate"
    /\ UNCHANGED <<flag, environment, yaml, malformed>>

\* ValidateResolved, and nothing before it, looks at the values.
ValidateResolved ==
    /\ resolving = "validate"
    /\ IF \E o \in Options : Invalid(o, config[o]) THEN Refused
       ELSE resolving' = "resolved" /\ UNCHANGED config
    /\ UNCHANGED <<flag, environment, yaml, malformed>>

ConfigOver == resolving \in {"resolved", "refused"} /\ UNCHANGED configVars

ConfigNext ==
    ParseFlags \/ Load \/ ApplyEnvironment \/ ApplyFlags \/ ValidateResolved \/ ConfigOver

ConfigSpec == ConfigInit /\ [][ConfigNext]_configVars

-----------------------------------------------------------------------------
(* Properties *)

\* The sources of an option, the strongest first.
Strongest(o) ==
    IF flag[o] # "unset" THEN flag[o]
    ELSE IF environment[o] # "unset" THEN environment[o]
    ELSE IF yaml[o] # "unset" THEN yaml[o]
    ELSE Default[o]

\* "Precedence is command flag, environment variable, YAML, then built-in
\* default" (docs/benchmark-contract.md), and a command is refused only for
\* flags or a file that do not parse or for a value that would have been used:
\* what a stronger source hides is never the reason (common, lookupEnvironment).
StrongestSourceWins ==
    /\ resolving = "resolved" => \A o \in Options : config[o] = Strongest(o) /\ ~Invalid(o, config[o])
    /\ resolving = "refused" =>
        malformed # {} \/ \E o \in Options : Strongest(o) = "maybe" \/ Invalid(o, Strongest(o))
=============================================================================
