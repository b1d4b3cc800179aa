------------------------------ MODULE Settings ------------------------------
(***************************************************************************)
(* How the options of the agent come about (config.rs, main.rs): defaults, *)
(* then arguments, then the environment, then the JSON file, each over the *)
(* one before, then validation.  One option stands for all of its kind:    *)
(* they differ in what they accept, and that differs from layer to layer.  *)
(***************************************************************************)
EXTENDS Integers, Sequences, SequencesExt, FiniteSets, FiniteSetsExt

CONSTANT MaxArgs   \* bound: length of the command line

ASSUME SettingsAssumption == MaxArgs \in Nat

VARIABLES
    subject,   \* the option this behaviour is about, beside http_only
    phase,     \* "args", "env", "json", "checks", "run" or "exit"
    args,      \* the command line, without the program's name
    position,  \* parse_args: i
    config,    \* Config: option -> value
    env,       \* option -> what AGENT_<NAME> holds, or Unset
    json,      \* option -> what the file holds under its name, or Unset
    supplied   \* ghost: option -> what the command line said, or Unset

stVars == <<subject, phase, args, position, config, env, json, supplied>>

\* Options by kind: endpoint (and 8 more) hold text, reconnect_interval (3) a
\* number, http_only (12) is a switch, include_nics (4) a list,
\* protocol_version a number that must not be mistaken.
Options == {"endpoint", "reconnect_interval", "http_only", "include_nics", "protocol_version"}
Default == [endpoint |-> "", reconnect_interval |-> "5", http_only |-> "off",
            include_nics |-> "", protocol_version |-> "2"]

\* What somebody may write for a value; "http" is a plain http:// endpoint.
Raw == {"", "http", "1", "2", "no", "-x"}
Unset == "unset"
Bad == "bad"

\* The text as a value of the option, or Bad (parse_u64, parse_u8, parse_bool,
\* split_comma).
Parsed(o, raw) ==
    CASE o \in {"endpoint", "include_nics"} -> raw
      [] o = "http_only" -> IF raw = "1" THEN "on" ELSE IF raw = "no" THEN "off" ELSE Bad
      [] OTHER -> IF raw \in {"1", "2"} THEN raw ELSE Bad

(***************************************************************************)
(* The command line.  An argument is [form, name, value]: "--name",        *)
(* "--name=value", "-n", or a plain word; as a value any is text.          *)
(***************************************************************************)
Plain(raw) == [form |-> "word", name |-> "", value |-> raw]
Long(name) == [form |-> "long", name |-> name, value |-> "-x"]
Equals(name, raw) == [form |-> "equals", name |-> name, value |-> raw]
Short(name) == [form |-> "short", name |-> name, value |-> "-x"]
EndOfFlags == [form |-> "end", name |-> "", value |-> "-x"]
Help == [form |-> "help", name |-> "", value |-> "-x"]

ArgsAbout(o) ==
    {Long(o), Equals(o, "2"), Equals(o, ""), Long("http_only"), Plain("1"), Plain(""),
     Long("unknown"), Short("unknown"), EndOfFlags, Help}
        \cup (IF o = "include_nics" THEN {} ELSE {Short(o)})

\* The next argument is this one's value, whatever it looks like: also that of
\* a flag the agent does not know.
TakesNext(a) == a.form = "short" \/ (a.form = "long" /\ a.name # "http_only")

\* apply_long_flag, apply_short_flag: what the argument and its value mean; a
\* long flag refuses an empty value, a short one does not.
SettingOf(a, next) ==
    LET raw == IF TakesNext(a) THEN next ELSE a.value
    IN  IF a.form = "long" /\ a.name = "http_only" THEN "on"
        ELSE IF a.form # "short" /\ raw = "" THEN Bad
        ELSE Parsed(a.name, raw)

Known(a) == a.form \in {"long", "equals", "short"} /\ a.name \in Options
Missing(k) == TakesNext(args[k]) /\ k = Len(args)
ValueAt(k) == SettingOf(args[k], IF k < Len(args) THEN args[k + 1].value ELSE "")

StInit ==
    /\ subject \in Options
    /\ phase = "args"
    /\ args \in SeqOf(ArgsAbout(subject), MaxArgs)
    /\ position = 1
    /\ config = Default
    /\ env = [o \in Options |-> Unset]
    /\ json = [o \in Options |-> Unset]
    /\ supplied = [o \in Options |-> Unset]

StTypeOK ==
    /\ subject \in Options
    /\ phase \in {"args", "env", "json", "checks", "run", "exit"}
    /\ position \in 1..(MaxArgs + 2)
    /\ config \in [Options -> Raw \cup {"0", "5", "on", "off"}]

Exit == phase' = "exit" /\ UNCHANGED <<subject, args, position, config, env, json, supplied>>

(***************************************************************************)
(* Reference: what the command line says, read as a whole.                 *)
(***************************************************************************)

\* Where flags begin: not at the value of the flag before, and before "--".
FlagNames ==
    LET Starts(H) == \A k \in DOMAIN args : k \in H <=> ~(k > 1 /\ k - 1 \in H /\ TakesNext(args[k - 1]))
        all == CHOOSE H \in SUBSET DOMAIN args : Starts(H)
    IN  {k \in all : \A j \in all : j <= k => args[j].form # "end"}

\* The last flag on the command line that names the option, if any does.
OnCommandLine(o) ==
    LET flags == {k \in FlagNames : Known(args[k]) /\ args[k].name = o}
    IN  IF flags = {} THEN Unset ELSE ValueAt(Max(flags))

(***************************************************************************)
(* The loop of parse_args.                                                 *)
(***************************************************************************)

\* No argument is left, or the next one is "--".
ArgsDone ==
    /\ phase = "args"
    /\ position <= Len(args) => args[position].form = "end"
    /\ phase' = "env"
    /\ supplied' = [o \in Options |-> OnCommandLine(o)]
    /\ args' = <<>>
    /\ position' = 1
    /\ UNCHANGED <<subject, config, env, json>>

\* --help and --version, and a value that is missing or wrong, end the program.
ArgEnds ==
    /\ phase = "args"
    /\ position <= Len(args)
    /\ \/ args[position].form = "help"
       \/ Missing(position)
       \/ Known(args[position]) /\ ValueAt(position) = Bad
    /\ Exit

\* One turn of the loop: a flag is applied, and one the agent does not know, or
\* a stray word, is passed over.
ArgTaken ==
    /\ phase = "args"
    /\ position <= Len(args)
    /\ args[position].form \notin {"help", "end"}
    /\ ~Missing(position)
    /\ Known(args[position]) => ValueAt(position) # Bad
    /\ config' = IF Known(args[position]) THEN [config EXCEPT ![args[position].name] = ValueAt(position)] ELSE config
    /\ position' = position + (IF TakesNext(args[position]) THEN 2 ELSE 1)
    /\ UNCHANGED <<subject, phase, args, env, json, supplied>>

(***************************************************************************)
(* The environment and the file.                                           *)
(***************************************************************************)

\* load_env: an empty text is as good as none and a wrong value is ignored,
\* except that a version that is not one must not pass for the default.
FromEnv(o, raw) ==
    IF raw = Unset \/ (raw = "" /\ o # "protocol_version") THEN Unset
    ELSE IF Parsed(o, raw) # Bad THEN Parsed(o, raw)
    ELSE IF o = "protocol_version" THEN "0" ELSE Unset

\* apply_json_map: a value of the wrong type is ignored, again with the
\* exception; an empty text counts, and so does an empty list.
JsonValues == {"string ", "string http", "number 2", "number 1.5", "bool on", "bool off", "null"}
FromJson(o, value) ==
    CASE value = Unset -> Unset
      [] o \in {"endpoint", "include_nics"} ->
            IF value = "string " THEN "" ELSE IF value = "string http" THEN "http" ELSE Unset
      [] o = "http_only" ->
            IF value = "bool on" THEN "on" ELSE IF value = "bool off" THEN "off" ELSE Unset
      [] o = "reconnect_interval" ->
            IF value = "number 2" THEN "2" ELSE IF value = "number 1.5" THEN "1" ELSE Unset
      [] o = "protocol_version" -> IF value = "number 2" THEN "2" ELSE "0"

\* Mutant: the environment does not override what a flag has set.
OverDefaults(below, layer) ==
    [o \in Options |-> IF layer[o] = Unset \/ below[o] # Default[o] THEN below[o] ELSE layer[o]]

\* A layer over the configuration so far.
Over(below, layer) == [o \in Options |-> IF layer[o] = Unset THEN below[o] ELSE layer[o]]

About(values) ==
    {[o \in Options |-> IF o = subject THEN v ELSE IF o = "http_only" THEN w ELSE Unset] :
        v \in values \cup {Unset}, w \in values \cup {Unset}}

LoadEnv ==
    /\ phase = "env"
    /\ env' \in About(Raw)
    /\ config' = Over(config, [o \in Options |-> FromEnv(o, env'[o])])
    /\ phase' = "json"
    /\ UNCHANGED <<subject, args, position, json, supplied>>

\* load_json_config: a file that cannot be read or is no JSON object (a repeated
\* key, nesting, trailing data, more than 1 MiB) ends the program; without one
\* nothing changes.
LoadJson ==
    /\ phase = "json"
    /\ \/ Exit
       \/ /\ json' \in About(JsonValues)
          /\ config' = Over(config, [o \in Options |-> FromJson(o, json'[o])])
          /\ phase' = "checks"
          /\ UNCHANGED <<subject, args, position, env, supplied>>

\* validate, and main: an http:// endpoint cannot carry a WebSocket.  The
\* options no behaviour is about are given.
Check ==
    /\ phase = "checks"
    /\ LET valid == config["protocol_version"] = "2"
                       /\ (subject = "endpoint" => config["endpoint"] # "")
       IN  IF valid
           THEN /\ phase' = "run"
                /\ config' = IF config["endpoint"] = "http"
                             THEN [config EXCEPT !["http_only"] = "on"] ELSE config
                /\ UNCHANGED <<subject, args, position, env, json, supplied>>
           ELSE Exit

StNext ==
    \/ ArgsDone
    \/ ArgEnds
    \/ ArgTaken
    \/ LoadEnv
    \/ LoadJson
    \/ Check

(***************************************************************************)
(* Properties.                                                             *)
(***************************************************************************)

\* "Main loads CLI, environment and JSON configuration in that order; JSON
\* wins": a running agent has for every option the value of the highest layer
\* that says something legible about it, of that option and no other, and the
\* last flag of several; and http_only also for a plain endpoint.
LayersResolve ==
    LET Chosen(o) ==
            CASE FromJson(o, json[o]) # Unset -> FromJson(o, json[o])
              [] OTHER -> CASE FromEnv(o, env[o]) # Unset -> FromEnv(o, env[o])
                            [] OTHER -> IF supplied[o] # Unset THEN supplied[o] ELSE Default[o]
    IN  phase = "run" =>
            /\ \A o \in Options \ {"http_only"} : config[o] = Chosen(o)
            /\ config["http_only"] =
                  IF Chosen("endpoint") = "http" THEN "on" ELSE Chosen("http_only")
            /\ config["protocol_version"] = "2"

StSpec == StInit /\ [][StNext]_stVars

=============================================================================
