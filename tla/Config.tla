------------------------------- MODULE Config -------------------------------
(***************************************************************************)
(* Config::load of lite-rpc/src/cli.rs: the config file named by --config, *)
(* or ./config.json, or the serde defaults; then one environment variable  *)
(* per field that overrides the file.  Values are abstracted to where they *)
(* came from: "default", "file" or "env".  The environment (after dotenv)  *)
(* gives each field's variable as unset, a well-formed value, or "bad", a  *)
(* value that does not parse as a number.                                  *)
(***************************************************************************)
EXTENDS Naturals

CONSTANT Fields     \* the fields of Config the instance looks at

(* The fields of Config by the way load treats their variable: a text is  *)
(* taken as is, a number is parsed with unwrap, a flag is true when the   *)
(* variable is set at all, an option becomes Some(value), and             *)
(* quic_proxy_addr is replaced by env::var(..).ok().                       *)
Kind == [rpc_addr |-> "text", ws_addr |-> "text", lite_rpc_http_addr |-> "text",
         lite_rpc_ws_addr |-> "text", fanout_size |-> "number",
         enable_postgres |-> "flag", identity_keypair |-> "option",
         prometheus_addr |-> "text", maximum_retries_per_tx |-> "number",
         transaction_retry_after_secs |-> "number", quic_proxy_addr |-> "quic",
         use_grpc |-> "flag", grpc_addr |-> "text", grpc_x_token |-> "option"]

EnvVals == {"unset", "env", "bad"}
(* A config file: missing, not valid JSON for Config, or the fields it sets. *)
Files == {"missing", "malformed"} \cup [Fields -> {"absent", "file"}]

VARIABLES
    args,       \* Args::config: "none" or "path"
    disk,       \* the file at the resolved path
    env,        \* env[f]: the variable of field f
    pc,         \* "start" | "read" | "parse" | "override" | "ok" | "err" | "panicked"
    config      \* config[f]: where field f's value came from

vars == <<args, disk, env, pc, config>>

(* serde_json::from_str("{}"): every field at its serde default. *)
Defaults == [f \in Fields |-> "default"]

Init ==
    /\ args \in {"none", "path"}
    /\ disk \in Files
    /\ env \in [Fields -> EnvVals]
    /\ pc = "start"
    /\ config = Defaults

-----------------------------------------------------------------------------
(* The path: --config, else ./config.json, else return the defaults. *)
ResolvePath ==
    /\ pc = "start"
    /\ IF args = "none" /\ disk = "missing"
         THEN pc' = "ok" /\ config' = Defaults
         ELSE pc' = "read" /\ UNCHANGED config
    /\ UNCHANGED <<args, disk, env>>

(* File::open and read_to_string, each failing with a context error. *)
ReadFile ==
    /\ pc = "read"
    /\ \/ pc' = "err"
       \/ disk # "missing" /\ pc' = "parse"
    /\ UNCHANGED <<args, disk, env, config>>

(* serde_json::from_str: an error, or each field from the file or its     *)
(* #[serde(default)].                                                      *)
ParseFile ==
    /\ pc = "parse"
    /\ IF disk = "malformed"
         THEN pc' = "err" /\ UNCHANGED config
         ELSE /\ pc' = "override"
              /\ config' = [f \in Fields |-> IF disk[f] = "file" THEN "file" ELSE "default"]
    /\ UNCHANGED <<args, disk, env>>

(* One field's assignment: env::var(..).map(..).unwrap_or(config.f), or   *)
(* env::var(..).ok() for quic_proxy_addr.                                  *)
EnvOverride(f) ==
    CASE Kind[f] = "quic"   -> IF env[f] = "unset" THEN "default" ELSE "env"
      [] env[f] = "unset"   -> config[f]
      [] OTHER              -> "env"

(* A number whose variable does not parse panics at its parse().unwrap(). *)
Unparsable == {f \in Fields : Kind[f] = "number" /\ env[f] = "bad"}

(* The override block, lines 83 to 126, then Ok(config). *)
Override ==
    /\ pc = "override"
    /\ IF Unparsable # {}
         THEN pc' = "panicked" /\ UNCHANGED config
         ELSE pc' = "ok" /\ config' = [f \in Fields |-> EnvOverride(f)]
    /\ UNCHANGED <<args, disk, env>>

Done ==
    /\ pc \in {"ok", "err", "panicked"}
    /\ UNCHANGED vars

Next == ResolvePath \/ ReadFile \/ ParseFile \/ Override \/ Done

Spec == Init /\ [][Next]_vars

-----------------------------------------------------------------------------
(* The precedence every assignment of lines 83-124 is written for: a      *)
(* loaded Config takes each field from its environment variable when that *)
(* is set, else from the config file when the file sets it, else the      *)
(* serde default, whether or not a config file exists.                    *)
Precedence ==
    pc = "ok" =>
        \A f \in Fields :
            config[f] = CASE env[f] # "unset"                   -> "env"
                          [] disk \in [Fields -> {"absent", "file"}]
                             /\ disk[f] = "file"                -> "file"
                          [] OTHER                              -> "default"
=============================================================================
