------------------------------ MODULE Settings ------------------------------
(* Numbers the programs read from the environment, each where it is needed. *)

CONSTANTS
  Env,            \* what the variables of the environment read as
  NotANumber      \* a variable that is not set, or does not parse

\* `var(name).ok().and_then(parse).unwrap_or(default)`
Setting(name, default) == IF Env[name] = NotANumber THEN default ELSE Env[name]
=============================================================================
