----------------------------- MODULE EventConfig -----------------------------
(***************************************************************************)
(* The list of notifications the event plugin subscribes to                *)
(* (resolve_event_types in config.rs): three layers, the defaults, the     *)
(* TOML file and the environment, of which a later one replaces an earlier *)
(* one.  A list is the set of its members: a type that is listed twice is  *)
(* subscribed once.                                                        *)
(***************************************************************************)
CONSTANTS
    EventTypes,         \* the notifications of CLN
    DefaultEvents,      \* DEFAULT_EVENTS
    Lists               \* the lists that operators write

ASSUME ConfigAssumption ==
    /\ DefaultEvents \subseteq EventTypes
    /\ Lists \subseteq SUBSET EventTypes

Layer == [says : {"nothing", "list", "scalar", "broken"}, list : SUBSET EventTypes]

Nothing == [says |-> "nothing", list |-> {}]
Scalar  == [says |-> "scalar", list |-> {}]
Broken  == [says |-> "broken", list |-> {}]
Listed(l) == [says |-> "list", list |-> l]

(* What EVENT_PLUGIN_EVENTS holds: a text that reads as a boolean or a     *)
(* number is a scalar (try_parsing), any other one is split at its commas. *)
EnvSources ==
    [kind : {"unset", "empty", "scalar"}, list : {{}}]
        \cup [kind : {"list"}, list : Lists \ {{}}]

(* What the file holds.  It may have a name that is not one of a TOML      *)
(* file, and under `events' a value that is not a list of strings.         *)
FileSources ==
    [kind : {"unset", "unreadable", "unknown format", "malformed", "no key", "scalar"},
     list : {{}}]
        \cup [kind : {"list"}, list : Lists]

(* ignore_empty: an empty variable is one that is not set.                 *)
EnvLayer(env) ==
    CASE env.kind = "list"   -> Listed(env.list)
      [] env.kind = "scalar" -> Scalar
      [] OTHER               -> Nothing

(* required(false): a file that cannot be read, or whose name has not the  *)
(* extension of a format that is built in, says nothing.  Any other one is *)
(* parsed, and an error of the parser stays.                               *)
FileLayerLenient(file) ==
    CASE file.kind = "list"   -> Listed(file.list)
      [] file.kind = "scalar" -> Scalar
      [] OTHER                -> Nothing
FileLayer(file) ==
    CASE file.kind = "list"      -> Listed(file.list)
      [] file.kind = "scalar"    -> Scalar
      [] file.kind = "malformed" -> Broken
      [] OTHER                   -> Nothing

(* A layer on top of another.  An error of any layer is the result.        *)
Over(below, above) ==
    IF below.says = "broken" \/ above.says = "nothing" THEN below ELSE above

Resolve(env, file) ==
    Over(Over(Listed(DefaultEvents), FileLayer(file)), EnvLayer(env))

(* get(): the value has to be a list.                                      *)
Resolved(env, file) == Resolve(env, file).says = "list"
Subscribed(env, file) == Resolve(env, file).list
=============================================================================
