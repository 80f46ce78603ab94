---------------------------- MODULE Configuration ----------------------------
(* What a run is told to judge by: the thresholds and the declared domains, *)
(* from the defaults, dryguard.toml and --threshold (src/src/config.rs,     *)
(* src/src/main.rs). A similarity or a threshold is the pair of counts it   *)
(* is the quotient of.                                                      *)
EXTENDS Naturals, SequencesExt

CONSTANTS
  Defaults,  \* ConfiguredThresholds::default
  Root       \* the directory of dryguard.toml

(* toml: [kind |-> "Absent" | "Unreadable" | "Text", lines]. A line has a   *)
(* kind and, as a table's heading, a name; as a key with a value, a key, a  *)
(* flaw, and what the value is: a threshold or the globs of a domain.       *)
VARIABLES
  toml,      \* dryguard.toml in the current directory
  flag,      \* --threshold as a set: empty if it is not given
  settings   \* [read: unread, ready or the failure, thresholds, declarations]

configVars == <<toml, flag, settings>>

ThresholdOf == [structural_similarity |-> "structure", shared_imports |-> "imports",
                shared_caller_domains |-> "callers"]

(* A threshold lies between nothing and all (Threshold::new).               *)
IsQuotient(t) == t.shared \in Nat /\ t.of \in Nat \ {0}

Unread == [read |-> "unread", thresholds |-> Defaults,
           declarations |-> [root |-> Root, list |-> <<>>]]

-----------------------------------------------------------------------------
(* WrittenThresholds::written: each of the known keys once.                 *)
Threshold(written, line) ==
  CASE line.key \notin DOMAIN ThresholdOf -> [written EXCEPT !.failure = "UnknownKey"]
    [] line.key \in DOMAIN written.thresholds -> [written EXCEPT !.failure = "DuplicateKey"]
    [] line.flaw # "none" -> [written EXCEPT !.failure = line.flaw]
    [] OTHER -> [written EXCEPT !.thresholds = @ @@ (line.key :> line.value)]

(* declaration_of, and each name once.                                      *)
Declaration(written, line) ==
  CASE line.flaw # "none" -> [written EXCEPT !.failure = line.flaw]
    [] \E i \in DOMAIN written.list : written.list[i].name = line.key ->
         [written EXCEPT !.failure = "DuplicateKey"]
    [] OTHER -> [written EXCEPT !.list = Append(@, [name |-> line.key, patterns |-> line.value])]

(* One line; after the first that cannot be read none counts.               *)
LineRead(written, line) ==
  CASE written.failure # "none" \/ line.kind = "Blank" -> written
    [] line.kind = "Table" /\ line.name \notin {"thresholds", "domains"} ->
         [written EXCEPT !.failure = "UnknownTable"]
    [] line.kind = "Table" -> [written EXCEPT !.table = line.name]
    [] line.kind = "Other" -> [written EXCEPT !.failure = "NotAKeyValue"]
    [] written.table = "none" -> [written EXCEPT !.failure = "KeyOutsideTable"]
    [] written.table = "thresholds" -> Threshold(written, line)
    [] OTHER -> Declaration(written, line)

(* configuration_of_text                                                    *)
ConfigurationOfText(lines) ==
  FoldLeft(LineRead, [failure |-> "none", table |-> "none", thresholds |-> <<>>, list |-> <<>>],
           lines)

(* WrittenThresholds::applied_to, then configured_thresholds_of: what is    *)
(* laid over last stays.                                                    *)
AppliedTo(thresholds, given) ==
  LET written(key) == {k \in DOMAIN given : ThresholdOf[k] = key}
  IN  [key \in DOMAIN thresholds |->
         IF written(key) = {} THEN thresholds[key] ELSE given[CHOOSE k \in written(key) : TRUE]]

ConfiguredThresholds(fromFile) ==
  [fromFile EXCEPT !.structure = IF flag = {} THEN @ ELSE CHOOSE t \in flag : TRUE]

(* configuration_of and main: no file is as good as an empty one; one that  *)
(* cannot be read is not.                                                   *)
Configure ==
  /\ settings.read = "unread"
  /\ LET text == ConfigurationOfText(toml.lines)
     IN  settings' =
           CASE toml.kind = "Unreadable" -> [settings EXCEPT !.read = "Unreadable"]
             [] toml.kind = "Absent" ->
                  [read |-> "ready", thresholds |-> ConfiguredThresholds(Defaults),
                   declarations |-> settings.declarations]
             [] toml.kind = "Text" /\ text.failure # "none" ->
                  [settings EXCEPT !.read = text.failure]
             [] OTHER ->
                  [read |-> "ready",
                   thresholds |-> ConfiguredThresholds(AppliedTo(Defaults, text.thresholds)),
                   declarations |-> [root |-> Root, list |-> text.list]]
  /\ UNCHANGED <<toml, flag>>
=============================================================================
