------------------------------ MODULE Commands -------------------------------
(* One run of dryguard that compares two functions or checks a diff: main   *)
(* reads the configuration and then leads either command to its end         *)
(* (src/src/main.rs). `scan` with its pairs is module Scan.                 *)
EXTENDS Check, Reports

CONSTANT Scenarios  \* what a run may start from: [command, toml, flag, request, server]

(* The paths of a request are those of files that may be there, and the     *)
(* declarations of dryguard.toml are numbered.                              *)
ASSUME ScenariosAssumption ==
  \A s \in Scenarios :
    /\ {s.request.a.path, s.request.b.path} \subseteq DOMAIN Sources /\ s.server \in DOMAIN Servers
    /\ DOMAIN ConfigurationOfText(s.toml.lines).list \subseteq Nat

(* A threshold is nowhere but between nothing and all.                      *)
ASSUME ThresholdsAssumption ==
  /\ "structure" \in DOMAIN Defaults /\ IsQuotient(Defaults.structure)
  /\ \A s \in Scenarios :
       LET written == ConfigurationOfText(s.toml.lines).thresholds
       IN  /\ \A key \in DOMAIN written : IsQuotient(written[key])
           /\ \A t \in s.flag : IsQuotient(t)

VARIABLE command

vars == <<command, configVars, checkVars, compareVars>>

(* The edited file is in git, and nothing is staged, unless it is checked.  *)
Unchecked == [target |-> "WorkTree", tracked |-> TRUE, conflict |-> FALSE]

Init ==
  /\ \E s \in Scenarios :
       /\ command = s.command /\ toml = s.toml /\ flag = s.flag
       /\ request = s.request /\ server = s.server
  /\ settings = Unread
  /\ CompareInit /\ CheckInit
  /\ command = "compare" => setting = Unchecked

Next ==
  /\ UNCHANGED command
  /\ \/ Configure /\ UNCHANGED <<checkVars, compareVars>>
     \/ command = "compare" /\ CompareNext /\ UNCHANGED checkVars
     \/ command = "check" /\ CheckNext /\ UNCHANGED compareVars

Spec == Init /\ [][Next]_vars

(* The lines of dryguard.toml may be written in any order, for either       *)
(* command: whether a file with two domains stops it, every signal and so   *)
(* the verdict are the same (declared_domain_of in domain_declaration.rs:   *)
(* none of two is chosen).                                                  *)
OrderOfDeclarationsIsMoot ==
  \A declarations \in Reordered(settings.declarations) :
    /\ ComparesAlike(declarations)
    /\ command = "check" /\ step = "listed" =>
         (DomainsAreClear(declarations) <=> DomainsAreClear(settings.declarations))

(* The inductive invariant behind it: what was declared is a list, and the  *)
(* functions are past the look at their domains exactly if those are clear. *)
DomainsInStep ==
  /\ \E s \in Scenarios : toml = s.toml
  /\ settings = [read |-> settings.read, thresholds |-> settings.thresholds,
                 declarations |-> [root |-> Root, list |-> settings.declarations.list]]
  /\ DOMAIN settings.declarations.list \subseteq Nat
  /\ settings.read = "unread" => stage = <<"locate", "a">>
  /\ stage = Refusal("AmbiguousDomain") => AmbiguousFile(settings.declarations)
  /\ stage[1] \notin {"locate", "measure", "refused"} => ~AmbiguousFile(settings.declarations)

(* The inductive invariant behind the pruning of pairs: what is similar is  *)
(* told by a quotient, over functions with a number of tokens each.         *)
CheckInStep ==
  /\ \E s \in Scenarios : toml = s.toml /\ flag = s.flag
  /\ IsQuotient(settings.thresholds.structure)
  /\ settings.read # "ready" => step \in {"edit", "refused"}
  /\ FilesInStep
=============================================================================
