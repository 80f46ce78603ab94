------------------------------- MODULE Impls --------------------------------
(* Which impl of a trait a projection goes through: variables of the impl   *)
(* take what the projection is used with, everything else has to be the     *)
(* same (src/src/syntax/rust_callable/selection.rs).                        *)
(*                                                                          *)
(* A shape is the sequence of its nodes in the order in which they begin. A *)
(* node has its kind ("Name", "Lifetime", "Token", "Node"), its text (of a  *)
(* Node the syntax it is), the first step of a path (head), how many nodes  *)
(* it is with what is below it (size), how many children it has (arity) and *)
(* where it is asked about (place).                                         *)
EXTENDS Naturals, SequencesExt, FiniteSetsExt, TLC

NamesIn(shape) == SelectSeq(shape, LAMBDA node : node.kind = "Name")

Below(shape, j) == SubSeq(shape, j, j + shape[j].size - 1)

PlacesOf(names) == [i \in DOMAIN names |-> names[i].place]

(* candidates_of, from_node: what may go through an impl at all. Its flaws  *)
(* are bounds and where clauses, const parameters, a `!`, `default`,        *)
(* attributes and a target that does not end in a name.                     *)
IsCandidateImpl(impl) == impl.readable /\ impl.flaws = {}

(* RustImplTarget::may_apply_to and RustImplCandidate::may_match: an impl   *)
(* whose target ends in another name is for another type; where none can be *)
(* told, it may be for this one.                                            *)
MayApply(impl, projection) == impl.target \in {projection.target, "blanket", "unnamed"}
MayMatch(impl, projection) == impl.target \in {projection.target, "blanket"}

-----------------------------------------------------------------------------
(* concrete_of: the type a variable of the impl takes, if it can be written *)
(* in the impl around the projection: not a lifetime, nothing of a type     *)
(* variable of the method, no path that begins with a variable.             *)
IsConcrete(shape, own, members) ==
  /\ shape[1].kind # "Lifetime"
  /\ \A i \in DOMAIN shape : shape[i].kind = "Name" =>
       /\ shape[i].head \notin members
       /\ shape[i].head \in own => shape[i].text = shape[i].head

ConcreteNames(shape, own) ==
  PlacesOf(SelectSeq(NamesIn(shape), LAMBDA node : node.head \notin own))

Variable(name) == [kind |-> "Variable", text |-> name, names |-> <<>>]
Concrete(shape, own) ==
  [kind |-> "Concrete", text |-> [i \in DOMAIN shape |-> shape[i].text],
   names |-> ConcreteNames(shape, own)]

(* BindingWalk::walk: both shapes at once. A variable of the impl takes a   *)
(* whole part of the other shape, a second time only the same variable; a   *)
(* variable of the use stands for itself. Names are only paired off here.   *)
Walk(impl, projection) ==
  LET mine == FlattenSeq(impl.shapes)
      theirs == FlattenSeq(projection.shapes)
      takes(s, name, bound) ==
        IF name \notin DOMAIN s.bound
        THEN [s EXCEPT !.bound = (name :> bound) @@ @]
        ELSE [s EXCEPT !.fits = bound.kind = "Variable" /\ s.bound[name] = bound]
      step(s, i) ==
        LET used == theirs[s.at]
            part == Below(theirs, s.at)
            isVariable == used.kind = "Name" /\ used.text \in projection.parameters
            one == [s EXCEPT !.at = @ + 1]
            whole == [s EXCEPT !.at = @ + Len(part)]
            no == [s EXCEPT !.fits = FALSE]
        IN  CASE ~s.fits \/ s.at > Len(theirs) -> no
              [] mine[i].kind = "Name" /\ mine[i].text \in Range(impl.parameters) ->
                   CASE isVariable -> takes(whole, mine[i].text, Variable(used.text))
                     [] IsConcrete(part, projection.parameters, projection.members) ->
                          takes(whole, mine[i].text, Concrete(part, projection.parameters))
                     [] OTHER -> no
              [] isVariable \/ mine[i].kind # used.kind -> no
              [] mine[i].kind = "Name" ->
                   [one EXCEPT !.names = Append(@, [mine |-> mine[i].place, used |-> used.place])]
              [] mine[i].kind = "Node" /\ mine[i].arity # used.arity -> no
              [] mine[i].text = used.text -> one
              [] OTHER -> no
      start == [at |-> 1, fits |-> Len(impl.shapes) = Len(projection.shapes),
                bound |-> <<>>, names |-> <<>>]
  IN  FoldLeft(step, start, [i \in DOMAIN mine |-> i])

(* binding_with: what every variable of the impl takes and which names have *)
(* to be the same.                                                          *)
BoundBy(walked, impl) ==
  [fits |-> walked.fits /\ DOMAIN walked.bound = Range(impl.parameters),
   bound |-> walked.bound, names |-> walked.names]

Binding(impl, projection) == BoundBy(Walk(impl, projection), impl)

(* binds_concrete_types, capture_references.                                *)
BindsConcrete(binding) == \E v \in DOMAIN binding.bound : binding.bound[v].kind = "Concrete"

CapturedPlaces(impl, binding) ==
  FlattenSeq([i \in DOMAIN impl.parameters |-> binding.bound[impl.parameters[i]].names])

-----------------------------------------------------------------------------
(* closed_target: an impl without variables and arguments is of one type,   *)
(* unless the lifetimes in it or of a function make it one of several.      *)
IsClosedCandidate(impl) ==
  /\ IsCandidateImpl(impl) /\ Len(impl.shapes) = 1 /\ impl.parameters = <<>>
  /\ \A i \in DOMAIN impl.shapes[1] :
       LET node == impl.shapes[1][i]
       IN  /\ node.kind = "Lifetime" => node.text = "static"
           /\ node.kind = "Node" => node.text # "function_type"

ClosedReferences(impl) == PlacesOf(NamesIn(impl.shapes[1]))
=============================================================================
