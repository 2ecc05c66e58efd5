---------------------------- MODULE ConceptBudget ----------------------------
(***************************************************************************)
(* How an append iteration turns what the extraction model returned into   *)
(* the concepts to synthesize                                              *)
(* (crates/llm-memory-coordinator/src/worker.rs, the Append arm of         *)
(* run_session).  The returned names are outside the trust boundary: some  *)
(* are malformed, some are not concepts the owner has.                     *)
(***************************************************************************)
EXTENDS Integers, Sequences, FiniteSets

CONSTANTS
    Concepts,     \* the names concept::is_valid accepts
    ConceptLimit  \* CONCEPT_LIMIT_PER_OWNER

ASSUME LimitAssumption == ConceptLimit \in Nat

is_valid(name) == name \in Concepts

Remaining(current_count) ==
    IF current_count < ConceptLimit THEN ConceptLimit - current_count ELSE 0

\* Mutant: the budget is compared with the limit but new names are not cut.
TakenNewUncut(new_concepts, current_count) ==
    IF current_count < ConceptLimit
      THEN {new_concepts[i] : i \in DOMAIN new_concepts} \cap Concepts
      ELSE {}

\* The places up to j of the names that the filter into valid_new keeps.
ValidUpTo(new_concepts, j) == {i \in 1..j : is_valid(new_concepts[i])}

\* valid_new.into_iter().take(remaining), as the set it is inserted into.
TakenNew(new_concepts, current_count) ==
    {new_concepts[i] : i \in {j \in DOMAIN new_concepts :
        /\ is_valid(new_concepts[j])
        /\ Cardinality(ValidUpTo(new_concepts, j)) <= Remaining(current_count)}}

\* existing was read before the extraction call, current_count after it.
Affected(existing, current_count, affected_existing, new_concepts) ==
    {c \in affected_existing : is_valid(c) /\ c \in existing}
        \cup TakenNew(new_concepts, current_count)
=============================================================================
