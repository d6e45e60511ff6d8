---------------------------- MODULE NoveltyRegistry ----------------------------
(***************************************************************************)
(* The registry of what the development split contains, a set of           *)
(* [causes, bucket], and the novelty of a case by lookup in it.            *)
(***************************************************************************)
EXTENDS CaseBuilder

(* The registry of a development split.                                    *)
Tuples(observed) == {o.causes : o \in observed}

Singles(observed) == {c \in SINGLE_CAUSES : {c} \in Tuples(observed)}

Buckets(observed, causes) == {o.bucket : o \in {o \in observed : o.causes = causes}}

(* A bug: the registry is taken as it comes.                               *)
RegistryAdequate_Any(observed) == TRUE

RegistryAdequate(observed) ==
  /\ Singles(observed) = SINGLE_CAUSES
  /\ \E causes \in Tuples(observed) : Cardinality(causes) = 2

ClassifyNovelty(plan, bucket, observed) ==
  CASE plan.adversarial -> "ADVERSARIAL"
    [] ~plan.adversarial /\ Undecidable(plan) -> "AMBIGUOUS"
    [] OTHER ->
         IF plan.causes \notin Tuples(observed)
         THEN IF Cardinality(plan.causes) >= 3 THEN "COMPOUND_UNSEEN" ELSE "NOVEL_COMBINATION"
         ELSE IF bucket \in Buckets(observed, plan.causes) THEN "SEEN"
         ELSE "NOVEL_CONFIGURATION"

Plan(causes, adversarial) == [causes |-> causes, adversarial |-> adversarial]

(* The causes a stratum asks for; after sixty draws without a new pair any *)
(* cause will do, and after forty draws of a triple that development had   *)
(* any four.                                                               *)
PlansForStratum(stratum, observed) ==
  CASE stratum = "ADVERSARIAL" -> {Plan({"AMBIGUOUS"}, TRUE)}
    [] stratum = "AMBIGUOUS"   -> {Plan({"AMBIGUOUS"}, FALSE)}
    [] stratum = "COMPOUND_UNSEEN" ->
         {Plan(causes, FALSE) : causes \in
            (kSubset(3, SINGLE_CAUSES) \ Tuples(observed))
              \cup (IF kSubset(3, SINGLE_CAUSES) \cap Tuples(observed) = {} THEN {}
                    ELSE kSubset(4, SINGLE_CAUSES))}
    [] stratum = "NOVEL_COMBINATION" ->
         {Plan(causes, FALSE) : causes \in
            (kSubset(2, Singles(observed)) \ Tuples(observed)) \cup kSubset(1, SINGLE_CAUSES)}
    [] OTHER -> {Plan(causes, FALSE) : causes \in Tuples(observed)}
================================================================================
