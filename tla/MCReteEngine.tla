---------------------------- MODULE MCReteEngine ----------------------------
(* Rule instances for model-checking ReteEngine.                           *)
EXTENDS ReteEngine

CONSTANTS a, b, c, d, ax, lit

MCTriple == {a, b, c, d, ax, lit}

\* An axiom; c from a and the axiom; d from a (by a silent rule), from b and
\* from c (by a rule whose second conclusion has a literal subject); and a
\* contradiction between b and c, of a rule with a predicate.
MCInstance == {"axiom", "a_c", "a_d", "b_d", "c_d", "clash"}
MCAntecedents ==
  [i \in MCInstance |->
     CASE i = "axiom" -> {} [] i = "a_c" -> {a, ax} [] i = "a_d" -> {a}
       [] i = "b_d" -> {b} [] i = "c_d" -> {c} [] i = "clash" -> {b, c}]
MCConclusions ==
  [i \in MCInstance |->
     CASE i = "axiom" -> {ax} [] i = "a_c" -> {c} [] i \in {"a_d", "b_d"} -> {d}
       [] i = "c_d" -> {d, lit} [] i = "clash" -> {}]

\* The depth of a match is its number of joins; no rule here has a salience.
MCPriority == [i \in MCInstance |-> IF i \in {"a_c", "clash"} THEN 1 ELSE 0]

MCInputs == {{a}, {c}, {a, b}, {b, d}, {a, lit}}

\* The default set-up of an engine, one that only records contradictions, and one
\* whose term policies raise and which lacks the predicate of a rule.
MCSetUp(recorder, policy, predicates) ==
  [recorder |-> recorder, policy |-> policy, predicates |-> predicates]
MCConfigurations ==
  {MCSetUp("raising", "warning", "working"), MCSetUp("quiet", "warning", "working"),
   MCSetUp("quiet", "error", "failing")}
=============================================================================
