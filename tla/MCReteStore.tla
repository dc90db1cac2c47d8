---------------------------- MODULE MCReteStore ----------------------------
(* Rule instances, triples and calls for model-checking ReteStore.         *)
EXTENDS ReteStore

CONSTANTS a, b, c, d, ax, lit

MCTriple == {a, b, c, d, ax, lit}

\* An axiom; c from a and the axiom or from b; d from a by a silent rule and
\* from c by a visible one.
MCInstance == {"axiom", "a_c", "b_c", "a_d", "c_d"}
MCAntecedents ==
  [i \in MCInstance |->
     CASE i = "axiom" -> {} [] i = "a_c" -> {a, ax} [] i = "b_c" -> {b}
       [] i = "a_d" -> {a} [] i = "c_d" -> {c}]
MCConclusions ==
  [i \in MCInstance |->
     CASE i = "axiom" -> {ax} [] i \in {"a_c", "b_c"} -> {c} [] OTHER -> {d}]

MCBacking   == {{}, {a, b}, {b, ax}, {c, lit}}
MCWellFormed == {S \in MCBacking : lit \notin S}
MCAdditions == {{t} : t \in MCTriple} \cup {{a, b}, {b, c}, {a, d, lit}}
MCSingle    == {{t} : t \in MCTriple}
Ordinarily == [raises |-> FALSE, lazy |-> FALSE, unscoped |-> FALSE,
               backings |-> MCBacking, additions |-> MCAdditions]
Roughly    == [raises |-> TRUE, lazy |-> TRUE, unscoped |-> TRUE,
               backings |-> MCWellFormed, additions |-> MCSingle]
MCOrdinary == {Ordinarily}
MCSetups   == {Ordinarily, Roughly}

\* One triple, two that share a term, everything.
MCPatterns  == {{t} : t \in MCTriple} \cup {{a, c}, {b, d}, MCTriple}
=============================================================================
