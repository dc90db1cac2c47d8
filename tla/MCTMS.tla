------------------------------- MODULE MCTMS -------------------------------
(* Rule instances for model-checking TMS.                                  *)
EXTENDS TMS

CONSTANTS a, b, c, d, e

MCTriple == {a, b, c, d, e}

\* Mutual support: c and d conclude each other; e needs b and d and concludes b;
\* one instance concludes its own premise (as rdfs11 does from a reflexive
\* subClassOf); c and d have other reasons besides the cycle, one of them an
\* axiom, that is, a rule without a body.
MCInstance == {"a_c", "c_d", "d_c", "bd_e", "e_b", "d_d", "axiom_d"}
MCAntecedents ==
  [i \in MCInstance |->
     CASE i = "a_c" -> {a} [] i \in {"d_c", "d_d"} -> {d} [] i = "c_d" -> {c}
       [] i = "bd_e" -> {b, d} [] i = "e_b" -> {e} [] i = "axiom_d" -> {}]
MCConclusions ==
  [i \in MCInstance |->
     CASE i \in {"a_c", "d_c"} -> {c} [] i \in {"c_d", "d_d", "axiom_d"} -> {d}
       [] i = "bd_e" -> {e} [] i = "e_b" -> {b}]
=============================================================================
