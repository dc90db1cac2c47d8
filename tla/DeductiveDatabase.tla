------------------------- MODULE DeductiveDatabase -------------------------
(***************************************************************************)
(* What the reasoning engine promises: a set of asserted triples (base)    *)
(* and a view that is always the deductive closure of the base under the   *)
(* rules.  A triple that is already in the view is not asserted again      *)
(* (DR-004), only asserted triples can be deleted (DR-025), and the        *)
(* axioms, rules without premises, take part once booted.  After a call    *)
(* that failed (settled is FALSE) only this is promised: the base is seen, *)
(* and nothing is seen that does not follow from it.                       *)
(***************************************************************************)
CONSTANTS Triple, Instance, Antecedents, Conclusions

VARIABLES base, booted, settled, view

dbVars == <<base, booted, settled, view>>

Closed(S, withAxioms) ==
  \A i \in Instance :
    (Antecedents[i] \subseteq S /\ (withAxioms \/ Antecedents[i] # {})) => Conclusions[i] \subseteq S

\* The least set of triples around B that the rules leave closed.
Closure(B, withAxioms) ==
  LET closed == {S \in {B \cup R : R \in SUBSET (Triple \ B)} : Closed(S, withAxioms)}
  IN  {t \in Triple : \A S \in closed : t \in S}

\* What may be seen of a base: its closure, or, after a failure, some part of the
\* closure around the base.
Views(B, withAxioms, complete) ==
  LET closure == Closure(B, withAxioms)
  IN  IF complete THEN {closure} ELSE {B \cup V : V \in SUBSET (closure \ B)}

DBInit == base = {} /\ booted = FALSE /\ settled = TRUE /\ view = {}

Insert(S) ==
  /\ base' = base \cup S
  /\ settled => S \cap view = {}
  /\ view' \in Views(base', booted, settled)
  /\ settled' = settled /\ UNCHANGED booted

Delete(t) ==
  /\ base' = base \ {t}
  /\ view' \in Views(base', booted, settled)
  /\ settled' = settled /\ UNCHANGED booted

Boot ==
  /\ ~booted /\ booted' = TRUE
  /\ settled' = settled /\ UNCHANGED base
  /\ view' \in Views(base, TRUE, settled)

\* A call fails, and its conclusions may stay incomplete, or be completed by later
\* calls that change no base.
Fail ==
  /\ settled' = FALSE
  /\ UNCHANGED <<base, booted>>
  /\ view' \in Views(base, booted, FALSE)

Discard == base' = {} /\ booted' = FALSE /\ view' = {} /\ settled' = settled

DBNext ==
  \/ \E S \in (SUBSET (Triple \ base)) \ {{}} : Insert(S)
  \/ \E t \in base : Delete(t)
  \/ Boot
  \/ Fail
  \/ Discard

DBSpec == DBInit /\ [][DBNext]_dbVars
=============================================================================
