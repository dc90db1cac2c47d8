-------------------------------- MODULE TMS --------------------------------
(***************************************************************************)
(* The justification-based truth maintenance system of the RETE engine     *)
(* (engine/rete/tms.py): working memory with its "stated" flags, the       *)
(* justification table, the bidirectional DependencyGraph, and retraction  *)
(* by Mark-Verify-Sweep.                                                   *)
(*                                                                         *)
(* A fact id is a hash of its triple and every table of the code that is   *)
(* keyed by fact id is keyed here by the triple.  A justification key is   *)
(* made of the rule, the antecedent ids and the bindings, that is, of one  *)
(* ground instance of a rule: Instance is the set of those and             *)
(* Antecedents gives the premises of each.  Every method runs to           *)
(* completion in one thread, so each one is one action.                    *)
(***************************************************************************)
CONSTANTS
  Triple,       \* the triples that may become facts
  Instance,     \* ground rule instances (rule id + antecedents + bindings)
  Antecedents,  \* the premises of an instance
  Conclusions   \* the triples its productions instantiate to

ASSUME InstanceAssumption ==
  /\ Antecedents \in [Instance -> SUBSET Triple]
  /\ Conclusions \in [Instance -> SUBSET Triple]

VARIABLES
  facts,            \* WorkingMemory: triples that have a fact
  stated,           \* the facts whose "stated" flag is set
  justifications,   \* justifications_by_consequent, flattened to a set
  antecedentsOf,    \* DependencyGraph.antecedents_by_consequent
  consequentsOf     \* DependencyGraph.consequents_by_antecedent

graph == <<antecedentsOf, consequentsOf>>
vars  == <<facts, stated, justifications, antecedentsOf, consequentsOf>>

Justification ==
  {j \in [instance : Instance, consequent : Triple] : j.consequent \in Conclusions[j.instance]}
JustificationBy(i, t) == [instance |-> i, consequent |-> t]
NoEdges == [t \in Triple |-> {}]

Premises(j)          == Antecedents[j.instance]
JustificationsFor(t) == {j \in justifications : j.consequent = t}

Init ==
  /\ facts = {}
  /\ stated = {}
  /\ justifications = {}
  /\ antecedentsOf = NoEdges
  /\ consequentsOf = NoEdges

----------------------------------------------------------------------------
(* Assertion and derivation                                                *)

\* register_stated: insert the triples, or promote the facts already there.
RegisterStated(S) ==
  /\ facts' = facts \cup S
  /\ stated' = stated \cup S
  /\ UNCHANGED <<justifications, graph>>

\* DependencyGraph.add_support, both directions, for each consequent in N.
AddSupport(N, A) ==
  /\ antecedentsOf' = [t \in Triple |-> IF t \in N THEN antecedentsOf[t] \cup A ELSE antecedentsOf[t]]
  /\ consequentsOf' = [t \in Triple |-> IF t \in A THEN consequentsOf[t] \cup N ELSE consequentsOf[t]]

\* The record_derivation calls of one rule firing, one per production that it
\* makes; the premises are Facts the caller took from working memory.
RecordDerivation(i, P) ==
  /\ Antecedents[i] \subseteq facts
  /\ facts' = facts \cup P
  /\ justifications' = justifications \cup {JustificationBy(i, t) : t \in P}
  /\ AddSupport({t \in P : JustificationBy(i, t) \notin justifications}, Antecedents[i])
  /\ UNCHANGED stated

----------------------------------------------------------------------------
(* Mark-Verify-Sweep                                                       *)

\* Mark: the seed and every transitive dependent, by worklist over the graph;
\* that is the least set around the seed that is closed under consequentsOf.
MarkClosed(seed, S) == seed \in S /\ \A x \in S : consequentsOf[x] \subseteq S
Candidates(seed) ==
  LET closed == {S \in SUBSET Triple : MarkClosed(seed, S)}
  IN  {c \in Triple : \A S \in closed : c \in S}

\* (Mutants of SupportedOutside: any justification will do; a kept candidate does
\* not support another one.)
SupportedByAny(C, K, c)             == c \in stated \/ JustificationsFor(c) # {}
SupportedWithoutCandidates(C, K, c) ==
  c \in stated \/ \E j \in JustificationsFor(c) : Premises(j) \cap C = {}

\* Verify: a candidate other than the seed is kept when it is stated or one of
\* its justifications needs no candidate outside the kept set.
SupportedOutside(C, K, c) ==
  \/ c \in stated
  \/ \E j \in JustificationsFor(c) : Premises(j) \cap C \subseteq K
VerifyClosed(seed, C, K) ==
  \A c \in (C \ {seed}) \cap facts : SupportedOutside(C, K, c) => c \in K
\* (Mutant of Kept: candidates may keep each other, the greatest such set.)
KeptTogether(seed, C) ==
  UNION {K \in SUBSET (facts \cap (C \ {seed})) : \A c \in K : SupportedOutside(C, K, c)}

\* The loop runs until a pass promotes nothing: the least such set.
Kept(seed, C) ==
  LET closed == {K \in SUBSET C : VerifyClosed(seed, C, K)}
  IN  {c \in C : \A K \in closed : c \in K}

Swept(seed) == LET C == Candidates(seed) IN C \ Kept(seed, C)

\* (Mutant of Survives: the justifications of kept facts are not trimmed.)
SurvivesByConsequent(j, C, W) == j.consequent \notin W

\* A justification goes with a swept consequent or a swept antecedent of a kept
\* candidate; the other justifications are never looked at.
Survives(j, C, W) ==
  /\ j.consequent \notin W
  /\ j.consequent \in C => Premises(j) \cap W = {}

\* (Mutant of DiscardedConsequents: the edges from the antecedents of a swept
\* fact stay.)
DiscardedOwnConsequents(W) == [a \in Triple |-> IF a \in W THEN {} ELSE consequentsOf[a]]

\* DependencyGraph.discard_consequent for every swept fact.
DiscardedAntecedents(W) ==
  [t \in Triple |-> IF t \in W THEN {} ELSE antecedentsOf[t] \ {x \in W : t \in consequentsOf[x]}]
DiscardedConsequents(W) ==
  [a \in Triple |-> IF a \in W THEN {} ELSE consequentsOf[a] \ {x \in W : a \in antecedentsOf[x]}]

\* DependencyGraph.update_consequent_edges for every kept candidate that had
\* justifications: exactly the antecedents of the surviving ones, and no
\* reverse edge from an antecedent that lost its place.
Remaining(t, C, W) == UNION {Premises(j) : j \in {x \in JustificationsFor(t) : Survives(x, C, W)}}
Trimmed(C, W)      == {t \in C \ W : JustificationsFor(t) # {}}

SweepGraph(C, W) ==
  /\ antecedentsOf' = [t \in Triple |-> IF t \in Trimmed(C, W)
                                        THEN Remaining(t, C, W)
                                        ELSE DiscardedAntecedents(W)[t]]
  /\ consequentsOf' = [a \in Triple |->
                         DiscardedConsequents(W)[a] \
                           {t \in Trimmed(C, W) :
                              a \in DiscardedAntecedents(W)[t] \ Remaining(t, C, W)}]

\* (Mutant of MarkVerifySweep: the stated flags outlive the facts.)
MarkVerifySweepKeepingFlags(seed) ==
  \E C \in {Candidates(seed)}, W \in {Swept(seed)} :
    /\ facts' = facts \ W
    /\ justifications' = {j \in justifications : Survives(j, C, W)}
    /\ SweepGraph(C, W)
    /\ UNCHANGED stated

\* retract_triple of a stated fact that no justification supports.
MarkVerifySweep(seed) ==
  \E C \in {Candidates(seed)}, W \in {Swept(seed)} :
    /\ facts' = facts \ W
    /\ stated' = stated \ W
    /\ justifications' = {j \in justifications : Survives(j, C, W)}
    /\ SweepGraph(C, W)

\* retract_triple of a stated fact with a justification: only the flag goes.
Unstate(t) ==
  /\ stated' = stated \ {t}
  /\ UNCHANGED <<facts, justifications, graph>>

\* retract_triple: unknown triples are ignored and derived ones refused with a
\* ValueError, both without a change.
RetractTriple(t) ==
  \/ t \notin stated /\ UNCHANGED vars
  \/ t \in stated /\ JustificationsFor(t) # {} /\ Unstate(t)
  \/ t \in stated /\ JustificationsFor(t) = {} /\ MarkVerifySweep(t)

Clear ==
  /\ facts' = {}
  /\ stated' = {}
  /\ justifications' = {}
  /\ antecedentsOf' = NoEdges
  /\ consequentsOf' = NoEdges

Next ==
  \/ \E t \in Triple : RegisterStated({t})
  \/ \E i \in Instance : \E P \in SUBSET Conclusions[i] : RecordDerivation(i, P)
  \/ \E t \in Triple : RetractTriple(t)
  \/ Clear

Spec == Init /\ [][Next]_vars

----------------------------------------------------------------------------
(* Read-only support queries                                               *)

\* (Mutant of WouldRemainSupported: the stated flag is not asked for.)
WouldRemainJustified(t, a) == t \in facts /\ \E j \in JustificationsFor(t) : a \notin Premises(j)

\* would_remain_supported(t, without_antecedent_id=a)
WouldRemainSupported(t, a) ==
  /\ t \in facts
  /\ t \in stated \/ \E j \in JustificationsFor(t) : a \notin Premises(j)

\* (Mutant of TransitivelySupported: a fact met again counts as supported.)
TransitivelySupportedByCycle(t) ==
  LET supported[visiting \in SUBSET Triple] ==
        {x \in facts : \/ x \in stated \cup visiting
                       \/ /\ JustificationsFor(x) # {}
                          /\ \A j \in JustificationsFor(x) :
                               Premises(j) \subseteq supported[visiting \cup {x}]}
  IN  t \in supported[{}]

\* transitively_supported: every recorded justification is followed, a fact met
\* again on the path counts as unsupported.
TransitivelySupported(t) ==
  LET supported[visiting \in SUBSET Triple] ==
        {x \in facts : \/ x \in stated
                       \/ /\ x \notin visiting
                          /\ JustificationsFor(x) # {}
                          /\ \A j \in JustificationsFor(x) :
                               Premises(j) \subseteq supported[visiting \cup {x}]}
  IN  t \in supported[{}]

----------------------------------------------------------------------------
(* Properties                                                              *)

\* What can be concluded from the facts in B by the justifications in J.
GroundedIn(B, J) ==
  LET closed == {S \in SUBSET Triple :
                   B \subseteq S /\ \A j \in J : Premises(j) \subseteq S => j.consequent \in S}
  IN  {t \in Triple : \A S \in closed : t \in S}
Grounded == GroundedIn(stated, justifications)

\* The tables hold facts, justifications and edges over Triple.
TypeOK ==
  /\ facts \in SUBSET Triple
  /\ stated \in SUBSET facts
  /\ justifications \in SUBSET Justification
  /\ antecedentsOf \in [Triple -> SUBSET Triple]
  /\ consequentsOf \in [Triple -> SUBSET Triple]

\* No justification outlives its consequent or one of its antecedents: a sweep
\* trims the justification tables of the facts it keeps (tms.py 539-562).
NoDanglingJustification ==
  \A j \in justifications : j.consequent \in facts /\ Premises(j) \subseteq facts

\* A fact without the "stated" flag keeps a justification: a sweep never keeps
\* a derived fact and drops its last reason (tms.py 523-562).
DerivedFactsJustified ==
  \A t \in facts \ stated : JustificationsFor(t) # {}

\* The two maps of the dependency graph mirror each other and are exactly the
\* antecedents of the live justifications, whatever was swept or trimmed; a
\* stale or missing edge would make the next mark phase wrong.
GraphMirrorsJustifications ==
  /\ \A t \in Triple : antecedentsOf[t] = UNION {Premises(j) : j \in JustificationsFor(t)}
  /\ \A a, c \in Triple : c \in consequentsOf[a] <=> a \in antecedentsOf[c]

\* Every fact follows from the stated ones by live justifications.
EveryFactGrounded == facts \subseteq Grounded

\* A retraction removes no fact that still follows from the stated facts left
\* by the justifications on record: the sweep never goes too far.
SweepKeepsGrounded ==
  [][ \A t \in Triple : RetractTriple(t) => GroundedIn(stated', justifications) \subseteq facts' ]_vars

\* The sweep branch of a retraction leaves no fact without ground when there was
\* none before, cycles of support included: it goes far enough.
SweepGoesFarEnough ==
  [][ \A t \in Triple :
        (RetractTriple(t) /\ JustificationsFor(t) = {} /\ EveryFactGrounded) => EveryFactGrounded' ]_vars

\* The local verifier never promises less than the sweep does: a fact said to
\* lose its support with antecedent a is gone when a is swept (tms.py 343-370).
LocalVerifierAgreesWithSweep ==
  [][ \A a \in Triple, t \in facts :
        (a \in facts \ facts' /\ t # a /\ ~WouldRemainSupported(t, a) /\ RetractTriple(a))
          => t \notin facts' ]_vars

\* A fact the transitive verifier accepts does follow from the stated facts.
VerifierSound == \A t \in Triple : TransitivelySupported(t) => t \in Grounded
=============================================================================
