----------------------------- MODULE TMSProofs -----------------------------
(***************************************************************************)
(* Proofs about the truth maintenance system for every set of triples and  *)
(* every set of rule instances, cyclic ones included.                      *)
(***************************************************************************)
EXTENDS TMS, Naturals, FiniteSetTheorems, WellFoundedInduction, TLAPS

\* The inductive invariant.  The sweep drops a justification only when it looks
\* at its consequent, so that none is left dangling needs the graph to have led
\* the mark phase to every dependent, which is GraphMirrorsJustifications.
Inv ==
  /\ TypeOK
  /\ NoDanglingJustification
  /\ DerivedFactsJustified
  /\ GraphMirrorsJustifications

----------------------------------------------------------------------------
(* The mark and verify phases                                              *)

\* The marked set contains the seed and all dependents of its members.
LEMMA CandidatesClosed ==
  ASSUME NEW seed \in Triple, TypeOK
  PROVE  /\ Candidates(seed) \subseteq Triple
         /\ seed \in Candidates(seed)
         /\ \A x \in Candidates(seed) : consequentsOf[x] \subseteq Candidates(seed)
<1>1. Candidates(seed) \subseteq Triple
  BY DEF Candidates
<1>2. seed \in Candidates(seed)
  BY DEF Candidates, MarkClosed
<1>3. ASSUME NEW x \in Candidates(seed), NEW y \in consequentsOf[x]
      PROVE  y \in Candidates(seed)
  <2>1. x \in Triple /\ y \in Triple
    BY <1>1, <1>3 DEF TypeOK
  <2>2. ASSUME NEW S \in SUBSET Triple, MarkClosed(seed, S)
        PROVE  y \in S
    BY <1>3, <2>2 DEF Candidates, MarkClosed
  <2>. QED  BY <2>1, <2>2 DEF Candidates
<1>. QED  BY <1>1, <1>2, <1>3

\* The kept set is closed under the promotion of supported candidates.
LEMMA KeptClosed ==
  ASSUME NEW seed \in Triple, NEW C \in SUBSET Triple
  PROVE  VerifyClosed(seed, C, Kept(seed, C))
<1>. SUFFICES ASSUME NEW c \in (C \ {seed}) \cap facts,
                     SupportedOutside(C, Kept(seed, C), c)
              PROVE  c \in Kept(seed, C)
  BY DEF VerifyClosed
<1>1. ASSUME NEW K \in SUBSET C, VerifyClosed(seed, C, K)
      PROVE  c \in K
  <2>1. Kept(seed, C) \subseteq K
    BY <1>1 DEF Kept
  <2>2. SupportedOutside(C, K, c)
    BY <2>1 DEF SupportedOutside
  <2>. QED  BY <1>1, <2>2 DEF VerifyClosed
<1>. QED  BY <1>1 DEF Kept

\* The seed itself is never kept.
LEMMA SeedNotKept ==
  ASSUME NEW seed \in Triple, NEW C \in SUBSET Triple
  PROVE  seed \notin Kept(seed, C)
<1>1. VerifyClosed(seed, C, C \ {seed})
  BY DEF VerifyClosed
<1>. QED  BY <1>1 DEF Kept

\* A kept fact is stated or keeps a justification free of swept facts.
LEMMA KeptSupported ==
  ASSUME NEW seed \in Triple, NEW C \in SUBSET Triple, NEW k \in Kept(seed, C)
  PROVE  k \in stated \/ \E j \in JustificationsFor(k) : Premises(j) \cap C \subseteq Kept(seed, C)
<1>. SUFFICES ASSUME ~ SupportedOutside(C, Kept(seed, C), k)
              PROVE  FALSE
  BY DEF SupportedOutside
<1>. DEFINE K == Kept(seed, C) \ {k}
<1>1. VerifyClosed(seed, C, K)
  <2>. SUFFICES ASSUME NEW c \in (C \ {seed}) \cap facts, SupportedOutside(C, K, c)
                PROVE  c \in K
    BY DEF VerifyClosed
  <2>1. SupportedOutside(C, Kept(seed, C), c)
    BY DEF SupportedOutside
  <2>2. c \in Kept(seed, C)
    BY <2>1, KeptClosed DEF VerifyClosed
  <2>. QED  BY <2>1, <2>2
<1>2. K \in SUBSET C
  BY DEF Kept
<1>. QED  BY <1>1, <1>2 DEF Kept

\* A swept fact is not the premise of a fact outside the marked set.
LEMMA DependentsMarked ==
  ASSUME NEW seed \in Triple, TypeOK, GraphMirrorsJustifications,
         NEW j \in justifications, NEW x \in Premises(j), x \in Candidates(seed)
  PROVE  j.consequent \in Candidates(seed)
<1>1. j.consequent \in Triple /\ x \in Triple
  BY CandidatesClosed DEF TypeOK, Justification
<1>2. x \in antecedentsOf[j.consequent]
  BY <1>1 DEF GraphMirrorsJustifications, JustificationsFor
<1>3. j.consequent \in consequentsOf[x]
  BY <1>1, <1>2 DEF GraphMirrorsJustifications
<1>. QED  BY <1>3, CandidatesClosed

----------------------------------------------------------------------------
(* The invariant holds initially and is preserved by every operation       *)

LEMMA InitInv == Init => Inv
BY DEF Init, Inv, TypeOK, NoDanglingJustification, DerivedFactsJustified,
       GraphMirrorsJustifications, JustificationsFor, NoEdges

LEMMA RegisterStatedInv ==
  ASSUME Inv, NEW S \in SUBSET Triple, RegisterStated(S)
  PROVE  Inv'
<1>1. TypeOK'
  BY DEF Inv, TypeOK, RegisterStated, graph
<1>2. NoDanglingJustification'
  BY DEF Inv, NoDanglingJustification, RegisterStated, Premises
<1>3. DerivedFactsJustified'
  BY DEF Inv, DerivedFactsJustified, RegisterStated, JustificationsFor
<1>4. GraphMirrorsJustifications'
  BY DEF Inv, GraphMirrorsJustifications, RegisterStated, JustificationsFor, graph, Premises
<1>. QED  BY <1>1, <1>2, <1>3, <1>4 DEF Inv

LEMMA RecordDerivationInv ==
  ASSUME Inv, NEW i \in Instance, NEW P \in SUBSET Conclusions[i], RecordDerivation(i, P)
  PROVE  Inv'
<1>. DEFINE A == Antecedents[i]
            J == {JustificationBy(i, t) : t \in P}
            N == {t \in P : JustificationBy(i, t) \notin justifications}
<1>0. P \subseteq Triple /\ A \subseteq Triple /\ N \subseteq P
  BY InstanceAssumption
<1>1. /\ facts' = facts \cup P
      /\ stated' = stated
      /\ justifications' = justifications \cup J
      /\ A \subseteq facts
      /\ antecedentsOf' = [t \in Triple |-> IF t \in N THEN antecedentsOf[t] \cup A ELSE antecedentsOf[t]]
      /\ consequentsOf' = [t \in Triple |-> IF t \in A THEN consequentsOf[t] \cup N ELSE consequentsOf[t]]
  BY DEF RecordDerivation, AddSupport
<1>2. \A j \in J : j \in Justification /\ j.instance = i /\ j.consequent \in P /\ Premises(j) = A
  BY <1>0 DEF JustificationBy, Justification, Premises
<1>3. TypeOK'
  <2>1. antecedentsOf' \in [Triple -> SUBSET Triple]
    BY <1>0, <1>1 DEF Inv, TypeOK
  <2>2. consequentsOf' \in [Triple -> SUBSET Triple]
    BY <1>0, <1>1 DEF Inv, TypeOK
  <2>. QED  BY <1>0, <1>1, <1>2, <2>1, <2>2 DEF Inv, TypeOK
<1>4. NoDanglingJustification'
  BY <1>1, <1>2 DEF Inv, NoDanglingJustification, Premises
<1>5. DerivedFactsJustified'
  <2>. SUFFICES ASSUME NEW t \in facts' \ stated' PROVE JustificationsFor(t)' # {}
    BY DEF DerivedFactsJustified
  <2>1. CASE t \in P
    <3>1. JustificationBy(i, t) \in justifications' /\ JustificationBy(i, t).consequent = t
      BY <1>1, <2>1 DEF JustificationBy
    <3>. QED  BY <3>1 DEF JustificationsFor
  <2>2. CASE t \notin P
    BY <1>1, <2>2 DEF Inv, DerivedFactsJustified, JustificationsFor
  <2>. QED  BY <2>1, <2>2
<1>6. GraphMirrorsJustifications'
  <2>1. ASSUME NEW t \in Triple
        PROVE  antecedentsOf'[t] = UNION {Premises(x) : x \in JustificationsFor(t)'}
    <3>0. antecedentsOf[t] = UNION {Premises(x) : x \in JustificationsFor(t)}
      BY DEF Inv, GraphMirrorsJustifications
    <3>1. CASE t \in N
      <4>1. JustificationsFor(t)' = JustificationsFor(t) \cup {JustificationBy(i, t)}
        BY <1>1, <3>1 DEF JustificationsFor, JustificationBy
      <4>2. Premises(JustificationBy(i, t)) = A
        BY DEF Premises, JustificationBy
      <4>3. antecedentsOf'[t] = antecedentsOf[t] \cup A
        BY <1>1, <3>1
      <4>. QED  BY <3>0, <4>1, <4>2, <4>3
    <3>2. CASE t \notin N
      <4>1. JustificationsFor(t)' = JustificationsFor(t)
        BY <1>1, <3>2 DEF JustificationsFor, JustificationBy
      <4>2. antecedentsOf'[t] = antecedentsOf[t]
        BY <1>1, <3>2
      <4>. QED  BY <3>0, <4>1, <4>2
    <3>. QED  BY <3>1, <3>2
  <2>2. ASSUME NEW a \in Triple, NEW t \in Triple
        PROVE  t \in consequentsOf'[a] <=> a \in antecedentsOf'[t]
    <3>1. t \in consequentsOf[a] <=> a \in antecedentsOf[t]
      BY DEF Inv, GraphMirrorsJustifications
    <3>2. t \in consequentsOf'[a] <=> (t \in consequentsOf[a] \/ (t \in N /\ a \in A))
      BY <1>1
    <3>3. a \in antecedentsOf'[t] <=> (a \in antecedentsOf[t] \/ (t \in N /\ a \in A))
      BY <1>1
    <3>. QED  BY <3>1, <3>2, <3>3
  <2>. QED  BY <2>1, <2>2 DEF GraphMirrorsJustifications, Premises
<1>. QED  BY <1>3, <1>4, <1>5, <1>6 DEF Inv

LEMMA UnstateInv ==
  ASSUME Inv, NEW t \in stated, JustificationsFor(t) # {}, Unstate(t)
  PROVE  Inv'
<1>1. TypeOK'
  BY DEF Inv, TypeOK, Unstate, graph
<1>2. NoDanglingJustification'
  BY DEF Inv, NoDanglingJustification, Unstate, Premises
<1>3. DerivedFactsJustified'
  BY DEF Inv, DerivedFactsJustified, Unstate, JustificationsFor
<1>4. GraphMirrorsJustifications'
  BY DEF Inv, GraphMirrorsJustifications, Unstate, JustificationsFor, graph, Premises
<1>. QED  BY <1>1, <1>2, <1>3, <1>4 DEF Inv

LEMMA MarkVerifySweepInv ==
  ASSUME Inv, NEW seed \in stated, JustificationsFor(seed) = {}, MarkVerifySweep(seed)
  PROVE  Inv'
<1>. DEFINE C == Candidates(seed)
            W == Swept(seed)
<1>0. /\ seed \in Triple
      /\ C \in SUBSET Triple
      /\ W \subseteq C
      /\ W = C \ Kept(seed, C)
  BY CandidatesClosed DEF Inv, TypeOK, Swept
<1>1. /\ facts' = facts \ W
      /\ stated' = stated \ W
      /\ justifications' = {j \in justifications : Survives(j, C, W)}
      /\ SweepGraph(C, W)
  BY DEF MarkVerifySweep
\* Outside the marked set nothing depends on a marked fact.
<1>2. ASSUME NEW j \in justifications, j.consequent \notin C
      PROVE  Premises(j) \cap C = {}
  BY <1>0, <1>2, DependentsMarked DEF Inv
<1>3. \A j \in justifications : Survives(j, C, W) => j.consequent \notin W /\ Premises(j) \cap W = {}
  BY <1>0, <1>2 DEF Survives
<1>4. TypeOK'
  <2>1. antecedentsOf' \in [Triple -> SUBSET Triple]
    <3>1. ASSUME NEW t \in Triple PROVE Remaining(t, C, W) \subseteq Triple
      BY InstanceAssumption DEF Remaining, Premises, JustificationsFor, Inv, TypeOK, Justification
    <3>2. ASSUME NEW t \in Triple PROVE DiscardedAntecedents(W)[t] \subseteq Triple
      BY DEF DiscardedAntecedents, Inv, TypeOK
    <3>. QED  BY <1>1, <3>1, <3>2 DEF SweepGraph
  <2>2. consequentsOf' \in [Triple -> SUBSET Triple]
    <3>1. ASSUME NEW t \in Triple PROVE DiscardedConsequents(W)[t] \subseteq Triple
      BY DEF DiscardedConsequents, Inv, TypeOK
    <3>. QED  BY <1>1, <3>1 DEF SweepGraph
  <2>. QED  BY <1>1, <2>1, <2>2 DEF Inv, TypeOK
<1>5. NoDanglingJustification'
  BY <1>1, <1>3 DEF Inv, NoDanglingJustification, Premises
<1>6. DerivedFactsJustified'
  <2>. SUFFICES ASSUME NEW t \in facts' \ stated'
                PROVE  JustificationsFor(t)' # {}
    BY DEF DerivedFactsJustified
  <2>1. t \in facts \ stated /\ t \notin W
    BY <1>1
  <2>2. CASE t \in C
    <3>1. PICK j \in JustificationsFor(t) : Premises(j) \cap C \subseteq Kept(seed, C)
      BY <1>0, <2>1, <2>2, KeptSupported
    <3>2. Survives(j, C, W)
      BY <1>0, <2>1, <3>1 DEF Survives, JustificationsFor
    <3>. QED  BY <1>1, <3>1, <3>2 DEF JustificationsFor
  <2>3. CASE t \notin C
    <3>1. PICK j \in JustificationsFor(t) : TRUE
      BY <2>1 DEF Inv, DerivedFactsJustified
    <3>2. Survives(j, C, W)
      BY <2>1, <2>3, <3>1 DEF Survives, JustificationsFor
    <3>. QED  BY <1>1, <3>1, <3>2 DEF JustificationsFor
  <2>. QED  BY <2>2, <2>3
<1>7. GraphMirrorsJustifications'
  \* What a surviving consequent keeps of its edges, by where the sweep left it.
  <2>1. ASSUME NEW t \in Triple
        PROVE  antecedentsOf[t] = UNION {Premises(j) : j \in JustificationsFor(t)}
    BY DEF Inv, GraphMirrorsJustifications
  <2>2. ASSUME NEW t \in Triple, NEW x \in Triple
        PROVE  t \in consequentsOf[x] <=> x \in antecedentsOf[t]
    BY DEF Inv, GraphMirrorsJustifications
  <2>3. ASSUME NEW t \in Triple, t \notin C
        PROVE  antecedentsOf[t] \cap C = {}
    BY <1>2, <2>1, <2>3 DEF JustificationsFor
  <2>4. ASSUME NEW t \in Triple
        PROVE  Remaining(t, C, W) = UNION {Premises(j) : j \in JustificationsFor(t)'}
    <3>1. JustificationsFor(t)' = {x \in JustificationsFor(t) : Survives(x, C, W)}
      BY <1>1 DEF JustificationsFor
    <3>. QED  BY <3>1 DEF Remaining
  <2>5. ASSUME NEW t \in Triple
        PROVE  /\ Remaining(t, C, W) \subseteq antecedentsOf[t]
               /\ Remaining(t, C, W) \cap W = {}
    BY <1>3, <2>1 DEF Remaining, JustificationsFor
  <2>6. ASSUME NEW t \in Triple
        PROVE  antecedentsOf'[t] = Remaining(t, C, W)
    <3>0. antecedentsOf'[t] = IF t \in Trimmed(C, W) THEN Remaining(t, C, W)
                              ELSE DiscardedAntecedents(W)[t]
      BY <1>1 DEF SweepGraph
    <3>1. CASE t \in W
      <4>1. Remaining(t, C, W) = {}
        BY <3>1 DEF Remaining, Survives, JustificationsFor
      <4>2. DiscardedAntecedents(W)[t] = {} /\ t \notin Trimmed(C, W)
        BY <3>1 DEF DiscardedAntecedents, Trimmed
      <4>. QED  BY <3>0, <4>1, <4>2
    <3>2. CASE t \notin W /\ JustificationsFor(t) = {}
      <4>1. antecedentsOf[t] = {}
        BY <2>1, <3>2
      <4>2. DiscardedAntecedents(W)[t] = {} /\ t \notin Trimmed(C, W)
        BY <3>2, <4>1 DEF DiscardedAntecedents, Trimmed
      <4>3. Remaining(t, C, W) = {}
        BY <2>5, <4>1
      <4>. QED  BY <3>0, <4>2, <4>3
    <3>3. CASE t \in C \ W /\ JustificationsFor(t) # {}
      BY <3>0, <3>3 DEF Trimmed
    <3>4. CASE t \notin C
      <4>1. t \notin Trimmed(C, W) /\ t \notin W
        BY <1>0, <3>4 DEF Trimmed
      <4>2. DiscardedAntecedents(W)[t] = antecedentsOf[t]
        BY <1>0, <2>2, <2>3, <3>4, <4>1 DEF DiscardedAntecedents
      <4>3. \A x \in JustificationsFor(t) : Survives(x, C, W)
        BY <3>4, <4>1 DEF Survives, JustificationsFor
      <4>4. Remaining(t, C, W) = antecedentsOf[t]
        BY <2>1, <4>3 DEF Remaining
      <4>. QED  BY <3>0, <4>1, <4>2, <4>4
    <3>. QED  BY <3>1, <3>2, <3>3, <3>4
  <2>7. ASSUME NEW a \in Triple, NEW t \in Triple
        PROVE  t \in consequentsOf'[a] <=> a \in Remaining(t, C, W)
    <3>0. t \in consequentsOf'[a] <=>
            /\ t \in DiscardedConsequents(W)[a]
            /\ ~(t \in Trimmed(C, W) /\ a \in DiscardedAntecedents(W)[t] \ Remaining(t, C, W))
      BY <1>1 DEF SweepGraph
    <3>1. CASE a \in W
      BY <2>5, <3>0, <3>1 DEF DiscardedConsequents
    <3>2. CASE a \notin W /\ t \in W
      <4>1. t \notin DiscardedConsequents(W)[a]
        BY <2>2, <3>2 DEF DiscardedConsequents
      <4>2. a \notin Remaining(t, C, W)
        BY <3>2 DEF Remaining, Survives, JustificationsFor
      <4>. QED  BY <3>0, <4>1, <4>2
    <3>3. CASE a \notin W /\ t \notin W
      <4>1. t \in DiscardedConsequents(W)[a] <=> a \in antecedentsOf[t]
        BY <2>2, <3>3 DEF DiscardedConsequents
      <4>2. CASE t \in Trimmed(C, W)
        <5>1. a \in DiscardedAntecedents(W)[t] <=> a \in antecedentsOf[t]
          BY <3>3 DEF DiscardedAntecedents
        <5>. QED  BY <2>5, <3>0, <4>1, <4>2, <5>1
      <4>3. CASE t \notin Trimmed(C, W)
        <5>1. antecedentsOf[t] = Remaining(t, C, W)
          <6>1. CASE t \in C
            <7>1. JustificationsFor(t) = {}
              BY <3>3, <4>3, <6>1 DEF Trimmed
            <7>2. antecedentsOf[t] = {}
              BY <2>1, <7>1
            <7>. QED  BY <2>5, <7>2
          <6>2. CASE t \notin C
            <7>1. \A x \in JustificationsFor(t) : Survives(x, C, W)
              BY <3>3, <6>2 DEF Survives, JustificationsFor
            <7>. QED  BY <2>1, <7>1 DEF Remaining
          <6>. QED  BY <6>1, <6>2
        <5>. QED  BY <3>0, <4>1, <4>3, <5>1
      <4>. QED  BY <4>2, <4>3
    <3>. QED  BY <3>1, <3>2, <3>3
  <2>. QED  BY <2>4, <2>6, <2>7 DEF GraphMirrorsJustifications, Premises
<1>. QED  BY <1>4, <1>5, <1>6, <1>7 DEF Inv

LEMMA ClearInv ==
  ASSUME Clear
  PROVE  Inv'
BY DEF Clear, Inv, TypeOK, NoDanglingJustification, DerivedFactsJustified,
       GraphMirrorsJustifications, JustificationsFor, NoEdges

LEMMA StutterInv ==
  ASSUME Inv, UNCHANGED vars
  PROVE  Inv'
BY DEF Inv, vars, TypeOK, NoDanglingJustification, DerivedFactsJustified,
       GraphMirrorsJustifications, JustificationsFor, Premises

LEMMA NextInv ==
  ASSUME Inv, [Next]_vars
  PROVE  Inv'
<1>1. ASSUME NEW t \in Triple, RegisterStated({t}) PROVE Inv'
  BY <1>1, RegisterStatedInv
<1>2. ASSUME NEW i \in Instance, NEW P \in SUBSET Conclusions[i], RecordDerivation(i, P) PROVE Inv'
  BY <1>2, RecordDerivationInv
<1>3. ASSUME NEW t \in Triple, RetractTriple(t) PROVE Inv'
  BY <1>3, UnstateInv, MarkVerifySweepInv, StutterInv DEF RetractTriple
<1>4. CASE Clear
  BY <1>4, ClearInv
<1>5. CASE UNCHANGED vars
  BY <1>5, StutterInv
<1>. QED  BY <1>1, <1>2, <1>3, <1>4, <1>5 DEF Next

----------------------------------------------------------------------------
(* The theorems                                                            *)

\* Support bookkeeping is consistent in every reachable state: no justification
\* dangles, no derived fact has lost its last justification, and the dependency
\* graph is exactly what the justifications say.
THEOREM SupportInvariant == Spec => []Inv
<1>1. Inv /\ [Next]_vars => Inv'
  BY NextInv
<1>. QED  BY InitInv, <1>1, PTL DEF Spec

\* TypeOK holds in every reachable state.
THEOREM TypeCorrect == Spec => []TypeOK
<1>1. Inv => TypeOK
  BY DEF Inv
<1>. QED  BY SupportInvariant, <1>1, PTL

\* No justification outlives its consequent or an antecedent.
THEOREM NothingDangles == Spec => []NoDanglingJustification
<1>1. Inv => NoDanglingJustification
  BY DEF Inv
<1>. QED  BY SupportInvariant, <1>1, PTL

\* A derived fact is never left without a justification.
THEOREM DerivedStaysJustified == Spec => []DerivedFactsJustified
<1>1. Inv => DerivedFactsJustified
  BY DEF Inv
<1>. QED  BY SupportInvariant, <1>1, PTL

\* The dependency graph never drifts from the justification table.
THEOREM GraphNeverDrifts == Spec => []GraphMirrorsJustifications
<1>1. Inv => GraphMirrorsJustifications
  BY DEF Inv
<1>. QED  BY SupportInvariant, <1>1, PTL

\* What a retraction leaves is closed under the justifications it started with.
LEMMA RetractLeavesClosed ==
  ASSUME Inv, NEW t \in Triple, RetractTriple(t),
         NEW j \in justifications, Premises(j) \subseteq facts'
  PROVE  j.consequent \in facts'
<1>1. j.consequent \in facts
  BY DEF Inv, NoDanglingJustification
<1>2. CASE facts' = facts
  BY <1>1, <1>2
<1>3. CASE JustificationsFor(t) = {} /\ t \in stated /\ MarkVerifySweep(t)
  <2>. DEFINE C == Candidates(t)
              K == Kept(t, C)
  <2>0. C \in SUBSET Triple /\ facts' = facts \ (C \ K)
    BY <1>3, CandidatesClosed DEF MarkVerifySweep, Swept, Inv
  <2>. SUFFICES ASSUME j.consequent \in C
                PROVE  j.consequent \in K
    BY <1>1, <2>0
  <2>1. Premises(j) \cap C \subseteq K
    BY <2>0
  <2>2. j.consequent # t
    BY <1>3 DEF JustificationsFor
  <2>3. SupportedOutside(C, K, j.consequent)
    BY <2>1 DEF SupportedOutside, JustificationsFor
  <2>. QED  BY <1>1, <2>0, <2>2, <2>3, KeptClosed DEF VerifyClosed
<1>. QED  BY <1>2, <1>3 DEF RetractTriple, Unstate, vars

\* So nothing that still follows from the remaining stated facts is swept.
LEMMA RetractKeepsGrounded ==
  ASSUME Inv, NEW t \in Triple, RetractTriple(t)
  PROVE  GroundedIn(stated', justifications) \subseteq facts'
<1>1. stated' \subseteq facts' /\ facts' \in SUBSET Triple
  BY UnstateInv, MarkVerifySweepInv, StutterInv DEF RetractTriple, Inv, TypeOK
<1>2. \A j \in justifications : Premises(j) \subseteq facts' => j.consequent \in facts'
  BY RetractLeavesClosed
<1>. QED  BY <1>1, <1>2 DEF GroundedIn

\* A justification survives a retraction when its premises do.
LEMMA RetractKeepsJustifications ==
  ASSUME Inv, NEW t \in Triple, RetractTriple(t)
  PROVE  /\ justifications' \subseteq justifications
         /\ \A j \in justifications : Premises(j) \subseteq facts' => j \in justifications'
<1>1. CASE MarkVerifySweep(t)
  <2>1. PICK C, W : facts' = facts \ W /\ justifications' = {j \in justifications : Survives(j, C, W)}
    BY <1>1 DEF MarkVerifySweep
  <2>2. ASSUME NEW j \in justifications, Premises(j) \subseteq facts' PROVE j \in justifications'
    BY <2>1, <2>2, RetractLeavesClosed DEF Survives
  <2>. QED  BY <2>1, <2>2
<1>2. CASE justifications' = justifications
  BY <1>2
<1>. QED  BY <1>1, <1>2 DEF RetractTriple, Unstate, vars

\* Of the stated facts only the retracted one goes.
LEMMA RetractUnstates ==
  ASSUME Inv, NEW t \in Triple, RetractTriple(t)
  PROVE  stated' = stated \ {t}
<1>1. CASE t \in stated /\ MarkVerifySweep(t)
  <2>. DEFINE C == Candidates(t)
              K == Kept(t, C)
  <2>1. C \in SUBSET Triple /\ t \in C
    BY CandidatesClosed DEF Inv
  <2>2. stated' = stated \ (C \ K) /\ t \notin K
    BY <1>1, <2>1, SeedNotKept DEF MarkVerifySweep, Swept
  <2>3. ASSUME NEW c \in stated, c \in C, c # t PROVE c \in K
    BY <2>1, <2>3, KeptClosed DEF VerifyClosed, SupportedOutside, Inv, TypeOK
  <2>. QED  BY <2>1, <2>2, <2>3
<1>2. CASE t \notin stated /\ UNCHANGED vars
  BY <1>2 DEF vars
<1>3. CASE Unstate(t)
  BY <1>3 DEF Unstate
<1>. QED  BY <1>1, <1>2, <1>3 DEF RetractTriple

\* SweepKeepsGrounded is a property of every behaviour.
THEOREM SweepNeverGoesTooFar == Spec => SweepKeepsGrounded
<1>1. ASSUME Inv, Next
      PROVE  \A t \in Triple : RetractTriple(t) => GroundedIn(stated', justifications) \subseteq facts'
  BY <1>1, RetractKeepsGrounded
<1>. QED  BY SupportInvariant, <1>1, PTL DEF Spec, SweepKeepsGrounded

\* The local verifier agrees with the sweep: a fact all of whose justifications need
\* the triple that is swept does not survive it.
THEOREM LocalVerifierAgrees == Spec => LocalVerifierAgreesWithSweep
<1>1. ASSUME Inv, Inv', Next
      PROVE  \A a \in Triple, t \in facts :
               (a \in facts \ facts' /\ t # a /\ ~WouldRemainSupported(t, a) /\ RetractTriple(a))
                 => t \notin facts'
  <2>. SUFFICES ASSUME NEW a \in Triple, NEW t \in facts, a \notin facts',
                       ~WouldRemainSupported(t, a), RetractTriple(a), t \in facts'
                PROVE  FALSE
    OBVIOUS
  <2>1. t \notin stated' /\ justifications' \subseteq justifications
    BY <1>1, RetractUnstates, RetractKeepsJustifications DEF WouldRemainSupported
  <2>2. PICK j \in justifications' : j.consequent = t
    BY <1>1, <2>1 DEF Inv, DerivedFactsJustified, JustificationsFor
  <2>3. a \notin Premises(j)
    BY <1>1, <2>2 DEF Inv, NoDanglingJustification, Premises
  <2>. QED  BY <2>1, <2>2, <2>3 DEF WouldRemainSupported, JustificationsFor
<1>. QED  BY SupportInvariant, <1>1, PTL DEF Spec, LocalVerifierAgreesWithSweep

\* The sweep goes far enough.  With S closed under what remains: first, what
\* the marked set does not contain is in S; then, by the minimality of the kept
\* set, so is every kept fact.
LEMMA SweepLeavesGrounded ==
  ASSUME Inv, EveryFactGrounded, NEW seed \in stated,
         JustificationsFor(seed) = {}, MarkVerifySweep(seed)
  PROVE  EveryFactGrounded'
<1>. DEFINE C == Candidates(seed)
            K == Kept(seed, C)
            W == Swept(seed)
<1>0. /\ seed \in Triple
      /\ C \in SUBSET Triple
      /\ W = C \ K
      /\ facts' = facts \ W /\ stated' = stated \ W
      /\ justifications' = {j \in justifications : Survives(j, C, W)}
      /\ facts \subseteq Triple
  BY CandidatesClosed DEF Inv, TypeOK, Swept, MarkVerifySweep
<1>. SUFFICES ASSUME NEW S \in SUBSET Triple, stated' \subseteq S,
                     \A j \in justifications' : Premises(j) \subseteq S => j.consequent \in S
              PROVE  facts' \subseteq S
  BY <1>0 DEF EveryFactGrounded, Grounded, GroundedIn, Premises
<1>1. facts \ C \subseteq S
  <2>1. stated \subseteq S \cup C
    BY <1>0
  <2>2. ASSUME NEW j \in justifications, Premises(j) \subseteq S \cup C
        PROVE  j.consequent \in S \cup C
    <3>. SUFFICES ASSUME j.consequent \notin C PROVE j.consequent \in S
      OBVIOUS
    <3>1. Premises(j) \cap C = {}
      BY <1>0, DependentsMarked DEF Inv
    <3>2. j \in justifications'
      BY <1>0 DEF Survives
    <3>. QED  BY <2>2, <3>1, <3>2
  <2>3. Grounded \subseteq S \cup C
    BY <1>0, <2>1, <2>2 DEF Grounded, GroundedIn
  <2>. QED  BY <2>3 DEF EveryFactGrounded
<1>2. VerifyClosed(seed, C, K \cap S)
  <2>. SUFFICES ASSUME NEW c \in (C \ {seed}) \cap facts, SupportedOutside(C, K \cap S, c)
                PROVE  c \in K \cap S
    BY DEF VerifyClosed
  <2>1. SupportedOutside(C, K, c)
    BY DEF SupportedOutside
  <2>2. c \in K
    BY <1>0, <2>1, KeptClosed DEF VerifyClosed
  <2>3. CASE c \in stated
    BY <1>0, <2>2, <2>3
  <2>4. ASSUME NEW j \in JustificationsFor(c), Premises(j) \cap C \subseteq K \cap S
        PROVE  c \in S
    <3>1. Premises(j) \subseteq facts
      BY DEF Inv, NoDanglingJustification, JustificationsFor
    <3>2. Premises(j) \subseteq S
      BY <1>1, <2>4, <3>1
    <3>3. j \in justifications'
      BY <1>0, <2>2, <2>4 DEF Survives, JustificationsFor
    <3>. QED  BY <3>2, <3>3 DEF JustificationsFor
  <2>. QED  BY <2>2, <2>3, <2>4 DEF SupportedOutside
<1>3. K \subseteq S
  <2>1. K \cap S \in SUBSET C
    BY DEF Kept
  <2>. QED  BY <1>2, <2>1 DEF Kept
<1>. QED  BY <1>0, <1>1, <1>3

\* SweepGoesFarEnough is a property of every behaviour, for cyclic rule sets
\* too: only clearing the flag of a fact that supports itself can leave facts
\* without ground.
THEOREM SweepAlwaysGoesFarEnough == Spec => SweepGoesFarEnough
<1>1. ASSUME Inv, Next
      PROVE  \A t \in Triple :
               (RetractTriple(t) /\ JustificationsFor(t) = {} /\ EveryFactGrounded) => EveryFactGrounded'
  <2>. SUFFICES ASSUME NEW t \in Triple, RetractTriple(t), JustificationsFor(t) = {}, EveryFactGrounded
                PROVE  EveryFactGrounded'
    OBVIOUS
  <2>1. CASE t \in stated
    BY <1>1, <2>1, SweepLeavesGrounded DEF RetractTriple
  <2>2. CASE t \notin stated
    BY <2>2 DEF RetractTriple, vars, EveryFactGrounded, Grounded, GroundedIn, Premises
  <2>. QED  BY <2>1, <2>2
<1>. QED  BY SupportInvariant, <1>1, PTL DEF Spec, SweepGoesFarEnough

----------------------------------------------------------------------------
(* Rule sets without support cycles                                        *)

\* When every rule instance concludes something of a higher level than its
\* premises, a set of naturals has a least element and a fact outside the
\* grounded ones would have a justification with a lower one outside.
LEMMA InvGrounded ==
  ASSUME NEW Level \in [Triple -> Nat],
         \A i \in Instance : \A p \in Antecedents[i], q \in Conclusions[i] : Level[p] < Level[q],
         Inv
  PROVE  EveryFactGrounded
<1>. SUFFICES ASSUME NEW S \in SUBSET Triple, stated \subseteq S,
                     \A j \in justifications : Premises(j) \subseteq S => j.consequent \in S,
                     facts \ S # {}
              PROVE  FALSE
  BY DEF EveryFactGrounded, Grounded, GroundedIn, Inv, TypeOK
<1>. DEFINE L == {Level[t] : t \in facts \ S}
<1>1. facts \subseteq Triple
  BY DEF Inv, TypeOK
<1>2. L \subseteq Nat /\ L # {}
  BY <1>1
<1>3. PICK n \in L : \A m \in L : ~ (<<m, n>> \in OpToRel(<, Nat))
  BY <1>2, WFMin, NatLessThanWellFounded
<1>4. PICK t \in facts \ S : n = Level[t]
  BY <1>3
<1>5. PICK j \in JustificationsFor(t) : TRUE
  BY <1>4 DEF Inv, DerivedFactsJustified
<1>6. j \in justifications /\ j.consequent = t /\ j \in Justification
  BY <1>5 DEF JustificationsFor, Inv, TypeOK
<1>7. PICK p \in Premises(j) : p \notin S
  BY <1>4, <1>6
<1>8. p \in facts
  BY <1>6, <1>7 DEF Inv, NoDanglingJustification
<1>9. Level[p] < Level[t]
  BY <1>6, <1>7 DEF Justification, Premises
<1>10. Level[p] \in L /\ Level[p] \in Nat
  BY <1>1, <1>7, <1>8
<1>11. <<Level[p], n>> \in OpToRel(<, Nat)
  BY <1>1, <1>2, <1>4, <1>9, <1>10 DEF OpToRel
<1>. QED  BY <1>3, <1>10, <1>11

\* Without support cycles every fact follows from the stated ones, always.
THEOREM LayeredRulesStayGrounded ==
  ASSUME NEW CONSTANT Level \in [Triple -> Nat],
         \A i \in Instance : \A p \in Antecedents[i], q \in Conclusions[i] : Level[p] < Level[q]
  PROVE  Spec => []EveryFactGrounded
<1>1. Inv => EveryFactGrounded
  BY InvGrounded
<1>. QED  BY SupportInvariant, <1>1, PTL

----------------------------------------------------------------------------
(* The transitive verifier                                                 *)

\* What the verifier grants with the triples of V on its path, when f says what
\* it grants with more of them on it.
Grants(f, V) ==
  {x \in facts : \/ x \in stated
                 \/ /\ x \notin V
                    /\ JustificationsFor(x) # {}
                    /\ \A j \in JustificationsFor(x) : Premises(j) \subseteq f[V \cup {x}]}
Granting == [SUBSET Triple -> SUBSET Triple]
IsVerifier(f) == f \in Granting /\ \A V \in SUBSET Triple : f[V] = Grants(f, V)

\* The recursion of the verifier has a solution: what it grants only grows with
\* what its calls grant, so the least prefixed point is one.
LEMMA VerifierExists ==
  ASSUME TypeOK
  PROVE  \E f : IsVerifier(f)
<1>. DEFINE closed == {g \in Granting : \A V \in SUBSET Triple : Grants(g, V) \subseteq g[V]}
            f      == [V \in SUBSET Triple |-> {x \in Triple : \A g \in closed : x \in g[V]}]
<1>1. \A g \in Granting, V \in SUBSET Triple : Grants(g, V) \in SUBSET Triple
  BY DEF Grants, TypeOK
<1>2. ASSUME NEW g \in Granting, NEW h \in Granting, \A V \in SUBSET Triple : g[V] \subseteq h[V],
             NEW V \in SUBSET Triple
      PROVE  Grants(g, V) \subseteq Grants(h, V)
  <2>. SUFFICES ASSUME NEW x \in Grants(g, V) PROVE x \in Grants(h, V)
    OBVIOUS
  <2>1. x \in facts /\ x \in Triple
    BY DEF Grants, TypeOK
  <2>2. CASE x \in stated
    BY <2>1, <2>2 DEF Grants
  <2>3. CASE x \notin stated
    <3>1. V \cup {x} \in SUBSET Triple
      BY <2>1
    <3>2. g[V \cup {x}] \subseteq h[V \cup {x}]
      BY <1>2, <3>1
    <3>. QED  BY <2>1, <2>3, <3>2 DEF Grants
  <2>. QED  BY <2>2, <2>3
<1>3. f \in Granting
  BY DEF Granting
<1>4. \A g \in closed, V \in SUBSET Triple : f[V] \subseteq g[V]
  OBVIOUS
<1>5. ASSUME NEW V \in SUBSET Triple PROVE Grants(f, V) \subseteq f[V]
  <2>. SUFFICES ASSUME NEW x \in Grants(f, V), NEW g \in closed PROVE x \in g[V]
    BY <1>1, <1>3
  <2>. HIDE DEF f
  <2>1. Grants(f, V) \subseteq Grants(g, V)
    BY <1>2, <1>3, <1>4
  <2>. QED  BY <2>1
<1>. DEFINE above == [V \in SUBSET Triple |-> Grants(f, V)]
<1>6. above \in closed
  <2>. HIDE DEF f
  <2>1. above \in Granting
    BY <1>1, <1>3 DEF Granting
  <2>2. \A V \in SUBSET Triple : above[V] \subseteq f[V]
    BY <1>5
  <2>3. \A V \in SUBSET Triple : Grants(above, V) \subseteq above[V]
    <3>. TAKE V \in SUBSET Triple
    <3>1. above[V] = Grants(f, V)
      OBVIOUS
    <3>. HIDE DEF above
    <3>. QED  BY <1>2, <1>3, <2>1, <2>2, <3>1
  <2>. QED  BY <2>1, <2>3
<1>7. ASSUME NEW V \in SUBSET Triple PROVE f[V] = Grants(f, V)
  <2>1. above[V] = Grants(f, V)
    OBVIOUS
  <2>. HIDE DEF f, above
  <2>. QED  BY <1>4, <1>5, <1>6, <2>1
<1>. HIDE DEF f
<1>. QED  BY <1>3, <1>7 DEF IsVerifier

\* TransitivelySupported asks such a solution, with an empty path.
LEMMA VerifierIsOne ==
  ASSUME TypeOK
  PROVE  \E f : IsVerifier(f) /\ \A t \in Triple : TransitivelySupported(t) <=> t \in f[{}]
<1>. DEFINE supported[visiting \in SUBSET Triple] ==
              {x \in facts : \/ x \in stated
                             \/ /\ x \notin visiting
                                /\ JustificationsFor(x) # {}
                                /\ \A j \in JustificationsFor(x) :
                                     Premises(j) \subseteq supported[visiting \cup {x}]}
<1>1. PICK f : IsVerifier(f)
  BY VerifierExists
<1>2. f = [V \in SUBSET Triple |->
             {x \in facts : \/ x \in stated
                            \/ /\ x \notin V
                               /\ JustificationsFor(x) # {}
                               /\ \A j \in JustificationsFor(x) : Premises(j) \subseteq f[V \cup {x}]}]
  BY <1>1, Zenon DEF IsVerifier, Grants, Granting
<1>3. supported = [V \in SUBSET Triple |->
             {x \in facts : \/ x \in stated
                            \/ /\ x \notin V
                               /\ JustificationsFor(x) # {}
                               /\ \A j \in JustificationsFor(x) : Premises(j) \subseteq supported[V \cup {x}]}]
  BY <1>2
<1>4. \A t \in Triple : TransitivelySupported(t) <=> t \in supported[{}]
  BY DEF TransitivelySupported
<1>. HIDE DEF supported
<1>5. \A V \in SUBSET Triple : supported[V] = Grants(supported, V)
  BY <1>3 DEF Grants
<1>6. supported \in Granting
  BY <1>3 DEF Granting, TypeOK
<1>. QED  BY <1>4, <1>5, <1>6 DEF IsVerifier

\* What follows from the stated facts contains them and is closed under the
\* justifications.
LEMMA GroundedClosed ==
  ASSUME TypeOK
  PROVE  /\ stated \subseteq Grounded
         /\ \A j \in justifications : Premises(j) \subseteq Grounded => j.consequent \in Grounded
<1>1. stated \subseteq Grounded
  BY DEF Grounded, GroundedIn, TypeOK
<1>2. ASSUME NEW j \in justifications, Premises(j) \subseteq Grounded
      PROVE  j.consequent \in Grounded
  <2>1. j.consequent \in Triple
    BY DEF TypeOK, Justification
  <2>2. ASSUME NEW S \in SUBSET Triple,
               \A k \in justifications : Premises(k) \subseteq S => k.consequent \in S,
               stated \subseteq S
        PROVE  j.consequent \in S
    BY <1>2, <2>2 DEF Grounded, GroundedIn
  <2>. QED  BY <2>1, <2>2 DEF Grounded, GroundedIn
<1>. QED  BY <1>1, <1>2

\* Whatever the path, the verifier grants grounded facts only: a path on which it
\* grants another one, with as few triples off it as can be, would have a longer
\* one on which it does too.
LEMMA VerifierGrantsGrounded ==
  ASSUME IsFiniteSet(Triple), TypeOK, NEW f, IsVerifier(f), NEW V \in SUBSET Triple
  PROVE  f[V] \subseteq Grounded
<1>. DEFINE Off(U) == Cardinality(Triple \ U)
            wrong  == {U \in SUBSET Triple : ~ (f[U] \subseteq Grounded)}
            sizes  == {Off(U) : U \in wrong}
<1>. SUFFICES ASSUME wrong # {} PROVE FALSE
  OBVIOUS
<1>1. \A U \in SUBSET Triple : IsFiniteSet(Triple \ U) /\ Off(U) \in Nat
  BY FS_Subset, FS_CardinalityType
<1>2. sizes \subseteq Nat /\ sizes # {}
  BY <1>1
<1>3. PICK n \in sizes : \A m \in sizes : ~ (<<m, n>> \in OpToRel(<, Nat))
  BY <1>2, WFMin, NatLessThanWellFounded
<1>4. PICK U \in wrong : n = Off(U)
  BY <1>3
<1>5. PICK x \in f[U] : x \notin Grounded
  BY <1>4
<1>6. /\ x \in facts \ U
      /\ JustificationsFor(x) # {}
      /\ \A j \in JustificationsFor(x) : Premises(j) \subseteq f[U \cup {x}]
  <2>1. x \in Grants(f, U) /\ x \notin stated
    BY <1>4, <1>5, GroundedClosed DEF IsVerifier
  <2>. QED  BY <2>1 DEF Grants
<1>7. PICK j \in justifications : j.consequent = x /\ Premises(j) \subseteq f[U \cup {x}]
  BY <1>6 DEF JustificationsFor
<1>8. U \cup {x} \in wrong
  BY <1>5, <1>6, <1>7, GroundedClosed DEF TypeOK
<1>9. Off(U \cup {x}) < Off(U)
  <2>1. Triple \ (U \cup {x}) = (Triple \ U) \ {x} /\ x \in Triple \ U
    BY <1>6 DEF TypeOK
  <2>2. Off(U \cup {x}) = Off(U) - 1
    <3>1. PICK D : D = Triple \ U
      OBVIOUS
    <3>2. IsFiniteSet(D) /\ x \in D /\ Off(U) = Cardinality(D) /\ Off(U \cup {x}) = Cardinality(D \ {x})
      BY <1>1, <1>4, <2>1, <3>1
    <3>. QED  BY <3>2, FS_RemoveElement
  <2>3. Off(U) \in Nat
    BY <1>1, <1>4
  <2>. HIDE DEF Off
  <2>. QED  BY <2>2, <2>3
<1>10. Off(U \cup {x}) \in sizes /\ Off(U \cup {x}) \in Nat
  BY <1>1, <1>8
<1>. HIDE DEF Off, sizes
<1>11. <<Off(U \cup {x}), n>> \in OpToRel(<, Nat)
  BY <1>2, <1>3, <1>4, <1>9, <1>10 DEF OpToRel
<1>. QED  BY <1>3, <1>10, <1>11

\* A fact the transitive verifier accepts follows from the stated facts, whatever
\* cycles of support there are.
THEOREM TransitiveVerifierIsSound ==
  ASSUME IsFiniteSet(Triple)
  PROVE  Spec => []VerifierSound
<1>1. TypeOK => VerifierSound
  <2>. SUFFICES ASSUME TypeOK, NEW t \in Triple, TransitivelySupported(t) PROVE t \in Grounded
    BY DEF VerifierSound
  <2>1. PICK f : IsVerifier(f) /\ \A x \in Triple : TransitivelySupported(x) <=> x \in f[{}]
    BY VerifierIsOne
  <2>2. {} \in SUBSET Triple
    OBVIOUS
  <2>. QED  BY <2>1, <2>2, VerifierGrantsGrounded
<1>. QED  BY TypeCorrect, <1>1, PTL
=============================================================================
