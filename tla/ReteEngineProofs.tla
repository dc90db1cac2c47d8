-------------------------- MODULE ReteEngineProofs --------------------------
(***************************************************************************)
(* Proofs about the engine for every set of rule instances, cyclic ones    *)
(* included, every agenda order, and every way a call may be cut short.    *)
(***************************************************************************)
EXTENDS ReteEngine, TMSProofs

\* What has been delivered or is scheduled rests on facts; during a retraction, on
\* facts or on what this retraction has removed so far.
Delivered ==
  /\ phase \in {"idle", "match", "fire"} => \A i \in matched \cup agenda : Enabled(i)
  /\ phase = "retract" => \A i \in matched : Antecedents[i] \subseteq facts \cup result
  /\ phase # "fire" => agenda = {}

\* How known_triples and working memory differ while a call is under way.
InStep ==
  /\ phase = "retract" => facts \cap result = {}
  /\ settled =>
       /\ phase \in {"idle", "match"} => known = facts
       /\ phase = "fire" => known \cup iterationNew = facts
       /\ phase = "retract" => known = facts \cup result

\* The inductive invariant.
EngineInv == Inv /\ EngineTypeOK /\ Delivered /\ InStep

LEMMA PermittedTriples ==
  ASSUME NEW i \in Instance
  PROVE  /\ Antecedents[i] \in SUBSET Triple
         /\ Permitted(i) \in SUBSET Conclusions[i]
         /\ Permitted(i) \in SUBSET Triple
BY InstanceAssumption DEF Permitted

LEMMA EngineInitInv == EngineInit => EngineInv
<1>. SUFFICES ASSUME EngineInit PROVE EngineInv
  OBVIOUS
<1>1. Inv
  BY InitInv DEF EngineInit
<1>2. EngineTypeOK
  BY <1>1 DEF EngineInit, EngineTypeOK, Inv
<1>3. Delivered /\ InStep
  BY DEF EngineInit, Init, Delivered, InStep
<1>. QED  BY <1>1, <1>2, <1>3 DEF EngineInv

\* A retraction of one triple takes facts away and adds none.
LEMMA RetractShrinks ==
  ASSUME Inv, NEW t \in Triple, RetractTriple(t)
  PROVE  Inv' /\ facts' \subseteq facts
<1>1. Inv'
  BY UnstateInv, MarkVerifySweepInv, StutterInv DEF RetractTriple
<1>2. facts' \subseteq facts
  BY DEF RetractTriple, Unstate, MarkVerifySweep, vars
<1>. QED  BY <1>1, <1>2

\* The body of add_triples, called at a moment when nothing is scheduled.
LEMMA AddTriplesInv ==
  ASSUME EngineInv, NEW S \in SUBSET Triple, AddTriples(S),
         phase = "idle" \/ (phase = "fire" /\ iterationNew = {}), agenda = {},
         UNCHANGED <<matched, bootstrapCompleted, log, contradictions, agenda, iterationNew,
                     iterationMaterialized, inputs, config, settled>>,
         existing' \in SUBSET Triple
  PROVE  EngineInv'
<1>. DEFINE fresh == IF PolicyRaises /\ S \cap Malformed # {} THEN {} ELSE (S \ Malformed) \ known
<1>1. /\ fresh \in SUBSET Triple
      /\ RegisterStated(fresh)
      /\ known' = known \cup fresh
      /\ materialized' = materialized \cup fresh
      /\ phase' = IF fresh = {} THEN "idle" ELSE "match"
      /\ result' = {} /\ bootstrapPhase' = FALSE
  BY DEF AddTriples
<1>2. facts' = facts \cup fresh
  BY <1>1 DEF RegisterStated
<1>. HIDE DEF fresh
<1>3. Inv'
  BY <1>1, RegisterStatedInv DEF EngineInv
<1>4. EngineTypeOK'
  BY <1>1, <1>3 DEF EngineInv, EngineTypeOK, Inv
<1>5. Delivered'
  BY <1>1, <1>2 DEF EngineInv, Delivered, Enabled
<1>6. InStep'
  BY <1>1, <1>2 DEF EngineInv, InStep
<1>. QED  BY <1>3, <1>4, <1>5, <1>6 DEF EngineInv

LEMMA StartAddInv ==
  ASSUME EngineInv, NEW S \in Inputs, StartAdd(S), UNCHANGED <<config, settled>>
  PROVE  EngineInv'
<1>1. S \in SUBSET Triple
  BY EngineAssumption
<1>2. agenda = {} /\ phase = "idle"
  BY DEF EngineInv, Delivered, StartAdd, Idle
<1>3. existing' \in SUBSET Triple
  BY DEF StartAdd, EngineInv, EngineTypeOK
<1>4. AddTriples(S)
  BY DEF StartAdd
<1>5. UNCHANGED <<matched, bootstrapCompleted, log, contradictions, agenda, iterationNew,
                  iterationMaterialized, inputs, config, settled>>
  BY DEF StartAdd, recordVars, loopVars
<1>. QED  BY <1>1, <1>2, <1>3, <1>4, <1>5, AddTriplesInv, SMTT(30), ZenonT(30)

LEMMA StartWarmupInv ==
  ASSUME EngineInv, NEW S \in Inputs, StartWarmup(S), UNCHANGED <<config, settled>>
  PROVE  EngineInv'
<1>0. S \in SUBSET Triple
  BY EngineAssumption
<1>1. Inv'
  BY StutterInv DEF EngineInv, StartWarmup, tmsVars
<1>2. EngineTypeOK'
  BY <1>0, <1>1 DEF EngineInv, EngineTypeOK, Inv, StartWarmup, memoryVars, recordVars, loopVars
<1>3. Delivered'
  BY DEF EngineInv, Delivered, Enabled, StartWarmup, Idle, tmsVars, vars, memoryVars, loopVars
<1>4. InStep'
  BY DEF EngineInv, InStep, StartWarmup, Idle, tmsVars, vars, memoryVars, loopVars
<1>. QED  BY <1>1, <1>2, <1>3, <1>4 DEF EngineInv

LEMMA MatchInv ==
  ASSUME EngineInv, Match, UNCHANGED <<config, settled>>
  PROVE  EngineInv'
<1>1. Inv'
  BY StutterInv DEF EngineInv, Match, NewMatches, tmsVars
<1>2. EngineTypeOK'
  BY <1>1 DEF EngineInv, EngineTypeOK, Inv, Match, NewMatches, recordVars, Bootstrap
<1>3. Delivered'
  BY DEF EngineInv, Delivered, Enabled, Bootstrap, Match, NewMatches, tmsVars, vars
<1>4. InStep'
  BY DEF EngineInv, InStep, Match, NewMatches, tmsVars, vars
<1>. QED  BY <1>1, <1>2, <1>3, <1>4 DEF EngineInv

\* A predicate that raises leaves the matches in memory and no activation.
LEMMA MatchRaisesInv ==
  ASSUME EngineInv, MatchRaises, UNCHANGED config
  PROVE  EngineInv'
<1>1. Inv'
  BY StutterInv DEF EngineInv, MatchRaises, tmsVars
<1>2. EngineTypeOK'
  BY <1>1 DEF EngineInv, EngineTypeOK, Inv, MatchRaises, NewMatches, Raise, recordVars, Bootstrap
<1>3. Delivered'
  BY DEF EngineInv, Delivered, Enabled, Bootstrap, MatchRaises, NewMatches, Raise, tmsVars, vars
<1>4. InStep'
  BY DEF EngineInv, InStep, MatchRaises, Raise, tmsVars, vars
<1>. QED  BY <1>1, <1>2, <1>3, <1>4 DEF EngineInv

LEMMA SkipBootstrapInv ==
  ASSUME EngineInv, NEW i \in Instance, SkipBootstrap(i), UNCHANGED <<config, settled>>
  PROVE  EngineInv'
<1>1. Inv'
  BY StutterInv DEF EngineInv, SkipBootstrap, tmsVars
<1>2. EngineTypeOK'
  BY <1>1 DEF EngineInv, EngineTypeOK, Inv, SkipBootstrap, memoryVars, recordVars
<1>3. Delivered'
  BY DEF EngineInv, Delivered, Enabled, SkipBootstrap, Scheduled, tmsVars, vars, memoryVars
<1>4. InStep'
  BY DEF EngineInv, InStep, SkipBootstrap, tmsVars, vars, memoryVars
<1>. QED  BY <1>1, <1>2, <1>3, <1>4 DEF EngineInv

LEMMA FireInv ==
  ASSUME EngineInv, NEW i \in Instance, Fire(i), UNCHANGED <<config, settled>>
  PROVE  EngineInv'
<1>1. /\ phase = "fire" /\ RecordDerivation(i, Permitted(i))
      /\ iterationNew' = iterationNew \cup NewOf(i)
      /\ iterationMaterialized' = iterationMaterialized \cup SeenOf(i)
      /\ contradictions' \in SUBSET Contradicting
      /\ log' = log \cup {[instance |-> i, triple |-> t, silent |-> i \in Silent \/ bootstrapPhase] :
                            t \in NewOf(i) \cup SeenOf(i)}
      /\ agenda' \subseteq agenda
      /\ UNCHANGED <<known, materialized, matched, bootstrapCompleted, phase, bootstrapPhase,
                     existing, inputs, result>>
  BY DEF Fire, Activation, Scheduled, Reported, EngineInv, EngineTypeOK, memoryVars
<1>2. facts' = facts \cup Permitted(i)
  BY <1>1 DEF RecordDerivation
<1>3. NewOf(i) \in SUBSET Triple /\ SeenOf(i) \in SUBSET Triple
  BY PermittedTriples DEF NewOf, SeenOf
<1>4. Inv'
  BY <1>1, PermittedTriples, RecordDerivationInv DEF EngineInv
<1>5. EngineTypeOK'
  <2>1. log' \in SUBSET [instance : Instance, triple : Triple, silent : BOOLEAN]
    <3>1. \A b \in BOOLEAN : {[instance |-> i, triple |-> t, silent |-> b] : t \in NewOf(i) \cup SeenOf(i)}
                            \subseteq [instance : Instance, triple : Triple, silent : BOOLEAN]
      BY <1>3
    <3>2. (i \in Silent \/ bootstrapPhase) \in BOOLEAN
      OBVIOUS
    <3>3. log \in SUBSET [instance : Instance, triple : Triple, silent : BOOLEAN]
      BY DEF EngineInv, EngineTypeOK
    <3>. QED  BY <1>1, <3>1, <3>2, <3>3, Zenon
  <2>2. TypeOK' /\ agenda' \in SUBSET Instance
    BY <1>1, <1>4 DEF EngineInv, EngineTypeOK, Inv
  <2>3. iterationNew' \in SUBSET Triple /\ iterationMaterialized' \in SUBSET Triple
    BY <1>1, <1>3 DEF EngineInv, EngineTypeOK
  <2>4. /\ known' \in SUBSET Triple /\ materialized' \in SUBSET Triple
        /\ matched' \in SUBSET (Instance \ Bootstrap')
        /\ bootstrapCompleted' \in BOOLEAN /\ bootstrapPhase' \in BOOLEAN
        /\ phase' \in {"idle", "match", "fire", "retract", "closed"}
    BY <1>1 DEF EngineInv, EngineTypeOK, Bootstrap
  <2>5. existing' \in SUBSET Triple /\ inputs' \in SUBSET Triple /\ result' \in SUBSET Triple
    BY <1>1 DEF EngineInv, EngineTypeOK
  <2>. QED  BY <1>1, <2>1, <2>2, <2>3, <2>4, <2>5 DEF EngineTypeOK
<1>6. Delivered'
  BY <1>1, <1>2 DEF EngineInv, Delivered, Enabled
<1>7. InStep'
  BY <1>1, <1>2 DEF EngineInv, InStep, NewOf
<1>. QED  BY <1>4, <1>5, <1>6, <1>7 DEF EngineInv

\* A call that ends in an exception leaves known_triples behind working memory, but
\* the tables in order.
LEMMA FireRaisesInv ==
  ASSUME EngineInv, NEW i \in Instance, FireRaises(i), UNCHANGED config
  PROVE  EngineInv'
<1>1. PICK P \in SUBSET Permitted(i) : RecordDerivation(i, P)
  BY DEF FireRaises, Raise
<1>2. Inv'
  BY <1>1, PermittedTriples, RecordDerivationInv DEF EngineInv
<1>3. /\ phase' = "idle" /\ agenda' = {} /\ settled' = FALSE
      /\ existing' = {} /\ iterationNew' = {} /\ iterationMaterialized' = {} /\ result' = {}
      /\ bootstrapPhase' = FALSE /\ contradictions' \in SUBSET Contradicting
      /\ phase = "fire"
      /\ UNCHANGED <<known, materialized, matched, bootstrapCompleted, log, inputs>>
  BY DEF FireRaises, Raise, Scheduled, Reported, EngineInv, EngineTypeOK, memoryVars
<1>4. facts \subseteq facts'
  BY <1>1 DEF RecordDerivation
<1>5. EngineTypeOK'
  <2>1. TypeOK'
    BY <1>2 DEF Inv
  <2>. QED  BY <1>3, <2>1 DEF EngineInv, EngineTypeOK, Bootstrap
<1>6. Delivered'
  BY <1>3, <1>4 DEF EngineInv, Delivered, Enabled
<1>7. InStep'
  BY <1>3 DEF InStep
<1>. QED  BY <1>2, <1>5, <1>6, <1>7 DEF EngineInv

LEMMA EndIterationInv ==
  ASSUME EngineInv, EndIteration, UNCHANGED <<config, settled>>
  PROVE  EngineInv'
<1>1. Inv'
  BY StutterInv DEF EngineInv, EndIteration, tmsVars
<1>2. EngineTypeOK'
  BY <1>1 DEF EngineInv, EngineTypeOK, Inv, EndIteration, recordVars, Bootstrap
<1>3. Delivered'
  BY DEF EngineInv, Delivered, Enabled, EndIteration, tmsVars, vars
<1>4. InStep'
  BY DEF EngineInv, InStep, EndIteration, tmsVars, vars
<1>. QED  BY <1>1, <1>2, <1>3, <1>4 DEF EngineInv

LEMMA FinishBootstrapInv ==
  ASSUME EngineInv, FinishBootstrap, UNCHANGED <<config, settled>>
  PROVE  EngineInv'
<1>1. existing \in SUBSET Triple /\ existing' \in SUBSET Triple
  BY DEF FinishBootstrap, EngineInv, EngineTypeOK
<1>2. AddTriples(existing) /\ phase = "fire" /\ iterationNew = {} /\ agenda = {}
  BY DEF FinishBootstrap
<1>3. UNCHANGED <<matched, bootstrapCompleted, log, contradictions, agenda, iterationNew,
                  iterationMaterialized, inputs, config, settled>>
  BY DEF FinishBootstrap, recordVars, loopVars
<1>. QED  BY <1>1, <1>2, <1>3, AddTriplesInv

LEMMA StartRetractInv ==
  ASSUME EngineInv, NEW S \in Inputs, StartRetract(S), UNCHANGED <<config, settled>>
  PROVE  EngineInv'
<1>0. S \in SUBSET Triple
  BY EngineAssumption
<1>1. Inv'
  BY StutterInv DEF EngineInv, StartRetract, tmsVars
<1>2. EngineTypeOK'
  BY <1>0, <1>1 DEF EngineInv, EngineTypeOK, Inv, StartRetract, memoryVars, recordVars, loopVars, Bootstrap
<1>3. Delivered'
  BY DEF EngineInv, Delivered, Enabled, StartRetract, Idle, tmsVars, vars, memoryVars, loopVars
<1>4. InStep'
  BY DEF EngineInv, InStep, StartRetract, Idle, tmsVars, vars, memoryVars, loopVars
<1>. QED  BY <1>1, <1>2, <1>3, <1>4 DEF EngineInv

\* Each retraction only moves triples from working memory to the cascade.
LEMMA RetractOneInv ==
  ASSUME EngineInv, NEW t \in Triple, RetractOne(t), UNCHANGED <<config, settled>>
  PROVE  EngineInv'
<1>1. Inv' /\ facts' \subseteq facts
  BY RetractShrinks DEF EngineInv, RetractOne
<1>2. /\ phase = "retract" /\ result' = result \cup (facts \ facts')
      /\ inputs' = inputs \ {t}
      /\ UNCHANGED <<known, materialized, matched, bootstrapCompleted, log, contradictions, phase,
                     bootstrapPhase, existing, agenda, iterationNew, iterationMaterialized>>
  BY DEF RetractOne, memoryVars, recordVars, loopVars
<1>3. facts' \cup result' = facts \cup result
  BY <1>1, <1>2
<1>4. EngineTypeOK'
  <2>1. TypeOK' /\ result' \in SUBSET Triple
    BY <1>1, <1>2 DEF Inv, EngineInv, TypeOK, EngineTypeOK
  <2>. QED  BY <1>2, <2>1 DEF EngineInv, EngineTypeOK, Bootstrap
<1>5. Delivered'
  BY <1>2, <1>3 DEF EngineInv, Delivered
<1>6. InStep'
  BY <1>1, <1>2, <1>3 DEF EngineInv, InStep
<1>. QED  BY <1>1, <1>4, <1>5, <1>6 DEF EngineInv

\* Eviction takes exactly the matches that have lost a premise.
LEMMA FinishRetractInv ==
  ASSUME EngineInv, FinishRetract, UNCHANGED <<config, settled>>
  PROVE  EngineInv'
<1>1. Inv'
  BY StutterInv DEF EngineInv, FinishRetract, tmsVars
<1>2. EngineTypeOK'
  BY <1>1 DEF EngineInv, EngineTypeOK, Inv, FinishRetract, WithoutMatchesOf, recordVars, loopVars, Bootstrap
<1>3. Delivered'
  BY DEF EngineInv, Delivered, Enabled, FinishRetract, WithoutMatchesOf, tmsVars, vars, loopVars
<1>4. InStep'
  BY DEF EngineInv, InStep, FinishRetract, tmsVars, vars, loopVars
<1>. QED  BY <1>1, <1>2, <1>3, <1>4 DEF EngineInv

LEMMA CloseInv ==
  ASSUME EngineInv, Close, UNCHANGED <<config, settled>>
  PROVE  EngineInv'
<1>1. Inv'
  BY ClearInv DEF Close
<1>2. EngineTypeOK'
  BY <1>1 DEF EngineInv, EngineTypeOK, Inv, Close, loopVars, Bootstrap
<1>3. Delivered' /\ InStep'
  BY DEF EngineInv, Delivered, InStep, Close, loopVars
<1>. QED  BY <1>1, <1>2, <1>3 DEF EngineInv

LEMMA ClearContradictionRecordsInv ==
  ASSUME EngineInv, ClearContradictionRecords, UNCHANGED <<config, settled>>
  PROVE  EngineInv'
<1>1. Inv'
  BY StutterInv DEF EngineInv, ClearContradictionRecords, tmsVars
<1>2. EngineTypeOK'
  BY <1>1 DEF EngineInv, EngineTypeOK, Inv, ClearContradictionRecords, memoryVars, callVars, loopVars, Bootstrap
<1>3. Delivered' /\ InStep'
  BY DEF EngineInv, Delivered, InStep, Enabled, ClearContradictionRecords, tmsVars, vars, memoryVars,
         callVars, loopVars
<1>. QED  BY <1>1, <1>2, <1>3 DEF EngineInv

LEMMA EngineStutterInv ==
  ASSUME EngineInv, UNCHANGED engineVars
  PROVE  EngineInv'
<1>1. Inv'
  BY StutterInv DEF EngineInv, engineVars, tmsVars
<1>2. EngineTypeOK'
  BY <1>1 DEF EngineInv, EngineTypeOK, Inv, engineVars, memoryVars, recordVars, callVars, loopVars, Bootstrap
<1>3. Delivered' /\ InStep'
  BY DEF EngineInv, Delivered, InStep, Enabled, engineVars, tmsVars, vars, memoryVars, callVars, loopVars
<1>. QED  BY <1>1, <1>2, <1>3 DEF EngineInv

LEMMA EngineNextInv ==
  ASSUME EngineInv, [EngineNext]_engineVars
  PROVE  EngineInv'
<1>1. CASE Internal
  <2>1. CASE \E i \in Instance : FireRaises(i)
    BY <1>1, <2>1, FireRaisesInv DEF Internal
  <2>2. CASE Steps /\ UNCHANGED settled
    <3>1. UNCHANGED <<config, settled>>
      BY <1>1, <2>2 DEF Internal
    <3>. QED  BY <2>2, <3>1, MatchInv, SkipBootstrapInv, FireInv, EndIterationInv, FinishBootstrapInv,
                 RetractOneInv, FinishRetractInv DEF Steps
  <2>3. CASE MatchRaises
    BY <1>1, <2>3, MatchRaisesInv DEF Internal
  <2>. QED  BY <1>1, <2>1, <2>2, <2>3 DEF Internal
<1>2. CASE Calls /\ UNCHANGED <<config, settled>>
  BY <1>2, StartAddInv, StartWarmupInv, StartRetractInv, CloseInv, ClearContradictionRecordsInv DEF Calls
<1>3. CASE UNCHANGED engineVars
  BY <1>3, EngineStutterInv
<1>. QED  BY <1>1, <1>2, <1>3 DEF EngineNext

\* Whatever rules, agenda order, exceptions and retractions, and in the middle of
\* every call: the truth maintenance tables the engine works on satisfy the support
\* invariant, so no justification dangles and no derived fact lacks one.
THEOREM TablesSoundInEngine ==
  EngineSpec => [](NoDanglingJustification /\ DerivedFactsJustified /\ GraphMirrorsJustifications)
<1>1. EngineInv /\ [EngineNext]_engineVars => EngineInv'
  BY EngineNextInv
<1>2. EngineInv => NoDanglingJustification /\ DerivedFactsJustified /\ GraphMirrorsJustifications
  BY DEF EngineInv, Inv
<1>. QED  BY EngineInitInv, <1>1, <1>2, PTL DEF EngineSpec

\* The engine's variables have their types in every reachable state.
THEOREM EngineTypeCorrect == EngineSpec => []EngineTypeOK
<1>1. EngineInv /\ [EngineNext]_engineVars => EngineInv'
  BY EngineNextInv
<1>2. EngineInv => EngineTypeOK
  BY DEF EngineInv
<1>. QED  BY EngineInitInv, <1>1, <1>2, PTL DEF EngineSpec

\* Nothing is matched or fired on a premise that has been retracted: eviction
\* reaches every stored match, even when calls ended in exceptions before.
THEOREM NothingFiresOnPhantoms == EngineSpec => []NoPhantomPremises
<1>1. EngineInv /\ [EngineNext]_engineVars => EngineInv'
  BY EngineNextInv
<1>2. EngineInv => NoPhantomPremises
  BY DEF EngineInv, Delivered, NoPhantomPremises
<1>. QED  BY EngineInitInv, <1>1, <1>2, PTL DEF EngineSpec

\* As long as no call raised, known_triples and working memory agree between calls.
THEOREM KnownStaysWorkingMemory == EngineSpec => []KnownIsWorkingMemory
<1>1. EngineInv /\ [EngineNext]_engineVars => EngineInv'
  BY EngineNextInv
<1>2. EngineInv => KnownIsWorkingMemory
  BY DEF EngineInv, InStep, KnownIsWorkingMemory, Idle
<1>. QED  BY EngineInitInv, <1>1, <1>2, PTL DEF EngineSpec

----------------------------------------------------------------------------
(* Derivation records.                                                     *)

Logged(t) == \E r \in log : r.triple = t /\ ~r.silent

LoggedInv ==
  /\ phase # "closed" => \A t \in iterationMaterialized : Logged(t)
  /\ MaterializedIsLogged

LEMMA LoggedNext ==
  ASSUME LoggedInv, [EngineNext]_engineVars
  PROVE  LoggedInv'
<1>1. CASE UNCHANGED log /\ (phase' # "closed" => phase # "closed")
            /\ iterationMaterialized' \subseteq iterationMaterialized
            /\ (phase' \in {"match", "fire"} =>
                  result' = {} \/ (/\ phase \in {"match", "fire"}
                                   /\ result' \subseteq result \cup iterationMaterialized))
  BY <1>1 DEF LoggedInv, MaterializedIsLogged, Logged
<1>2. ASSUME NEW i \in Instance, Fire(i) PROVE LoggedInv'
  <2>1. /\ phase = "fire" /\ phase' = "fire" /\ log \subseteq log' /\ result' = result
        /\ iterationMaterialized' = iterationMaterialized \cup SeenOf(i)
        /\ \A t \in SeenOf(i) :
             [instance |-> i, triple |-> t, silent |-> i \in Silent \/ bootstrapPhase] \in log'
    BY <1>2 DEF Fire, Activation, Scheduled
  <2>2. ASSUME NEW t \in SeenOf(i) PROVE Logged(t)'
    <3>1. ~(i \in Silent \/ bootstrapPhase)
      BY <2>2 DEF SeenOf
    <3>. QED  BY <2>1, <2>2, <3>1 DEF Logged
  <2>3. \A t : Logged(t) => Logged(t)'
    BY <2>1 DEF Logged
  <2>. QED  BY <2>1, <2>2, <2>3 DEF LoggedInv, MaterializedIsLogged, Logged
<1>3. CASE Close
  BY <1>3 DEF Close, LoggedInv, MaterializedIsLogged
<1>4. CASE \E S \in Inputs : StartAdd(S)
  BY <1>1, <1>4 DEF StartAdd, Idle, AddTriples, recordVars, loopVars
<1>5. CASE \E S \in Inputs : StartWarmup(S)
  BY <1>1, <1>5 DEF StartWarmup, Idle, recordVars, loopVars
<1>6. CASE \E S \in Inputs : StartRetract(S)
  BY <1>1, <1>6 DEF StartRetract, Idle, recordVars, loopVars
<1>7. CASE ClearContradictionRecords
  BY <1>1, <1>7 DEF ClearContradictionRecords, Idle, callVars, loopVars
<1>8. CASE Match
  BY <1>1, <1>8 DEF Match, NewMatches, recordVars
<1>9. CASE \E i \in Instance : SkipBootstrap(i)
  BY <1>1, <1>9 DEF SkipBootstrap, Scheduled, recordVars
<1>10. CASE EndIteration
  BY <1>1, <1>10 DEF EndIteration, recordVars
<1>11. CASE FinishBootstrap
  BY <1>1, <1>11 DEF FinishBootstrap, AddTriples, recordVars, loopVars
<1>12. CASE \E t \in Triple : RetractOne(t)
  BY <1>1, <1>12 DEF RetractOne, recordVars, loopVars
<1>13. CASE FinishRetract
  BY <1>1, <1>13 DEF FinishRetract, recordVars, loopVars
<1>14. CASE \E i \in Instance : FireRaises(i)
  BY <1>1, <1>14 DEF FireRaises, Raise, Scheduled
<1>15. CASE UNCHANGED engineVars
  BY <1>1, <1>15 DEF engineVars, recordVars, callVars, loopVars
<1>16. CASE MatchRaises
  BY <1>1, <1>16 DEF MatchRaises, Raise, recordVars
<1>. QED  BY <1>2, <1>3, <1>4, <1>5, <1>6, <1>7, <1>8, <1>9, <1>10, <1>11, <1>12, <1>13, <1>14, <1>15,
             <1>16 DEF EngineNext, Internal, Steps, Calls

\* Whatever an iteration or a call is about to report as newly visible has a record
\* that is not silent, for every mixture of silent, bootstrap and ordinary rules.
THEOREM MaterializedStaysLogged == EngineSpec => []MaterializedIsLogged
<1>1. EngineInit => LoggedInv
  BY DEF EngineInit, LoggedInv, MaterializedIsLogged
<1>2. LoggedInv => MaterializedIsLogged
  BY DEF LoggedInv
<1>. QED  BY <1>1, <1>2, LoggedNext, PTL DEF EngineSpec

----------------------------------------------------------------------------
(* Visibility.                                                             *)

\* A justification of a conclusion that callers are to see.
Visible(j) == j.instance \notin Silent /\ (bootstrapCompleted => ~ Premises(j) \subseteq Derivable({}))

\* What is visible is materialized, or noted for the end of the iteration; the
\* bootstrap itself sees nothing but axioms.
VisibleInv ==
  /\ bootstrapPhase =>
       bootstrapCompleted /\ phase \in {"match", "fire"} /\ facts \subseteq Derivable({})
  /\ settled => \A j \in justifications : Visible(j) =>
       \/ j.consequent \in materialized
       \/ phase = "fire" /\ j.consequent \in iterationMaterialized

LEMMA AxiomsClosed ==
  ASSUME NEW i \in Instance, bootstrapCompleted, Antecedents[i] \subseteq Derivable({})
  PROVE  Permitted(i) \subseteq Derivable({})
<1>1. Permitted(i) \subseteq Triple
  BY PermittedTriples
<1>. QED  BY <1>1 DEF Derivable, Active

LEMMA DerivableSame ==
  ASSUME bootstrapCompleted' = bootstrapCompleted
  PROVE  Derivable({})' = Derivable({}) /\ \A j : Visible(j)' <=> Visible(j)
<1>1. Derivable({})' = Derivable({})
  BY DEF Derivable, Active, Bootstrap, Permitted
<1>. QED  BY <1>1 DEF Visible, Premises

\* Steps that neither draw a conclusion nor take a visible one away.
LEMMA VisibleKept ==
  ASSUME VisibleInv, bootstrapCompleted' = bootstrapCompleted, justifications' \subseteq justifications,
         settled' => settled,
         \A j \in justifications' :
           \/ j.consequent \in materialized
           \/ phase = "fire" /\ j.consequent \in iterationMaterialized
           => \/ j.consequent \in materialized'
              \/ phase' = "fire" /\ j.consequent \in iterationMaterialized',
         bootstrapPhase' => bootstrapPhase /\ phase' \in {"match", "fire"} /\ facts' \subseteq facts
  PROVE  VisibleInv'
BY DerivableSame DEF VisibleInv

LEMMA FireVisible ==
  ASSUME EngineInv, VisibleInv, NEW i \in Instance, Fire(i), UNCHANGED <<config, settled>>
  PROVE  VisibleInv'
<1>1. /\ phase = "fire" /\ phase' = "fire" /\ Antecedents[i] \subseteq facts
      /\ facts' = facts \cup Permitted(i)
      /\ justifications' = justifications \cup {JustificationBy(i, t) : t \in Permitted(i)}
      /\ iterationMaterialized' = iterationMaterialized \cup SeenOf(i)
      /\ UNCHANGED <<materialized, bootstrapPhase, bootstrapCompleted, settled>>
  BY DEF Fire, Activation, Scheduled, RecordDerivation, memoryVars
<1>2. Derivable({})' = Derivable({}) /\ \A j : Visible(j)' <=> Visible(j)
  BY <1>1, DerivableSame
<1>3. bootstrapPhase' => bootstrapCompleted' /\ facts' \subseteq Derivable({})'
  BY <1>1, <1>2, AxiomsClosed DEF VisibleInv
<1>4. ASSUME NEW t \in Permitted(i), Visible(JustificationBy(i, t))
      PROVE  t \in materialized' \cup iterationMaterialized'
  <2>1. i \notin Silent
    BY <1>4 DEF Visible, JustificationBy
  <2>2. ~bootstrapPhase
    BY <1>1, <1>4 DEF Visible, JustificationBy, VisibleInv, Premises
  <2>. QED  BY <1>1, <1>4, <2>1, <2>2 DEF SeenOf
<1>5. ASSUME settled, NEW j \in justifications', Visible(j)
      PROVE  j.consequent \in materialized' \cup iterationMaterialized'
  <2>1. CASE j \in justifications
    BY <1>1, <1>5, <2>1 DEF VisibleInv
  <2>2. CASE j \notin justifications
    BY <1>1, <1>4, <1>5, <2>2 DEF JustificationBy
  <2>. QED  BY <2>1, <2>2
<1>. QED  BY <1>1, <1>2, <1>3, <1>5 DEF VisibleInv

\* Warmup begins on an empty engine, where nothing is justified.
LEMMA StartWarmupVisible ==
  ASSUME EngineInv, NEW S \in Inputs, StartWarmup(S), UNCHANGED <<config, settled>>
  PROVE  VisibleInv'
<1>1. /\ facts' = {} /\ justifications' = justifications /\ facts = {}
      /\ bootstrapCompleted' = TRUE /\ phase' = "match"
  BY DEF StartWarmup, tmsVars, vars
<1>2. justifications = {}
  BY <1>1 DEF EngineInv, Inv, NoDanglingJustification
<1>. QED  BY <1>1, <1>2 DEF VisibleInv

LEMMA VisibleNext ==
  ASSUME EngineInv, VisibleInv, [EngineNext]_engineVars
  PROVE  VisibleInv'
<1>1. CASE \E S \in Inputs : StartAdd(S) /\ UNCHANGED <<config, settled>>
  BY <1>1, VisibleKept DEF StartAdd, Idle, AddTriples, RegisterStated
<1>2. CASE \E S \in Inputs : StartWarmup(S) /\ UNCHANGED <<config, settled>>
  BY <1>2, StartWarmupVisible
<1>3. CASE \E S \in Inputs : StartRetract(S) /\ UNCHANGED <<config, settled>>
  BY <1>3, VisibleKept DEF StartRetract, Idle, tmsVars, vars, memoryVars, VisibleInv
<1>4. CASE Close /\ UNCHANGED <<config, settled>>
  BY <1>4, VisibleKept DEF Close, Clear, VisibleInv
<1>5. CASE ClearContradictionRecords /\ UNCHANGED <<config, settled>>
  BY <1>5, VisibleKept DEF ClearContradictionRecords, Idle, tmsVars, vars, memoryVars, callVars, VisibleInv
<1>6. CASE Match /\ UNCHANGED <<config, settled>>
  BY <1>6, VisibleKept DEF Match, NewMatches, tmsVars, vars
<1>7. CASE \E i \in Instance : SkipBootstrap(i) /\ UNCHANGED <<config, settled>>
  BY <1>7, VisibleKept DEF SkipBootstrap, Scheduled, tmsVars, vars, memoryVars
<1>8. CASE \E i \in Instance : Fire(i) /\ UNCHANGED <<config, settled>>
  BY <1>8, FireVisible
<1>9. CASE \E i \in Instance : FireRaises(i)
  BY <1>9 DEF FireRaises, Raise, VisibleInv
<1>10. CASE EndIteration /\ UNCHANGED <<config, settled>>
  BY <1>10, VisibleKept DEF EndIteration, tmsVars, vars
<1>11. CASE FinishBootstrap /\ UNCHANGED <<config, settled>>
  <2>1. /\ bootstrapPhase /\ ~bootstrapPhase' /\ bootstrapCompleted' = bootstrapCompleted
        /\ justifications' = justifications
    BY <1>11 DEF FinishBootstrap, AddTriples, RegisterStated
  <2>2. \A j \in justifications : Premises(j) \subseteq facts
    BY DEF EngineInv, Inv, NoDanglingJustification
  <2>3. \A j \in justifications : ~Visible(j)
    BY <2>1, <2>2 DEF VisibleInv, Visible
  <2>. QED  BY <2>1, <2>3, DerivableSame DEF VisibleInv
<1>12. CASE \E t \in Triple : RetractOne(t) /\ UNCHANGED <<config, settled>>
  <2>1. PICK t \in Triple : RetractOne(t)
    BY <1>12
  <2>2. justifications' \subseteq justifications /\ facts' \subseteq facts
    BY <2>1, RetractKeepsJustifications, RetractShrinks DEF EngineInv, RetractOne
  <2>. QED  BY <1>12, <2>1, <2>2, VisibleKept DEF RetractOne, memoryVars, VisibleInv
<1>13. CASE FinishRetract /\ UNCHANGED <<config, settled>>
  <2>1. \A j \in justifications : j.consequent \notin result
    BY <1>13 DEF FinishRetract, EngineInv, InStep, Inv, NoDanglingJustification
  <2>. QED  BY <1>13, <2>1, VisibleKept DEF FinishRetract, tmsVars, vars, VisibleInv
<1>14. CASE UNCHANGED engineVars
  BY <1>14, VisibleKept DEF engineVars, tmsVars, vars, memoryVars, callVars, loopVars, VisibleInv
<1>15. CASE MatchRaises
  BY <1>15 DEF MatchRaises, Raise, VisibleInv
<1>. QED  BY <1>1, <1>2, <1>3, <1>4, <1>5, <1>6, <1>7, <1>8, <1>9, <1>10, <1>11, <1>12, <1>13, <1>14,
             <1>15 DEF EngineNext, Internal, Steps, Calls

\* A conclusion that a rule which is not silent draws from source facts is visible
\* between calls, whichever rule or phase reached it first, and stays so through
\* retractions that leave it a justification.
THEOREM VisibleStayMaterialized == EngineSpec => []VisibleConclusionsMaterialized
<1>1. EngineInit => VisibleInv
  BY DEF EngineInit, Init, VisibleInv
<1>2. EngineInv /\ [EngineNext]_engineVars => EngineInv'
  BY EngineNextInv
<1>3. VisibleInv => VisibleConclusionsMaterialized
  BY DEF VisibleInv, Visible, VisibleConclusionsMaterialized, Idle
<1>. QED  BY EngineInitInv, <1>1, <1>2, <1>3, VisibleNext, PTL DEF EngineSpec

-----------------------------------------------------------------------------
(* The engine implements DeductiveDatabase, for every rule set without     *)
(* circular support, every agenda order, and every place at which a call   *)
(* may raise.                                                              *)

\* All that an instance concludes is on record.
Recorded(i) == \A t \in Permitted(i) : JustificationBy(i, t) \in justifications

\* Only active instances conclude, and only what the term policies let through; what is
\* stated is known, also after an exception.
Bounds ==
  /\ \A j \in justifications : j.instance \in Active /\ j.consequent \in Permitted(j.instance)
  /\ stated \subseteq known
  /\ bootstrapPhase => bootstrapCompleted

\* As long as no call raised: how far saturation has got in each phase.  A match that is
\* stored was delivered, and what it concludes is recorded or scheduled; what is not
\* stored is found by the next pass.
Progress ==
  settled =>
    /\ phase \in {"idle", "retract"} => \A i \in Active : Enabled(i) => Recorded(i)
    /\ phase = "match" =>
         /\ \A i \in matched : Recorded(i)
         /\ ~bootstrapPhase => \A i \in Active \cap Bootstrap : Recorded(i)
    /\ phase = "fire" =>
         /\ \A i \in Instance \ Bootstrap : Antecedents[i] \subseteq known => i \in matched
         /\ \A i \in matched : i \in agenda \/ Recorded(i)
         /\ \A i \in Active \cap Bootstrap : Recorded(i) \/ (bootstrapPhase /\ i \in agenda)

ClosureInv == EngineInv /\ Bounds /\ Progress /\ settled \in BOOLEAN

----------------------------------------------------------------------------
(* Invariance.                                                             *)

LEMMA ClosureInit == EngineInit => ClosureInv
<1>. SUFFICES ASSUME EngineInit PROVE ClosureInv
  OBVIOUS
<1>1. Bounds
  BY DEF EngineInit, Init, Bounds
<1>2. Progress
  <2>1. ASSUME NEW i \in Active, Enabled(i) PROVE FALSE
    BY <2>1 DEF EngineInit, Init, Active, Bootstrap, Enabled
  <2>. QED  BY <2>1 DEF EngineInit, Progress
<1>. QED  BY <1>1, <1>2, EngineInitInv DEF ClosureInv, EngineInit

\* What is recorded depends on the justifications alone.
LEMMA RecordedSame ==
  ASSUME justifications' = justifications, NEW i
  PROVE  Recorded(i)' <=> Recorded(i)
BY DEF Recorded, Permitted, JustificationBy

\* At the end of a saturation all that is enabled has been recorded.
LEMMA Saturated ==
  ASSUME ClosureInv, settled, phase = "fire", agenda = {}, iterationNew = {}
  PROVE  \A i \in Active : Enabled(i) => Recorded(i)
<1>1. known = facts
  BY DEF ClosureInv, EngineInv, InStep
<1>2. ASSUME NEW i \in Active, Enabled(i), i \in Bootstrap PROVE Recorded(i)
  BY <1>2 DEF ClosureInv, Progress
<1>3. ASSUME NEW i \in Active, Enabled(i), i \notin Bootstrap PROVE Recorded(i)
  BY <1>1, <1>3 DEF ClosureInv, Progress, Enabled, Active
<1>. QED  BY <1>2, <1>3

LEMMA AddTriplesClosure ==
  ASSUME ClosureInv, NEW S \in SUBSET Triple, AddTriples(S),
         settled => \A i \in Active : Enabled(i) => Recorded(i),
         phase \in {"idle", "fire"}, agenda = {},
         UNCHANGED <<matched, bootstrapCompleted, settled>>
  PROVE  Bounds' /\ Progress'
<1>. DEFINE fresh == IF PolicyRaises /\ S \cap Malformed # {} THEN {} ELSE (S \ Malformed) \ known
<1>1. /\ stated' = stated \cup fresh /\ facts' = facts \cup fresh /\ known' = known \cup fresh
      /\ justifications' = justifications
      /\ phase' = IF fresh = {} THEN "idle" ELSE "match"
      /\ bootstrapPhase' = FALSE
  BY DEF AddTriples, RegisterStated
<1>. HIDE DEF fresh
<1>2. Active' = Active /\ \A i : Recorded(i)' <=> Recorded(i)
  BY <1>1, RecordedSame DEF Active, Bootstrap
<1>3. Bounds'
  BY <1>1, <1>2 DEF ClosureInv, Bounds, Permitted
<1>4. \A i \in matched : Enabled(i) /\ i \in Active
  BY DEF ClosureInv, EngineInv, Delivered, EngineTypeOK, Active
<1>5. \A i \in Active \cap Bootstrap : Enabled(i)
  BY DEF Enabled, Bootstrap
<1>6. fresh = {} => \A i : Enabled(i)' <=> Enabled(i)
  BY <1>1 DEF Enabled
<1>7. Progress'
  BY <1>1, <1>2, <1>4, <1>5, <1>6 DEF Progress, Bootstrap
<1>. QED  BY <1>3, <1>7

LEMMA SteadyClosure ==
  ASSUME ClosureInv, justifications' = justifications, stated' = stated, stated' \subseteq known',
         bootstrapPhase' => bootstrapCompleted', bootstrapCompleted => bootstrapCompleted'
  PROVE  /\ Bounds' /\ Active \subseteq Active' /\ \A i : Recorded(i)' <=> Recorded(i)
<1>1. Active \subseteq Active' /\ \A i : Recorded(i)' <=> Recorded(i)
  BY RecordedSame DEF Active, Bootstrap
<1>. QED  BY <1>1 DEF ClosureInv, Bounds, Permitted

LEMMA StartAddClosure ==
  ASSUME ClosureInv, NEW S \in Inputs, StartAdd(S), UNCHANGED <<config, settled>>
  PROVE  Bounds' /\ Progress'
<1>1. /\ S \in SUBSET Triple /\ AddTriples(S) /\ phase = "idle" /\ agenda = {}
      /\ UNCHANGED <<matched, bootstrapCompleted, settled>>
  BY EngineAssumption DEF StartAdd, Idle, ClosureInv, EngineInv, Delivered
<1>2. settled => \A i \in Active : Enabled(i) => Recorded(i)
  BY <1>1 DEF ClosureInv, Progress
<1>. QED  BY <1>1, <1>2, AddTriplesClosure

LEMMA StartWarmupClosure ==
  ASSUME ClosureInv, NEW S \in Inputs, StartWarmup(S), UNCHANGED <<config, settled>>
  PROVE  Bounds' /\ Progress'
<1>1. /\ phase = "idle" /\ facts = {} /\ bootstrapCompleted' = TRUE /\ bootstrapPhase' = TRUE
      /\ phase' = "match" /\ ~bootstrapCompleted
      /\ UNCHANGED <<facts, stated, justifications, known, matched>>
  BY DEF StartWarmup, Idle, tmsVars, vars, memoryVars
<1>2. Bounds' /\ \A i : Recorded(i)' <=> Recorded(i)
  BY <1>1, SteadyClosure DEF ClosureInv, Bounds
<1>3. ASSUME settled, NEW i \in matched PROVE Recorded(i)
  <2>1. i \in Active /\ Enabled(i)
    BY <1>1 DEF ClosureInv, EngineInv, EngineTypeOK, Delivered, Active
  <2>. QED  BY <1>1, <1>3, <2>1 DEF ClosureInv, Progress
<1>. QED  BY <1>1, <1>2, <1>3 DEF Progress

LEMMA MatchClosure ==
  ASSUME ClosureInv, Match, UNCHANGED <<config, settled>>
  PROVE  Bounds' /\ Progress'
<1>1. /\ phase = "match" /\ phase' = "fire"
      /\ matched' = matched \cup {i \in Instance \ Bootstrap : Enabled(i)}
      /\ agenda' = ({i \in Instance \ Bootstrap : Enabled(i)} \ matched) \cup Bootstrap
      /\ UNCHANGED <<facts, stated, justifications, known, bootstrapPhase, bootstrapCompleted>>
  BY DEF Match, NewMatches, tmsVars, vars
<1>2. Bounds' /\ (\A i : Recorded(i)' <=> Recorded(i)) /\ Active' = Active /\ Bootstrap' = Bootstrap
  BY <1>1, SteadyClosure DEF ClosureInv, Bounds, Active, Bootstrap
<1>3. settled => known = facts
  BY <1>1 DEF ClosureInv, EngineInv, InStep
<1>4. ASSUME settled, NEW i \in Instance \ Bootstrap, Antecedents[i] \subseteq known'
      PROVE  i \in matched'
  BY <1>1, <1>3, <1>4 DEF Enabled
<1>5. ASSUME settled, NEW i \in matched' PROVE i \in agenda' \/ Recorded(i)
  BY <1>1, <1>5 DEF ClosureInv, Progress
<1>6. ASSUME settled, NEW i \in Active \cap Bootstrap
      PROVE  Recorded(i) \/ (bootstrapPhase' /\ i \in agenda')
  BY <1>1, <1>6 DEF ClosureInv, Progress
<1>. QED  BY <1>1, <1>2, <1>4, <1>5, <1>6 DEF Progress

\* A call that raises may leave matches that nothing was concluded from.
LEMMA MatchRaisesClosure ==
  ASSUME ClosureInv, MatchRaises, UNCHANGED config
  PROVE  Bounds' /\ Progress'
<1>1. /\ bootstrapPhase' = FALSE /\ settled' = FALSE
      /\ UNCHANGED <<facts, stated, justifications, known, bootstrapCompleted>>
  BY DEF MatchRaises, Raise, tmsVars, vars
<1>2. Bounds'
  BY <1>1, SteadyClosure DEF ClosureInv, Bounds
<1>. QED  BY <1>1, <1>2 DEF Progress

LEMMA SkipClosure ==
  ASSUME ClosureInv, NEW i \in Instance, SkipBootstrap(i), UNCHANGED <<config, settled>>
  PROVE  Bounds' /\ Progress'
<1>1. /\ phase = "fire" /\ phase' = "fire" /\ agenda' = agenda \ {i}
      /\ i \in Bootstrap /\ ~bootstrapPhase
      /\ UNCHANGED <<facts, stated, justifications, known, matched, bootstrapPhase, bootstrapCompleted>>
  BY DEF SkipBootstrap, Scheduled, Skipped, tmsVars, vars, memoryVars
<1>2. Bounds' /\ (\A k : Recorded(k)' <=> Recorded(k)) /\ Active' = Active /\ Bootstrap' = Bootstrap
  BY <1>1, SteadyClosure DEF ClosureInv, Bounds, Active, Bootstrap
<1>3. i \notin matched
  BY <1>1 DEF ClosureInv, EngineInv, EngineTypeOK
<1>. QED  BY <1>1, <1>2, <1>3 DEF ClosureInv, Progress

\* What one activation records.
LEMMA FireRecords ==
  ASSUME ClosureInv, NEW i \in Instance, NEW P \in SUBSET Permitted(i), RecordDerivation(i, P),
         Scheduled(i), ~Skipped(i),
         UNCHANGED <<known, bootstrapCompleted>>, bootstrapPhase' => bootstrapPhase
  PROVE  /\ Bounds' /\ Active' = Active
         /\ \A k : Recorded(k) => Recorded(k)'
         /\ P = Permitted(i) => Recorded(i)'
<1>1. /\ justifications' = justifications \cup {JustificationBy(i, t) : t \in P}
      /\ stated' = stated
  BY DEF RecordDerivation
<1>2. i \in Active /\ Active' = Active
  BY DEF Active, Bootstrap, Skipped, ClosureInv, Bounds
<1>3. ASSUME NEW j \in justifications' PROVE j.instance \in Active /\ j.consequent \in Permitted(j.instance)
  BY <1>1, <1>2 DEF ClosureInv, Bounds, JustificationBy
<1>4. Bounds'
  BY <1>1, <1>2, <1>3 DEF ClosureInv, Bounds, Permitted
<1>5. \A k : Recorded(k) => Recorded(k)'
  BY <1>1 DEF Recorded, Permitted, JustificationBy
<1>6. P = Permitted(i) => Recorded(i)'
  BY <1>1 DEF Recorded, Permitted, JustificationBy
<1>. QED  BY <1>2, <1>4, <1>5, <1>6

LEMMA FireClosure ==
  ASSUME ClosureInv, NEW i \in Instance, Fire(i), UNCHANGED <<config, settled>>
  PROVE  Bounds' /\ Progress'
<1>1. /\ Scheduled(i) /\ ~Skipped(i) /\ RecordDerivation(i, Permitted(i))
      /\ agenda' = agenda \ {i} /\ phase = "fire" /\ phase' = "fire"
      /\ UNCHANGED <<known, matched, bootstrapCompleted, bootstrapPhase>>
  BY DEF Fire, Activation, memoryVars, Scheduled
<1>2. /\ Bounds' /\ Active' = Active /\ Bootstrap' = Bootstrap
      /\ \A k : Recorded(k) => Recorded(k)'
      /\ Recorded(i)'
  BY <1>1, FireRecords DEF Bootstrap
<1>. QED  BY <1>1, <1>2 DEF ClosureInv, Progress

LEMMA FireRaisesClosure ==
  ASSUME ClosureInv, NEW i \in Instance, FireRaises(i), UNCHANGED config
  PROVE  Bounds' /\ Progress'
<1>1. PICK P \in SUBSET Permitted(i) : RecordDerivation(i, P)
  BY DEF FireRaises, Raise
<1>2. /\ Scheduled(i) /\ ~Skipped(i) /\ bootstrapPhase' = FALSE /\ settled' = FALSE
      /\ UNCHANGED <<known, bootstrapCompleted>>
  BY DEF FireRaises, Raise, memoryVars
<1>. QED  BY <1>1, <1>2, FireRecords DEF Progress

LEMMA EndIterationClosure ==
  ASSUME ClosureInv, EndIteration, UNCHANGED <<config, settled>>
  PROVE  Bounds' /\ Progress'
<1>1. /\ phase = "fire" /\ agenda = {} /\ known' = known \cup iterationNew
      /\ phase' = IF iterationNew # {} THEN "match" ELSE "idle"
      /\ UNCHANGED <<facts, stated, justifications, matched, bootstrapPhase, bootstrapCompleted, settled>>
  BY DEF EndIteration, tmsVars, vars
<1>2. Bounds' /\ (\A k : Recorded(k)' <=> Recorded(k)) /\ Active' = Active /\ Bootstrap' = Bootstrap
      /\ \A k : Enabled(k)' <=> Enabled(k)
  BY <1>1, SteadyClosure DEF ClosureInv, Bounds, Active, Bootstrap, Enabled
<1>3. CASE iterationNew # {}
  BY <1>1, <1>2, <1>3 DEF ClosureInv, Progress
<1>4. CASE iterationNew = {}
  BY <1>1, <1>2, <1>4, Saturated DEF Progress
<1>. QED  BY <1>3, <1>4

LEMMA FinishBootstrapClosure ==
  ASSUME ClosureInv, FinishBootstrap, UNCHANGED <<config, settled>>
  PROVE  Bounds' /\ Progress'
<1>1. /\ existing \in SUBSET Triple /\ AddTriples(existing)
      /\ phase = "fire" /\ agenda = {} /\ iterationNew = {}
      /\ UNCHANGED <<matched, bootstrapCompleted, settled>>
  BY DEF FinishBootstrap, ClosureInv, EngineInv, EngineTypeOK
<1>2. settled => \A i \in Active : Enabled(i) => Recorded(i)
  BY <1>1, Saturated
<1>. QED  BY <1>1, <1>2, AddTriplesClosure

LEMMA StartRetractClosure ==
  ASSUME ClosureInv, NEW S \in Inputs, StartRetract(S), UNCHANGED <<config, settled>>
  PROVE  Bounds' /\ Progress'
<1>1. /\ phase = "idle" /\ phase' = "retract"
      /\ UNCHANGED <<facts, stated, justifications, known, matched, bootstrapPhase, bootstrapCompleted, settled>>
  BY DEF StartRetract, Idle, tmsVars, vars, memoryVars
<1>2. Bounds' /\ (\A k : Recorded(k)' <=> Recorded(k)) /\ Active' = Active
      /\ \A k : Enabled(k)' <=> Enabled(k)
  BY <1>1, SteadyClosure DEF ClosureInv, Bounds, Active, Bootstrap, Enabled
<1>. QED  BY <1>1, <1>2 DEF ClosureInv, Progress

LEMMA RetractOneClosure ==
  ASSUME ClosureInv, NEW t \in Triple, RetractOne(t), UNCHANGED <<config, settled>>
  PROVE  Bounds' /\ Progress'
<1>1. /\ RetractTriple(t) /\ phase = "retract" /\ phase' = "retract"
      /\ UNCHANGED <<known, matched, bootstrapPhase, bootstrapCompleted, settled>>
  BY DEF RetractOne, memoryVars
<1>2. /\ justifications' \subseteq justifications
      /\ \A j \in justifications : Premises(j) \subseteq facts' => j \in justifications'
      /\ stated' = stated \ {t} /\ facts' \subseteq facts
  BY <1>1, RetractKeepsJustifications, RetractUnstates, RetractShrinks DEF ClosureInv, EngineInv
<1>3. Active' = Active
  BY <1>1 DEF Active, Bootstrap
<1>4. Bounds'
  BY <1>1, <1>2, <1>3 DEF ClosureInv, Bounds, Permitted
<1>5. ASSUME settled, NEW i \in Active, Enabled(i)' PROVE Recorded(i)'
  <2>1. Antecedents[i] \subseteq facts' /\ Enabled(i)
    BY <1>2, <1>5 DEF Enabled
  <2>2. Recorded(i)
    BY <1>1, <1>5, <2>1 DEF ClosureInv, Progress
  <2>. QED  BY <1>2, <2>1, <2>2 DEF Recorded, Permitted, JustificationBy, Premises
<1>6. Progress'
  BY <1>1, <1>3, <1>5 DEF Progress
<1>. QED  BY <1>4, <1>6

LEMMA FinishRetractClosure ==
  ASSUME ClosureInv, FinishRetract, UNCHANGED <<config, settled>>
  PROVE  Bounds' /\ Progress'
<1>1. /\ phase = "retract" /\ phase' = "idle" /\ known' = known \ result
      /\ UNCHANGED <<facts, stated, justifications, bootstrapPhase, bootstrapCompleted, settled>>
  BY DEF FinishRetract, tmsVars, vars
<1>2. stated' \subseteq known'
  BY <1>1 DEF ClosureInv, Bounds, EngineInv, InStep, Inv, TypeOK
<1>3. Bounds' /\ (\A k : Recorded(k)' <=> Recorded(k)) /\ Active' = Active
      /\ \A k : Enabled(k)' <=> Enabled(k)
  BY <1>1, <1>2, SteadyClosure DEF ClosureInv, Bounds, Active, Bootstrap, Enabled
<1>. QED  BY <1>1, <1>3 DEF ClosureInv, Progress

LEMMA CloseClosure ==
  ASSUME ClosureInv, Close, UNCHANGED <<config, settled>>
  PROVE  Bounds' /\ Progress'
<1>1. /\ justifications' = {} /\ stated' = {} /\ known' = {} /\ phase' = "closed"
      /\ UNCHANGED <<bootstrapPhase, bootstrapCompleted>>
  BY DEF Close, Clear
<1>. QED  BY <1>1 DEF ClosureInv, Bounds, Progress

LEMMA SameClosure ==
  ASSUME ClosureInv, UNCHANGED <<facts, stated, justifications, known, matched, agenda, phase,
                                 bootstrapPhase, bootstrapCompleted, settled>>
  PROVE  Bounds' /\ Progress'
<1>1. Bounds' /\ (\A k : Recorded(k)' <=> Recorded(k)) /\ Active' = Active
      /\ \A k : Enabled(k)' <=> Enabled(k)
  BY SteadyClosure DEF ClosureInv, Bounds, Active, Bootstrap, Enabled
<1>. QED  BY <1>1 DEF ClosureInv, Progress, Bootstrap

LEMMA ClosureNext ==
  ASSUME ClosureInv, [EngineNext]_engineVars
  PROVE  ClosureInv'
<1>1. EngineInv' /\ settled' \in BOOLEAN
  BY EngineNextInv DEF ClosureInv, EngineNext, Internal, FireRaises, MatchRaises, Raise, engineVars
<1>2. CASE Internal
  <2>1. CASE \E i \in Instance : FireRaises(i)
    BY <1>1, <1>2, <2>1, FireRaisesClosure DEF Internal, ClosureInv
  <2>2. CASE Steps /\ UNCHANGED settled
    <3>1. UNCHANGED <<config, settled>>
      BY <1>2, <2>2 DEF Internal
    <3>2. Bounds' /\ Progress'
      BY <2>2, <3>1, MatchClosure, SkipClosure, FireClosure, EndIterationClosure, FinishBootstrapClosure,
         RetractOneClosure, FinishRetractClosure DEF Steps
    <3>. QED  BY <1>1, <3>2 DEF ClosureInv
  <2>3. CASE MatchRaises
    BY <1>1, <1>2, <2>3, MatchRaisesClosure DEF Internal, ClosureInv
  <2>. QED  BY <1>2, <2>1, <2>2, <2>3 DEF Internal
<1>3. CASE Calls /\ UNCHANGED <<config, settled>>
  <2>1. CASE ClearContradictionRecords
    BY <1>1, <1>3, <2>1, SameClosure
       DEF ClearContradictionRecords, tmsVars, vars, memoryVars, callVars, loopVars, ClosureInv
  <2>2. CASE ~ClearContradictionRecords
    <3>1. Bounds' /\ Progress'
      BY <1>3, <2>2, StartAddClosure, StartWarmupClosure, StartRetractClosure, CloseClosure DEF Calls
    <3>. QED  BY <1>1, <3>1 DEF ClosureInv
  <2>. QED  BY <2>1, <2>2
<1>4. CASE UNCHANGED engineVars
  BY <1>1, <1>4, SameClosure DEF engineVars, tmsVars, vars, memoryVars, callVars, loopVars, ClosureInv
<1>. QED  BY <1>2, <1>3, <1>4 DEF EngineNext

----------------------------------------------------------------------------
(* What is seen at each moment is a view of what is stated.                *)

Seen == IF phase \in {"idle", "closed"} THEN facts ELSE Derivable(stated)

SeenIsView == phase # "closed" => Seen \in DB!Views(stated, bootstrapCompleted, settled)

LEMMA DerivableIsClosure ==
  ASSUME NEW B PROVE Derivable(B) = DB!Closure(B, bootstrapCompleted)
<1>1. ASSUME NEW S
      PROVE  DB!Closed(S, bootstrapCompleted) <=>
               \A i \in Active : Antecedents[i] \subseteq S => Permitted(i) \subseteq S
  BY DEF DB!Closed, Active, Bootstrap
<1>. QED  BY <1>1 DEF Derivable, DB!Closure

LEMMA DerivableGrows ==
  ASSUME NEW B, B \subseteq Triple PROVE B \subseteq Derivable(B) /\ Derivable(B) \subseteq Triple
BY DEF Derivable

\* The justifications on record conclude nothing but what is derivable.
LEMMA FactsDerivable ==
  ASSUME NEW Level \in [Triple -> Nat],
         \A i \in Instance : \A p \in Antecedents[i], q \in Conclusions[i] : Level[p] < Level[q],
         ClosureInv
  PROVE  facts \subseteq Derivable(stated)
<1>1. facts \subseteq Grounded
  BY InvGrounded DEF ClosureInv, EngineInv, EveryFactGrounded
<1>2. stated \subseteq Triple
  BY DEF ClosureInv, EngineInv, Inv, TypeOK
<1>3. ASSUME NEW S \in SUBSET Triple, stated \subseteq S,
             \A i \in Active : Antecedents[i] \subseteq S => Permitted(i) \subseteq S
      PROVE  Grounded \subseteq S
  <2>1. \A j \in justifications : Premises(j) \subseteq S => j.consequent \in S
    BY <1>3 DEF ClosureInv, Bounds, Premises
  <2>. QED  BY <1>3, <2>1 DEF Grounded, GroundedIn
<1>4. facts \subseteq Triple
  BY DEF ClosureInv, EngineInv, Inv, TypeOK
<1>. QED  BY <1>1, <1>2, <1>3, <1>4 DEF Derivable

\* Once all that is enabled has been recorded, working memory is closed.
LEMMA DerivableReached ==
  ASSUME ClosureInv, \A i \in Active : Enabled(i) => Recorded(i)
  PROVE  Derivable(stated) \subseteq facts
<1>1. stated \subseteq facts /\ facts \subseteq Triple
  BY DEF ClosureInv, EngineInv, Inv, TypeOK
<1>2. ASSUME NEW i \in Active, Antecedents[i] \subseteq facts PROVE Permitted(i) \subseteq facts
  BY <1>2 DEF Enabled, Recorded, JustificationBy, ClosureInv, EngineInv, Inv, NoDanglingJustification
<1>3. facts = stated \cup (facts \ stated) /\ facts \ stated \in SUBSET (Triple \ stated)
  BY <1>1
<1>4. facts \in {S \in {stated \cup R : R \in SUBSET (Triple \ stated)} :
                   \A i \in Active : Antecedents[i] \subseteq S => Permitted(i) \subseteq S}
  BY <1>2, <1>3
<1>. QED  BY <1>4 DEF Derivable

LEMMA ClosureGivesView ==
  ASSUME NEW Level \in [Triple -> Nat],
         \A i \in Instance : \A p \in Antecedents[i], q \in Conclusions[i] : Level[p] < Level[q],
         ClosureInv
  PROVE  SeenIsView
<1>. SUFFICES ASSUME phase # "closed" PROVE Seen \in DB!Views(stated, bootstrapCompleted, settled)
  BY DEF SeenIsView
<1>1. stated \subseteq facts /\ facts \subseteq Triple
  BY DEF ClosureInv, EngineInv, Inv, TypeOK
<1>2. facts \subseteq Derivable(stated)
  BY FactsDerivable
<1>3. settled => Seen = Derivable(stated)
  BY <1>2, DerivableReached DEF Seen, ClosureInv, Progress
<1>4. stated \subseteq Seen /\ Seen \subseteq Derivable(stated)
  BY <1>1, <1>2, DerivableGrows DEF Seen
<1>5. Seen = stated \cup (Seen \ stated) /\ Seen \ stated \in SUBSET (Derivable(stated) \ stated)
  BY <1>4
<1>6. Seen \in {stated \cup V : V \in SUBSET (Derivable(stated) \ stated)}
  BY <1>5
<1>. QED  BY <1>3, <1>6, DerivableIsClosure DEF DB!Views

----------------------------------------------------------------------------
(* Step simulation.                                                        *)

LEMMA ViewsNext ==
  DB!Views(stated, bootstrapCompleted, settled)' = DB!Views(stated', bootstrapCompleted', settled')
BY DEF DB!Views, DB!Closure, DB!Closed, Permitted

\* A step that changes neither the base nor the axioms is a stutter as long as no
\* call raised, and a failure otherwise.
LEMMA SameBase ==
  ASSUME SeenIsView, SeenIsView', stated' = stated, bootstrapCompleted' = bootstrapCompleted,
         bootstrapCompleted \in BOOLEAN, settled \in BOOLEAN,
         settled' = settled \/ settled' = FALSE, phase # "closed", phase' # "closed"
  PROVE  [DB!DBNext]_(DB!dbVars)
<1>1. Seen' \in DB!Views(stated, bootstrapCompleted, settled')
  BY ViewsNext DEF SeenIsView
<1>2. CASE settled'
  <2>1. Seen' = Seen /\ settled' = settled
    BY <1>1, <1>2 DEF SeenIsView, DB!Views
  <2>. QED  BY <2>1 DEF Seen, DB!dbVars
<1>3. CASE ~settled'
  <2>1. settled' = FALSE /\ UNCHANGED (bootstrapCompleted /\ phase # "closed")
    BY <1>3
  <2>2. (bootstrapCompleted /\ phase # "closed") = bootstrapCompleted
    OBVIOUS
  <2>3. Seen' \in DB!Views(stated, bootstrapCompleted /\ phase # "closed", FALSE)
    BY <1>1, <2>1, <2>2
  <2>4. DB!Fail
    BY <2>1, <2>3 DEF Seen, DB!Fail
  <2>. QED  BY <2>4 DEF DB!DBNext
<1>. QED  BY <1>2, <1>3

LEMMA AddInserts ==
  ASSUME SeenIsView, SeenIsView', ClosureInv, NEW S \in SUBSET Triple, AddTriples(S),
         settled => Seen \subseteq known,
         phase \in {"idle", "fire"}, UNCHANGED <<bootstrapCompleted, settled>>
  PROVE  [DB!DBNext]_(DB!dbVars)
<1>. DEFINE fresh == IF PolicyRaises /\ S \cap Malformed # {} THEN {} ELSE (S \ Malformed) \ known
<1>1. /\ stated' = stated \cup fresh /\ fresh \in SUBSET Triple /\ fresh \cap known = {}
      /\ phase' \in {"idle", "match"}
  BY DEF AddTriples, RegisterStated
<1>. HIDE DEF fresh
<1>2. /\ stated \subseteq known /\ stated \subseteq Triple
      /\ settled \in BOOLEAN /\ bootstrapCompleted \in BOOLEAN
  BY DEF ClosureInv, Bounds, EngineInv, EngineTypeOK, Inv, TypeOK
<1>3. CASE fresh = {}
  BY <1>1, <1>2, <1>3, SameBase
<1>4. CASE fresh # {}
  <2>1. fresh \in (SUBSET (Triple \ stated)) \ {{}} /\ (settled => fresh \cap Seen = {})
    BY <1>1, <1>2, <1>4
  <2>2. /\ (bootstrapCompleted /\ phase # "closed") = bootstrapCompleted
        /\ UNCHANGED (bootstrapCompleted /\ phase # "closed")
    BY <1>1, <1>2
  <2>3. Seen' \in DB!Views(stated', bootstrapCompleted, settled)
    BY <1>1, ViewsNext DEF SeenIsView
  <2>4. Seen' \in DB!Views(stated', bootstrapCompleted /\ phase # "closed", settled)
    BY <2>2, <2>3
  <2>5. DB!Insert(fresh)
    BY <1>1, <2>1, <2>2, <2>4 DEF DB!Insert, Seen
  <2>. QED  BY <2>1, <2>5 DEF DB!DBNext
<1>. QED  BY <1>3, <1>4

LEMMA RetractDeletes ==
  ASSUME SeenIsView, SeenIsView', ClosureInv, NEW t \in Triple, RetractOne(t), UNCHANGED settled
  PROVE  [DB!DBNext]_(DB!dbVars)
<1>1. /\ stated' = stated \ {t} /\ phase = "retract" /\ phase' = "retract" /\ UNCHANGED bootstrapCompleted
      /\ settled \in BOOLEAN /\ bootstrapCompleted \in BOOLEAN
  BY RetractUnstates DEF RetractOne, ClosureInv, EngineInv, EngineTypeOK
<1>2. CASE t \notin stated
  <2>1. stated' = stated
    BY <1>1, <1>2
  <2>. QED  BY <1>1, <2>1, SameBase
<1>3. CASE t \in stated
  <2>1. /\ (bootstrapCompleted /\ phase # "closed") = bootstrapCompleted
        /\ UNCHANGED (bootstrapCompleted /\ phase # "closed")
    BY <1>1
  <2>2. Seen' \in DB!Views(stated', bootstrapCompleted, settled)
    BY <1>1, ViewsNext DEF SeenIsView
  <2>3. Seen' \in DB!Views(stated', bootstrapCompleted /\ phase # "closed", settled)
    BY <2>1, <2>2
  <2>4. DB!Delete(t)
    BY <1>1, <2>1, <2>3 DEF DB!Delete, Seen
  <2>. QED  BY <1>3, <2>4 DEF DB!DBNext
<1>. QED  BY <1>2, <1>3

LEMMA WarmupBoots ==
  ASSUME SeenIsView', NEW S \in Inputs, StartWarmup(S), UNCHANGED settled
  PROVE  DB!Boot
<1>1. /\ ~bootstrapCompleted /\ bootstrapCompleted' = TRUE /\ UNCHANGED stated
      /\ phase = "idle" /\ phase' = "match"
  BY DEF StartWarmup, Idle, tmsVars, vars
<1>2. Seen' \in DB!Views(stated, TRUE, settled)
  BY <1>1, ViewsNext DEF SeenIsView
<1>. QED  BY <1>1, <1>2 DEF DB!Boot, Seen

LEMMA CloseDiscards == Close /\ UNCHANGED settled => DB!Discard
BY DEF Close, Clear, DB!Discard

\* What every other step leaves alone.
Quiet ==
  /\ stated' = stated /\ bootstrapCompleted' = bootstrapCompleted
  /\ settled' = settled \/ settled' = FALSE
  /\ phase # "closed" /\ phase' # "closed"

LEMMA QuietSimulates ==
  ASSUME SeenIsView, SeenIsView', ClosureInv, Quiet
  PROVE  [DB!DBNext]_(DB!dbVars)
BY SameBase DEF Quiet, ClosureInv, EngineInv, EngineTypeOK

LEMMA InternalSimulates ==
  ASSUME SeenIsView, SeenIsView', ClosureInv, Internal
  PROVE  [DB!DBNext]_(DB!dbVars)
<1>1. ASSUME NEW i \in Instance, FireRaises(i) PROVE Quiet
  BY <1>1 DEF FireRaises, Raise, Scheduled, RecordDerivation, Quiet
<1>2. CASE Match /\ UNCHANGED settled
  BY <1>2, QuietSimulates DEF Match, NewMatches, Quiet, tmsVars, vars
<1>3. ASSUME NEW i \in Instance, SkipBootstrap(i), UNCHANGED settled PROVE Quiet
  BY <1>3 DEF SkipBootstrap, Scheduled, Quiet, tmsVars, vars
<1>4. ASSUME NEW i \in Instance, Fire(i), UNCHANGED settled PROVE Quiet
  BY <1>4 DEF Fire, Activation, Scheduled, RecordDerivation, Quiet
<1>5. CASE EndIteration /\ UNCHANGED settled
  BY <1>5, QuietSimulates DEF EndIteration, Quiet, tmsVars, vars
<1>6. CASE FinishRetract /\ UNCHANGED settled
  BY <1>6, QuietSimulates DEF FinishRetract, Quiet, tmsVars, vars
<1>7. CASE FinishBootstrap /\ UNCHANGED settled
  <2>1. /\ existing \in SUBSET Triple /\ AddTriples(existing) /\ UNCHANGED <<bootstrapCompleted, settled>>
        /\ phase = "fire" /\ agenda = {} /\ iterationNew = {}
    BY <1>7 DEF FinishBootstrap, ClosureInv, EngineInv, EngineTypeOK
  <2>2. ASSUME settled PROVE Seen \subseteq known
    <3>1. known = facts /\ Seen = Derivable(stated)
      BY <2>1, <2>2 DEF ClosureInv, EngineInv, InStep, Seen
    <3>. QED  BY <2>1, <2>2, <3>1, Saturated, DerivableReached
  <2>. QED  BY <2>1, <2>2, AddInserts
<1>8. ASSUME NEW t \in Triple, RetractOne(t), UNCHANGED settled PROVE [DB!DBNext]_(DB!dbVars)
  BY <1>8, RetractDeletes
<1>9. MatchRaises => Quiet
  BY DEF MatchRaises, Raise, Quiet, tmsVars, vars
<1>. QED  BY <1>1, <1>2, <1>3, <1>4, <1>5, <1>6, <1>7, <1>8, <1>9, QuietSimulates DEF Internal, Steps

LEMMA CallsSimulate ==
  ASSUME SeenIsView, SeenIsView', ClosureInv, Calls, UNCHANGED settled
  PROVE  [DB!DBNext]_(DB!dbVars)
<1>1. ASSUME NEW S \in Inputs, StartAdd(S) PROVE [DB!DBNext]_(DB!dbVars)
  <2>1. S \in SUBSET Triple /\ AddTriples(S) /\ phase = "idle" /\ UNCHANGED <<bootstrapCompleted, settled>>
    BY <1>1, EngineAssumption DEF StartAdd, Idle
  <2>2. settled => Seen \subseteq known
    BY <2>1 DEF ClosureInv, EngineInv, InStep, Seen
  <2>. QED  BY <2>1, <2>2, AddInserts
<1>2. ASSUME NEW S \in Inputs, StartWarmup(S) PROVE [DB!DBNext]_(DB!dbVars)
  BY <1>2, WarmupBoots DEF DB!DBNext
<1>3. ASSUME NEW S \in Inputs, StartRetract(S) PROVE Quiet
  BY <1>3 DEF StartRetract, Idle, Quiet, tmsVars, vars
<1>4. CASE Close
  BY <1>4, CloseDiscards DEF DB!DBNext
<1>5. CASE ClearContradictionRecords
  BY <1>5, QuietSimulates DEF ClearContradictionRecords, Idle, Quiet, tmsVars, vars, callVars
<1>. QED  BY <1>1, <1>2, <1>3, <1>4, <1>5, QuietSimulates DEF Calls

LEMMA StepSimulates ==
  ASSUME SeenIsView, SeenIsView', ClosureInv, [EngineNext]_engineVars
  PROVE  [DB!DBNext]_(DB!dbVars)
<1>1. CASE UNCHANGED engineVars
  <2>1. UNCHANGED <<facts, stated, phase, bootstrapCompleted, settled>>
    BY <1>1 DEF engineVars, tmsVars, vars, callVars
  <2>2. Derivable(stated)' = Derivable(stated)
    BY <2>1 DEF Derivable, Active, Bootstrap, Permitted
  <2>. QED  BY <2>1, <2>2 DEF DB!dbVars
<1>. QED  BY <1>1, InternalSimulates, CallsSimulate DEF EngineNext

LEMMA InitSimulates == EngineInit => DB!DBInit
BY DEF EngineInit, Init, DB!DBInit

\* For rules without circular support, every agenda order, every setup and every
\* place at which a call raises: the engine is a deductive database.  Between calls
\* that did not raise, working memory is exactly the closure of what is stated;
\* after an exception it is never more than that and never less than the base.
THEOREM LayeredEngineIsDatabase ==
  ASSUME NEW CONSTANT Level \in [Triple -> Nat],
         \A i \in Instance : \A p \in Antecedents[i], q \in Conclusions[i] : Level[p] < Level[q]
  PROVE  EngineSpec => ImplementsDatabase
<1>1. ClosureInv /\ [EngineNext]_engineVars => ClosureInv'
  BY ClosureNext
<1>2. ClosureInv => SeenIsView
  BY ClosureGivesView
<1>3. SeenIsView /\ SeenIsView' /\ ClosureInv /\ [EngineNext]_engineVars => [DB!DBNext]_(DB!dbVars)
  BY StepSimulates
<1>. QED  BY ClosureInit, InitSimulates, <1>1, <1>2, <1>3, PTL DEF EngineSpec, ImplementsDatabase, DB!DBSpec
----------------------------------------------------------------------------
(* Every call comes to an end                                              *)

\* How often the matcher may still run: once for each triple that is not known
\* yet, and, before the bootstrap is over, once more for each triple.
RoundsLeft ==
  Cardinality(Triple \ known) + (IF bootstrapPhase THEN Cardinality(Triple) + 1 ELSE 0)

\* More than the steps of one iteration: a match, one per activation, the end.
Round == Cardinality(Instance) + 3

\* A bound on the steps that are left to the running call.
StepsLeft ==
  IF phase \in {"match", "fire"}
  THEN RoundsLeft * Round
         + (IF phase = "match" THEN Cardinality(Instance) + 2 ELSE Cardinality(agenda) + 1)
  ELSE IF phase = "retract" THEN Cardinality(inputs) + 1 ELSE 0

MostSteps == 2 * (Cardinality(Triple) + 1) * Round

\* A conclusion that counts as new in an iteration was not known before it.
NewIsNew == iterationNew \cap known = {} /\ (phase # "fire" => iterationNew = {})

LEMMA NewIsNewNext ==
  ASSUME NewIsNew, [EngineNext]_engineVars
  PROVE  NewIsNew'
<1>1. ASSUME NEW S, AddTriples(S), iterationNew = {}, iterationNew' = {} PROVE NewIsNew'
  BY <1>1 DEF NewIsNew
<1>2. ASSUME NEW i \in Instance, Fire(i) PROVE NewIsNew'
  BY <1>2 DEF Fire, Activation, Scheduled, NewOf, NewIsNew, memoryVars
<1>3. CASE iterationNew' = {}
  BY <1>3 DEF NewIsNew
<1>4. CASE UNCHANGED <<iterationNew, known, phase>>
  BY <1>4 DEF NewIsNew
<1>5. CASE phase # "fire" /\ UNCHANGED iterationNew
  BY <1>3, <1>5 DEF NewIsNew
<1>6. CASE Steps
  <2>1. Match \/ EndIteration => iterationNew' = {}
    BY DEF Match, NewMatches, EndIteration
  <2>2. ASSUME NEW i \in Instance, SkipBootstrap(i) PROVE UNCHANGED <<iterationNew, known, phase>>
    BY <2>2 DEF SkipBootstrap, memoryVars
  <2>3. FinishBootstrap => iterationNew' = {}
    BY DEF FinishBootstrap, loopVars
  <2>4. ASSUME NEW t \in Triple, RetractOne(t) PROVE phase # "fire" /\ UNCHANGED iterationNew
    BY <2>4 DEF RetractOne, loopVars
  <2>5. FinishRetract => phase # "fire" /\ UNCHANGED iterationNew
    BY DEF FinishRetract, loopVars
  <2>. QED  BY <1>2, <1>3, <1>4, <1>5, <1>6, <2>1, <2>2, <2>3, <2>4, <2>5 DEF Steps
<1>7. ASSUME NEW i \in Instance, FireRaises(i) PROVE iterationNew' = {}
  BY <1>7 DEF FireRaises, Raise
<1>8. CASE Calls
  <2>1. ASSUME NEW S, StartAdd(S) \/ StartWarmup(S) \/ StartRetract(S)
        PROVE  phase # "fire" /\ UNCHANGED iterationNew
    BY <2>1 DEF StartAdd, StartWarmup, StartRetract, Idle, loopVars
  <2>2. Close => phase # "fire" /\ UNCHANGED iterationNew
    BY DEF Close, loopVars
  <2>3. ClearContradictionRecords => UNCHANGED <<iterationNew, known, phase>>
    BY DEF ClearContradictionRecords, memoryVars, callVars, loopVars
  <2>. QED  BY <1>4, <1>5, <1>8, <2>1, <2>2, <2>3 DEF Calls
<1>9. CASE UNCHANGED engineVars
  BY <1>4, <1>9 DEF engineVars, memoryVars, callVars, loopVars
<1>10. MatchRaises => iterationNew' = {}
  BY DEF MatchRaises, Raise
<1>. QED  BY <1>3, <1>6, <1>7, <1>8, <1>9, <1>10 DEF EngineNext, Internal

\* The sizes a measure is made of are natural numbers.
LEMMA EngineSizes ==
  ASSUME EngineTypeOK, IsFiniteSet(Triple), IsFiniteSet(Instance)
  PROVE  /\ Cardinality(Triple) \in Nat /\ Cardinality(Instance) \in Nat /\ Round \in Nat
         /\ Cardinality(Triple \ known) \in 0 .. Cardinality(Triple)
         /\ IsFiniteSet(agenda) /\ Cardinality(agenda) \in 0 .. Cardinality(Instance)
         /\ IsFiniteSet(inputs) /\ Cardinality(inputs) \in 0 .. Cardinality(Triple)
<1>1. Cardinality(Triple) \in Nat /\ Cardinality(Instance) \in Nat /\ Round \in Nat
  BY FS_CardinalityType DEF Round
<1>2. agenda \subseteq Instance /\ inputs \subseteq Triple /\ Triple \ known \subseteq Triple
  BY DEF EngineTypeOK
<1>3. /\ IsFiniteSet(agenda) /\ Cardinality(agenda) <= Cardinality(Instance)
      /\ IsFiniteSet(inputs) /\ Cardinality(inputs) <= Cardinality(Triple)
      /\ IsFiniteSet(Triple \ known) /\ Cardinality(Triple \ known) <= Cardinality(Triple)
  BY <1>2, FS_Subset
<1>4. Cardinality(agenda) \in Nat /\ Cardinality(inputs) \in Nat /\ Cardinality(Triple \ known) \in Nat
  BY <1>3, FS_CardinalityType
<1>. QED  BY <1>1, <1>3, <1>4

\* One round fewer makes room for the steps of a whole iteration.
LEMMA RoundSaved ==
  ASSUME NEW k \in Nat, NEW l \in Nat, l < k, NEW r \in Nat
  PROVE  l * r \in Nat /\ k * r \in Nat /\ l * r + r <= k * r
<1>1. PICK d \in Nat : k = l + 1 + d
  <2>1. k - l - 1 \in Nat /\ k = l + 1 + (k - l - 1)
    OBVIOUS
  <2>. QED  BY <2>1
<1>2. k * r = l * r + r + d * r /\ d * r \in Nat /\ l * r \in Nat
  BY <1>1
<1>. QED  BY <1>2

LEMMA StepsLeftBounded ==
  ASSUME EngineTypeOK, IsFiniteSet(Triple), IsFiniteSet(Instance)
  PROVE  RoundsLeft \in Nat /\ StepsLeft \in 0 .. MostSteps
<1>. DEFINE T == Cardinality(Triple)
            R == Round
<1>1. /\ T \in Nat /\ Cardinality(Instance) \in Nat /\ R = Cardinality(Instance) + 3
      /\ Cardinality(Triple \ known) \in 0 .. T
      /\ Cardinality(agenda) \in 0 .. Cardinality(Instance) /\ Cardinality(inputs) \in 0 .. T
  BY EngineSizes DEF Round
<1>2. RoundsLeft \in Nat /\ RoundsLeft < 2 * (T + 1)
  BY <1>1 DEF RoundsLeft
<1>3. RoundsLeft * R \in Nat /\ RoundsLeft * R + R <= MostSteps
  <2>1. 2 * (T + 1) \in Nat /\ R \in Nat
    BY <1>1
  <2>. QED  BY <1>2, <2>1, RoundSaved DEF MostSteps
<1>4. T + 1 <= MostSteps /\ MostSteps \in Nat
  <2>1. PICK d \in Nat : R = 1 + d
    BY <1>1
  <2>2. MostSteps = 2 * (T + 1) + 2 * (T + 1) * d /\ 2 * (T + 1) * d \in Nat
    BY <1>1, <2>1 DEF MostSteps
  <2>. QED  BY <1>1, <2>2
<1>5. PICK saturation : saturation = RoundsLeft * R
  OBVIOUS
<1>6. PICK last : last = IF phase = "match" THEN Cardinality(Instance) + 2 ELSE Cardinality(agenda) + 1
  OBVIOUS
<1>7. last \in 0 .. R /\ saturation + last \in 0 .. MostSteps
  BY <1>1, <1>3, <1>4, <1>5, <1>6
<1>8. StepsLeft = IF phase \in {"match", "fire"} THEN saturation + last
                  ELSE IF phase = "retract" THEN Cardinality(inputs) + 1 ELSE 0
  BY <1>5, <1>6, Zenon DEF StepsLeft
<1>9. Cardinality(inputs) + 1 \in 0 .. MostSteps /\ 0 \in 0 .. MostSteps
  BY <1>1, <1>4
<1>. QED  BY <1>2, <1>7, <1>8, <1>9, Zenon

\* Firing or skipping an activation leaves one fewer on the agenda.
LEMMA ActivationLowers ==
  ASSUME EngineTypeOK, IsFiniteSet(Triple), IsFiniteSet(Instance),
         NEW i \in Instance, Fire(i) \/ SkipBootstrap(i)
  PROVE  StepsLeft' < StepsLeft
<1>1. /\ phase = "fire" /\ i \in agenda /\ agenda' = agenda \ {i}
      /\ UNCHANGED <<known, phase, bootstrapPhase>>
  BY DEF Fire, SkipBootstrap, Activation, Scheduled, memoryVars
<1>2. Cardinality(agenda) \in Nat /\ Cardinality(agenda') = Cardinality(agenda) - 1
  <2>1. IsFiniteSet(agenda) /\ Cardinality(agenda) \in Nat
    BY EngineSizes
  <2>2. Cardinality(agenda \ {i}) = Cardinality(agenda) - 1
    BY <1>1, <2>1, FS_RemoveElement
  <2>. QED  BY <1>1, <2>1, <2>2
<1>3. RoundsLeft' = RoundsLeft /\ Round' = Round /\ RoundsLeft * Round \in Nat
  <2>1. RoundsLeft \in Nat /\ Round \in Nat
    BY EngineSizes, StepsLeftBounded
  <2>. QED  BY <1>1, <2>1 DEF RoundsLeft, Round
<1>. QED  BY <1>1, <1>2, <1>3 DEF StepsLeft

\* The matcher puts at most every instance on the agenda.
LEMMA MatchLowers ==
  ASSUME EngineTypeOK, EngineTypeOK', IsFiniteSet(Triple), IsFiniteSet(Instance), Match
  PROVE  StepsLeft' < StepsLeft
<1>1. phase = "match" /\ phase' = "fire" /\ UNCHANGED <<known, bootstrapPhase>>
  BY DEF Match, NewMatches
<1>2. Cardinality(Instance) \in Nat /\ Cardinality(agenda)' \in 0 .. Cardinality(Instance)
  <2>1. agenda' \subseteq Instance
    BY DEF EngineTypeOK
  <2>. QED  BY <2>1, FS_Subset, FS_CardinalityType
<1>3. RoundsLeft' = RoundsLeft /\ Round' = Round /\ RoundsLeft * Round \in Nat
  <2>1. RoundsLeft \in Nat /\ Round \in Nat
    BY EngineSizes, StepsLeftBounded
  <2>. QED  BY <1>1, <2>1 DEF RoundsLeft, Round
<1>. QED  BY <1>1, <1>2, <1>3 DEF StepsLeft

\* Whatever makes the matcher run again has used up a round.
LEMMA RoundLowers ==
  ASSUME EngineTypeOK, EngineTypeOK', IsFiniteSet(Triple), IsFiniteSet(Instance),
         phase = "fire", phase' \in {"match", "idle"},
         phase' = "match" => RoundsLeft' < RoundsLeft
  PROVE  StepsLeft' < StepsLeft
<1>1. /\ RoundsLeft \in Nat /\ Round \in Nat /\ Round' = Round
      /\ Cardinality(agenda) \in Nat /\ Cardinality(Instance) \in Nat
  BY EngineSizes, StepsLeftBounded DEF Round
<1>2. StepsLeft = RoundsLeft * Round + Cardinality(agenda) + 1 /\ RoundsLeft * Round \in Nat
  BY <1>1 DEF StepsLeft
<1>3. CASE phase' = "idle"
  BY <1>1, <1>2, <1>3 DEF StepsLeft
<1>4. CASE phase' = "match"
  <2>1. RoundsLeft' \in Nat /\ RoundsLeft' * Round + Round <= RoundsLeft * Round
        /\ RoundsLeft' * Round \in Nat
    <3>1. RoundsLeft' \in Nat
      <4>1. Cardinality(Triple) \in Nat /\ Cardinality(Triple \ known') \in Nat
        BY FS_CardinalityType, FS_Subset
      <4>. QED  BY <4>1 DEF RoundsLeft
    <3>. QED  BY <1>1, <1>4, <3>1, RoundSaved
  <2>2. StepsLeft' = RoundsLeft' * Round + Cardinality(Instance) + 2
    BY <1>1, <1>4, <2>1 DEF StepsLeft
  <2>3. Round = Cardinality(Instance) + 3
    BY DEF Round
  <2>. QED  BY <1>1, <1>2, <2>1, <2>2, <2>3
<1>. QED  BY <1>3, <1>4

\* An iteration that concluded something new leaves fewer triples unknown.
LEMMA EndIterationLowers ==
  ASSUME EngineTypeOK, EngineTypeOK', NewIsNew, IsFiniteSet(Triple), IsFiniteSet(Instance),
         EndIteration
  PROVE  StepsLeft' < StepsLeft
<1>1. /\ phase = "fire" /\ phase' = IF iterationNew # {} THEN "match" ELSE "idle"
      /\ known' = known \cup iterationNew /\ UNCHANGED bootstrapPhase
  BY DEF EndIteration
<1>2. ASSUME iterationNew # {} PROVE RoundsLeft' < RoundsLeft
  <2>1. /\ Triple \ known' \subseteq Triple \ known /\ Triple \ known' # Triple \ known
    <3>1. PICK t \in iterationNew : t \notin known /\ t \in Triple
      BY <1>2 DEF NewIsNew, EngineTypeOK
    <3>. QED  BY <1>1, <3>1
  <2>2. IsFiniteSet(Triple \ known)
    BY FS_Subset
  <2>3. /\ Cardinality(Triple \ known') <= Cardinality(Triple \ known)
        /\ Cardinality(Triple \ known') # Cardinality(Triple \ known)
    BY <2>1, <2>2, FS_Subset
  <2>4. /\ Cardinality(Triple \ known') \in Nat /\ Cardinality(Triple \ known) \in Nat
        /\ Cardinality(Triple) \in Nat
    BY FS_CardinalityType, FS_Subset
  <2>. QED  BY <1>1, <2>3, <2>4 DEF RoundsLeft
<1>. QED  BY <1>1, <1>2, RoundLowers

\* The end of the bootstrap gives up the rounds it had to itself.
LEMMA FinishBootstrapLowers ==
  ASSUME EngineTypeOK, EngineTypeOK', IsFiniteSet(Triple), IsFiniteSet(Instance), FinishBootstrap
  PROVE  StepsLeft' < StepsLeft
<1>1. phase = "fire" /\ phase' \in {"match", "idle"} /\ bootstrapPhase /\ ~bootstrapPhase'
  BY DEF FinishBootstrap, AddTriples
<1>2. RoundsLeft' < RoundsLeft
  <2>1. /\ Cardinality(Triple \ known) \in Nat /\ Cardinality(Triple) \in Nat
        /\ Cardinality(Triple \ known') \in 0 .. Cardinality(Triple)
    BY FS_CardinalityType, FS_Subset
  <2>. QED  BY <1>1, <2>1 DEF RoundsLeft
<1>. QED  BY <1>1, <1>2, RoundLowers

\* A retraction visits each of its inputs once.
LEMMA RetractLowers ==
  ASSUME EngineTypeOK, IsFiniteSet(Triple), IsFiniteSet(Instance),
         (\E t \in Triple : RetractOne(t)) \/ FinishRetract
  PROVE  StepsLeft' < StepsLeft
<1>1. IsFiniteSet(inputs) /\ Cardinality(inputs) \in Nat
  BY EngineSizes
<1>2. ASSUME NEW t \in Triple, RetractOne(t) PROVE StepsLeft' < StepsLeft
  <2>1. phase = "retract" /\ UNCHANGED phase /\ t \in inputs /\ inputs' = inputs \ {t}
    BY <1>2 DEF RetractOne
  <2>2. Cardinality(inputs') = Cardinality(inputs) - 1
    BY <1>1, <2>1, FS_RemoveElement
  <2>. QED  BY <1>1, <2>1, <2>2 DEF StepsLeft
<1>3. ASSUME FinishRetract PROVE StepsLeft' < StepsLeft
  <2>1. phase = "retract" /\ phase' = "idle"
    BY <1>3 DEF FinishRetract
  <2>. QED  BY <1>1, <2>1 DEF StepsLeft
<1>. QED  BY <1>2, <1>3

\* A call that raises is over.
LEMMA MatchRaisesLowers ==
  ASSUME EngineTypeOK, EngineTypeOK', IsFiniteSet(Triple), IsFiniteSet(Instance), MatchRaises
  PROVE  StepsLeft' < StepsLeft
<1>1. phase = "match" /\ phase' = "idle"
  BY DEF MatchRaises, Raise
<1>2. RoundsLeft \in Nat /\ Round \in Nat /\ Cardinality(Instance) \in Nat
  BY EngineSizes, StepsLeftBounded DEF Round
<1>3. RoundsLeft * Round \in Nat
  BY <1>2
<1>. QED  BY <1>1, <1>2, <1>3 DEF StepsLeft

LEMMA InternalLowers ==
  ASSUME EngineTypeOK, EngineTypeOK', NewIsNew, IsFiniteSet(Triple), IsFiniteSet(Instance), Internal
  PROVE  StepsLeft' < StepsLeft
<1>1. ASSUME NEW i \in Instance, FireRaises(i) PROVE StepsLeft' < StepsLeft
  BY <1>1, RoundLowers DEF FireRaises, Raise, Scheduled
<1>. QED  BY <1>1, MatchLowers, MatchRaisesLowers, ActivationLowers, EndIterationLowers, FinishBootstrapLowers,
             RetractLowers DEF Internal, Steps

\* A call is under way.
Busy == phase \in {"match", "fire", "retract"}

\* Every call ends within a number of steps that the rules and triples bound in
\* advance, whatever the rules, cyclic or firing on every pass as the bootstrap ones
\* do, whatever the agenda's order, and wherever an activation or a predicate raises:
\* each step of saturation or of a retraction leaves fewer to do.  (A run has finitely
\* many triples: rules have no function symbols.)
THEOREM CallsTakeBoundedlyManySteps ==
  ASSUME IsFiniteSet(Triple), IsFiniteSet(Instance)
  PROVE  EngineSpec => /\ [](StepsLeft \in 0 .. MostSteps)
                       /\ [][Busy => StepsLeft' < StepsLeft]_engineVars
<1>1. EngineInit => EngineInv /\ NewIsNew
  BY EngineInitInv DEF EngineInit, NewIsNew
<1>2. EngineInv /\ NewIsNew /\ [EngineNext]_engineVars => (EngineInv /\ NewIsNew)'
  BY EngineNextInv, NewIsNewNext
<1>3. EngineInv => StepsLeft \in 0 .. MostSteps
  BY StepsLeftBounded DEF EngineInv
<1>4. EngineInv /\ NewIsNew /\ EngineInv' /\ [EngineNext]_engineVars
        => [Busy => StepsLeft' < StepsLeft]_engineVars
  <2>1. Calls => ~Busy
    BY DEF Calls, StartAdd, StartWarmup, StartRetract, Close, ClearContradictionRecords, Idle, Busy
  <2>. QED  BY <2>1, InternalLowers DEF EngineInv, EngineNext
<1>. QED  BY <1>1, <1>2, <1>3, <1>4, PTL DEF EngineSpec
=============================================================================
