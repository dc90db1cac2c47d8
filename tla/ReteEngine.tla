----------------------------- MODULE ReteEngine -----------------------------
(***************************************************************************)
(* The per-context RETE engine (engine/rete_engine.py): assertion with     *)
(* saturation to a fixed point through agenda iterations, the bootstrap    *)
(* phase, batch retraction, and the ways a call can be cut short by an     *)
(* exception.  Truth maintenance is module TMS.                            *)
(*                                                                         *)
(* The network (rete/network.py) is seen through what it delivers: the     *)
(* ground instances whose premises are all in working memory and whose     *)
(* match is not already stored in an alpha or beta memory.                 *)
(***************************************************************************)
EXTENDS TMS, Naturals

CONSTANTS
  Silent,           \* instances of rules with Rule.silent
  Contradicting,    \* instances of rules with a contradiction consequent
  Faulty,           \* instances whose callback is unknown or raises
  Tested,           \* instances of rules with a predicate condition
  Malformed,        \* triples the RDF 1.1 term policies reject
  Priority,         \* agenda order: (-salience, depth)
  Configurations,   \* recorder: RaiseOnContradictionRecorder (the default) or a quiet one;
                    \* policy: term policies "error" or "warning"; predicates: the hooks are
                    \* registered and work, or they are unknown or raise
  Inputs            \* the sets of triples that calls pass: a bound of the runs

ASSUME EngineAssumption ==
  /\ Silent \subseteq Instance /\ Contradicting \subseteq Instance /\ Faulty \subseteq Instance
  /\ Malformed \subseteq Triple
  /\ Priority \in [Instance -> Nat]
  /\ Inputs \subseteq SUBSET Triple
  /\ Tested \subseteq {i \in Instance : Antecedents[i] # {}}
  /\ Configurations \subseteq [recorder : {"raising", "quiet"}, policy : {"error", "warning"},
                              predicates : {"working", "failing"}]

VARIABLES
  known,                \* known_triples
  materialized,         \* materialized_triples
  matched,              \* complete matches held in alpha and beta memory
  bootstrapCompleted,   \* _bootstrap_completed
  log,                  \* derivation records, one per conclusion
  contradictions,       \* instances with a ContradictionRecord
  phase,                \* where the current call is; "idle" between calls, "closed" at the end
  bootstrapPhase,       \* the bootstrap_phase argument of the saturation
  existing,             \* warmup's argument, asserted after the bootstrap
  agenda,               \* activations of this iteration still to run
  iterationNew, iterationMaterialized,
  inputs,               \* retract_triples: inputs still to look at
  result,               \* newly_materialized, or the cascade of a retraction
  config,               \* how the engine was set up
  settled               \* history: no call has ended in an exception

tmsVars    == vars
memoryVars == <<known, materialized, matched>>
recordVars == <<log, contradictions>>
loopVars   == <<agenda, iterationNew, iterationMaterialized>>
callVars   == <<phase, bootstrapPhase, existing, loopVars, inputs, result>>
engineVars == <<tmsVars, memoryVars, bootstrapCompleted, recordVars, callVars, config, settled>>

RecorderRaises == config.recorder = "raising"
PolicyRaises   == config.policy = "error"
Untestable     == IF config.predicates = "failing" THEN Tested ELSE {}

\* Rules with an empty body; their terminal matches on every pass.
Bootstrap  == {i \in Instance : Antecedents[i] = {}}
Enabled(i) == Antecedents[i] \subseteq facts
Permitted(i) == Conclusions[i] \ Malformed

EngineInit ==
  /\ Init
  /\ known = {} /\ materialized = {} /\ matched = {}
  /\ bootstrapCompleted = FALSE
  /\ log = {} /\ contradictions = {}
  /\ phase = "idle" /\ bootstrapPhase = FALSE /\ existing = {}
  /\ agenda = {} /\ iterationNew = {} /\ iterationMaterialized = {}
  /\ inputs = {} /\ result = {}
  /\ config \in Configurations /\ settled = TRUE

Idle == phase = "idle"

----------------------------------------------------------------------------
(* add_triples and warmup                                                  *)

\* (Mutant of AddTriples: known triples are promoted to stated ones.)
AddTriplesPromoting(S) ==
  LET fresh == IF PolicyRaises /\ S \cap Malformed # {} THEN {} ELSE S \ Malformed
  IN  /\ RegisterStated(fresh)
      /\ known' = known \cup fresh
      /\ materialized' = materialized \cup fresh
      /\ phase' = IF fresh = {} THEN "idle" ELSE "match"
      /\ result' = {}
      /\ bootstrapPhase' = FALSE

\* The body of add_triples up to saturation.  A malformed triple makes the whole
\* call raise, or is skipped with a warning; known triples are not stated again.
AddTriples(S) ==
  LET fresh == IF PolicyRaises /\ S \cap Malformed # {} THEN {}
               ELSE (S \ Malformed) \ known
  IN  /\ RegisterStated(fresh)
      /\ known' = known \cup fresh
      /\ materialized' = materialized \cup fresh
      /\ phase' = IF fresh = {} THEN "idle" ELSE "match"
      /\ result' = {}
      /\ bootstrapPhase' = FALSE

StartAdd(S) ==
  /\ Idle
  /\ AddTriples(S)
  /\ UNCHANGED <<matched, bootstrapCompleted, recordVars, existing, loopVars, inputs>>

\* warmup(S) of a fresh engine: the flag is set first, then the bootstrap rules
\* are saturated; the existing triples follow in FinishBootstrap.
StartWarmup(S) ==
  /\ Idle
  /\ ~bootstrapCompleted /\ facts = {}
  /\ bootstrapCompleted' = TRUE
  /\ bootstrapPhase' = TRUE
  /\ existing' = S
  /\ phase' = "match"
  /\ result' = {}
  /\ UNCHANGED <<tmsVars, memoryVars, recordVars, loopVars, inputs>>

----------------------------------------------------------------------------
(* _saturate_from_working_memory                                           *)

\* What the matcher finds and has not yet in memory.
NewMatches == {i \in Instance \ Bootstrap : Enabled(i)} \ matched

\* (Mutant of Match: bootstrap rules are kept in memory like the others.)
MatchBootstrap ==
  LET new == {i \in Instance : Enabled(i)} \ matched
  IN  /\ phase = "match" /\ new \cap Untestable = {}
      /\ matched' = matched \cup new
      /\ agenda' = new
      /\ iterationNew' = {} /\ iterationMaterialized' = {}
      /\ phase' = "fire"
      /\ UNCHANGED <<tmsVars, known, materialized, bootstrapCompleted, recordVars,
                     bootstrapPhase, existing, inputs, result>>

\* match_terminals: only matches not yet in memory are scheduled.
Match ==
  /\ phase = "match" /\ NewMatches \cap Untestable = {}
  /\ matched' = matched \cup NewMatches
  /\ agenda' = NewMatches \cup Bootstrap
  /\ iterationNew' = {} /\ iterationMaterialized' = {}
  /\ phase' = "fire"
  /\ UNCHANGED <<tmsVars, known, materialized, bootstrapCompleted, recordVars,
                 bootstrapPhase, existing, inputs, result>>

\* An exception leaves add_triples or warmup with the locals of the iteration and
\* the rest of the agenda.
Raise ==
  /\ phase' = "idle" /\ bootstrapPhase' = FALSE /\ existing' = {}
  /\ agenda' = {} /\ iterationNew' = {} /\ iterationMaterialized' = {}
  /\ result' = {} /\ settled' = FALSE

\* The memories take all new matches before the predicates are tested; when a test
\* raises, none of them is scheduled, now or by a later call.
MatchRaises ==
  /\ phase = "match" /\ NewMatches \cap Untestable # {}
  /\ matched' = matched \cup NewMatches
  /\ Raise
  /\ UNCHANGED <<tmsVars, known, materialized, bootstrapCompleted, recordVars, inputs>>

\* The agenda pops an activation of least rank; ties go by insertion order,
\* which depends on the order of working memory and is left open.
Scheduled(i) ==
  /\ phase = "fire" /\ i \in agenda
  /\ \A k \in agenda : Priority[i] <= Priority[k]

Skipped(i)     == i \in Bootstrap /\ ~bootstrapPhase
Rejected(i)    == PolicyRaises /\ Conclusions[i] \cap Malformed # {}
Reported(i)    == i \in Contradicting /\ i \notin Faulty
Interrupted(i) == Rejected(i) \/ i \in Faulty \/ (Reported(i) /\ RecorderRaises)

SkipBootstrap(i) ==
  /\ Scheduled(i) /\ Skipped(i)
  /\ agenda' = agenda \ {i}
  /\ UNCHANGED <<tmsVars, memoryVars, bootstrapCompleted, recordVars, phase, bootstrapPhase,
                 existing, iterationNew, iterationMaterialized, inputs, result>>

\* One activation: its productions are recorded in the TMS, its contradiction is
\* reported, and its new, its newly visible and its logged conclusions noted.
Activation(i, new, seen, logged) ==
  /\ Scheduled(i) /\ ~Skipped(i) /\ ~Interrupted(i)
  /\ RecordDerivation(i, Permitted(i))
  /\ iterationNew' = iterationNew \cup new
  /\ iterationMaterialized' = iterationMaterialized \cup seen
  /\ contradictions' = IF Reported(i) THEN contradictions \cup {i} ELSE contradictions
  /\ log' = log \cup {[instance |-> i, triple |-> t, silent |-> i \in Silent \/ bootstrapPhase] :
                        t \in logged}
  /\ agenda' = agenda \ {i}
  /\ UNCHANGED <<memoryVars, bootstrapCompleted, phase, bootstrapPhase, existing, inputs, result>>

NewOf(i)  == Permitted(i) \ (known \cup iterationNew)
SeenOf(i) == IF bootstrapPhase \/ i \in Silent THEN {}
             ELSE Permitted(i) \ (materialized \cup iterationMaterialized)

\* (Mutants of Fire: only new facts become visible; only new facts are logged;
\* known facts count as new in each iteration.)
FireShowingNew(i) == Activation(i, NewOf(i), SeenOf(i) \cap NewOf(i), NewOf(i))
FireLoggingNew(i) == Activation(i, NewOf(i), SeenOf(i), NewOf(i))
FireAnew(i)       == Activation(i, Permitted(i) \ iterationNew, SeenOf(i), NewOf(i))

Fire(i) == Activation(i, NewOf(i), SeenOf(i), NewOf(i) \cup SeenOf(i))

\* An activation that raises: some or all of its productions are recorded.
FireRaises(i) ==
  /\ Scheduled(i) /\ ~Skipped(i) /\ Interrupted(i)
  /\ \E P \in SUBSET Permitted(i) :
       /\ ~Rejected(i) => P = Permitted(i)
       /\ RecordDerivation(i, P)
  /\ contradictions' = IF Reported(i) /\ ~Rejected(i) THEN contradictions \cup {i} ELSE contradictions
  /\ Raise
  /\ UNCHANGED <<memoryVars, bootstrapCompleted, log, inputs>>

\* End of an iteration: its conclusions become known and, if it concluded
\* anything new, the matcher runs again.
EndIteration ==
  /\ phase = "fire" /\ agenda = {}
  /\ iterationNew # {} \/ ~bootstrapPhase
  /\ known' = known \cup iterationNew
  /\ materialized' = materialized \cup iterationMaterialized
  /\ result' = result \cup iterationMaterialized
  /\ phase' = IF iterationNew # {} THEN "match" ELSE "idle"
  /\ iterationNew' = {} /\ iterationMaterialized' = {}
  /\ UNCHANGED <<tmsVars, matched, bootstrapCompleted, recordVars, bootstrapPhase,
                 existing, agenda, inputs>>

\* The bootstrap reached its fixed point: warmup goes on with add_triples.
FinishBootstrap ==
  /\ phase = "fire" /\ agenda = {} /\ iterationNew = {} /\ bootstrapPhase
  /\ AddTriples(existing)
  /\ existing' = {}
  /\ UNCHANGED <<matched, bootstrapCompleted, recordVars, loopVars, inputs>>

----------------------------------------------------------------------------
(* retract_triples                                                         *)

StartRetract(S) ==
  /\ Idle /\ S # {}
  /\ inputs' = S
  /\ result' = {}
  /\ phase' = "retract"
  /\ UNCHANGED <<tmsVars, memoryVars, bootstrapCompleted, recordVars, bootstrapPhase, existing, loopVars>>

\* (Mutant of RetractOne: the consequents that were swept are not collected.)
RetractOneWithoutCascade(t) ==
  /\ phase = "retract" /\ t \in inputs
  /\ RetractTriple(t)
  /\ result' = result \cup ({t} \ facts')
  /\ inputs' = inputs \ {t}
  /\ UNCHANGED <<memoryVars, bootstrapCompleted, recordVars, phase, bootstrapPhase, existing, loopVars>>

\* The inputs are a set and are visited in any order; absent and derived ones
\* are passed over.
RetractOne(t) ==
  /\ phase = "retract" /\ t \in inputs
  /\ RetractTriple(t)
  /\ result' = result \cup (facts \ facts')
  /\ inputs' = inputs \ {t}
  /\ UNCHANGED <<memoryVars, bootstrapCompleted, recordVars, phase, bootstrapPhase, existing, loopVars>>

\* evict_partial_matches_referencing: what stays of the matcher's memories.
WithoutMatchesOf(S) == {i \in matched : Antecedents[i] \cap S = {}}

\* (Mutant of FinishRetract: known_triples is left alone.)
FinishRetractStillKnown ==
  /\ phase = "retract" /\ inputs = {}
  /\ matched' = WithoutMatchesOf(result)
  /\ materialized' = materialized \ result
  /\ phase' = "idle"
  /\ UNCHANGED <<tmsVars, known, bootstrapCompleted, recordVars, bootstrapPhase, existing, loopVars, inputs, result>>

\* Eviction and the bookkeeping sets.
FinishRetract ==
  /\ phase = "retract" /\ inputs = {}
  /\ matched' = WithoutMatchesOf(result)
  /\ known' = known \ result
  /\ materialized' = materialized \ result
  /\ phase' = "idle"
  /\ UNCHANGED <<tmsVars, bootstrapCompleted, recordVars, bootstrapPhase, existing, loopVars, inputs, result>>

----------------------------------------------------------------------------
(* close and clear_contradiction_records                                   *)

\* close() leaves the matcher's memories and the bootstrap flag as they are; an
\* engine is not used again after it, though it may be closed again.
Close ==
  /\ phase \in {"idle", "closed"}
  /\ Clear
  /\ known' = {} /\ materialized' = {}
  /\ log' = {} /\ contradictions' = {}
  /\ phase' = "closed"
  /\ UNCHANGED <<matched, bootstrapCompleted, bootstrapPhase, existing, loopVars, inputs, result>>

ClearContradictionRecords ==
  /\ Idle
  /\ contradictions' = {}
  /\ UNCHANGED <<tmsVars, memoryVars, bootstrapCompleted, log, callVars>>

----------------------------------------------------------------------------
\* What goes on within a call that runs into no exception.
Steps ==
  \/ Match
  \/ \E i \in Instance : SkipBootstrap(i)
  \/ \E i \in Instance : Fire(i)
  \/ EndIteration
  \/ FinishBootstrap
  \/ \E t \in Triple : RetractOne(t)
  \/ FinishRetract

Internal ==
  /\ (Steps /\ UNCHANGED settled) \/ MatchRaises \/ \E i \in Instance : FireRaises(i)
  /\ UNCHANGED config

Calls ==
  \/ \E S \in Inputs : StartAdd(S)
  \/ \E S \in Inputs : StartWarmup(S)
  \/ \E S \in Inputs : StartRetract(S)
  \/ Close
  \/ ClearContradictionRecords

EngineNext == Internal \/ (Calls /\ UNCHANGED <<config, settled>>)

EngineSpec == EngineInit /\ [][EngineNext]_engineVars

\* A call that was made runs: nothing in the engine waits.
FairEngineSpec == EngineSpec /\ WF_engineVars(Internal)
----------------------------------------------------------------------------
(* Properties                                                              *)

\* Ground instances the engine takes into account: the bootstrap ones count
\* once warmup has run.
Active == {i \in Instance : bootstrapCompleted \/ i \notin Bootstrap}

\* What follows from the triples of B by the active instances.
Derivable(B) ==
  LET closed == {S \in {B \cup R : R \in SUBSET (Triple \ B)} :
                   \A i \in Active : Antecedents[i] \subseteq S => Permitted(i) \subseteq S}
  IN  {t \in Triple : \A S \in closed : t \in S}

\* The engine seen as a deductive database: a call takes effect on the base when
\* it states or unstates a triple, and shows its view when it returns.
DB == INSTANCE DeductiveDatabase WITH
        Conclusions <- [i \in Instance |-> Permitted(i)],
        base        <- stated,
        booted      <- bootstrapCompleted /\ phase # "closed",
        view        <- IF phase \in {"idle", "closed"} THEN facts ELSE Derivable(stated)

\* The engine is such a database: saturation computes the closure (DR-004), whatever
\* the order of the agenda, and retraction computes it again, which takes evictions
\* that let the matcher find a match once more; no malformed triple gets in; once a
\* call has ended in an exception, conclusions may be missing, but none is there
\* without ground.
ImplementsDatabase == DB!DBSpec

\* The engine's own variables have their types.
EngineTypeOK ==
  /\ TypeOK
  /\ known \in SUBSET Triple /\ materialized \in SUBSET Triple
  /\ matched \in SUBSET (Instance \ Bootstrap)
  /\ bootstrapCompleted \in BOOLEAN /\ bootstrapPhase \in BOOLEAN
  /\ log \in SUBSET [instance : Instance, triple : Triple, silent : BOOLEAN]
  /\ contradictions \in SUBSET Contradicting
  /\ phase \in {"idle", "match", "fire", "retract", "closed"}
  /\ agenda \in SUBSET Instance
  /\ \A S \in {existing, iterationNew, iterationMaterialized, inputs, result} : S \in SUBSET Triple

\* Between calls, unless one raised, known_triples is the content of working memory: a conclusion
\* in one and not in the other would be re-stated, or never concluded again.
KnownIsWorkingMemory == (Idle /\ settled) => known = facts

\* While activations run, everything matched or scheduled rests on facts that
\* are there: nothing fires on a retracted premise.
NoPhantomPremises ==
  phase \in {"match", "fire"} => \A i \in matched \cup agenda : Enabled(i)

\* A conclusion that a non-silent rule draws from source facts is visible, also
\* when a silent rule or the bootstrap reached it first.
VisibleConclusionsMaterialized ==
  (Idle /\ settled) =>
    LET axiomatic == Derivable({})
    IN  \A j \in justifications :
          (j.instance \notin Silent /\ (bootstrapCompleted => ~ Premises(j) \subseteq axiomatic))
            => j.consequent \in materialized

\* Whatever a call is about to return as newly materialized has a record that is
\* not silent: a proof of it has a step to start from.
MaterializedIsLogged ==
  phase \in {"match", "fire"} =>
    \A t \in result \cup iterationMaterialized : \E r \in log : r.triple = t /\ ~r.silent

\* Every call comes to its end: saturation reaches its fixed point, also when
\* bootstrap activations are scheduled on every pass.
CallsReturn == phase \in {"match", "fire", "retract"} ~> phase = "idle"
=============================================================================
