-------------------------- MODULE ReteStoreProofs --------------------------
(***************************************************************************)
(* Proofs about the store over an engine that keeps the promise of         *)
(* DeductiveDatabase, for every rule set, backing store and pattern.       *)
(***************************************************************************)
EXTENDS ReteStore, TLAPS

\* What the engine believes of a base once it is booted, and of no base.
Belief(B) == DB!Closure(B, TRUE)
Axioms    == Belief({})

StoreTyped ==
  /\ setup \in Setups
  /\ backing \subseteq Triple /\ stated \subseteq Triple \ Malformed /\ facts \subseteq Triple
  /\ hasEngine \in BOOLEAN
  /\ operand \subseteq Triple /\ todo \subseteq operand /\ pending \subseteq operand
  /\ call \in {"none", "add", "remove", "flush"}
  /\ NoCall => operand = {}
  /\ call = "add" => pending = {}

\* The engine keeps its promise, and has shown all visible conclusions of what it
\* believes beyond the axioms, and nothing else.
EngineSound ==
  /\ IF hasEngine THEN facts = Belief(stated) /\ Shown(Axioms, facts) \subseteq materialized
                  ELSE stated = {} /\ facts = {}
  /\ materialized \subseteq facts

\* The term policies that raise have been applied to what is stored.
Screened == setup.raises => \A B \in setup.backings : B \cap Malformed = {}

\* Call by call, what of the backing store the engine may not believe.
WithinInv ==
  /\ setup.raises => /\ backing \cap Malformed = {}
                     /\ call = "add" => (operand \ todo) \cap Malformed = {}
                     /\ call = "flush" => todo \cap Malformed = {}
  /\ pending \cap Malformed = {}
  /\ hasEngine /\ call # "remove" => backing \ Malformed \subseteq facts
  /\ hasEngine /\ call = "remove" => (backing \ operand) \ Malformed \subseteq facts
  /\ hasEngine /\ call = "add" => (operand \ todo) \ Malformed \subseteq facts
  /\ ~hasEngine /\ call = "add" => operand \ todo \subseteq backing

\* Call by call, what of the engine's triples the backing store may lack.
Reflected ==
  /\ ~NoCall => hasEngine
  /\ NoCall => stated \cup materialized \subseteq backing
  /\ call = "add" => stated \cup materialized \subseteq backing \cup (operand \ todo)
  /\ call = "remove" =>
       /\ stated \cup materialized \subseteq backing
       /\ stated \cap (operand \ todo) = {}
       /\ materialized \cap (operand \ todo) \subseteq pending
  /\ call = "flush" => stated \cup materialized \subseteq backing \cup todo

StoreInv ==
  /\ StoreTyped /\ EngineSound
  /\ Screened => WithinInv
  /\ Ordinary => Reflected

----------------------------------------------------------------------------
(* Closures.                                                               *)

LEMMA PermittedTyped ==
  ASSUME NEW i \in Instance
  PROVE  /\ Permitted(i) \subseteq Triple \ Malformed
         /\ [j \in Instance |-> Permitted(j)][i] = Permitted(i)
BY StoreAssumption DEF Permitted

LEMMA BeliefGrows ==
  ASSUME NEW B, B \subseteq Triple
  PROVE  B \subseteq Belief(B) /\ Belief(B) \subseteq Triple
BY DEF Belief, DB!Closure

LEMMA BeliefLeast ==
  ASSUME NEW B, B \subseteq Triple, NEW S, B \subseteq S, S \subseteq Triple, DB!Closed(S, TRUE)
  PROVE  Belief(B) \subseteq S
<1>1. S = B \cup (S \ B) /\ S \ B \in SUBSET (Triple \ B)
  OBVIOUS
<1>2. S \in {X \in {B \cup R : R \in SUBSET (Triple \ B)} : DB!Closed(X, TRUE)}
  BY <1>1
<1>. QED  BY <1>2 DEF Belief, DB!Closure

LEMMA BeliefClosed ==
  ASSUME NEW B, B \subseteq Triple
  PROVE  DB!Closed(Belief(B), TRUE)
<1>. DEFINE closed == {X \in {B \cup R : R \in SUBSET (Triple \ B)} : DB!Closed(X, TRUE)}
<1>1. Belief(B) = {t \in Triple : \A S \in closed : t \in S}
  BY DEF Belief, DB!Closure
<1>2. SUFFICES ASSUME NEW i \in Instance, Antecedents[i] \subseteq Belief(B),
                      NEW t \in Permitted(i)
               PROVE  t \in Belief(B)
  BY PermittedTyped DEF DB!Closed
<1>3. ASSUME NEW S \in closed PROVE t \in S
  <2>1. Antecedents[i] \subseteq S
    BY <1>1, <1>2, <1>3
  <2>2. DB!Closed(S, TRUE)
    OBVIOUS
  <2>. QED  BY <1>2, <2>1, <2>2, PermittedTyped DEF DB!Closed
<1>4. t \in Triple
  BY PermittedTyped
<1>. QED  BY <1>1, <1>3, <1>4

LEMMA BeliefMonotone ==
  ASSUME NEW A, NEW B, A \subseteq Belief(B), B \subseteq Triple
  PROVE  Belief(A) \subseteq Belief(B)
BY BeliefGrows, BeliefClosed, BeliefLeast

\* What is shown is believed, and well formed.
LEMMA ShownBelieved ==
  ASSUME NEW B, B \subseteq Triple, NEW S
  PROVE  Shown(S, Belief(B)) \subseteq Belief(B) \ Malformed
<1>. SUFFICES ASSUME NEW i \in Instance, Antecedents[i] \subseteq Belief(B)
              PROVE  Permitted(i) \subseteq Belief(B) \ Malformed
  BY DEF Shown
<1>. QED  BY BeliefClosed, PermittedTyped DEF DB!Closed

LEMMA ShownSplits ==
  ASSUME NEW R, NEW S, NEW T
  PROVE  Shown(R, T) \subseteq Shown(R, S) \cup Shown(S, T)
BY DEF Shown

LEMMA ShownMonotone ==
  ASSUME NEW R, NEW S, NEW T, S \subseteq T
  PROVE  Shown(R, S) \subseteq Shown(R, T)
BY DEF Shown

\* No malformed triple is believed.
LEMMA BeliefWellFormed ==
  ASSUME NEW B, B \subseteq Triple \ Malformed
  PROVE  Belief(B) \cap Malformed = {}
<1>1. DB!Closed(Triple \ Malformed, TRUE)
  BY PermittedTyped DEF DB!Closed
<1>. QED  BY <1>1, BeliefLeast

----------------------------------------------------------------------------
(* Calls of the engine.                                                    *)

LEMMA WarmupEffect ==
  ASSUME StoreTyped, Warmup
  PROVE  /\ hasEngine' /\ stated' \subseteq backing \ Malformed /\ facts' = Belief(stated')
         /\ EngineSound' /\ facts' \subseteq Triple
         /\ ~WarmupRaises => backing \ Malformed \subseteq facts'
         /\ \E S : S \subseteq facts' \ Malformed /\ backing' = backing \cup S
         /\ stated' \cup materialized' \subseteq backing'
<1>1. /\ hasEngine' = TRUE
      /\ stated' \subseteq backing \ Malformed
      /\ ~WarmupRaises => stated' = backing \ (Malformed \cup Axioms)
      /\ facts' = Belief(stated')
      /\ materialized' = stated' \cup Shown(Axioms, facts')
      /\ backing' = backing \cup Shown(Axioms, facts')
  BY DEF Warmup, Belief, Axioms
<1>2. stated' \subseteq Triple
  BY <1>1 DEF StoreTyped
<1>3. /\ stated' \subseteq facts' /\ facts' \subseteq Triple
      /\ Axioms \subseteq facts' /\ Shown(Axioms, facts') \subseteq facts' \ Malformed
  BY <1>1, <1>2, BeliefGrows, BeliefMonotone, ShownBelieved DEF Axioms
<1>4. EngineSound'
  BY <1>1, <1>3 DEF EngineSound, Belief, Axioms, DB!Closure, DB!Closed, Shown, Permitted
<1>5. ~WarmupRaises => backing \ Malformed \subseteq facts'
  BY <1>1, <1>3
<1>6. stated' \cup materialized' \subseteq backing'
  BY <1>1
<1>. QED  BY <1>1, <1>3, <1>4, <1>5, <1>6

\* What the three engine calls share: nothing stated is malformed or unknown.
LEMMA BelievedStated ==
  ASSUME StoreTyped, EngineSound
  PROVE  stated \subseteq facts /\ facts \cap Malformed = {}
<1>1. CASE hasEngine
  <2>1. facts = Belief(stated) /\ stated \subseteq Triple \ Malformed
    BY <1>1 DEF StoreTyped, EngineSound
  <2>. QED  BY <2>1, BeliefGrows, BeliefWellFormed
<1>2. CASE ~hasEngine
  BY <1>2 DEF EngineSound
<1>. QED  BY <1>1, <1>2

LEMMA AddEffect ==
  ASSUME StoreTyped, EngineSound, hasEngine, NEW t \in Triple, EngineAdd(t)
  PROVE  /\ hasEngine' /\ EngineSound'
         /\ stated' \subseteq Triple \ Malformed /\ stated' \subseteq stated \cup {t}
         /\ facts \subseteq facts' /\ facts' \subseteq Triple /\ {t} \ Malformed \subseteq facts'
         /\ Returned(t) \subseteq facts' \ Malformed
         /\ materialized' \subseteq materialized \cup {t} \cup Returned(t)
<1>. DEFINE fresh == {t} \ (facts \cup Malformed)
<1>1. /\ stated' = stated \cup fresh /\ hasEngine' = hasEngine /\ hasEngine = TRUE
      /\ facts' = Belief(stated')
      /\ materialized' = materialized \cup fresh \cup Shown(facts, facts')
  BY DEF EngineAdd, DB!Insert, DB!Views, Belief, StoreTyped
<1>2. facts = Belief(stated) /\ stated \subseteq Triple \ Malformed
  BY DEF StoreTyped, EngineSound
<1>3. stated' \subseteq Triple \ Malformed /\ stated \subseteq stated' /\ stated' \subseteq facts'
      /\ facts' \subseteq Triple
  BY <1>1, <1>2, BeliefGrows
<1>4. facts \subseteq facts'
  BY <1>1, <1>2, <1>3, BeliefMonotone
<1>5. Shown(facts, facts') \subseteq facts' \ Malformed
  BY <1>1, <1>3, ShownBelieved
<1>6. EngineSound'
  <2>1. Shown(Axioms, facts') \subseteq Shown(Axioms, facts) \cup Shown(facts, facts')
    BY ShownSplits
  <2>2. Shown(Axioms, facts') \subseteq materialized'
    BY <1>1, <2>1 DEF EngineSound
  <2>3. materialized' \subseteq facts'
    BY <1>1, <1>3, <1>4, <1>5 DEF EngineSound
  <2>4. Shown(Axioms, facts)' = Shown(Axioms, facts')
    BY DEF Shown, Permitted, Axioms, Belief, DB!Closure, DB!Closed
  <2>. QED  BY <1>1, <2>2, <2>3, <2>4 DEF EngineSound, Belief, DB!Closure, DB!Closed, Permitted
<1>7. {t} \ Malformed \subseteq facts'
  BY <1>1, <1>3, <1>4
<1>8. Returned(t) = Shown(facts, facts') \ (materialized \cup {t})
  BY DEF Returned
<1>. QED  BY <1>1, <1>3, <1>4, <1>5, <1>6, <1>7, <1>8

LEMMA RetractEffect ==
  ASSUME StoreTyped, EngineSound, hasEngine, NEW t \in Triple, EngineRetract(t)
  PROVE  /\ hasEngine' /\ EngineSound'
         /\ stated' = stated \ {t}
         /\ facts' = facts \ Cascade
         /\ materialized' = materialized \ Cascade
<1>1. /\ hasEngine' = hasEngine /\ stated' = stated \ {t} /\ hasEngine = TRUE
      /\ facts' = Belief(stated')
      /\ materialized' = materialized \ (facts \ facts')
  <2>1. CASE t \in stated
    BY <2>1 DEF EngineRetract, DB!Delete, DB!Views, Belief, StoreTyped
  <2>2. CASE t \notin stated
    BY <2>2 DEF EngineRetract, EngineSound, StoreTyped
  <2>. QED  BY <2>1, <2>2
<1>2. facts = Belief(stated) /\ stated \subseteq Triple
  BY DEF StoreTyped, EngineSound
<1>3. facts' \subseteq facts
  BY <1>1, <1>2, BeliefGrows, BeliefMonotone
<1>4. EngineSound'
  <2>1. Shown(Axioms, facts') \subseteq Shown(Axioms, facts)
    BY <1>3, ShownMonotone
  <2>2. stated' \subseteq Triple
    BY <1>1, <1>2
  <2>3. Shown(Axioms, facts') \subseteq facts'
    BY <1>1, <2>2, ShownBelieved
  <2>4. Shown(Axioms, facts)' = Shown(Axioms, facts')
    BY DEF Shown, Permitted, Axioms, Belief, DB!Closure, DB!Closed
  <2>. QED  BY <1>1, <2>1, <2>3, <2>4 DEF EngineSound, Belief, DB!Closure, DB!Closed, Permitted
<1>. QED  BY <1>1, <1>3, <1>4 DEF Cascade

LEMMA EngineRests ==
  ASSUME EngineSound, UNCHANGED engineState
  PROVE  EngineSound'
<1>1. /\ stated' = stated /\ facts' = facts /\ hasEngine' = hasEngine
      /\ materialized' = materialized
  BY DEF engineState
<1>2. Belief(stated)' = Belief(stated')
  BY DEF Belief, DB!Closure, DB!Closed, Permitted
<1>3. Shown(Axioms, facts)' = Shown(Axioms, facts')
  BY DEF Shown, Permitted, Axioms, Belief, DB!Closure, DB!Closed
<1>. QED  BY <1>1, <1>2, <1>3 DEF EngineSound

----------------------------------------------------------------------------
(* One step of the store.                                                  *)

\* A warmup between calls: open(), or a new store over the same backing store.
LEMMA WarmupInv ==
  ASSUME StoreInv, NoCall, Warmup, UNCHANGED <<callState, setup>>
  PROVE  StoreInv'
<1>. USE DEF StoreInv, callState, NoCall
<1>0. PICK S : S \subseteq facts' \ Malformed /\ backing' = backing \cup S
  BY WarmupEffect
<1>1. StoreTyped' /\ EngineSound'
  BY <1>0, WarmupEffect DEF StoreTyped
<1>2. ASSUME Screened PROVE WithinInv'
  <2>1. ~WarmupRaises
    BY <1>2 DEF WithinInv, WarmupRaises
  <2>2. backing \ Malformed \subseteq facts'
    BY <2>1, WarmupEffect
  <2>. QED  BY <1>0, <1>2, <2>2 DEF WithinInv
<1>3. ASSUME Ordinary PROVE Reflected'
  BY <1>3, WarmupEffect DEF Reflected
<1>. QED  BY <1>1, <1>2, <1>3 DEF Screened, Ordinary

LEMMA ReopenInv ==
  ASSUME StoreInv, Reopen, UNCHANGED setup
  PROVE  StoreInv'
<1>1. CASE ~setup.lazy
  BY <1>1, WarmupInv DEF Reopen
<1>2. CASE setup.lazy
  <2>. USE DEF StoreInv
  <2>1. /\ ~hasEngine' /\ stated' = {} /\ facts' = {} /\ materialized' = {}
        /\ backing' = backing /\ NoCall /\ UNCHANGED callState
    BY <1>2 DEF Reopen
  <2>2. StoreTyped'
    BY <1>2, <2>1 DEF StoreTyped, callState, NoCall, Reopen
  <2>3. EngineSound'
    BY <2>1 DEF EngineSound
  <2>4. Screened => WithinInv'
    BY <2>1 DEF WithinInv, callState, NoCall
  <2>. QED  BY <1>2, <2>2, <2>3, <2>4 DEF Screened, Ordinary
<1>. QED  BY <1>1, <1>2

LEMMA CreateInv ==
  ASSUME StoreInv, CreateEngine, UNCHANGED setup
  PROVE  StoreInv'
<1>. USE DEF StoreInv
<1>0. PICK S : S \subseteq facts' \ Malformed /\ backing' = backing \cup S
  BY WarmupEffect DEF CreateEngine
<1>a. ~hasEngine /\ todo # {} /\ (Return \/ UNCHANGED callState)
  BY DEF CreateEngine
<1>1. StoreTyped' /\ EngineSound'
  <2>1. /\ hasEngine' \in BOOLEAN /\ EngineSound' /\ facts' \subseteq Triple
        /\ stated' \subseteq Triple \ Malformed
    BY WarmupEffect DEF CreateEngine, StoreTyped
  <2>. QED  BY <1>0, <1>a, <2>1 DEF StoreTyped, Return, callState, NoCall
<1>2. ASSUME Screened PROVE WithinInv'
  <2>1. ~WarmupRaises
    BY <1>2 DEF WithinInv, WarmupRaises
  <2>2. backing \ Malformed \subseteq facts' /\ UNCHANGED callState
    BY <2>1, WarmupEffect DEF CreateEngine
  <2>. QED  BY <1>0, <1>a, <1>2, <2>2 DEF WithinInv, callState
<1>3. ~Ordinary
  BY <1>a DEF Reflected, StoreTyped, NoCall
<1>. QED  BY <1>1, <1>2, <1>3 DEF Screened, Ordinary

LEMMA StartInv ==
  ASSUME StoreInv, UNCHANGED setup,
         \/ \E Q \in setup.additions : StartAdd(Q)
         \/ \E P \in Patterns : StartRemove(P)
  PROVE  StoreInv'
<1>. USE DEF StoreInv
<1>1. PICK Q : /\ Q \subseteq Triple /\ NoCall /\ (hasEngine \/ setup.lazy)
               /\ \/ call' = "add" /\ todo' = Q
                  \/ call' = "remove" /\ todo' = Q \cap backing
               /\ operand' = Q /\ UNCHANGED <<backing, engineState, pending>>
  <2>1. CASE \E P \in Patterns : StartRemove(P)
    BY <2>1, StoreAssumption DEF StartRemove, Start
  <2>2. CASE \E Q \in setup.additions : StartAdd(Q)
    <3>1. setup.additions \subseteq SUBSET Triple
      BY StoreAssumption DEF StoreTyped
    <3>. QED  BY <2>2, <3>1 DEF StartAdd, Start
  <2>. QED  BY <2>1, <2>2
<1>2. StoreTyped' /\ EngineSound'
  BY <1>1, EngineRests DEF StoreTyped, engineState, NoCall
<1>3. Screened => WithinInv'
  BY <1>1 DEF WithinInv, engineState, NoCall
<1>4. Ordinary => Reflected'
  BY <1>1 DEF Reflected, engineState, NoCall, Ordinary
<1>. QED  BY <1>2, <1>3, <1>4 DEF Screened, Ordinary

LEMMA DropInv ==
  ASSUME StoreInv, NEW t \in todo, DropEvent(t), UNCHANGED setup
  PROVE  StoreInv'
<1>. USE DEF StoreInv
<1>1. /\ IF call = "remove" THEN t \notin backing ELSE t \in backing
      /\ todo' = todo \ {t} /\ UNCHANGED <<backing, engineState, call, operand, pending>>
  BY DEF DropEvent, Duplicate
<1>2. StoreTyped' /\ EngineSound'
  BY <1>1, EngineRests DEF StoreTyped, engineState, NoCall
<1>3. Screened => WithinInv'
  BY <1>1 DEF WithinInv, engineState, NoCall
<1>4. Ordinary => Reflected'
  BY <1>1 DEF Reflected, engineState, NoCall
<1>. QED  BY <1>2, <1>3, <1>4 DEF Screened, Ordinary

LEMMA AddEventInv ==
  ASSUME StoreInv, NEW t \in todo, AddEvent(t), UNCHANGED setup
  PROVE  StoreInv'
<1>. USE DEF StoreInv
<1>1. /\ hasEngine /\ t \in Triple /\ EngineAdd(t) /\ ~Raises(t)
      /\ call = "add" /\ backing' = backing \cup Returned(t) /\ todo' = todo \ {t}
      /\ UNCHANGED <<call, operand, pending>>
  BY DEF AddEvent, Handled, StoreTyped
<1>2. /\ hasEngine' /\ EngineSound'
      /\ stated' \subseteq Triple \ Malformed /\ stated' \subseteq stated \cup {t}
      /\ facts \subseteq facts' /\ facts' \subseteq Triple /\ {t} \ Malformed \subseteq facts'
      /\ Returned(t) \subseteq facts' \ Malformed
      /\ materialized' \subseteq materialized \cup {t} \cup Returned(t)
  BY <1>1, AddEffect
<1>3. StoreTyped'
  BY <1>1, <1>2 DEF StoreTyped, NoCall
<1>4. Screened => WithinInv'
  BY <1>1, <1>2 DEF WithinInv, Raises
<1>5. Ordinary => Reflected'
  BY <1>1, <1>2 DEF Reflected, NoCall, StoreTyped
<1>. QED  BY <1>2, <1>3, <1>4, <1>5 DEF Screened, Ordinary

LEMMA RemoveEventInv ==
  ASSUME StoreInv, NEW t \in todo, RemoveEvent(t), UNCHANGED setup
  PROVE  StoreInv'
<1>. USE DEF StoreInv
<1>1. /\ hasEngine /\ t \in Triple /\ EngineRetract(t)
      /\ call = "remove" /\ backing' = backing \ (Cascade \ {t}) /\ todo' = todo \ {t}
      /\ pending' = IF t \in facts' THEN pending \cup {t} ELSE pending
      /\ UNCHANGED <<call, operand>>
  BY DEF RemoveEvent, Handled, StoreTyped
<1>2. /\ hasEngine' /\ EngineSound' /\ stated' = stated \ {t}
      /\ facts' = facts \ Cascade /\ materialized' = materialized \ Cascade
  BY <1>1, RetractEffect
<1>3. StoreTyped'
  BY <1>1, <1>2 DEF StoreTyped, NoCall
<1>4. /\ stated' \subseteq facts' /\ facts' \cap Malformed = {}
      /\ materialized' \subseteq facts' /\ t \in operand
  <2>1. materialized' \subseteq facts' /\ t \in operand
    BY <1>2 DEF EngineSound, StoreTyped
  <2>2. (stated \subseteq facts /\ facts \cap Malformed = {})'
    BY <1>2, <1>3, BelievedStated, PTL
  <2>. QED  BY <2>1, <2>2
<1>5. Screened => WithinInv'
  BY <1>1, <1>2, <1>4 DEF WithinInv
<1>6. Ordinary => Reflected'
  BY <1>1, <1>2, <1>4 DEF Reflected, NoCall
<1>. QED  BY <1>2, <1>3, <1>5, <1>6 DEF Screened, Ordinary

LEMMA FinishEventsInv ==
  ASSUME StoreInv, FinishEvents, UNCHANGED setup
  PROVE  StoreInv'
<1>. USE DEF StoreInv
<1>1. /\ call = "remove" /\ todo = {} /\ backing' = backing \ operand
      /\ call' = "flush" /\ todo' = pending /\ pending' = {}
      /\ UNCHANGED <<engineState, operand>>
  BY DEF FinishEvents
<1>2. StoreTyped' /\ EngineSound'
  BY <1>1, EngineRests DEF StoreTyped, engineState, NoCall
<1>3. Screened => WithinInv'
  BY <1>1 DEF WithinInv, engineState
<1>4. Ordinary => Reflected'
  BY <1>1 DEF Reflected, engineState, NoCall
<1>. QED  BY <1>2, <1>3, <1>4 DEF Screened, Ordinary

LEMMA RematerializeInv ==
  ASSUME StoreInv, NEW t \in todo, Rematerialize(t), UNCHANGED setup
  PROVE  StoreInv'
<1>. USE DEF StoreInv
<1>1. /\ hasEngine /\ t \in Triple /\ EngineAdd(t)
      /\ call = "flush" /\ backing' = backing \cup Returned(t) \cup {t} /\ todo' = todo \ {t}
      /\ UNCHANGED <<call, operand, pending>>
  BY DEF Rematerialize, Handled, StoreTyped
<1>2. /\ hasEngine' /\ EngineSound'
      /\ stated' \subseteq Triple \ Malformed /\ stated' \subseteq stated \cup {t}
      /\ facts \subseteq facts' /\ facts' \subseteq Triple /\ {t} \ Malformed \subseteq facts'
      /\ Returned(t) \subseteq facts' \ Malformed
      /\ materialized' \subseteq materialized \cup {t} \cup Returned(t)
  BY <1>1, AddEffect
<1>3. StoreTyped'
  BY <1>1, <1>2 DEF StoreTyped, NoCall
<1>4. Screened => WithinInv'
  BY <1>1, <1>2 DEF WithinInv
<1>5. Ordinary => Reflected'
  BY <1>1, <1>2 DEF Reflected, NoCall, StoreTyped
<1>. QED  BY <1>2, <1>3, <1>4, <1>5 DEF Screened, Ordinary

\* The ends of calls, and removes that pass the engine by.
LEMMA ReturnInv ==
  ASSUME StoreInv, UNCHANGED setup,
         \/ \E t \in todo : AddEventRaises(t)
         \/ FinishAdd \/ FinishRemove \/ \E P \in Patterns : RemoveUnscoped(P)
  PROVE  StoreInv'
<1>. USE DEF StoreInv
<1>a. CASE \E t \in todo : AddEventRaises(t)
  <2>1. /\ call = "add" /\ call' = "none" /\ operand' = {} /\ todo' = {} /\ pending' = {}
        /\ setup.raises /\ UNCHANGED <<backing, engineState>>
    BY <1>a DEF AddEventRaises, Return, Raises
  <2>2. StoreTyped' /\ EngineSound'
    BY <2>1, EngineRests DEF StoreTyped, engineState, NoCall
  <2>3. Screened => WithinInv'
    BY <2>1 DEF WithinInv, engineState
  <2>. QED  BY <2>1, <2>2, <2>3 DEF Screened, Ordinary
<1>b. CASE FinishAdd
  <2>1. /\ call = "add" /\ call' = "none" /\ operand' = {} /\ todo' = {} /\ pending' = {}
        /\ todo = {} /\ backing' = backing \cup operand /\ UNCHANGED engineState
    BY <1>b DEF FinishAdd, Return
  <2>2. StoreTyped' /\ EngineSound'
    BY <2>1, EngineRests DEF StoreTyped, engineState, NoCall
  <2>3. Screened => WithinInv'
    BY <2>1 DEF WithinInv, engineState
  <2>4. Ordinary => Reflected'
    BY <2>1 DEF Reflected, engineState, NoCall
  <2>. QED  BY <2>2, <2>3, <2>4 DEF Screened, Ordinary
<1>c. CASE FinishRemove
  <2>1. /\ call = "flush" /\ call' = "none" /\ operand' = {} /\ todo' = {} /\ pending' = {}
        /\ todo = {} /\ UNCHANGED <<backing, engineState>>
    BY <1>c DEF FinishRemove, Return
  <2>2. StoreTyped' /\ EngineSound'
    BY <2>1, EngineRests DEF StoreTyped, engineState, NoCall
  <2>3. Screened => WithinInv'
    BY <2>1 DEF WithinInv, engineState
  <2>4. Ordinary => Reflected'
    BY <2>1 DEF Reflected, engineState, NoCall
  <2>. QED  BY <2>2, <2>3, <2>4 DEF Screened, Ordinary
<1>d. CASE \E P \in Patterns : RemoveUnscoped(P)
  <2>1. /\ backing' \subseteq backing /\ NoCall /\ setup.unscoped
        /\ UNCHANGED <<engineState, callState>>
    BY <1>d DEF RemoveUnscoped
  <2>2. StoreTyped' /\ EngineSound'
    BY <2>1, EngineRests DEF StoreTyped, engineState, callState, NoCall
  <2>3. Screened => WithinInv'
    BY <2>1 DEF WithinInv, engineState, callState, NoCall
  <2>. QED  BY <2>1, <2>2, <2>3 DEF Screened, Ordinary
<1>. QED  BY <1>a, <1>b, <1>c, <1>d

LEMMA StoreInitInv == StoreInit => StoreInv
<1>. SUFFICES ASSUME StoreInit PROVE StoreInv
  OBVIOUS
<1>1. setup \in Setups /\ backing \in setup.backings /\ setup.backings \subseteq SUBSET Triple
  BY StoreAssumption DEF StoreInit
<1>2. StoreTyped /\ EngineSound
  BY <1>1 DEF StoreInit, StoreTyped, EngineSound, NoCall
<1>3. Screened => WithinInv
  BY <1>1 DEF StoreInit, Screened, WithinInv
<1>4. Reflected
  BY DEF StoreInit, Reflected, NoCall
<1>. QED  BY <1>2, <1>3, <1>4 DEF StoreInv

LEMMA StoreNextInv == StoreInv /\ [StoreNext]_storeVars => StoreInv'
<1>. SUFFICES ASSUME StoreInv, [StoreNext]_storeVars PROVE StoreInv'
  OBVIOUS
<1>1. CASE UNCHANGED storeVars
  <2>1. EngineSound'
    BY <1>1, EngineRests DEF StoreInv, storeVars
  <2>. QED  BY <1>1, <2>1 DEF storeVars, engineState, callState, StoreInv, StoreTyped, Screened,
                 WithinInv, Ordinary, Reflected, NoCall
<1>2. CASE StoreNext
  <2>. USE <1>2 DEF StoreNext
  <2>1. CASE Open
    BY <2>1, WarmupInv DEF Open
  <2>2. CASE Reopen
    BY <2>2, ReopenInv
  <2>3. CASE CreateEngine
    BY <2>3, CreateInv
  <2>4. CASE (\E Q \in setup.additions : StartAdd(Q)) \/ (\E P \in Patterns : StartRemove(P))
    BY <2>4, StartInv
  <2>5. CASE \E t \in todo : DropEvent(t)
    BY <2>5, DropInv
  <2>6. CASE \E t \in todo : AddEvent(t)
    BY <2>6, AddEventInv
  <2>7. CASE \E t \in todo : RemoveEvent(t)
    BY <2>7, RemoveEventInv
  <2>8. CASE FinishEvents
    BY <2>8, FinishEventsInv
  <2>9. CASE \E t \in todo : Rematerialize(t)
    BY <2>9, RematerializeInv
  <2>10. CASE \/ \E t \in todo : AddEventRaises(t)
              \/ FinishAdd \/ FinishRemove \/ \E P \in Patterns : RemoveUnscoped(P)
    BY <2>10, ReturnInv
  <2>. QED  BY <2>1, <2>2, <2>3, <2>4, <2>5, <2>6, <2>7, <2>8, <2>9, <2>10 DEF Step
<1>. QED  BY <1>1, <1>2

----------------------------------------------------------------------------
(* Theorems.                                                               *)

LEMMA StoreInvariant == StoreSpec => []StoreInv
BY StoreInitInv, StoreNextInv, PTL DEF StoreSpec

\* The state of the store keeps its types, and no call leaves events or re-adds to
\* a later one.
THEOREM StoreTypeCorrect == StoreSpec => []StoreTypeOK
<1>1. StoreInv => StoreTypeOK
  BY DEF StoreInv, StoreTyped, EngineSound, StoreTypeOK, NoCall
<1>. QED  BY <1>1, StoreInvariant, PTL

\* Between calls everything asserted is in the backing store, for every rule set and
\* in whatever order the events of a call are handled.
THEOREM StatedStaysInStore == StoreSpec => []StatedInStore
<1>1. StoreInv => StatedInStore
  BY DEF StoreInv, Reflected, StatedInStore
<1>. QED  BY <1>1, StoreInvariant, PTL

\* Between calls everything the engine has shown and still believes is in the backing
\* store: no cascade, re-add or dropped event leaves the two apart.
THEOREM VisibleStaysInStore == StoreSpec => []VisibleInStore
<1>1. StoreInv => VisibleInStore
  BY DEF StoreInv, Reflected, VisibleInStore
<1>. QED  BY <1>1, StoreInvariant, PTL

\* The engine believes what is stored, except what the term policies keep out, if no
\* raising policy finds a malformed triple in the store it is given.
THEOREM StoreStaysWithinEngine ==
  ASSUME \A s \in Setups : s.raises => \A B \in s.backings : B \cap Malformed = {}
  PROVE  StoreSpec => []StoreWithinEngine
<1>1. StoreInv => StoreWithinEngine
  <2>. SUFFICES ASSUME StoreInv PROVE StoreWithinEngine
    OBVIOUS
  <2>1. Screened
    BY DEF StoreInv, StoreTyped, Screened
  <2>. QED  BY <2>1 DEF StoreInv, WithinInv, StoreWithinEngine, NoCall
<1>. QED  BY <1>1, StoreInvariant, PTL

\* A new store over what an old one left finds the same graph and comes to the same
\* conclusions.
THEOREM ReopeningIsNeutral == StoreSpec => ReopenIsNeutral
<1>1. StoreInv /\ [StoreNext]_storeVars =>
        [(Ordinary /\ Reopen /\ hasEngine') => backing' = backing /\ facts' = facts]_storeVars
  <2>. SUFFICES ASSUME StoreInv, Ordinary, Reopen
                PROVE  backing' = backing /\ facts' = facts
    OBVIOUS
  <2>1. Warmup /\ hasEngine /\ NoCall /\ ~WarmupRaises
    BY DEF Reopen, Ordinary, WarmupRaises
  <2>2. /\ StoreTyped /\ EngineSound
        /\ backing \ Malformed \subseteq facts /\ stated \cup materialized \subseteq backing
    BY <2>1 DEF StoreInv, Screened, Ordinary, WithinInv, Reflected, NoCall
  <2>3. /\ stated' \subseteq backing \ Malformed /\ facts' = Belief(stated')
        /\ backing \ Malformed \subseteq facts'
    BY <2>1, <2>2, WarmupEffect
  <2>4. /\ facts = Belief(stated) /\ Shown(Axioms, facts) \subseteq materialized
        /\ stated \subseteq backing \ Malformed /\ backing \subseteq Triple
    BY <2>1, <2>2 DEF StoreTyped, EngineSound
  <2>5. facts' \subseteq facts
    <3>1. stated' \subseteq Belief(stated) /\ stated \subseteq Triple
      BY <2>2, <2>3, <2>4
    <3>. QED  BY <2>3, <2>4, <3>1, BeliefMonotone
  <2>6. facts \subseteq facts'
    <3>1. stated \subseteq Belief(stated') /\ stated' \subseteq Triple
      BY <2>3, <2>4
    <3>. QED  BY <2>3, <2>4, <3>1, BeliefMonotone
  <2>7. backing' = backing \cup Shown(Axioms, facts')
    BY <2>1 DEF Warmup, Belief, Axioms
  <2>. QED  BY <2>2, <2>4, <2>5, <2>6, <2>7
<1>. QED  BY <1>1, StoreInvariant, PTL DEF StoreSpec, ReopenIsNeutral
=============================================================================
