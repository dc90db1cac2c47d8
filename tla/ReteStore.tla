----------------------------- MODULE ReteStore -----------------------------
(***************************************************************************)
(* RETEStore (engine/rete_store.py) with its BatchDispatcher               *)
(* (engine/batch_dispatcher.py): one context of a backing store and the    *)
(* engine driven by the store's mutations.  Events go out before the       *)
(* backing store changes, one per triple, and each is handled to its end   *)
(* before the next one: the engine's conclusions reach the backing store   *)
(* by nested addN calls, its cascades by nested removes, and triples that  *)
(* are removed but still believed come back when the outermost remove ends. *)
(*                                                                         *)
(* The engine is the DeductiveDatabase that ReteEngine implements, in the  *)
(* case that no saturation ends in an exception, plus the set of           *)
(* conclusions it has shown.  The one exception modelled is the term       *)
(* policy's, raised before any change.                                     *)
(***************************************************************************)
EXTENDS Naturals

CONSTANTS
  Triple, Instance, Antecedents, Conclusions, Silent, Malformed, \* as in ReteEngine
  Setups,        \* the ways a store is set up and used, see setup
  Patterns       \* the triples that a remove pattern matches

ASSUME StoreAssumption ==
  /\ Antecedents \in [Instance -> SUBSET Triple] /\ Conclusions \in [Instance -> SUBSET Triple]
  /\ Silent \subseteq Instance /\ Malformed \subseteq Triple
  /\ Setups \subseteq [raises : BOOLEAN, lazy : BOOLEAN, unscoped : BOOLEAN,
                      backings : SUBSET SUBSET Triple, additions : SUBSET SUBSET Triple]
  /\ Patterns \subseteq SUBSET Triple

VARIABLES
  setup,          \* raises: term policies "error" or "warning"; lazy: engines are
                  \* created by the first event, not by open(); unscoped: callers
                  \* also remove with context=None; backings: what the backing store
                  \* may hold at first; additions: the quads of add and addN, as sets
  backing,        \* the triples of the context in the backing store
  hasEngine,      \* the context is in "engines"
  stated, facts,  \* the engine's base and its working memory
  materialized,   \* the engine's materialized_triples
  call,           \* "none", or the public call under way: add, remove, flush
  operand,        \* the quads or the matches of that call
  todo,           \* those whose event is still to be dispatched
  pending         \* _pending_rematerialize

engineState == <<hasEngine, stated, facts, materialized>>
callState   == <<call, operand, todo, pending>>
storeVars   == <<setup, backing, engineState, callState>>

Permitted(i) == Conclusions[i] \ Malformed

DB == INSTANCE DeductiveDatabase WITH
        Conclusions <- [i \in Instance |-> Permitted(i)],
        base <- stated, booted <- hasEngine, settled <- TRUE, view <- facts

StoreInit ==
  /\ setup \in Setups
  /\ backing \in setup.backings
  /\ hasEngine = FALSE
  /\ stated = {} /\ facts = {} /\ materialized = {}
  /\ call = "none" /\ operand = {} /\ todo = {} /\ pending = {}

----------------------------------------------------------------------------
(* The engine, one call at a time                                          *)

\* Conclusions of the non-silent instances that fire when working memory grows
\* from old to new; only a match that was not complete before fires.
Shown(old, new) ==
  UNION {Permitted(i) : i \in {j \in Instance \ Silent :
                                 Antecedents[j] \subseteq new /\ ~ Antecedents[j] \subseteq old}}

\* _ensure_engine with a new context: bootstrap, then everything the backing
\* store holds is stated, or nothing when one triple of it raises.  The visible
\* conclusions go to the backing store, where their events find known triples.
WarmupRaises == setup.raises /\ backing \cap Malformed # {}

\* (Mutant of Warmup: the term policies are not applied to the stored triples.)
WarmupUnfiltered ==
  LET axioms == DB!Closure({}, TRUE)
      fresh  == backing \ axioms
  IN  /\ hasEngine' = TRUE
      /\ stated' = fresh
      /\ facts' = DB!Closure(fresh, TRUE)
      /\ materialized' = fresh \cup Shown(axioms, facts')
      /\ backing' = backing \cup Shown(axioms, facts')

Warmup ==
  LET axioms == DB!Closure({}, TRUE)
      fresh  == IF WarmupRaises THEN {} ELSE backing \ (Malformed \cup axioms)
  IN  /\ hasEngine' = TRUE
      /\ stated' = fresh
      /\ facts' = DB!Closure(fresh, TRUE)
      /\ materialized' = fresh \cup Shown(axioms, facts')
      /\ backing' = backing \cup Shown(axioms, facts')

\* add_triples of one triple, which is not stated when it is known or malformed;
\* Returned is what it returns.
EngineAdd(t) ==
  LET fresh == {t} \ (facts \cup Malformed)
  IN  /\ DB!Insert(fresh)
      /\ materialized' = materialized \cup fresh \cup Shown(facts, facts')
Returned(t) == Shown(facts, facts') \ (materialized \cup {t})

\* retract_triples of one triple; the cascade is what leaves working memory.
EngineRetract(t) ==
  /\ IF t \in stated THEN DB!Delete(t) ELSE UNCHANGED <<stated, facts, hasEngine>>
  /\ materialized' = materialized \ (facts \ facts')
Cascade == facts \ facts'

----------------------------------------------------------------------------
(* Calls                                                                   *)

NoCall == call = "none"
Return == call' = "none" /\ operand' = {} /\ todo' = {} /\ pending' = {}

\* open() of a store with this context, or add_graph.
Open ==
  /\ NoCall /\ ~hasEngine
  /\ Warmup
  /\ UNCHANGED <<callState>>

\* A new RETEStore over the same backing store, as after a restart.
Reopen ==
  /\ NoCall /\ hasEngine
  /\ IF setup.lazy THEN /\ hasEngine' = FALSE
                  /\ stated' = {} /\ facts' = {} /\ materialized' = {}
                  /\ UNCHANGED backing
             ELSE Warmup
  /\ UNCHANGED <<callState>>

Start(name, triples, events) ==
  /\ NoCall /\ (hasEngine \/ setup.lazy)
  /\ call' = name /\ operand' = triples /\ todo' = events
  /\ UNCHANGED <<backing, engineState, pending>>

\* (Mutant of StartRemove: no events before the backing store is changed.)
StartRemoveSilently(P) == Start("remove", P, {})

StartAdd(Q)    == Start("add", Q, Q)
StartRemove(P) == Start("remove", P, P \cap backing)

\* BatchDispatcher drops the event of a triple that is already there, or gone.
Duplicate(t) == IF call = "remove" THEN t \notin backing ELSE t \in backing

DropEvent(t) ==
  /\ t \in todo /\ Duplicate(t)
  /\ todo' = todo \ {t}
  /\ UNCHANGED <<backing, engineState, call, operand, pending>>

\* The first event that gets through creates the engine, which is registered
\* before its warmup may raise; the event itself is handled next.
CreateEngine ==
  /\ ~hasEngine /\ \E t \in todo : ~Duplicate(t)
  /\ Warmup
  /\ IF WarmupRaises THEN Return ELSE UNCHANGED callState

Handled(t) == hasEngine /\ t \in todo /\ ~Duplicate(t)
Raises(t)  == setup.raises /\ t \in Malformed

AddEvent(t) ==
  /\ call = "add" /\ Handled(t) /\ ~Raises(t)
  /\ EngineAdd(t)
  /\ backing' = backing \cup Returned(t)
  /\ todo' = todo \ {t}
  /\ UNCHANGED <<call, operand, pending>>

\* The exception leaves add or addN before the backing store is touched.
AddEventRaises(t) ==
  /\ call = "add" /\ Handled(t) /\ Raises(t)
  /\ Return
  /\ UNCHANGED <<backing, engineState>>

FinishAdd ==
  /\ call = "add" /\ todo = {}
  /\ backing' = backing \cup operand
  /\ Return
  /\ UNCHANGED engineState

\* (Mutant of RemoveEvent: the cascade stays in the backing store.)
RemoveEventWithoutCascade(t) ==
  /\ call = "remove" /\ Handled(t)
  /\ EngineRetract(t)
  /\ pending' = IF t \in facts' THEN pending \cup {t} ELSE pending
  /\ todo' = todo \ {t}
  /\ UNCHANGED <<backing, call, operand>>

\* The nested removes of the cascade change the backing store at once; t itself
\* is removed later, and comes back if the engine still believes it.
RemoveEvent(t) ==
  /\ call = "remove" /\ Handled(t)
  /\ EngineRetract(t)
  /\ backing' = backing \ (Cascade \ {t})
  /\ pending' = IF t \in facts' THEN pending \cup {t} ELSE pending
  /\ todo' = todo \ {t}
  /\ UNCHANGED <<call, operand>>

\* (Mutants of FinishEvents: the pending re-adds are left for a later call, or
\* dropped.)
FinishEventsKeepingPending ==
  /\ call = "remove" /\ todo = {}
  /\ backing' = backing \ operand
  /\ call' = "none" /\ operand' = {}
  /\ UNCHANGED <<engineState, todo, pending>>
FinishEventsDroppingPending ==
  /\ call = "remove" /\ todo = {}
  /\ backing' = backing \ operand
  /\ call' = "flush" /\ pending' = {}
  /\ UNCHANGED <<engineState, todo, operand>>

\* The backing store removes whatever matches the pattern by now.
FinishEvents ==
  /\ call = "remove" /\ todo = {}
  /\ backing' = backing \ operand
  /\ call' = "flush" /\ todo' = pending /\ pending' = {}
  /\ UNCHANGED <<engineState, operand>>

\* _flush_rematerialize: each pending triple is added through the store again.
Rematerialize(t) ==
  /\ call = "flush" /\ Handled(t)
  /\ EngineAdd(t)
  /\ backing' = backing \cup Returned(t) \cup {t}
  /\ todo' = todo \ {t}
  /\ UNCHANGED <<call, operand, pending>>

FinishRemove ==
  /\ call = "flush" /\ todo = {}
  /\ Return
  /\ UNCHANGED <<backing, engineState>>

\* remove(pattern, None) goes straight to the backing store.
RemoveUnscoped(P) ==
  /\ NoCall /\ setup.unscoped
  /\ backing' = backing \ P
  /\ UNCHANGED <<engineState, callState>>

Step ==
  \/ Open
  \/ Reopen
  \/ CreateEngine
  \/ \E Q \in setup.additions : StartAdd(Q)
  \/ \E P \in Patterns : StartRemove(P)
  \/ \E t \in todo : DropEvent(t)
  \/ \E t \in todo : AddEvent(t)
  \/ \E t \in todo : AddEventRaises(t)
  \/ \E t \in todo : RemoveEvent(t)
  \/ \E t \in todo : Rematerialize(t)
  \/ FinishAdd
  \/ FinishEvents
  \/ FinishRemove
  \/ \E P \in Patterns : RemoveUnscoped(P)

StoreNext == Step /\ UNCHANGED setup

StoreSpec == StoreInit /\ [][StoreNext]_storeVars

----------------------------------------------------------------------------
(* Properties                                                              *)

\* The sets are sets of triples, and no call leaves events or re-adds behind for
\* a later one (StoreTypeOK's last conjunct).
StoreTypeOK ==
  /\ hasEngine \in BOOLEAN
  /\ \A S \in {backing, stated, facts, materialized, operand, todo, pending} : S \in SUBSET Triple
  /\ call \in {"none", "add", "remove", "flush"}
  /\ NoCall => operand = {} /\ todo = {} /\ pending = {}

\* Between calls the engine believes whatever the backing store holds, except
\* what the term policies keep out.
StoreWithinEngine == (NoCall /\ hasEngine) => backing \ Malformed \subseteq facts

\* A store that is opened before use, whose callers name the context and whose
\* policies drop a malformed triple without raising.
Ordinary == ~setup.raises /\ ~setup.lazy /\ ~setup.unscoped

\* Between calls what the engine takes for asserted is in the backing store.
StatedInStore == (Ordinary /\ NoCall) => stated \subseteq backing

\* Between calls what the engine has shown and still believes is in the backing
\* store: where the two disagree about a triple, the engine's belief wins
\* (DR-025).
VisibleInStore == (Ordinary /\ NoCall) => materialized \subseteq backing

\* Reopening changes neither the stored graph nor its closure, though what was
\* derived counts as stated from then on (DR-004).
ReopenIsNeutral ==
  [][ (Ordinary /\ Reopen /\ hasEngine') => backing' = backing /\ facts' = facts ]_storeVars

\* A triple that comes back after its removal is one the engine still derives:
\* its re-add states nothing (docstring of _flush_rematerialize).
RematerializedIsDerived ==
  [][ call = "flush" => stated' = stated ]_storeVars
=============================================================================
