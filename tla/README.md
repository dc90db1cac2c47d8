# A verification project for rdflib-reasoning

`rdflib-reasoning` gives RDFLib graphs a rule engine: triples added to a graph
are closed under a rule set (RDFS, parts of OWL 2 RL), triples removed take
their conclusions with them, and every conclusion can be explained.  A second
package lifts RDF graphs into OWL structural elements.  On top sits middleware
that lets a language-model agent edit a dataset, keeps the run of the agent on
its rails, and traces it.  This directory holds TLA+ modules of the parts with
state, TLC configurations that check them, and proofs of what matters most.

## 1. The system

### Components

Three Python packages: `rdflib-reasoning-engine` (E), `rdflib-reasoning-middleware`
(M) and `rdflib-reasoning-axioms` (A).

| component | source | state | operations |
|---|---|---|---|
| Truth maintenance (TMS) | E `rete/tms.py` | facts with a *stated* flag, justifications per consequent, a dependency graph in both directions | `register_stated`, `record_derivation`, `retract_triple`, `clear`, support queries |
| RETE engine, one per context | E `rete_engine.py` | `known_triples`, `materialized_triples`, bootstrap flag, derivation log, contradiction records; owns TMS and matcher | `warmup`, `add_triples`, `retract_triples`, `close`, `clear_contradiction_records` |
| Network matcher | E `rete/network.py`, `rete/compiler.py` | alpha and beta memories of partial matches | `match_terminals`, `evict_partial_matches_referencing` |
| Agenda | E `rete/agenda.py` | a heap, for one iteration | ordered draining |
| Store and dispatcher | E `rete_store.py`, `batch_dispatcher.py` | backing store, an engine per context, queued batches, pending re-adds, nesting depth | `open`, `add`, `addN`, `remove`, `add_graph` |
| Derivation log and proofs | E `derivation.py`, `proof*.py` | append-only records | logging, reconstruction of a proof from the log, rendering |
| Rules, rule sets, builtins, configuration | E `rules.py`, `rulesets/`, `builtins.py`, `api.py`, ... | none (immutable) | pure functions |
| Dataset session | M `shared_services.py` | the live dataset behind a fair readers-writer lock, term counts | read, write, snapshot, replace |
| Dataset middleware | M `dataset_middleware.py` | revision, repeated-call signatures, blank nodes, continuation mode | agent tools: list, add, remove, serialize, reset |
| Continuation guard | M `continuation_guard_middleware.py`, `_message_heuristics.py` | mode `normal` / `finalize_only` / `stop_now`, round counters, the conversation, a pending reminder | hooks before, around and after each model call |
| Turn tracing | M `tracing.py` | bounded event buffer | callbacks append; events are folded into turns with their tool invocations |
| Vocabulary middleware, search, specifications | M `rdf_vocabulary_middleware.py`, `vocabulary/`, `namespaces/` | last tool-call signature, a cache filled once | read-only tools |
| Structural axioms | A `axiomatize.py` and the element classes | for one call: triples consumed, elements found | OWL elements from triples (`axiomatize`) and back (`as_triples`) |

### How they interact

A caller mutates a `Graph`; the graph calls `RETEStore`; the store emits one raw
event per triple **before** it writes; `BatchDispatcher` drops the events of
triples already there (or gone), queues the rest per context and delivers batches;
the store's handlers call the engine of the context and then mutate the backing
store again, through themselves, so that events nest.  The engine asks the
matcher for new matches of the facts in the TMS, runs them in agenda order,
records derivations in the TMS, and repeats until an iteration concludes nothing
new.  A removal goes the same way: the TMS decides what leaves, the matcher
evicts, the store removes the cascade and re-adds what is still believed.
Everything in the engine is synchronous and single-threaded: the order that
matters is that of nested calls, sets and dictionaries, and exceptions.

An agent alternates between a model call and the tool calls it asked for.  The
guard stands before, around and after each model call, the dataset middleware
around each tool call, where the calls of one turn run on threads of their own
and meet at the lock of the session; the two share `continuation_mode`.  The
tracer sees the callbacks of all of it.  `axiomatize` is a pure function of a
graph, called on its own.

### What is hard

* Circular support: rules conclude each other's premises (`rdfs:subClassOf`,
  `rdfs11` on a reflexive triple), so "has a justification" and "follows from
  what was stated" differ.
* Three copies of one set (`known_triples`, working memory, the backing store)
  that are updated at different moments, and matcher memories that must forget
  exactly what was retracted.
* Sets visited in any order: retraction inputs, matches of a remove pattern,
  verification candidates, activations of equal rank.
* Exceptions in the middle of a saturation (the default contradiction recorder
  raises), or between an event and the write it announces.
* Engines created lazily by the first event of a context, on top of a backing
  store that has content already.
* In the middleware: a lock that is not re-entrant, guards that compare sizes
  before and after a call, tool calls of one turn that overlap, circuit breakers
  kept in conversation state, a transcript that several hooks rewrite, callbacks
  of parallel tool calls without a common order, a buffer that drops events.
* In `axiomatize`: some fifty passes over one graph that compete for the same
  triples, where the order of the passes decides which element a triple becomes.

`PROJECT.json` lists the hazards one by one at their lines, with the properties
that would notice them, or the reason why none does.

### What makes each component correct

* **TMS**: tables that always agree; a sweep that removes everything that lost
  its ground and nothing else.
* **Engine**: between calls, working memory is the deductive closure of what is
  stated, whatever the order of calls and activations; a call that raises may
  cost conclusions but invents none; what is visible is logged; malformed triples
  stay out; every call ends.
* **Store**: between calls, backing store and engine agree: nothing the engine
  has shown and believes is missing, nothing is stored that it does not believe;
  reopening changes nothing.
* **Dataset**: no lost update and no deadlock, guards that reflect the dataset they
  speak of, `finalize_only` only when it is earned.
* **Guard**: the provider gets only transcripts it accepts, guidance reaches the
  model, answers written in its place are current, stubborn runs end.
* **Tracing**: every result and message reaches the invocation of its own call; a
  full buffer costs whole turns.
* **Axioms**: every triple of a lifted graph belongs to exactly one element, and the
  elements state the graph again.

## 2. The modules

| module | models | role |
|---|---|---|
| `TMS` | `rete/tms.py` | state machine with one action per method |
| `TMSProofs` | | proofs about `TMS` |
| `ReteEngine` | `rete_engine.py`, what it uses of `rete/network.py`, `rete/agenda.py`, `derivation.py` | extends `TMS`: calls cut into the steps at which the order or an exception matters |
| `ReteEngineProofs` | | proofs about `ReteEngine`, on those about `TMS`: its invariants, and that it implements `DeductiveDatabase` |
| `DeductiveDatabase` | the contract of the engine | abstract specification: a base, and a view that is its closure as long as nothing raises |
| `ReteStore` | `rete_store.py`, `batch_dispatcher.py` | the store over the engine, which it uses through `DeductiveDatabase` |
| `ReteStoreProofs` | | proofs about `ReteStore` |
| `DatasetMiddleware` | `dataset_middleware.py`, `shared_services.py` | tool calls of an agent that run at the same time, their guards and the lock around the dataset |
| `DatasetMiddlewareProofs` | | proofs about `DatasetMiddleware`: lock, mode, the session it implements, the repetition guards |
| `DatasetSession` | the contract of `shared_services.py` | abstract specification: writes at one instant, readers between them |
| `ContinuationGuard` | `continuation_guard_middleware.py`, `_message_heuristics.py` | the hooks around a model call, one action per way out of a hook, and the transcript they share |
| `ContinuationGuardProofs` | | proofs about `ContinuationGuard`: the repair of transcripts, and the invariants of a run |
| `TurnTracing` | `tracing.py` | the callbacks, the bounded sink, and the fold of events into turns |
| `TurnTracingProofs` | | proofs about `TurnTracing`: the fold over events, what a full sink loses, which call an event reaches |
| `OwlElements` | the element classes of the axioms package | pure: which fields an element has, what its validators accept, its triples |
| `Axiomatize` | `axiomatize.py` | extends `OwlElements`: the passes, one action per outcome of a visit |
| `AxiomatizeProofs` | | proofs about `Axiomatize`: the account of triples, walks, readings and rows of the passes |
| `Induction` | | lemmas on numbers and on functions defined by recursion over them, which the three proof modules above use |
| `MC...` | | inputs, rule instances and bounds for TLC |

### Data that is abstracted

A triple is a model value (in the engine and the dataset) or a tuple of strings (in
`Axiomatize`, where its terms matter).  A fact id is a hash of its triple, so tables
keyed by id are keyed by triple.  A justification key consists of rule id, antecedent
ids, bindings and depth, that is, of one *ground rule instance*: `Instance`,
`Antecedents` and `Conclusions` are constants, and the theorems hold for every
value of them.  Bindings, patterns and terms do not appear.  A dictionary entry
with an empty set is the same as no entry, as in the code, which reads both the
same way.  A message of the conversation carries what the guard tests: who speaks,
the calls asked for, the markers found in a text, the family of a reminder, the status
of a tool result.

### TMS

`facts`, `stated`, `justifications`, `antecedentsOf`, `consequentsOf` are the five
tables of `TMSController`.  `RegisterStated`, `RecordDerivation`, `RetractTriple` and
`Clear` are its methods; `RetractTriple` has the three outcomes of the code
(nothing, or a refusal; only the flag; a sweep).  The worklists of mark and
verify are written as the least sets they compute (`Candidates`, `Kept`); what
the sweep then does to the graph (`discard_consequent` for each swept fact,
`update_consequent_edges` for each kept one) is spelled out, because the two
directions of the graph are updated from each other.

### ReteEngine

`phase` says where a call is.  `add_triples`: `StartAdd`, then rounds of `Match`,
`Fire` for each activation (or `SkipBootstrap`), `EndIteration`.  `warmup`:
`StartWarmup`, rounds in the bootstrap phase, `FinishBootstrap` which goes on as
`add_triples`.  `retract_triples`: `StartRetract`, `RetractOne` for each input in any
order, `FinishRetract`.  `FireRaises` is an activation that ends its call: a contradiction with
the raising recorder, a callback that fails, a conclusion refused under the
`error` policy.  `MatchRaises` is a pass that ends it: the predicates of a rule
(`Tested`) are tried when its matches are made into activations, and an unknown or
failing one raises when the memories hold all new matches already, so that none of them is
scheduled then or later.  `config` is the set-up of the engine (recorder, policies, predicates), chosen at the start from
`Configurations`; `settled` is a history variable: no call has raised so far.
The matcher is represented by `matched`: the instances whose
matches are stored in its memories, so that `Match` delivers only new ones;
eviction removes those that rest on a retracted fact.  Instances without
premises (bootstrap rules) are delivered on every pass and skipped after the
bootstrap.

### ReteStore

One context.  `Open`, `Reopen`, `CreateEngine` are `_ensure_engine` at its three
occasions.  `StartAdd` / `StartRemove` take the operand of `addN` and the matches
of a remove; `DropEvent`, `AddEvent`, `RemoveEvent` handle one event to its end,
nested adds and removes included; `FinishAdd` and `FinishEvents` are the write to
the backing store that follows the events; `Rematerialize` and `FinishRemove` are
the flush of pending re-adds.  `setup` says how the store is set up and used
(policies that raise, engines created lazily, removals without a context).  The engine's
calls are the actions of `DeductiveDatabase`, which the run `engine` and the theorem
`LayeredEngineIsDatabase` show to be what the engine does, in the case that no saturation raises, together with the set of shown
conclusions (`Shown`).

### DatasetMiddleware

`ModelTurn` lets the model ask for one or more tool calls (`Calls` are the slots);
each call walks through `wrap_tool_call` by a program counter: *gate* (`Reject...`,
`Admit...`, `PassThrough`), the size before (`Measure`) and the repetition check, the
tool (`Enter`, `WriteTriple` per triple, `Exit`; `ResetSize`, `Replace`, `ResetBump`;
`Snapshot`), the size after (`Remeasure`) and the update of the guard state
(`Record...`).  `WhitelistViolation` is the exception in the middle of a write
section.  Under the guards an exception becomes a result with error status, as refused
arguments do (`RefuseArguments`); such a result is not recorded (`RecordError`).

`continuation_mode` has no reducer, so LangGraph takes one update of it in a step.  Calls note
their updates in `modeWrites`.  `TurnEnds` applies one or none; `TurnFails` is a step that is
refused, because two calls made an update, equal or not, or ended by an exception: in `stop_now` the tool is
called outside the `try`.  The updates of such a step are lost, the dataset keeps what was done to it.
So two changes that the model asks for in one turn of `finalize_only`, or two repeated serializations
in one turn of `normal`, end the run.
`GuardStops` stands for the continuation guard, which sets `stop_now`.

The lock is `writer`; a read section is one action that needs `writer = None`, which
is all that matters of readers, since they change nothing.  The dataset has no
rules (`NO_RULES`, the default) and one graph.  A signature is the tool's name and
its arguments.  Four history variables: `committed` (the graph when nobody writes),
`served` (the last serialization an agent was given), `effects` (whether calls of a turn in `finalize_only`
changed the graph) and `unseen` (the graph was
changed in a way that the guard state was not told of, and no lone call has
recorded a change since).

### ContinuationGuard

One run of an agent, from `before_model` to the end.  `BeforeModel...` are the ways out
of `before_model`; `CallModel` is `wrap_model_call` (the repair of the transcript,
`Repair`, and the reminders that go into the system prompt) with any answer of the
provider: a text with any of the markers the guard looks for, tool calls, malformed
calls.  The fourteen actions of `AfterModel` are the returns of `after_model`, in the
order of its tests: a forbidden call in `finalize_only` is answered for the model,
taken back, or ends the run (`MaxForbiddenRounds`); a malformed call is taken back; a call
like the one that just failed is taken back or ends the run (`MaxRejectedRounds`); texts
end the run, are answered, or are followed by a reminder (`Nudge`).  `Reprompt` and
`RepromptRetry` are the two helpers that write a reminder, at the end of the transcript
or, when that would put it after a tool result, as *pending* for the system prompt.
`RunTools`, `TurnRefused` and `Interrupted` stand for the tool node and the dataset middleware, of which
the results, `continuation_mode` and three numbers are kept: how often the dataset has changed (`version`), how
often its guard was told so (`revision`), and the revision that was serialized last (`serialized`).  A
call may fail after it has changed the dataset, of which the guard is not told (finding 3).  `TurnRefused` is
the turn of two repeated serializations, of which each updates `continuation_mode`.  History variables:
`request` (what the provider got), `owed` (the reminder for which the model was called
again), `recovered` (the version shown by an answer the guard wrote) and `unseen` (a failed call has
changed the dataset since the last serialization).

The repair is a loop in the code that removes one message at a time; `Repaired` is the
set of messages it leaves, defined by what makes a result an orphan and a request
unresolved.

### TurnTracing

The agent is external: the comment of the module says what is assumed of the order of its
callbacks.  Each `On...` action is a callback of the recorder with the events it appends;
`Bounded` is the sink.  `Snapshot` is the tracer: `After` folds an event into the turns,
`Matched` is the search for the invocation an event belongs to (by call id, then by name
among the incomplete ones, then by name).  `history` is the sequence of all events, so that
what the tracer shows of a full sink can be compared with what it would have shown.

### OwlElements and Axiomatize

`OwlElements` states in `Shape`, which joins a table for each group of element classes, what
the classes differ in: the test of the name, the `rdf:type`, the node fields, the list they own.  `AsTriples` is `as_triples` and
`Valid` the validators.  `Axiomatize` lifts `input.graph`: `Passes` is the order of `run()`, a
pass visits its `Items` in any order, and `Frame` (one `Read...` operator per parser) says what is
read at an item; `Verdict` follows the code's order of tests to leave it alone, to raise, or to
add an element with the triples it takes (`Claims`: type, fields, list cells, facet anchors).
Which pass runs when matters: the passes for assertions ask the elements found so far what a
class or a property is (`KnownClassExpressions`, `KnownObjectProperties`, `KnownDataProperties`).
`Finish` is the final check that every triple was taken.

## 3. The runs

| run | instance | shows |
|---|---|---|
| `tms` | 5 triples, 7 instances with mutual, self and axiomatic support; 2 004 states | tables agree; a sweep removes no grounded fact and leaves no ungrounded one; both support queries are right about sweeps and grounds |
| `tms_ungrounded` | the same | **finding 1** |
| `engine` | 6 triples, 6 instances (axiom, join with it, silent and visible rules for one conclusion, a malformed conclusion, a contradiction), 5 inputs, 3 set-ups (raising recorder; quiet; policies that raise and a predicate that fails); 56 933 states | the engine is a deductive database, exceptions included; `known_triples` is working memory; no phantom premises; visibility and logging; every call returns |
| `store` | 6 triples, 5 instances, 2 set-ups with 9 and 6 additions, 9 patterns, 4 and 3 initial contents; 14 770 states | store and engine agree between calls; reopening is neutral |
| `store_resurrects` | the ordinary set-up | **finding 2** |
| `dataset` | 2 calls at a time, 2 triples and a rejected one, 2 batches, revisions up to 1 at the start of a turn; 1 443 994 states | readers see whole batches; calls return; a change ends `finalize_only`, and only a change does; `stop_now` stays; guards and `finalize_only` speak the truth about the graph unless a change escaped them |
| `dataset_rejects` | 1 call at a time, 2 formats | **finding 3** |
| `axioms` | an element of every kind next to one of every other kind, assertions about every expression, the OWL 1 spelling, and every kind with a triple missing, a triple too many, a shared node, undeclared names or a repeated list; 358 417 states | every triple is taken once; a lifted graph is exactly its elements; an ontology that was written comes back |
| `guard` | 4 transcripts to start from, 9 texts, 4 kinds of turns, malformed calls; 1 078 045 states | transcripts are repaired; guidance is delivered; breakers count the failed call; answers are current; stubborn runs end |
| `guard_roles` | the same | **finding 4** |
| `tracing` | 2 model calls with up to 2 parallel calls, a tool that ends with a Command, a sink of 6 events; 151 845 states | events and messages find their calls; dropping costs whole turns |
| `tracing_ids` | the same | **finding 5** |

Deadlock is checked in the runs of the TMS, the engine and the store.  Elsewhere the system
does stop: the run of an agent ends (`dataset`, `guard`; or reaches a bound), `axiomatize` returns
(`axioms`), and the callbacks end with the run (`tracing`).  That nothing is stuck on the way
is `CallsAnswered` in `dataset`.

### The properties

Every invariant and action property relates two pieces of state that different
code updates, or a state to a later one; each has a mutant (a changed
definition that a plausible bug would amount to, named in a comment of the module)
which TLC finds to violate it, for instance a sweep that leaves the flags, a
verification that lets a cycle keep itself, an eviction that is forgotten, a
cascade that is not collected, an add that promotes known triples, a flush that
is dropped, results that stay when their request is removed, an invocation matched by name
first, a pass that takes what another has taken.

`ImplementsDatabase` relates the engine to `DeductiveDatabase`.  The refinement mapping takes the base
to be `stated`, and the view to be working memory between calls and, during a
call, the closure that the call is heading for; so the step that ends a
saturation must arrive exactly at the closure that the step that began it
promised, for every agenda order, every batch order of a retraction, and for
every earlier history of the matcher's memories.  A call that raises maps to `Fail`, after
which the view may have lost conclusions but holds nothing that does not follow.

`ImplementsSession` relates the dataset middleware to `DatasetSession`, in which a batch is written
at one instant and a reader gets what is there: the steps of a write section, its exception
included, must amount to one write at its end, in every interleaving with other calls.

`GuidanceDelivered` follows a reminder across hooks: written by `after_model`, held back as pending,
dropped or rewritten by the repair in `before_model`, added in `wrap_model_call`.  `AnswersReachTheirCalls`
compares what the tracer shows with what the callbacks reported, for each call, in every order
in which parallel calls end.  `RoundTrip` compares the elements found with the ontology that the
graph was written from, for every order in which a pass may meet its subjects.

### Bounds

All bounds are constants in the `MC` modules and `.cfg` files: the triples and rule instances, the
inputs of a call (`Inputs`, `Configurations`), the set-ups of the store with their additions and initial contents
(`Setups`), the remove patterns (`Patterns`), the graphs that are lifted (`Inputs`
of `Axiomatize`), the transcripts, texts and turns of the guard.  Four counters are cut off:
the changes of the dataset (`MaxRevision`: at which revision a turn may start in `DatasetMiddleware`;
`MaxVersion`: how often it changes in `ContinuationGuard`), the length of the transcript a model call starts from (`MaxMessages`),
and the number of model calls that are traced (`MaxTurns`).  `MaxEvents` is the capacity of the sink, 6 in place of
the default, so that it overflows.  Elsewhere no state is cut
off and the state spaces are complete for their instances.
They are small because the hazards are: a cycle needs two facts, and a
third to come from outside; a fact that loses one of two supports needs two
instances with one conclusion; an order between silent and visible rules needs
one of each; a stale match needs a join of two premises of which one is
retracted; a race of tool calls needs two; the breakers trip after 3 and 5 rounds, which take no
room in the transcript, because the turns are taken back; nine messages hold a failed call, its
retry, a serialization and two reminders; a pass conflict needs two elements.  Every such situation is in the instance of the run that asks for
it, and every action of the next-state relations fires in some passing run.
The rules of `MCReteEngine` are acyclic: with cyclic rules
the base can be unstated without effect (finding 1), so the engine is not a
deductive database there.  Sizes beyond these, and cyclic rules, are what the proofs are for.

### Fairness

`FairEngineSpec` assumes `WF_engineVars(Internal)`, weak fairness of the steps inside a
call.  The engine is synchronous Python code in one thread: once a caller has
entered `add_triples` nothing but its own next step can happen, and it does not
wait for anything.  Nothing is assumed about callers, who may never call again.

`DatasetSpec` assumes weak fairness of "some call takes a step": while one of the
threads of a turn can go on, one does.  That is weaker than fairness for each thread
and enough, since a call has finitely many steps and nothing new starts before all
have returned.  It needs nothing of the lock but that a free lock is given to
somebody; the `RWLockFairD` of the code does more.  The model is not obliged to answer.

`FairGuardSpec` assumes weak fairness of `Advance`, a step of the agent loop: hooks are
synchronous, the provider answers and tools return.  `StubbornRunsEnd` is about the answers a model
gives, which fairness says nothing of: if from some moment on the model only asks for what is
refused, the run ends.  A model that answers with malformed calls, or with texts that are no
final answer in `finalize_only`, is asked again without limit by the code, and is not called stubborn.

## 4. Findings

1. *Circular support survives unstating* (`rete/tms.py:470`, run `tms_ungrounded`).
   State `d`, record a derivation of `d` that rests on `d` (or on a fact derived
   from it), retract `d`: only the flag is cleared, nothing asserted is left and
   the facts stay.  The README of the engine promises that "removing asserted
   triples retracts dependent conclusions".
2. *A removed conclusion can come back as an assertion* (`rete_store.py:177`, run
   `store_resurrects`).  A pattern remove handles a conclusion before its premise;
   the conclusion waits for its re-add, loses its support, and is then stated.
3. *A failed add goes unnoticed* (`dataset_middleware.py:733`, run
   `dataset_rejects`).  `add_triples` adds triple by triple and raises at the first
   term outside the whitelist; the handler returns without telling the repetition
   guards.  The next `serialize_dataset` is refused with "The dataset has not
   changed since the previous `serialize_dataset` call in this format", and the agent
   is held to a final answer without the triple that was added.  `GuardRecordsTrue`
   shows what is left: apart from such a batch, from calls that change the graph
   while another call of the turn is under way (an add and a removal of equal size
   count as two no-ops), and from changes after `stop_now`, the guards are right.
   The continuation guard is affected too: held to a final answer, it may write one from the
   serialization before the failed call.  `AnswerIsCurrent` excludes only this (`unseen`), calls made in one turn, and
   transcripts that lost a result.
4. *A reminder after a tool result* (`continuation_guard_middleware.py:647`, run
   `guard_roles`).  A run that was interrupted in a tool call is taken up again: `after_model`
   looks for a tool result in the stored transcript, finds the unanswered request in front of it,
   and appends its reminder as a user message; `wrap_model_call` then removes the unanswered
   request, and the provider gets the reminder right after a tool result, which
   `architecture.md:394-396` and the test at `test_continuation_guard_middleware.py:1212` rule out.
   `ProviderSafe` shows that it takes a stored transcript that is not in order.
5. *A message shown under a call that never ran* (`tracing.py:569`, run `tracing_ids`).  The guard ends
   the run by taking the last reply back; the end of the run reports the messages of the whole thread; a message whose
   id belongs to no invocation of the turn is given to an incomplete one of the same name, although that one
   has an id of its own.  DR-015 asks for correlation by id where there is one.

Known limits of the code that are not disagreements with its documents, and have no run of their own:

* An exception costs conclusions for good (`rete_engine.py:354`): the matcher has stored its matches
  as delivered when the raising recorder, the default, ends the call.  This is `Fail` in `DeductiveDatabase`.
* A lazily created engine may lose a conclusion from the store (`rete_store.py:258`): what the warmup
  writes after the matches were taken is removed without an event.  `VisibleInStore` is therefore stated for
  stores that were opened (`Ordinary`).
* A triple that is added while it is derived is not stated (`rete_engine.py:325`, DR-004), and leaves
  with its support.
* Refusals of `axiomatize` that are not errors of the graph: two keys, property chains or disjoint unions
  of one subject are two lists where one is expected; a class assertion to a data restriction is
  left over.  `Unread` in `MCAxiomatize` holds them.
* Two changes in one turn of `finalize_only`, or two repeated serializations in one turn, update
  `continuation_mode` twice and end the run (`dataset_middleware.py:686` and `:764`, `continuation_state.py:23`), although by
  DR-018:55-56 "if a subsequent dataset mutation actually changes the dataset, continuation control returns to `normal`".  This is `TurnFails`, and `TurnRefused` in the guard.  What is refused is a rule of LangGraph and
  not of the code in `src/`, so a run that showed it would show no more than the assumption.
* A guidance text is dropped when the repair in `wrap_model_call` has a reminder of its own for the
  system prompt; this needs a stored transcript that is not in order, as `GuidanceDelivered` says.

## 5. The proofs

### TMS

`TMSProofs` proves, for every set of triples and every finite or infinite set of
rule instances (`InstanceAssumption` only says that premises and conclusions are
triples):

| theorem | property |
|---|---|
| `TypeCorrect`, `NothingDangles`, `DerivedStaysJustified`, `GraphNeverDrifts` | `TypeOK`, `NoDanglingJustification`, `DerivedFactsJustified`, `GraphMirrorsJustifications` |
| `SweepNeverGoesTooFar` | `SweepKeepsGrounded` |
| `SweepAlwaysGoesFarEnough` | `SweepGoesFarEnough` |
| `LocalVerifierAgrees` | `LocalVerifierAgreesWithSweep` |
| `TransitiveVerifierIsSound` | `VerifierSound`, for a finite set of triples |
| `LayeredRulesStayGrounded` | `EveryFactGrounded`, for rules whose premises lie on a lower level than their conclusions |

The inductive invariant `Inv` is the conjunction of the first four properties: none
is inductive alone.  A sweep looks for dependents in the graph, so that no
justification dangles needs the graph to be complete; the graph stays exact only
because trimming looks at the justifications of kept candidates, which needs that
no other fact has a justification through a swept one; and that derived facts keep
a justification needs the candidates to contain every fact that might lose one.
The lemmas about the operators come first (the marked set is closed under
dependents, the kept set is closed under verification, a kept fact keeps a
justification that survives), then one step for each action.

`SweepKeepsGrounded`: what remains after a sweep contains the stated facts and is
closed under the old justifications, so it contains the least such set.
`SweepGoesFarEnough`: take any set closed over the new stated facts and
justifications; the facts outside the candidates and the kept ones lie in it, by
the leastness of `Kept` and the groundedness before.  `LayeredRulesStayGrounded` is
the complement of finding 1: without circular support, unstating cannot
leave an ungrounded fact, by induction on the level.

`VerifierSound` is about a recursive query, which follows the justifications of a fact and refuses
to visit a fact twice on one path.  The recursion is over sets of visited facts, so that it has a
solution must itself be shown (`VerifierExists`: the least prefixed point of its equation, which is monotone).
Soundness is then an induction on how many facts are not yet on the path, for which the triples must be finitely many,
as the facts of a running engine are.

### Engine

`ReteEngineProofs` proves, for every rule set, cyclic ones included, every agenda order and every place
at which a call may raise (`EngineAssumption` types the constants):

| theorem | property |
|---|---|
| `TablesSoundInEngine` | `NoDanglingJustification`, `DerivedFactsJustified`, `GraphMirrorsJustifications` in every state of the engine |
| `EngineTypeCorrect` | `EngineTypeOK` |
| `NothingFiresOnPhantoms` | `NoPhantomPremises` |
| `KnownStaysWorkingMemory` | `KnownIsWorkingMemory` |
| `MaterializedStaysLogged` | `MaterializedIsLogged` |
| `VisibleStayMaterialized` | `VisibleConclusionsMaterialized` |

The inductive invariant `EngineInv` adds three parts to the `Inv` of the TMS.  `EngineTypeOK`.  `Delivered`: what is
matched or scheduled rests on facts; during a retraction it may also rest on what this retraction has
removed, since eviction comes at its end.  `InStep`: how `known_triples` differs from working memory in
each phase, as long as nothing has raised.  `NoPhantomPremises` speaks of the moments between and
is not inductive: that eviction reaches every stale match needs the two sets to be compared while a
retraction is under way, with `result` as the difference.

`VisibleInv` follows a visible conclusion through a call: it is materialized, or noted for the end of the iteration.  What
the bootstrap concludes is noted nowhere, and need not be: while it runs, all facts are axiomatic, and
warmup starts on an engine in which nothing is justified.

### The engine as a database

`ReteEngineProofs` also proves `LayeredEngineIsDatabase`: `EngineSpec` implies `ImplementsDatabase`, for rules whose
premises lie on a lower level than their conclusions.  The hypothesis is needed: with circular support, finding 1 leaves
facts that are in no closure.  There are two halves.

* Not too much: facts are grounded by `InvGrounded` of `TMSProofs`, and `Bounds` says that the justifications on
  record are by instances that take part and conclude what policies let through, so all that is grounded is derivable.
* Not too little: `Progress` says, phase by phase and as long as nothing raised, which instances have *recorded* all
  they conclude.  While activations run, a match that is stored is scheduled or recorded, and an enabled instance that is
  not stored has a premise the next pass brings; at the fixed point every enabled instance has recorded, and
  working memory is closed (`DerivableReached`).  A retraction keeps this because it trims no justification whose
  premises stay (`RetractKeepsJustifications`).

From both, what is seen is a view of what is stated at every moment (`ClosureGivesView`).  Each step is then an `Insert`,
`Delete`, `Boot`, `Discard`, `Fail` or a stutter by what it does to `stated` and the flags alone.

### Every call of the engine ends

`CallsTakeBoundedlyManySteps` says, for a finite vocabulary and finitely many instances, why a saturation cannot go on for
ever: `StepsLeft` is a natural number, at most `MostSteps`, and every step inside a call makes it smaller.  An iteration has at most
one step per activation, and it is followed by another one only if it made a triple known, or if the
bootstrap has just ended (`RoundsLeft`, weighed by `Round`).  That what is new in an iteration was not known before is
`NewIsNew`.  With weak fairness of the steps inside a call this is `CallsReturn`; that last inference is the one TLC makes.

### Store

`ReteStoreProofs` proves, for every rule set, backing store, pattern and order of events, and over any engine that keeps the promise of
`DeductiveDatabase`:

| theorem | property |
|---|---|
| `StoreTypeCorrect` | `StoreTypeOK` |
| `StatedStaysInStore` | `StatedInStore` |
| `VisibleStaysInStore` | `VisibleInStore` |
| `StoreStaysWithinEngine` | `StoreWithinEngine`, if no raising policy is given a store with a malformed triple in it |
| `ReopeningIsNeutral` | `ReopenIsNeutral` |

The inductive invariant `StoreInv` says for each kind of call what the two sides may lack of each other while its events are handled:
an addition is stored before it is handled, a removal handled after it is gone, and what a cascade takes out and a surviving
justification brings back waits in `pending` (`Reflected`, `WithinInv`).  `EngineSound` is the promise, with what has been shown: a
step may show less than all conclusions only if they were shown before.

### Axiomatize

`AxiomatizeProofs` proves, for every set of graphs to lift (`InputAssumption`: a graph is a finite set of triples;
`NodeAssumption`: no blank node is a literal, counts are literals, and rdf:nil is an IRI):

| theorem | property |
|---|---|
| `AccountingHolds` | `TriplesAccounted` |
| `LiftingIsComplete` | every triple of a lifted graph belongs to an element |
| `AxiomatizeTypeCorrect` | `AxiomatizeTypeOK` |
| `LiftedGraphsPartition` | `LiftedPartitions` |

The first two look only at `_add_element` and at the final check: `IInv` is `TriplesAccounted` with `CheckedFinish`, and
holds whatever the passes read.  The other two say that the passes read nothing wrong, and need all of them.  `LiftInv` says
that every element found took triples of the graph and is written (`as_triples`) as what it took, and that a pass visits
what its row names.  That an added element keeps it goes in three steps.

* What is read.  A walk along a list (`Walk`, the iterates of a step) is a chain of cells of the graph with one
  value and one rest each, for lists of any length (`WalkIsLinked`), so that a list walked to its end is written as its own cells
  (`ListTriples`); the anchor of a facet has one triple (`FacetOfAnchor`).
* What is made of it.  A reading at a subject (`ReadsSubject`) or of a triple (`ReadsTriple`) that fits the shape of the kind it yields takes
  triples of the graph, and its element is written as these (`SubjectWritten`, `TripleWritten`).
* That it fits.  Each parser yields a reading that fits if the row of its pass does (`ReadingsFit`), and all fifty-five rows
  do, kind by kind against the tables (`RowOK`, `PassesOK`).

One kind is not written as it was found: the members of `owl:AllDifferent` may be spelled `owl:distinctMembers`, as in
OWL 1, and are written `owl:members`.  `Rewritten` allows this for `DifferentIndividualsNary` and for no other kind, which
only the proof asked for: the property as it stood before forgave the other spelling everywhere.

`LiftingEnds` adds that axiomatize comes to an end with every graph, cyclic lists included: `StepsLeft` counts the passes
that are left, each with at most one item per triple (`FewItems`), and each step makes it smaller.

`WrittenElementsAreReadBack` is what `RoundTrip` says of each element by itself.  Suppose that the pass that looks for an element of
this kind comes to the name of a well-formed element (or to its triple), that it neither leaves it alone nor complains at
once, and that the fields and members have the types that the reading asks for (`MayRead`).  Suppose that no part of the element
has been taken, and, unless it is read in one triple, that the graph says it and gives its fields, its list
and its facets no second value (`SaidAlone`).  Then the pass adds this very element, and takes exactly its `AsTriples`.  The list is
the hard part: `Walk` along a list as `Seq.as_triples` writes it comes, cell by cell, to rdf:nil and has found
the cells in their order (`StepAlong`, `WrittenListIsWalked`, by induction over the iterates of `StartOfWalk`), for lists of any
length; a graph has at least as many triples as such a list has cells, so that the bound of `Walk` does not cut it short
(`ListIsShort`).  Then fields (`FieldsReadBack`), rows (`RowsReadBack`) and facets (`AnchorsReadBack`) are what they were.
On the instances of the run `axiomatize` the hypotheses are met with elements of each of the 74 kinds.

### Dataset middleware

`DatasetMiddlewareProofs` proves, for any number of parallel calls and of turns,
and any triples, batches, formats and whitelist (`DatasetAssumption`: calls are finitely many, batches are not
empty, and `None` is none of the values it stands beside):

| theorem | property |
|---|---|
| `DatasetTypeCorrect` | `DatasetTypeOK` |
| `SessionImplemented` | `ImplementsSession` |
| `WritersExclude` | at most one call writes; outside a write section the graph is what readers may see |
| `StoppedRunsStayStopped` | `StopNowSticks` |
| `ChangesEndFinalizeOnly` | `ChangeEndsFinalizeOnly` |
| `GuardRecordsStayTrue` | `GuardRecordsTrue` |
| `FinalAnswersEarned` | `FinalizeOnlyEarned` |

`DatasetInv` is enough for the first four.  `LockInv`: the call that holds the lock is the one in a write section, and the
graph is the one readers last saw with the first `n` triples of its batch applied; so the step that ends the section, by
its last triple or by an exception, is one write of the session.  `ModeInv`: what a turn may write to the mode follows from the mode
it began in, only calls that returned have written, and in `stop_now` no call is at a place of the tool policies.

The guards need `GuardInv`, which says what calls *know*.  A call takes the size of the graph before and
after its tool without a lock in between, so its conclusion (no change: the triples were there) is right only if
nothing else changed the graph meanwhile.  `Knows` states it place by place, for a call that runs alone, or for all while no change
has escaped (`unseen`): before the write section the size it took is the size; after it the size differs from it exactly
if the batch had an effect.  `Settled` says that no call has changed the graph without having recorded it, and
then the records `Holds`.  Two facts carry the induction.  As long as nothing escaped, the graph changes only by a lone call
under the tool policies (`SeenChange`), so what all other calls know stays right (`OthersKnow`).  The record of such a change wipes
everything that predates it (`Cleared`), the mode that an earlier rejection was to set included, and so it also brings a guard that
missed a change back to the truth (`SeenAgain`).

`ChangesEndFinalizeOnly` needs a smaller knowledge that holds in any company: as long as no other call of the turn came out
of a mutating tool (`Solo`), nobody else has changed the graph, so the sizes a call took around its own change differ
(`SoleKnows`), and its update of the mode is the only one, since all that update it come from such a tool (`EffectsInv`).

Two theorems stand behind `CallsAnswered`, and leave only fairness to it.  `TurnsNeverHang`: while calls of a turn are under way, one
of them is `Ready`, which means that its next step waits for nothing.  The only waiting is for the lock, a lock that is held is held by a
call in its write section, and that call can go on: a call that was rejected, failed or answered holds nothing.
`CallsTakeBoundedlyManySteps`: whatever happens meanwhile is that some call comes nearer to its end (`StepsLeft`: the places of its tool and
the triples still to write), or that the run is stopped, once.  Both rest on `WaysInv`, which says that a call is where its tool takes it.

### Continuation guard

`ContinuationGuardProofs` proves, for any transcripts to start from, any texts and turns a model may answer with, and any
bounds (`GuardAssumption`: the ids of a transcript are unique, turns with calls have calls, and `None` is none of the values
it stands beside):

| theorem | property |
|---|---|
| `RepairedSound` | a repaired transcript pairs every call with a result and every result with a call, for transcripts of any length |
| `GuardTypeCorrect` | `GuardTypeOK` |
| `RequestsAreSound`, `ProviderIsSafe` | `ProviderSafe` |
| `GuidanceIsDelivered` | `GuidanceDelivered` |
| `RetriesAreCountedRight` | `RetriesAreOfTheFailedCall` |
| `AnswersAreCurrent` | `AnswerIsCurrent` |

The repair is not a recursion but a set of indices (`Repaired`), so the proof follows places: as ids are unique, what is left
is the kept messages and no other, in their order (`RepairedKeeps`), and a request is kept exactly if the results of all its calls follow it.  `GuardInv` is the invariant all others rest on: types with unique ids, the reply under way is the latest
message, and tools run only for a reply that `after_model` let pass.  Each theorem then adds the one fact that is carried
through the hooks:

* `RequestIsSent`: when a reply is looked at, the request it answers is the transcript before it, if that is in order.
* `Apart`: no reminder stands directly after a tool result.  The guard never writes such a pair, but it does not remove one
  either, so `ProviderIsSafe` has the hypothesis that no run starts from a transcript with one.
* `OwedIsKept`: a reminder that is owed is pending, or follows from the mode and the end of the transcript, or is written.
* `ShownIsCurrent`: the dataset is still of the version that the latest serialization shows if its guard holds that one to be
  current, as long as calls are made one at a time, no result is lost (`InOrder`), and no failed call has changed the
  dataset since (`unseen`), which is what `AnswerIsCurrent` itself asks.

`StubbornRunsRunOut` bounds the rounds of `StubbornRunsEnd`: as long as the model asks only for what is refused, every step makes
`StubbornSteps` smaller, which is at most 13, whatever the transcript and the counters are when it begins.  A rejected round leads at most to
`finalize_only`, `finalize_only` only to refusals that are counted, and nothing resets a counter in between.

### Turn tracing

`TurnTracingProofs` proves, for every capacity of the sink, any number of turns and any replies
(`TracingAssumption`: `None` is neither a name nor an id):

| theorem | property |
|---|---|
| `TracingTypeCorrect` | `TracingTypeOK` |
| `SinkLosesWholeTurns` | `DropsWholeTurns` |
| `AnswersFindTheirCalls` | `AnswersReachTheirCalls` |

`Traced` is a fold; `Induction` gives it its equation, and so what one more event does to the turns (`After`).
For the sink, `Behind` relates the tracer that starts late to the one that saw everything: until it meets the start of a
turn it shows nothing, and from then on the turn under way is the same and only oldest turns are missing; `After` keeps
this, whatever the event is.

`AnswersReachTheirCalls` is about the search for the invocation of an event: by id, or else by name among the incomplete ones,
or else by name.  `TracerInv` says why no event reaches another call.  The closed turns are right, and nothing that is still to be
reported belongs to them (`ClosedTurnsFine`, `ReportedUpTo`).  In the turn under way every call of the reply has its
invocation, ids are in one place, and each invocation has what was reported of it and nothing else (`CurrentTurnFine`): an
event with the id of a call finds its invocation at the first attempt (`MatchedById`), and one without an id finds an invocation that
has neither result nor message, to which it adds only a result that is shown as unidentified.  And the tracer is
where the agent is (`InStep`), so that tool events come while the turn of their call is under way.  Turns that the guard cut
short are excluded by the property; finding 5 shows that they must be.

### Left to TLC

* `EveryFactGrounded` for rules with circular support, and the properties of the other runs that expect a violation: they fail.
* `RoundTrip`: that axiomatize finds the very ontology a graph was written from, and not another one with the same
  triples.  `WrittenElementsAreReadBack` proves it of each element whose pass comes to it while its triples are free.  That this
  is always so is about the order of the passes and about which other elements the names of an ontology are declared
  by; it would need an argument for each pair of passes that compete for a triple.
* Liveness (`CallsReturn`, `CallsAnswered`, `StubbornRunsEnd`): the prover does not handle `ENABLED` and fairness.
  What is proved is the part that depends on the code: no call and no stubborn run can take infinitely many
  steps, by a bound that every step lowers, and among the calls of a turn one is always ready.  That a step which can be
  taken is taken is left.

No module declares a `RECURSIVE` operator; recursive functions and folds are reasoned about through their equations (`Induction`).

## 6. Not modelled

* Rule compilation and matching by joins (the same-fact exclusion at
  `rete/network.py:371` among it), builtin predicates, RDF terms and datatypes.
* Several contexts in one store call, and exceptions in the middle of a
  saturation as seen by the store.
* `new_blank_node` and its limit, the empty-dataset reminder, named graphs, term
  telemetry and datasets with rules, in the dataset middleware.
* The reconstruction of proofs from the log.  It reads the log, which only grows, so that after
  retractions it may show a proof whose premises are gone, and it cuts cycles where it meets them; nothing
  in the documents says what it should show then.
* The vocabulary middleware: read-only search behind a repeated-call guard that is a smaller form of
  the one in `DatasetMiddleware`; the cache of specifications is filled once per key.
* Of the guard: `ministral_middleware.py`, a rewrite of texts.  It is assumed that `Command(goto="model")`
  is the only successor of a hook that returns it, and that message ids are stable.
* Of tracing: previews, transcripts, notebook rendering; model runs nested in a tool.
* Of the axioms: literal syntax, the schemas shown to agents, the markdown rendering.  The validation
  errors of facet and list entries, which are raised outside the code's `try`, count as refusals.
* Rendering, formatting, notebooks: output only.
* Warnings, log messages and sequence numbers of contradiction records.

## 7. Plan

Done, in this order: `TMS` and its proofs, `DeductiveDatabase` and `ReteEngine`,
`ReteStore`, `DatasetSession` and `DatasetMiddleware`, `OwlElements` and `Axiomatize` with its first proofs,
`ContinuationGuard`, `TurnTracing`, the proofs about `ReteEngine`, `DatasetMiddleware` and `ReteStore`, and last those about
`ContinuationGuard`, `TurnTracing`, the transitive verifier, what `Axiomatize` reads, the bounds on the length of
calls, turns and liftings, and that a written element is read back.  Left, by weight:

1. Proofs: for each two passes that compete for a triple, that their order gives it to the element it was written for,
   which with `WrittenElementsAreReadBack` would be `RoundTrip`.
2. `Matching`: alpha and beta memories against a reference join, over bounded
   facts and patterns, with the same-fact exclusion.
3. `ReteStore` over two contexts, with `addN` failing half-way.
4. `DatasetMiddleware`: blank nodes with their limit, the reminder about an
   empty dataset, and its composition with `ContinuationGuard` in one instance.
5. `ProofReconstruction`: proofs from the log, after retractions.
