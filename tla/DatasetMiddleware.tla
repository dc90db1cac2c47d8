------------------------- MODULE DatasetMiddleware -------------------------
(***************************************************************************)
(* The dataset tools of an agent (middleware/dataset_middleware.py) over   *)
(* the shared dataset session (middleware/shared_services.py).             *)
(*                                                                         *)
(* A model turn asks for one or several tool calls, which run at the same  *)
(* time.  Each goes through wrap_tool_call: a gate that may reject it as a *)
(* useless repetition, the tool itself, and the update of what the next    *)
(* gate looks at.  The dataset is behind a readers-writer lock; the guard  *)
(* state is behind none.  Calls write continuation_mode as a state update  *)
(* that is applied when all calls of the turn have returned.               *)
(*                                                                         *)
(* A read section is one action (it excludes writers), a write section     *)
(* goes triple by triple, and the guard state is read by one check, and    *)
(* written by one update, at an instant.                                   *)
(*                                                                         *)
(* continuation_mode has no reducer: LangGraph takes one update of it in a *)
(* step and refuses the step if there are more, equal ones too.  The graph *)
(* and the guard state are not part of the step and stay as they are.      *)
(***************************************************************************)
EXTENDS Naturals, FiniteSets, SequencesExt

CONSTANTS
  Calls,        \* the calls a model turn may make at the same time
  Triples,
  Disallowed,   \* triples with a term that the whitelist rejects
  Batches,      \* the triple lists asked for, none empty
  Formats,
  MaxRevision,  \* bound on the dataset revision at which turns start
  None

Mutations == {"add_triples", "remove_triples"}
Modes     == {"normal", "finalize_only", "stop_now"}
Tools     == Mutations \cup {"serialize_dataset", "list_triples", "reset_dataset"}

ASSUME DatasetAssumption ==
  /\ IsFiniteSet(Calls)
  /\ None \notin Calls \cup Batches \cup Formats \cup Tools \cup Modes \cup (Nat \X Formats)
  /\ Disallowed \subseteq Triples
  /\ Batches \subseteq Seq(Triples) \ {<<>>}
  /\ MaxRevision \in Nat

VARIABLES
  graph,          \* default graph of the session's dataset
  writer,         \* the call that holds the write lock, or None
  revision,       \* _dataset_revision
  lastSerialize,  \* _last_serialize_signature
  lastNoop,       \* _last_add_/_last_remove_triples_noop_signature, by tool
  mode,           \* continuation_mode
  modeWrites,     \* the update of continuation_mode in each call's answer, or None
  effects,        \* history: what the mutating calls of a turn in finalize_only did
  call,           \* the state of each call
  committed,      \* history: graph when the write lock was last free
  served,         \* history: the graph last serialized, per format
  unseen          \* history: the guard state has missed a change of the graph

sessionVars == <<graph, writer, committed>>
guardVars   == <<revision, lastSerialize, lastNoop>>
turnVars    == <<mode, modeWrites, effects>>
dsVars      == <<sessionVars, guardVars, turnVars, call, served, unseen>>

\* None also stands for arguments that a tool refuses.
Requests ==
  [tool : Mutations, args : Batches \cup {None}]
    \cup [tool : {"serialize_dataset"}, args : Formats \cup {None}]
    \cup [tool : {"list_triples", "reset_dataset"}, args : {None}]

\* Where a call is when it has not been made, has been answered, or has raised.
Over == {"idle", "returned", "raised"}

Idle == [pc |-> "idle", tool |-> None, args |-> None, todo |-> <<>>,
         before |-> 0, after |-> 0, seen |-> 0]

DatasetInit ==
  /\ graph = {} /\ writer = None /\ committed = {}
  /\ revision = 0 /\ lastSerialize = None /\ lastNoop = [t \in Mutations |-> None]
  /\ mode = "normal"
  /\ modeWrites = [c \in Calls |-> None] /\ effects = [c \in Calls |-> "none"]
  /\ call = [c \in Calls |-> Idle]
  /\ served = [f \in Formats |-> None]
  /\ unseen = FALSE

At(c, pc, tools) == call[c].pc = pc /\ call[c].tool \in tools
Goto(c, pc)      == call' = [call EXCEPT ![c].pc = pc]
Return(c)        == call' = [call EXCEPT ![c] = [Idle EXCEPT !.pc = "returned"]]
Raise(c)         == call' = [call EXCEPT ![c] = [Idle EXCEPT !.pc = "raised"]]

\* (Mutant of Readable: the lock is not taken.)
ReadableUnlocked == TRUE

Readable == writer = None

Parallel == Cardinality({c \in Calls : call[c].pc # "idle"}) > 1

\* (Mutant of Policed: tool policies apply after the run was stopped.)
PolicedAlways == mode \in Modes

\* Outside stop_now the policies of this middleware apply.
Policed == mode # "stop_now"

HandlerOf(tool) ==
  CASE tool \in Mutations       -> "enter"
    [] tool = "reset_dataset"   -> "size"
    [] OTHER                    -> "snapshot"

\* Where a call goes on when the tool has answered.
AfterHandler(tool) ==
  IF ~Policed \/ tool = "list_triples" THEN "return"
  ELSE IF tool = "serialize_dataset" THEN "record" ELSE "remeasure"

---------------------------------------------------------------------------
(* The turn. *)

\* before_model ends the run in stop_now, so no turn starts in it.
ModelTurn ==
  /\ Policed /\ revision <= MaxRevision
  /\ \A c \in Calls : call[c].pc = "idle"
  /\ \E asked \in [Calls -> Requests \cup {None}] :
       /\ \E c \in Calls : asked[c] # None
       /\ call' = [c \in Calls |-> IF asked[c] = None THEN Idle
                                   ELSE [Idle EXCEPT !.pc = "gate", !.tool = asked[c].tool,
                                                     !.args = asked[c].args]]
  /\ UNCHANGED <<sessionVars, guardVars, turnVars, served, unseen>>

\* ContinuationGuardMiddleware sets stop_now after the model asked for calls.
GuardStops ==
  /\ Policed
  /\ \A c \in Calls : call[c].pc \in {"idle", "gate"}
  /\ \E c \in Calls : call[c].pc = "gate"
  /\ mode' = "stop_now"
  /\ UNCHANGED <<sessionVars, guardVars, modeWrites, effects, call, served, unseen>>

BetweenTurns == \A c \in Calls : call[c].pc = "idle"

TurnOver == (\A c \in Calls : call[c].pc \in Over) /\ ~BetweenTurns

CallsDone ==
  /\ call' = [c \in Calls |-> Idle]
  /\ modeWrites' = [c \in Calls |-> None] /\ effects' = [c \in Calls |-> "none"]
  /\ UNCHANGED <<sessionVars, guardVars, served, unseen>>

TurnEnds ==
  /\ TurnOver /\ \A c \in Calls : call[c].pc # "raised"
  /\ \/ (\A c \in Calls : modeWrites[c] = None) /\ mode' = mode
     \/ \E c \in Calls : /\ modeWrites[c] # None
                         /\ \A d \in Calls \ {c} : modeWrites[d] = None
                         /\ mode' = modeWrites[c]
  /\ CallsDone

\* The run ends with an exception and the updates of the step are lost.  The
\* application may go on from what there was before the step.
TurnFails ==
  /\ TurnOver
  /\ \/ \E c \in Calls : call[c].pc = "raised"
     \/ \E c, d \in Calls : c # d /\ modeWrites[c] # None /\ modeWrites[d] # None
  /\ mode' = mode
  /\ CallsDone

---------------------------------------------------------------------------
(* The gate of wrap_tool_call. *)

\* In stop_now every call goes to its tool and leaves the guard state alone.
PassThrough(c) ==
  /\ call[c].pc = "gate" /\ ~Policed
  /\ Goto(c, HandlerOf(call[c].tool))
  /\ UNCHANGED <<sessionVars, guardVars, turnVars, served, unseen>>

AdmitList(c) ==
  /\ At(c, "gate", {"list_triples"}) /\ Policed
  /\ Goto(c, "snapshot")
  /\ UNCHANGED <<sessionVars, guardVars, turnVars, served, unseen>>

RejectReset(c) ==
  /\ At(c, "gate", {"reset_dataset"}) /\ Policed /\ Readable
  /\ graph = {}
  /\ Return(c)
  /\ UNCHANGED <<sessionVars, guardVars, turnVars, served, unseen>>

AdmitReset(c) ==
  /\ At(c, "gate", {"reset_dataset"}) /\ Policed /\ Readable
  /\ graph # {}
  /\ Goto(c, "measure")
  /\ UNCHANGED <<sessionVars, guardVars, turnVars, served, unseen>>

\* (Mutant of RejectFinal: the mode is written again.)
RejectFinalAgain(c) ==
  /\ At(c, "gate", {"serialize_dataset"}) /\ mode = "finalize_only"
  /\ modeWrites' = [modeWrites EXCEPT ![c] = "finalize_only"]
  /\ Return(c)
  /\ UNCHANGED <<sessionVars, guardVars, mode, effects, served, unseen>>

\* In finalize_only a serialization is refused and the mode left as it is.
RejectFinal(c) ==
  /\ At(c, "gate", {"serialize_dataset"}) /\ mode = "finalize_only"
  /\ Return(c)
  /\ UNCHANGED <<sessionVars, guardVars, turnVars, served, unseen>>

SerializeSignature(c) == <<revision, call[c].args>>

\* "The dataset has not changed since the previous `serialize_dataset` call."
RejectSerialize(c) ==
  /\ At(c, "gate", {"serialize_dataset"}) /\ mode = "normal"
  /\ call[c].args # None /\ lastSerialize = SerializeSignature(c)
  /\ modeWrites' = [modeWrites EXCEPT ![c] = "finalize_only"]
  /\ Return(c)
  /\ UNCHANGED <<sessionVars, guardVars, mode, effects, served, unseen>>

AdmitSerialize(c) ==
  /\ At(c, "gate", {"serialize_dataset"}) /\ mode = "normal"
  /\ call[c].args = None \/ lastSerialize # SerializeSignature(c)
  /\ call' = [call EXCEPT ![c].pc = "snapshot", ![c].seen = revision]
  /\ UNCHANGED <<sessionVars, guardVars, turnVars, served, unseen>>

\* The size is read before the repetition check, whose rejection ignores it.
Measure(c) ==
  /\ \/ At(c, "gate", Mutations) /\ Policed /\ Readable
        /\ call' = [call EXCEPT ![c].pc = "check", ![c].before = Cardinality(graph)]
     \/ At(c, "measure", {"reset_dataset"}) /\ Readable
        /\ call' = [call EXCEPT ![c].pc = "size", ![c].before = Cardinality(graph)]
  /\ UNCHANGED <<sessionVars, guardVars, turnVars, served, unseen>>

RejectNoop(c) ==
  /\ At(c, "check", Mutations)
  /\ call[c].args # None /\ lastNoop[call[c].tool] = call[c].args
  /\ Return(c)
  /\ UNCHANGED <<sessionVars, guardVars, turnVars, served, unseen>>

AdmitMutation(c) ==
  /\ At(c, "check", Mutations)
  /\ call[c].args = None \/ lastNoop[call[c].tool] # call[c].args
  /\ Goto(c, "enter")
  /\ UNCHANGED <<sessionVars, guardVars, turnVars, served, unseen>>

---------------------------------------------------------------------------
(* The tools. *)

\* The call leaves the tool; with nothing left to do it returns.
Leave(c) ==
  IF AfterHandler(call[c].tool) = "return" THEN Return(c)
  ELSE Goto(c, AfterHandler(call[c].tool))

\* A change that the guard state will not, or not in time, be told of.
Overlooked(g, failed) == unseen \/ (g # committed /\ (Parallel \/ ~Policed \/ failed))

\* What is remembered, in final-answer-only mode, of a mutating call whose tool ran.
Done(c, g, failed) ==
  effects' = IF mode # "finalize_only" THEN effects
             ELSE [effects EXCEPT ![c] = IF g # committed /\ ~failed THEN "changed" ELSE "ran"]

\* Arguments that the tool refuses make an error answer, which is recorded nowhere.
RefuseArguments(c) ==
  /\ call[c].args = None
  /\ \/ At(c, "enter", Mutations) /\ Done(c, committed, TRUE)
     \/ At(c, "snapshot", {"serialize_dataset"}) /\ UNCHANGED effects
  /\ Leave(c)
  /\ UNCHANGED <<sessionVars, guardVars, mode, modeWrites, served, unseen>>

Enter(c) ==
  /\ At(c, "enter", Mutations) /\ call[c].args # None /\ Readable
  /\ writer' = c
  /\ call' = [call EXCEPT ![c].pc = "write", ![c].todo = call[c].args]
  /\ UNCHANGED <<graph, committed, guardVars, turnVars, served, unseen>>

\* add_triples looks each triple up in the whitelist just before adding it.
WriteTriple(c) ==
  /\ At(c, "write", Mutations) /\ call[c].todo # <<>>
  /\ LET t == Head(call[c].todo) IN
       \/ call[c].tool = "add_triples" /\ t \notin Disallowed /\ graph' = graph \cup {t}
       \/ call[c].tool = "remove_triples" /\ graph' = graph \ {t}
  /\ call' = [call EXCEPT ![c].todo = Tail(@)]
  /\ UNCHANGED <<writer, committed, guardVars, turnVars, served, unseen>>

\* (Mutant of WhitelistViolation: the error path keeps the lock.)
WhitelistViolationLocked(c) ==
  /\ At(c, "write", {"add_triples"}) /\ call[c].todo # <<>>
  /\ Head(call[c].todo) \in Disallowed
  /\ IF Policed THEN Return(c) ELSE Raise(c)
  /\ UNCHANGED <<sessionVars, guardVars, turnVars, served, unseen>>

\* The exception ends the write section; under the policies it becomes an error
\* answer, in stop_now it leaves wrap_tool_call.
WhitelistViolation(c) ==
  /\ At(c, "write", {"add_triples"}) /\ call[c].todo # <<>>
  /\ Head(call[c].todo) \in Disallowed
  /\ writer' = None /\ committed' = graph
  /\ unseen' = Overlooked(graph, TRUE) /\ Done(c, graph, TRUE)
  /\ IF Policed THEN Return(c) ELSE Raise(c)
  /\ UNCHANGED <<graph, guardVars, mode, modeWrites, served>>

Exit(c) ==
  /\ At(c, "write", Mutations) /\ call[c].todo = <<>>
  /\ writer' = None /\ committed' = graph
  /\ unseen' = Overlooked(graph, FALSE) /\ Done(c, graph, FALSE)
  /\ Leave(c)
  /\ UNCHANGED <<graph, guardVars, mode, modeWrites, served>>

\* reset_dataset decides by a size read before it takes the write lock.
ResetSize(c) ==
  /\ At(c, "size", {"reset_dataset"}) /\ Readable
  /\ call' = [call EXCEPT ![c].pc = "replace", ![c].seen = Cardinality(graph)]
  /\ UNCHANGED <<sessionVars, guardVars, turnVars, served, unseen>>

Replace(c) ==
  /\ At(c, "replace", {"reset_dataset"}) /\ Readable
  /\ graph' = {} /\ committed' = {}
  /\ unseen' = Overlooked({}, FALSE) /\ Done(c, {}, FALSE)
  /\ Goto(c, "bump")
  /\ UNCHANGED <<writer, guardVars, mode, modeWrites, served>>

ResetBump(c) ==
  /\ At(c, "bump", {"reset_dataset"})
  /\ IF call[c].seen # 0
     THEN revision' = revision + 1 /\ lastSerialize' = None
     ELSE UNCHANGED <<revision, lastSerialize>>
  /\ Leave(c)
  /\ UNCHANGED <<sessionVars, lastNoop, turnVars, served, unseen>>

\* A copy of the whole graph, taken under the read lock, is rendered or listed.
Snapshot(c) ==
  /\ At(c, "snapshot", {"serialize_dataset", "list_triples"}) /\ Readable
  /\ call[c].tool = "serialize_dataset" => call[c].args # None
  /\ IF call[c].tool = "list_triples" THEN served' = served
     ELSE served' = [served EXCEPT ![call[c].args] = graph]
  /\ Leave(c)
  /\ UNCHANGED <<sessionVars, guardVars, turnVars, unseen>>

---------------------------------------------------------------------------
(* After the tool: _update_repeated_call_guard and                         *)
(* _continuation_mode_after_success.                                       *)

Remeasure(c) ==
  /\ At(c, "remeasure", Mutations \cup {"reset_dataset"}) /\ Readable
  /\ call' = [call EXCEPT ![c].pc = "record", ![c].after = Cardinality(graph)]
  /\ UNCHANGED <<sessionVars, guardVars, turnVars, served, unseen>>

Grew(c)   == call[c].after > call[c].before
Shrank(c) == call[c].after < call[c].before

Effective(c) ==
  \/ call[c].tool = "add_triples" /\ Grew(c)
  \/ call[c].tool \in {"remove_triples", "reset_dataset"} /\ Shrank(c)

\* (Mutant of ModeAfterSuccess: changes do not end finalize_only.)
ModeAfterNothing(c) == call[c].pc = "record" /\ UNCHANGED modeWrites

\* A change seen outside normal mode gives the agent its tools back.
ModeAfterSuccess(c) ==
  modeWrites' = IF mode # "normal" /\ Effective(c) THEN [modeWrites EXCEPT ![c] = "normal"]
                ELSE modeWrites

\* A lone call whose change is recorded leaves nothing that predates it.
Accounted(c) == unseen' = (unseen /\ (Parallel \/ ~Effective(c)))

NewRevision == revision' = revision + 1 /\ lastSerialize' = None
SameRevision == UNCHANGED <<revision, lastSerialize>>

\* An error answer is not recorded, but the mode goes by the sizes all the same.
RecordError(c) ==
  /\ At(c, "record", Mutations \cup {"serialize_dataset"}) /\ call[c].args = None
  /\ ModeAfterSuccess(c)
  /\ Return(c)
  /\ UNCHANGED <<sessionVars, guardVars, mode, effects, served, unseen>>

RecordAdd(c) ==
  /\ At(c, "record", {"add_triples"}) /\ call[c].args # None
  /\ IF Grew(c) THEN NewRevision ELSE SameRevision
  /\ lastNoop' =
       CASE Grew(c)                        -> [t \in Mutations |-> None]
         [] call[c].after = call[c].before -> [lastNoop EXCEPT !["add_triples"] = call[c].args]
         [] OTHER                          -> lastNoop
  /\ ModeAfterSuccess(c) /\ Accounted(c)
  /\ Return(c)
  /\ UNCHANGED <<sessionVars, mode, effects, served>>

\* (Mutant of RecordRemove: add_triples' own record is left alone.)
RecordRemoveOnly(c) ==
  /\ At(c, "record", {"remove_triples"}) /\ call[c].args # None
  /\ IF Shrank(c) THEN NewRevision ELSE SameRevision
  /\ lastNoop' = [lastNoop EXCEPT !["remove_triples"] = IF Shrank(c) THEN None ELSE call[c].args]
  /\ ModeAfterSuccess(c) /\ Accounted(c)
  /\ Return(c)
  /\ UNCHANGED <<sessionVars, mode, effects, served>>

RecordRemove(c) ==
  /\ At(c, "record", {"remove_triples"}) /\ call[c].args # None
  /\ IF Shrank(c) THEN NewRevision ELSE SameRevision
  /\ lastNoop' =
       [add_triples |-> None,
        remove_triples |-> CASE Shrank(c)                      -> None
                             [] call[c].after = call[c].before -> call[c].args
                             [] OTHER                          -> lastNoop["remove_triples"]]
  /\ ModeAfterSuccess(c) /\ Accounted(c)
  /\ Return(c)
  /\ UNCHANGED <<sessionVars, mode, effects, served>>

RecordReset(c) ==
  /\ At(c, "record", {"reset_dataset"})
  /\ lastNoop' = [t \in Mutations |-> None]
  /\ ModeAfterSuccess(c) /\ Accounted(c)
  /\ Return(c)
  /\ UNCHANGED <<sessionVars, revision, lastSerialize, mode, effects, served>>

\* (Mutant of RecordSerialize: the signature lacks the revision.)
RecordSerializeFormat(c) ==
  /\ At(c, "record", {"serialize_dataset"}) /\ call[c].args # None
  /\ lastSerialize' = call[c].args
  /\ Return(c)
  /\ UNCHANGED <<sessionVars, revision, lastNoop, turnVars, served, unseen>>

RecordSerialize(c) ==
  /\ At(c, "record", {"serialize_dataset"}) /\ call[c].args # None
  /\ lastSerialize' = <<call[c].seen, call[c].args>>
  /\ Return(c)
  /\ UNCHANGED <<sessionVars, revision, lastNoop, turnVars, served, unseen>>

---------------------------------------------------------------------------

CallStep(c) ==
  \/ PassThrough(c) \/ AdmitList(c)
  \/ RejectReset(c) \/ AdmitReset(c)
  \/ RejectFinal(c) \/ RejectSerialize(c) \/ AdmitSerialize(c)
  \/ Measure(c) \/ RejectNoop(c) \/ AdmitMutation(c)
  \/ RefuseArguments(c)
  \/ Enter(c) \/ WriteTriple(c) \/ WhitelistViolation(c) \/ Exit(c)
  \/ ResetSize(c) \/ Replace(c) \/ ResetBump(c)
  \/ Snapshot(c)
  \/ Remeasure(c)
  \/ RecordError(c)
  \/ RecordAdd(c) \/ RecordRemove(c) \/ RecordReset(c) \/ RecordSerialize(c)

DatasetNext == ModelTurn \/ GuardStops \/ TurnEnds \/ TurnFails \/ \E c \in Calls : CallStep(c)

\* While some thread of a turn can go on, one of them does.  When the model
\* answers, and whether it does, is left open.
DatasetSpec == DatasetInit /\ [][DatasetNext]_dsVars /\ WF_dsVars(\E c \in Calls : CallStep(c))

---------------------------------------------------------------------------
(* Properties. *)

DatasetTypeOK ==
  /\ graph \subseteq Triples /\ committed \subseteq Triples
  /\ writer \in Calls \cup {None}
  /\ revision \in Nat
  /\ lastSerialize \in (Nat \X Formats) \cup {None}
  /\ lastNoop \in [Mutations -> Batches \cup {None}]
  /\ mode \in Modes /\ modeWrites \in [Calls -> Modes \cup {None}]
  /\ effects \in [Calls -> {"none", "ran", "changed"}]
  /\ \A c \in Calls : call[c].tool \in Tools \cup {None}
  /\ served \in [Formats -> (SUBSET Triples) \cup {None}]
  /\ unseen \in BOOLEAN

\* What the gate compares a call with is true of the graph: triples whose add
\* changed nothing are there, those whose removal changed nothing are not,
\* and a serialization of this revision shows this graph.  Only a change the
\* guard was never told of (parallel calls, a whitelist error in the middle
\* of a batch, stop_now) can make it false, until a lone change is recorded.
GuardRecordsTrue ==
  (BetweenTurns /\ ~unseen) =>
    /\ \A b \in Batches : lastNoop["add_triples"] = b => ToSet(b) \subseteq graph
    /\ \A b \in Batches : lastNoop["remove_triples"] = b => ToSet(b) \cap graph = {}
    /\ \A f \in Formats : lastSerialize = <<revision, f>> => served[f] = graph

\* An agent is held in final-answer-only mode only while some serialization
\* that was made for it still shows the graph.
FinalizeOnlyEarned ==
  (BetweenTurns /\ ~unseen /\ mode = "finalize_only") => \E f \in Formats : served[f] = graph

\* Of all calls of the turn only c reached a mutating tool, and it changed the graph.
OnlyChange(c) == effects[c] = "changed" /\ \A d \in Calls \ {c} : effects[d] = "none"

\* An agent in final-answer-only mode that changes the dataset has its tools back
\* when the turn is over (DR-018), whatever listings, refused serializations and
\* refused repetitions run beside the change: none of them makes a second update
\* of continuation_mode, which would cost the turn all its updates.
ChangeEndsFinalizeOnly ==
  [][mode = "finalize_only" /\ BetweenTurns' /\ (\E c \in Calls : OnlyChange(c))
       => mode' = "normal"]_dsVars

\* Whatever the tools of its last turn do, a stopped run stays stopped.
StopNowSticks == [][mode = "stop_now" => mode' = "stop_now"]_dsVars

Session == INSTANCE DatasetSession WITH
  store <- committed, Readers <- Formats, Nothing <- None

\* Tools see the session change batch by batch, never inside a batch.
ImplementsSession == Session!SessionSpec

\* Every tool call of a turn returns or raises: none is left waiting for the lock
\* by a call that was rejected, failed or has finished.
CallsAnswered == (\E c \in Calls : call[c].pc = "gate")
                   ~> (\A c \in Calls : call[c].pc \in Over)

\* What a repeated serialize_dataset is told: the dataset has not changed
\* since the previous call in this format (dataset_middleware.py:670).
UnchangedWhenRejected ==
  [][\A c \in Calls : RejectSerialize(c) => served[call[c].args] = graph]_dsVars
=============================================================================
