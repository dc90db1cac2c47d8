---------------------- MODULE DatasetMiddlewareProofs ----------------------
(***************************************************************************)
(* Proofs about the dataset tools, for any number of parallel calls, any   *)
(* batches, formats and whitelist, and any number of turns.                *)
(***************************************************************************)
EXTENDS DatasetMiddleware, FiniteSetTheorems, SequenceTheorems, TLAPS

Places == {"idle", "gate", "measure", "check", "enter", "write", "size", "replace", "bump",
           "snapshot", "remeasure", "record", "returned", "raised"}
Arguments == Batches \cup Formats \cup {None}

\* The type of the calls; what is asked of a tool is what the tool takes.
CallsTyped ==
  /\ call \in [Calls -> [pc : Places, tool : Tools \cup {None}, args : Arguments, todo : Seq(Triples),
                         before : Nat, after : Nat, seen : Nat]]
  /\ \A c \in Calls : call[c].tool \in Mutations => call[c].args \in Batches \cup {None}
  /\ \A c \in Calls : call[c].tool = "serialize_dataset" => call[c].args \in Formats \cup {None}

\* The types of the other variables; the graph is finite.
StateTyped ==
  /\ graph \in SUBSET Triples /\ IsFiniteSet(graph) /\ committed \in SUBSET Triples
  /\ writer \in Calls \cup {None}
  /\ revision \in Nat
  /\ lastSerialize \in (Nat \X Formats) \cup {None}
  /\ lastNoop \in [Mutations -> Batches \cup {None}]
  /\ served \in [Formats -> (SUBSET Triples) \cup {None}]
  /\ unseen \in BOOLEAN

\* The first n triples of a batch.
FirstOf(b, n) == {b[k] : k \in 1..n}

\* How far the graph is from what readers may see, when n triples of a batch are done.
Applied(c, n) ==
  graph = IF call[c].tool = "add_triples" THEN committed \cup FirstOf(call[c].args, n)
                                          ELSE committed \ FirstOf(call[c].args, n)

\* The write lock is held by the one call that is in its write section, and outside
\* of it the graph is what readers may see.
LockInv ==
  /\ writer = None => graph = committed
  /\ writer # None => call[writer].pc = "write"
  /\ \A c \in Calls : call[c].pc = "write" =>
       /\ writer = c /\ call[c].tool \in Mutations /\ call[c].args \in Batches
       /\ \E n \in 0..Len(call[c].args) :
            /\ call[c].todo = SubSeq(call[c].args, n + 1, Len(call[c].args))
            /\ Applied(c, n)

\* Places that only calls under the tool policies reach.
Guarded == {"measure", "check", "remeasure", "record"}

\* What calls may write to the mode.
Due == CASE mode = "normal"        -> {"finalize_only"}
         [] mode = "finalize_only" -> {"normal"}
         [] mode = "stop_now"      -> {}

\* The calls that returned are the only ones that have written the mode, once the run
\* is stopped no call is where the tool policies would let it write, and before it is
\* no call ends with an exception.
ModeInv ==
  /\ mode \in Modes
  /\ modeWrites \in [Calls -> Due \cup {None}]
  /\ \A c \in Calls : modeWrites[c] # None => call[c].pc = "returned"
  /\ mode = "stop_now" => \A c \in Calls : call[c].pc \notin Guarded
  /\ \A c \in Calls : call[c].pc = "raised" => mode = "stop_now"
  /\ effects \in [Calls -> {"none", "ran", "changed"}]

DatasetInv == CallsTyped /\ StateTyped /\ LockInv /\ ModeInv

----------------------------------------------------------------------------
(* Batches.                                                                *)

LEMMA PrefixSet ==
  ASSUME NEW b \in Seq(Triples), NEW n \in 0..Len(b)
  PROVE  ToSet(SubSeq(b, 1, n)) = FirstOf(b, n)
<1>. DEFINE s == SubSeq(b, 1, n)
<1>1. s \in Seq(Triples) /\ Len(s) = n /\ \A i \in 1..n : s[i] = b[i]
  OBVIOUS
<1>2. DOMAIN s = 1..n
  BY <1>1
<1>. HIDE DEF s
<1>3. ToSet(s) = FirstOf(b, n)
  BY <1>1, <1>2 DEF ToSet, FirstOf
<1>. QED  BY <1>3 DEF s

LEMMA WholeSet ==
  ASSUME NEW b \in Seq(Triples)
  PROVE  ToSet(b) = FirstOf(b, Len(b))
BY DEF ToSet, FirstOf

\* One triple further.
LEMMA NextOfBatch ==
  ASSUME NEW b \in Seq(Triples), NEW n \in 0..Len(b), SubSeq(b, n + 1, Len(b)) # <<>>
  PROVE  /\ n + 1 \in 0..Len(b)
         /\ Head(SubSeq(b, n + 1, Len(b))) \in Triples
         /\ Tail(SubSeq(b, n + 1, Len(b))) = SubSeq(b, n + 2, Len(b))
         /\ FirstOf(b, n + 1) = FirstOf(b, n) \cup {Head(SubSeq(b, n + 1, Len(b)))}
<1>1. n < Len(b)
  OBVIOUS
<1>2. n + 1 \in 1..Len(b) /\ Len(b) \in n + 1..Len(b)
  BY <1>1
<1>3. /\ Head(SubSeq(b, n + 1, Len(b))) = b[n + 1]
      /\ Tail(SubSeq(b, n + 1, Len(b))) = SubSeq(b, n + 2, Len(b))
  BY <1>2, HeadTailOfSubSeq
<1>4. 1..n + 1 = 1..n \cup {n + 1}
  BY <1>1
<1>. QED  BY <1>2, <1>3, <1>4 DEF FirstOf

\* A batch that has been dealt with in full.
LEMMA EndOfBatch ==
  ASSUME NEW b \in Seq(Triples), NEW n \in 0..Len(b), SubSeq(b, n + 1, Len(b)) = <<>>
  PROVE  n = Len(b)
OBVIOUS

----------------------------------------------------------------------------
(* One step of one call.                                                   *)

CallRecord == [pc : Places, tool : Tools \cup {None}, args : Arguments, todo : Seq(Triples),
               before : Nat, after : Nat, seen : Nat]

\* Call c goes from a place where it has something to do to r; the others stay.
Moves(c, r) ==
  /\ r \in CallRecord
  /\ call' = [call EXCEPT ![c] = r]
  /\ call[c].pc \notin Over /\ r.pc # "idle"
  /\ r.pc = "raised" => ~Policed
  /\ r.tool # None => r.tool = call[c].tool /\ r.args = call[c].args

LEMMA MovesTyped ==
  ASSUME CallsTyped, NEW c \in Calls, NEW r, Moves(c, r)
  PROVE  /\ CallsTyped' /\ call'[c] = r
         /\ \A d \in Calls : d # c => call'[d] = call[d]
<1>1. call'[c] = r /\ \A d \in Calls : d # c => call'[d] = call[d]
  BY DEF CallsTyped, Moves
<1>2. call' \in [Calls -> CallRecord]
  BY DEF CallsTyped, Moves, CallRecord
<1>3. None \notin Mutations \cup {"serialize_dataset"}
  BY DatasetAssumption DEF Tools
<1>4. /\ r.tool \in Mutations => r.args \in Batches \cup {None}
      /\ r.tool = "serialize_dataset" => r.args \in Formats \cup {None}
  BY <1>3 DEF CallsTyped, Moves
<1>5. \A d \in Calls : /\ call'[d].tool \in Mutations => call'[d].args \in Batches \cup {None}
                       /\ call'[d].tool = "serialize_dataset" => call'[d].args \in Formats \cup {None}
  BY <1>1, <1>4 DEF CallsTyped
<1>. QED  BY <1>1, <1>2, <1>5 DEF CallsTyped, CallRecord

LEMMA GotoMoves ==
  ASSUME CallsTyped, NEW c \in Calls, NEW p \in Places \ {"idle", "raised"}, Goto(c, p),
         call[c].pc \notin Over
  PROVE  Moves(c, [call[c] EXCEPT !.pc = p])
<1>1. call' = [call EXCEPT ![c] = [call[c] EXCEPT !.pc = p]]
  BY DEF Goto, CallsTyped
<1>2. [call[c] EXCEPT !.pc = p] \in CallRecord
  BY DEF CallsTyped, CallRecord
<1>. QED  BY <1>1, <1>2 DEF Moves, CallRecord, CallsTyped

LEMMA IdleTyped == Idle \in CallRecord /\ Idle.tool = None
BY DEF Idle, CallRecord, Places, Arguments

Returned == [Idle EXCEPT !.pc = "returned"]

LEMMA ReturnedTyped == Returned \in CallRecord /\ Returned.pc = "returned" /\ Returned.tool = None
BY IdleTyped DEF Returned, CallRecord, Places

LEMMA ReturnMoves ==
  ASSUME CallsTyped, NEW c \in Calls, Return(c), call[c].pc \notin Over
  PROVE  Moves(c, Returned)
BY ReturnedTyped DEF Moves, Return, Returned

Raised == [Idle EXCEPT !.pc = "raised"]

LEMMA RaisedTyped == Raised \in CallRecord /\ Raised.pc = "raised" /\ Raised.tool = None
BY IdleTyped DEF Raised, CallRecord, Places

LEMMA RaiseMoves ==
  ASSUME CallsTyped, NEW c \in Calls, Raise(c), call[c].pc \notin Over, ~Policed
  PROVE  Moves(c, Raised)
BY RaisedTyped DEF Moves, Raise, Raised

\* Every way out of a tool; under stop_now a call returns at once.
LEMMA LeaveMoves ==
  ASSUME CallsTyped, NEW c \in Calls, Leave(c), call[c].pc \notin Over,
         call[c].tool \in Tools
  PROVE  \E r : /\ Moves(c, r) /\ r.pc \in {"returned", "remeasure", "record"}
                /\ r.pc # "returned" => Policed
<1>. DEFINE p == AfterHandler(call[c].tool)
<1>0. p \in {"return", "remeasure", "record"} /\ (p # "return" => Policed)
  BY DEF AfterHandler
<1>1. CASE p = "return"
  <2>1. Moves(c, Returned)
    BY <1>1, ReturnMoves DEF Leave
  <2>. QED  BY <2>1, ReturnedTyped
<1>2. CASE p # "return"
  <2>1. p \in {"remeasure", "record"} /\ Policed
    BY <1>0, <1>2
  <2>2. Goto(c, p)
    BY <1>2 DEF Leave
  <2>. HIDE DEF p
  <2>3. Moves(c, [call[c] EXCEPT !.pc = p])
    BY <2>1, <2>2, GotoMoves DEF Places
  <2>4. [call[c] EXCEPT !.pc = p].pc = p
    BY DEF CallsTyped
  <2>. QED  BY <2>1, <2>3, <2>4
<1>. QED  BY <1>1, <1>2

\* What a step of a call may do to its place: places under the tool policies are not
\* entered once the run is stopped, and a write section has one way in.
StepsTo(c, r) ==
  /\ Moves(c, r)
  /\ r.pc \in Guarded => Policed \/ call[c].pc \in Guarded
  /\ r.pc = "write" => Enter(c) \/ WriteTriple(c)

LEMMA GotoSteps ==
  ASSUME CallsTyped, NEW c \in Calls, NEW p \in Places \ {"idle", "raised", "write"}, Goto(c, p),
         call[c].pc \notin Over,
         p \in Guarded => Policed \/ call[c].pc \in Guarded
  PROVE  \E r : StepsTo(c, r)
<1>1. Moves(c, [call[c] EXCEPT !.pc = p])
  BY GotoMoves
<1>2. [call[c] EXCEPT !.pc = p].pc = p
  BY DEF CallsTyped
<1>. QED  BY <1>1, <1>2 DEF StepsTo

LEMMA ReturnSteps ==
  ASSUME CallsTyped, NEW c \in Calls, Return(c), call[c].pc \notin Over
  PROVE  \E r : StepsTo(c, r)
BY ReturnMoves, ReturnedTyped DEF StepsTo, Guarded

LEMMA RaiseSteps ==
  ASSUME CallsTyped, NEW c \in Calls, Raise(c), call[c].pc \notin Over, ~Policed
  PROVE  \E r : StepsTo(c, r)
BY RaiseMoves, RaisedTyped DEF StepsTo, Guarded

LEMMA LeaveSteps ==
  ASSUME CallsTyped, NEW c \in Calls, Leave(c), call[c].pc \notin Over,
         call[c].tool \in Tools
  PROVE  \E r : StepsTo(c, r)
BY LeaveMoves DEF StepsTo, Guarded

LEMMA StepMoves ==
  ASSUME CallsTyped, StateTyped, NEW c \in Calls, CallStep(c)
  PROVE  \E r : StepsTo(c, r)
<1>. DEFINE size == Cardinality(graph)
<1>0. size \in Nat
  BY FS_CardinalityType DEF StateTyped
<1>. HIDE DEF size
<1>t. call[c] \in CallRecord /\ revision \in Nat
  BY DEF CallsTyped, CallRecord, StateTyped
<1>a. CASE PassThrough(c)
  <2>1. HandlerOf(call[c].tool) \in {"enter", "size", "snapshot"}
    BY DEF HandlerOf
  <2>. QED  BY <1>a, <2>1, GotoSteps DEF PassThrough, Places, Guarded, Over
<1>b. CASE AdmitList(c)
  BY <1>b, GotoSteps DEF AdmitList, At, Over, Places, Guarded
<1>c. CASE AdmitReset(c)
  BY <1>c, GotoSteps DEF AdmitReset, At, Over, Places, Guarded
<1>d. CASE RejectReset(c)
  BY <1>d, ReturnSteps DEF RejectReset, At, Over
<1>e. CASE RejectFinal(c)
  BY <1>e, ReturnSteps DEF RejectFinal, At, Over
<1>f. CASE RejectSerialize(c)
  BY <1>f, ReturnSteps DEF RejectSerialize, At, Over
<1>g. CASE AdmitSerialize(c)
  <2>. DEFINE r == [call[c] EXCEPT !.pc = "snapshot", !.seen = revision]
  <2>1. call' = [call EXCEPT ![c] = r]
    BY <1>g DEF AdmitSerialize, CallsTyped
  <2>2. /\ r \in CallRecord /\ r.pc = "snapshot"
        /\ r.tool = call[c].tool /\ r.args = call[c].args
    BY <1>t DEF CallRecord, Places
  <2>. HIDE DEF r
  <2>3. Moves(c, r)
    BY <1>g, <2>1, <2>2 DEF Moves, AdmitSerialize, At, Over
  <2>. QED  BY <2>2, <2>3 DEF StepsTo, Guarded
<1>h. CASE RejectNoop(c)
  BY <1>h, ReturnSteps DEF RejectNoop, At, Over
<1>i. CASE AdmitMutation(c)
  BY <1>i, GotoSteps DEF AdmitMutation, At, Over, Places, Guarded
<1>j. CASE Measure(c) /\ At(c, "gate", Mutations)
  <2>. DEFINE r == [call[c] EXCEPT !.pc = "check", !.before = size]
  <2>1. call' = [call EXCEPT ![c] = r] /\ Policed
    BY <1>j DEF Measure, At, CallsTyped, size
  <2>2. /\ r \in CallRecord /\ r.pc = "check"
        /\ r.tool = call[c].tool /\ r.args = call[c].args
    BY <1>t, <1>0 DEF CallRecord, Places
  <2>. HIDE DEF r
  <2>3. Moves(c, r)
    BY <1>j, <2>1, <2>2 DEF Moves, At, Over
  <2>. QED  BY <2>1, <2>2, <2>3 DEF StepsTo, Guarded
<1>k. CASE Measure(c) /\ At(c, "measure", {"reset_dataset"})
  <2>. DEFINE r == [call[c] EXCEPT !.pc = "size", !.before = size]
  <2>1. call' = [call EXCEPT ![c] = r]
    BY <1>k DEF Measure, At, CallsTyped, size
  <2>2. /\ r \in CallRecord /\ r.pc = "size"
        /\ r.tool = call[c].tool /\ r.args = call[c].args
    BY <1>t, <1>0 DEF CallRecord, Places
  <2>. HIDE DEF r
  <2>3. Moves(c, r)
    BY <1>k, <2>1, <2>2 DEF Moves, At, Over
  <2>. QED  BY <2>2, <2>3 DEF StepsTo, Guarded
<1>l. CASE Enter(c)
  <2>. DEFINE r == [call[c] EXCEPT !.pc = "write", !.todo = call[c].args]
  <2>1. call' = [call EXCEPT ![c] = r]
    BY <1>l DEF Enter, CallsTyped
  <2>2. call[c].args \in Seq(Triples)
    BY <1>l, DatasetAssumption DEF Enter, At, CallsTyped
  <2>3. /\ r \in CallRecord /\ r.pc = "write"
        /\ r.tool = call[c].tool /\ r.args = call[c].args
    BY <1>t, <2>2 DEF CallRecord, Places
  <2>. HIDE DEF r
  <2>4. Moves(c, r)
    BY <1>l, <2>1, <2>3 DEF Moves, Enter, At, Over
  <2>. QED  BY <1>l, <2>3, <2>4 DEF StepsTo, Guarded
<1>m. CASE WriteTriple(c)
  <2>. DEFINE r == [call[c] EXCEPT !.todo = Tail(call[c].todo)]
  <2>1. call' = [call EXCEPT ![c] = r]
    BY <1>m DEF WriteTriple, CallsTyped
  <2>2. Tail(call[c].todo) \in Seq(Triples)
    BY <1>m DEF WriteTriple, CallsTyped
  <2>3. /\ r \in CallRecord /\ r.pc = call[c].pc
        /\ r.tool = call[c].tool /\ r.args = call[c].args
    BY <1>t, <2>2 DEF CallRecord, Places
  <2>. HIDE DEF r
  <2>4. Moves(c, r)
    BY <1>m, <2>1, <2>3 DEF Moves, WriteTriple, At, Over
  <2>. QED  BY <1>m, <2>3, <2>4 DEF StepsTo
<1>n. CASE WhitelistViolation(c)
  BY <1>n, ReturnSteps, RaiseSteps DEF WhitelistViolation, At, Over
<1>aa. CASE RefuseArguments(c)
  BY <1>aa, LeaveSteps DEF RefuseArguments, At, Tools, Over
<1>ab. CASE RecordError(c)
  BY <1>ab, ReturnSteps DEF RecordError, At, Over
<1>o. CASE Exit(c)
  BY <1>o, LeaveSteps DEF Exit, At, Over, Tools
<1>p. CASE ResetSize(c)
  <2>. DEFINE r == [call[c] EXCEPT !.pc = "replace", !.seen = size]
  <2>1. call' = [call EXCEPT ![c] = r]
    BY <1>p DEF ResetSize, At, CallsTyped, size
  <2>2. /\ r \in CallRecord /\ r.pc = "replace"
        /\ r.tool = call[c].tool /\ r.args = call[c].args
    BY <1>t, <1>0 DEF CallRecord, Places
  <2>. HIDE DEF r
  <2>3. Moves(c, r)
    BY <1>p, <2>1, <2>2 DEF Moves, ResetSize, At, Over
  <2>. QED  BY <2>2, <2>3 DEF StepsTo, Guarded
<1>q. CASE Replace(c)
  BY <1>q, GotoSteps DEF Replace, At, Over, Places, Guarded
<1>r. CASE ResetBump(c)
  BY <1>r, LeaveSteps DEF ResetBump, At, Over, Tools
<1>s. CASE Snapshot(c)
  BY <1>s, LeaveSteps DEF Snapshot, At, Over, Tools
<1>u. CASE Remeasure(c)
  <2>. DEFINE r == [call[c] EXCEPT !.pc = "record", !.after = size]
  <2>1. call' = [call EXCEPT ![c] = r]
    BY <1>u DEF Remeasure, At, CallsTyped, size
  <2>2. /\ r \in CallRecord /\ r.pc = "record"
        /\ r.tool = call[c].tool /\ r.args = call[c].args
    BY <1>t, <1>0 DEF CallRecord, Places
  <2>. HIDE DEF r
  <2>3. Moves(c, r)
    BY <1>u, <2>1, <2>2 DEF Moves, Remeasure, At, Over
  <2>. QED  BY <1>u, <2>2, <2>3 DEF StepsTo, Guarded, Remeasure, At
<1>v. CASE RecordAdd(c)
  BY <1>v, ReturnSteps DEF RecordAdd, At, Over
<1>w. CASE RecordRemove(c)
  BY <1>w, ReturnSteps DEF RecordRemove, At, Over
<1>x. CASE RecordReset(c)
  BY <1>x, ReturnSteps DEF RecordReset, At, Over
<1>y. CASE RecordSerialize(c)
  BY <1>y, ReturnSteps DEF RecordSerialize, At, Over
<1>z. Measure(c) => At(c, "gate", Mutations) \/ At(c, "measure", {"reset_dataset"})
  BY DEF Measure
<1>. QED
  BY <1>a, <1>aa, <1>ab, <1>b, <1>c, <1>d, <1>e, <1>f, <1>g, <1>h, <1>i, <1>j, <1>k, <1>l, <1>m, <1>n, <1>o,
     <1>p, <1>q, <1>r, <1>s, <1>u, <1>v, <1>w, <1>x, <1>y, <1>z DEF CallStep

----------------------------------------------------------------------------
(* What a step of a call does to the mode, the session and the guard state. *)

LEMMA StepsFacts ==
  ASSUME CallsTyped, StateTyped, NEW c \in Calls, CallStep(c)
  PROVE  /\ CallsTyped'
         /\ call[c].pc \notin Over /\ call'[c].pc # "idle"
         /\ \A d \in Calls : d # c => call'[d] = call[d]
         /\ call'[c].pc \in Guarded => Policed \/ call[c].pc \in Guarded
         /\ call'[c].pc = "write" => Enter(c) \/ WriteTriple(c)
         /\ call'[c].pc = "raised" => ~Policed
BY StepMoves, MovesTyped DEF StepsTo, Moves

LEMMA ReturnReturns ==
  ASSUME CallsTyped, NEW c \in Calls, Return(c)
  PROVE  call'[c].pc = "returned"
BY ReturnedTyped DEF Return, Returned, CallsTyped

\* A call may put an update of the mode into its answer.
Writes(c) ==
  \/ modeWrites' = modeWrites
  \/ /\ call'[c].pc = "returned"
     /\ \E m \in Due : modeWrites' = [modeWrites EXCEPT ![c] = m]

LEMMA RecordMode ==
  ASSUME CallsTyped, ModeInv, NEW c \in Calls, call[c].pc = "record",
         ModeAfterSuccess(c), Return(c)
  PROVE  Writes(c)
<1>1. mode # "stop_now"
  BY DEF ModeInv, Guarded
<1>2. mode # "normal" => "normal" \in Due
  BY <1>1 DEF ModeInv, Modes, Due
<1>. QED  BY <1>2, ReturnReturns DEF ModeAfterSuccess, Writes

LEMMA StepMode ==
  ASSUME CallsTyped, ModeInv, NEW c \in Calls, CallStep(c)
  PROVE  mode' = mode /\ Writes(c)
<1>1. CASE RejectSerialize(c)
  <2>1. "finalize_only" \in Due
    BY <1>1 DEF RejectSerialize, Due
  <2>. QED  BY <1>1, <2>1, ReturnReturns DEF RejectSerialize, Writes
<1>2. CASE RecordError(c) \/ RecordAdd(c) \/ RecordRemove(c) \/ RecordReset(c)
  BY <1>2, RecordMode DEF RecordError, RecordAdd, RecordRemove, RecordReset, At
<1>3. CASE \/ PassThrough(c) \/ AdmitList(c) \/ RejectReset(c) \/ AdmitReset(c)
           \/ RejectFinal(c) \/ AdmitSerialize(c) \/ Measure(c) \/ RejectNoop(c)
           \/ AdmitMutation(c)
  BY <1>3 DEF PassThrough, AdmitList, RejectReset, AdmitReset, RejectFinal, AdmitSerialize,
              Measure, RejectNoop, AdmitMutation, turnVars, Writes
<1>4. CASE \/ RefuseArguments(c) \/ Enter(c) \/ WriteTriple(c) \/ WhitelistViolation(c) \/ Exit(c) \/ ResetSize(c)
           \/ Replace(c) \/ ResetBump(c) \/ Snapshot(c) \/ Remeasure(c) \/ RecordSerialize(c)
  BY <1>4 DEF RefuseArguments, Enter, WriteTriple, WhitelistViolation, Exit, ResetSize, Replace, ResetBump,
              Snapshot, Remeasure, RecordSerialize, turnVars, Writes
<1>. QED  BY <1>1, <1>2, <1>3, <1>4 DEF CallStep

\* The effects of a call are remembered by the last step of its tool.
LEMMA StepEffects ==
  ASSUME effects \in [Calls -> {"none", "ran", "changed"}], NEW c \in Calls, CallStep(c)
  PROVE  /\ effects' \in [Calls -> {"none", "ran", "changed"}]
         /\ \A d \in Calls \ {c} : effects'[d] = effects[d]
<1>1. CASE RefuseArguments(c) \/ WhitelistViolation(c) \/ Exit(c) \/ Replace(c)
  BY <1>1 DEF RefuseArguments, WhitelistViolation, Exit, Replace, Done
<1>2. CASE \/ PassThrough(c) \/ AdmitList(c) \/ RejectReset(c) \/ AdmitReset(c)
           \/ RejectFinal(c) \/ RejectSerialize(c) \/ AdmitSerialize(c) \/ Measure(c)
           \/ RejectNoop(c) \/ AdmitMutation(c)
  BY <1>2 DEF PassThrough, AdmitList, RejectReset, AdmitReset, RejectFinal, RejectSerialize,
              AdmitSerialize, Measure, RejectNoop, AdmitMutation, turnVars
<1>3. CASE \/ Enter(c) \/ WriteTriple(c) \/ ResetSize(c) \/ ResetBump(c) \/ Snapshot(c)
           \/ Remeasure(c) \/ RecordError(c) \/ RecordAdd(c) \/ RecordRemove(c)
           \/ RecordReset(c) \/ RecordSerialize(c)
  BY <1>3 DEF Enter, WriteTriple, ResetSize, ResetBump, Snapshot, Remeasure, RecordError,
              RecordAdd, RecordRemove, RecordReset, RecordSerialize, turnVars
<1>. QED  BY <1>1, <1>2, <1>3 DEF CallStep

LEMMA StepSession ==
  ASSUME NEW c \in Calls, CallStep(c)
  PROVE  \/ Enter(c) \/ WriteTriple(c) \/ WhitelistViolation(c) \/ Exit(c) \/ Replace(c)
         \/ UNCHANGED sessionVars /\ call[c].pc # "write"
<1>1. CASE \/ PassThrough(c) \/ AdmitList(c) \/ RejectReset(c) \/ AdmitReset(c)
           \/ RejectFinal(c) \/ RejectSerialize(c) \/ AdmitSerialize(c) \/ Measure(c)
           \/ RejectNoop(c) \/ AdmitMutation(c)
  BY <1>1 DEF PassThrough, AdmitList, RejectReset, AdmitReset, RejectFinal, RejectSerialize,
              AdmitSerialize, Measure, RejectNoop, AdmitMutation, At
<1>2. CASE \/ RefuseArguments(c) \/ RecordError(c) \/ ResetSize(c) \/ ResetBump(c) \/ Snapshot(c) \/ Remeasure(c)
           \/ RecordAdd(c) \/ RecordRemove(c) \/ RecordReset(c) \/ RecordSerialize(c)
  BY <1>2 DEF RefuseArguments, RecordError, ResetSize, ResetBump, Snapshot, Remeasure, RecordAdd, RecordRemove, RecordReset,
              RecordSerialize, At
<1>. QED  BY <1>1, <1>2 DEF CallStep

\* The guard state is changed by the last steps of a call, the served graphs by Snapshot.
LEMMA StepGuardState ==
  ASSUME NEW c \in Calls, CallStep(c)
  PROVE  \/ UNCHANGED <<guardVars, served>>
         \/ ResetBump(c) \/ Snapshot(c)
         \/ RecordAdd(c) \/ RecordRemove(c) \/ RecordReset(c) \/ RecordSerialize(c)
<1>1. CASE \/ PassThrough(c) \/ AdmitList(c) \/ RejectReset(c) \/ AdmitReset(c)
           \/ RejectFinal(c) \/ RejectSerialize(c) \/ AdmitSerialize(c) \/ Measure(c)
           \/ RejectNoop(c) \/ AdmitMutation(c)
  BY <1>1 DEF PassThrough, AdmitList, RejectReset, AdmitReset, RejectFinal, RejectSerialize,
              AdmitSerialize, Measure, RejectNoop, AdmitMutation
<1>2. CASE \/ RefuseArguments(c) \/ RecordError(c) \/ Enter(c) \/ WriteTriple(c) \/ WhitelistViolation(c) \/ Exit(c) \/ ResetSize(c)
           \/ Replace(c) \/ Remeasure(c)
  BY <1>2 DEF RefuseArguments, RecordError, Enter, WriteTriple, WhitelistViolation, Exit, ResetSize, Replace, Remeasure
<1>. QED  BY <1>1, <1>2 DEF CallStep

----------------------------------------------------------------------------
(* The invariant, part by part.                                            *)

LEMMA SessionTyped ==
  ASSUME CallsTyped, StateTyped, NEW c \in Calls, CallStep(c)
  PROVE  /\ graph' \in SUBSET Triples /\ IsFiniteSet(graph') /\ committed' \in SUBSET Triples
         /\ writer' \in Calls \cup {None}
<1>1. CASE Enter(c)
  BY <1>1 DEF Enter, StateTyped
<1>2. CASE WriteTriple(c)
  <2>. DEFINE t == Head(call[c].todo)
  <2>1. t \in Triples /\ graph' \in {graph \cup {t}, graph \ {t}}
    BY <1>2 DEF WriteTriple, CallsTyped
  <2>. HIDE DEF t
  <2>2. IsFiniteSet(graph')
    BY <2>1, FS_AddElement, FS_RemoveElement DEF StateTyped
  <2>. QED  BY <1>2, <2>1, <2>2 DEF WriteTriple, StateTyped
<1>3. CASE WhitelistViolation(c) \/ Exit(c)
  BY <1>3 DEF WhitelistViolation, Exit, StateTyped
<1>4. CASE Replace(c)
  BY <1>4, FS_EmptySet DEF Replace, StateTyped
<1>5. CASE UNCHANGED sessionVars
  BY <1>5 DEF sessionVars, StateTyped
<1>. QED  BY <1>1, <1>2, <1>3, <1>4, <1>5, StepSession

LEMMA GuardTyped ==
  ASSUME CallsTyped, StateTyped, NEW c \in Calls, CallStep(c)
  PROVE  /\ revision' \in Nat
         /\ lastSerialize' \in (Nat \X Formats) \cup {None}
         /\ lastNoop' \in [Mutations -> Batches \cup {None}]
         /\ served' \in [Formats -> (SUBSET Triples) \cup {None}]
<1>1. CASE ResetBump(c)
  BY <1>1 DEF ResetBump, StateTyped
<1>2. CASE Snapshot(c)
  <2>1. served' \in [Formats -> (SUBSET Triples) \cup {None}]
    BY <1>2 DEF Snapshot, At, StateTyped, CallsTyped
  <2>. QED  BY <1>2, <2>1 DEF Snapshot, guardVars, StateTyped
<1>3. CASE RecordAdd(c)
  <2>1. lastNoop' \in [Mutations -> Batches \cup {None}]
    BY <1>3 DEF RecordAdd, At, StateTyped, CallsTyped, Mutations
  <2>. QED  BY <1>3, <2>1 DEF RecordAdd, NewRevision, SameRevision, StateTyped
<1>4. CASE RecordRemove(c)
  <2>1. lastNoop["remove_triples"] \in Batches \cup {None} /\ call[c].args \in Batches
    BY <1>4 DEF RecordRemove, At, StateTyped, CallsTyped, Mutations
  <2>2. lastNoop' \in [Mutations -> Batches \cup {None}]
    BY <1>4, <2>1 DEF RecordRemove, Mutations
  <2>. QED  BY <1>4, <2>2 DEF RecordRemove, NewRevision, SameRevision, StateTyped
<1>5. CASE RecordReset(c)
  BY <1>5 DEF RecordReset, StateTyped
<1>6. CASE RecordSerialize(c)
  <2>1. call[c].seen \in Nat /\ call[c].args \in Formats
    BY <1>6 DEF RecordSerialize, At, CallsTyped
  <2>. QED  BY <1>6, <2>1 DEF RecordSerialize, StateTyped
<1>7. CASE UNCHANGED <<guardVars, served>>
  BY <1>7 DEF guardVars, StateTyped
<1>. QED  BY <1>1, <1>2, <1>3, <1>4, <1>5, <1>6, <1>7, StepGuardState

LEMMA UnseenTyped ==
  ASSUME StateTyped, NEW c \in Calls, CallStep(c)
  PROVE  unseen' \in BOOLEAN
<1>1. \A g : Overlooked(g, TRUE) \in BOOLEAN /\ Overlooked(g, FALSE) \in BOOLEAN
  BY DEF Overlooked
<1>2. CASE WhitelistViolation(c) \/ Exit(c) \/ Replace(c)
  BY <1>1, <1>2 DEF WhitelistViolation, Exit, Replace
<1>3. CASE RecordAdd(c) \/ RecordRemove(c) \/ RecordReset(c)
  BY <1>3 DEF RecordAdd, RecordRemove, RecordReset, Accounted
<1>4. CASE \/ PassThrough(c) \/ AdmitList(c) \/ RejectReset(c) \/ AdmitReset(c)
           \/ RejectFinal(c) \/ RejectSerialize(c) \/ AdmitSerialize(c) \/ Measure(c)
           \/ RejectNoop(c) \/ AdmitMutation(c)
  BY <1>4 DEF PassThrough, AdmitList, RejectReset, AdmitReset, RejectFinal, RejectSerialize,
              AdmitSerialize, Measure, RejectNoop, AdmitMutation, StateTyped
<1>5. CASE \/ RefuseArguments(c) \/ RecordError(c) \/ Enter(c) \/ WriteTriple(c)
           \/ ResetSize(c) \/ ResetBump(c) \/ Snapshot(c) \/ Remeasure(c) \/ RecordSerialize(c)
  BY <1>5 DEF RefuseArguments, RecordError, Enter, WriteTriple, ResetSize, ResetBump, Snapshot, Remeasure, RecordSerialize,
              StateTyped
<1>. QED  BY <1>2, <1>3, <1>4, <1>5 DEF CallStep

LEMMA StepTyped ==
  ASSUME CallsTyped, StateTyped, NEW c \in Calls, CallStep(c)
  PROVE  StateTyped'
BY SessionTyped, GuardTyped, UnseenTyped DEF StateTyped

LEMMA StepModeInv ==
  ASSUME CallsTyped, StateTyped, ModeInv, NEW c \in Calls, CallStep(c)
  PROVE  ModeInv'
<1>1. mode' = mode /\ Due' = Due
  BY StepMode DEF Due
<1>2. /\ modeWrites' \in [Calls -> Due' \cup {None}]
      /\ \A d \in Calls : modeWrites'[d] # None => call'[d].pc = "returned"
  <2>1. CASE modeWrites' = modeWrites
    BY <1>1, <2>1, StepsFacts DEF ModeInv, Over
  <2>2. CASE modeWrites' # modeWrites
    <3>1. PICK m \in Due : modeWrites' = [modeWrites EXCEPT ![c] = m]
      BY <2>2, StepMode DEF Writes
    <3>2. call'[c].pc = "returned" /\ \A d \in Calls : d # c => call'[d] = call[d]
      BY <2>2, StepMode, StepsFacts DEF Writes
    <3>. QED  BY <1>1, <3>1, <3>2 DEF ModeInv
  <2>. QED  BY <2>1, <2>2
<1>3. mode = "stop_now" => \A d \in Calls : call'[d].pc \notin Guarded
  BY StepsFacts DEF ModeInv, Policed
<1>4. \A d \in Calls : call'[d].pc = "raised" => mode = "stop_now"
  BY StepsFacts DEF ModeInv, Policed
<1>5. effects' \in [Calls -> {"none", "ran", "changed"}]
  BY StepEffects DEF ModeInv
<1>. QED  BY <1>1, <1>2, <1>3, <1>4, <1>5 DEF ModeInv

----------------------------------------------------------------------------
(* The lock.                                                               *)

\* While somebody writes it is the holder of the lock; a reader finds nobody writing.
LEMMA OneWriter ==
  ASSUME LockInv
  PROVE  /\ \A c, d \in Calls : call[c].pc = "write" /\ call[d].pc = "write" => c = d
         /\ Readable => graph = committed /\ \A c \in Calls : call[c].pc # "write"
BY DatasetAssumption DEF LockInv, Readable

LEMMA EnterLock ==
  ASSUME CallsTyped, StateTyped, LockInv, NEW c \in Calls, Enter(c), CallStep(c)
  PROVE  LockInv'
<1>1. /\ graph = committed /\ \A d \in Calls : call[d].pc # "write"
  BY OneWriter DEF Enter
<1>2. /\ call'[c].pc = "write" /\ call'[c].tool = call[c].tool
      /\ call'[c].args = call[c].args /\ call'[c].todo = call[c].args
  BY DEF Enter, CallsTyped
<1>3. call[c].tool \in Mutations /\ call[c].args \in Seq(Triples) /\ call[c].args \in Batches
  BY DatasetAssumption DEF Enter, At, CallsTyped
<1>4. call[c].args = SubSeq(call[c].args, 0 + 1, Len(call[c].args))
  BY <1>3
<1>5. Applied(c, 0)'
  <2>1. FirstOf(call[c].args, 0) = {}
    BY DEF FirstOf
  <2>. QED  BY <1>1, <1>2, <2>1 DEF Applied, Enter
<1>6. \E n \in 0..Len(call'[c].args) :
        /\ call'[c].todo = SubSeq(call'[c].args, n + 1, Len(call'[c].args))
        /\ Applied(c, n)'
  <2>1. 0 \in 0..Len(call'[c].args)
    BY <1>2, <1>3
  <2>. QED  BY <1>2, <1>4, <1>5, <2>1
<1>7. writer' = c /\ c # None
  BY DatasetAssumption DEF Enter
<1>8. \A d \in Calls : call'[d].pc = "write" => d = c
  BY <1>1, StepsFacts
<1>. QED  BY <1>2, <1>3, <1>6, <1>7, <1>8 DEF LockInv

LEMMA WriteLock ==
  ASSUME CallsTyped, StateTyped, LockInv, NEW c \in Calls, WriteTriple(c), CallStep(c)
  PROVE  LockInv'
<1>. DEFINE b == call[c].args
            t == Head(call[c].todo)
<1>1. /\ call[c].pc = "write" /\ writer = c /\ c # None
      /\ call[c].tool \in Mutations /\ b \in Seq(Triples) /\ call[c].todo # <<>>
  BY DatasetAssumption DEF WriteTriple, At, LockInv, CallsTyped
<1>2. PICK n \in 0..Len(b) : call[c].todo = SubSeq(b, n + 1, Len(b)) /\ Applied(c, n)
  BY <1>1 DEF LockInv
<1>3. /\ call'[c].pc = "write" /\ call'[c].tool = call[c].tool
      /\ call'[c].args = b /\ call'[c].todo = Tail(call[c].todo)
  BY <1>1 DEF WriteTriple, CallsTyped
<1>4. /\ n + 1 \in 0..Len(b)
      /\ Tail(call[c].todo) = SubSeq(b, (n + 1) + 1, Len(b))
      /\ FirstOf(b, n + 1) = FirstOf(b, n) \cup {t}
  <2>1. (n + 1) + 1 = n + 2
    OBVIOUS
  <2>. QED  BY <1>1, <1>2, <2>1, NextOfBatch
<1>5. Applied(c, n + 1)'
  <2>1. CASE call[c].tool = "add_triples"
    <3>1. graph' = graph \cup {t} /\ committed' = committed
      BY <2>1 DEF WriteTriple
    <3>. QED  BY <1>2, <1>3, <1>4, <2>1, <3>1 DEF Applied
  <2>2. CASE call[c].tool # "add_triples"
    <3>1. graph' = graph \ {t} /\ committed' = committed
      BY <2>2 DEF WriteTriple
    <3>. QED  BY <1>2, <1>3, <1>4, <2>2, <3>1 DEF Applied
  <2>. QED  BY <2>1, <2>2
<1>6. \E m \in 0..Len(call'[c].args) :
        /\ call'[c].todo = SubSeq(call'[c].args, m + 1, Len(call'[c].args))
        /\ Applied(c, m)'
  BY <1>3, <1>4, <1>5
<1>7. writer' = c
  BY <1>1 DEF WriteTriple
<1>8. \A d \in Calls : call'[d].pc = "write" => d = c
  BY <1>1, OneWriter, StepsFacts
<1>. QED  BY <1>1, <1>3, <1>6, <1>7, <1>8 DEF LockInv

LEMMA StepLock ==
  ASSUME CallsTyped, StateTyped, LockInv, NEW c \in Calls, CallStep(c)
  PROVE  LockInv'
<1>1. CASE Enter(c)
  BY <1>1, EnterLock
<1>2. CASE WriteTriple(c)
  BY <1>2, WriteLock
<1>3. CASE (WhitelistViolation(c) \/ Exit(c)) /\ ~WriteTriple(c) /\ ~Enter(c)
  <2>1. writer' = None /\ committed' = graph' /\ call[c].pc = "write"
    BY <1>3 DEF WhitelistViolation, Exit, At
  <2>2. \A d \in Calls : call'[d].pc # "write"
    BY <1>3, <2>1, OneWriter, StepsFacts
  <2>. QED  BY <2>1, <2>2 DEF LockInv
<1>4. CASE Replace(c) /\ ~WriteTriple(c) /\ ~Enter(c)
  <2>1. writer = None /\ writer' = None /\ committed' = graph'
    BY <1>4 DEF Replace, Readable
  <2>2. \A d \in Calls : call'[d].pc # "write"
    BY <1>4, <2>1, OneWriter, StepsFacts DEF Readable
  <2>. QED  BY <2>1, <2>2 DEF LockInv
<1>5. CASE UNCHANGED sessionVars /\ call[c].pc # "write" /\ ~WriteTriple(c) /\ ~Enter(c)
  <2>1. graph' = graph /\ writer' = writer /\ committed' = committed
    BY <1>5 DEF sessionVars
  <2>2. call'[c].pc # "write" /\ \A d \in Calls : d # c => call'[d] = call[d]
    BY <1>5, StepsFacts
  <2>3. writer' # None => call'[writer'].pc = "write"
    BY <1>5, <2>1, <2>2 DEF LockInv, StateTyped
  <2>4. ASSUME NEW d \in Calls, call'[d].pc = "write"
        PROVE  /\ writer' = d /\ call'[d].tool \in Mutations /\ call'[d].args \in Batches
               /\ \E n \in 0..Len(call'[d].args) :
                    /\ call'[d].todo = SubSeq(call'[d].args, n + 1, Len(call'[d].args))
                    /\ Applied(d, n)'
    <3>1. call'[d] = call[d] /\ call[d].pc = "write"
      BY <2>2, <2>4
    <3>2. /\ writer = d /\ call[d].tool \in Mutations /\ call[d].args \in Batches
          /\ \E n \in 0..Len(call[d].args) :
               /\ call[d].todo = SubSeq(call[d].args, n + 1, Len(call[d].args))
               /\ Applied(d, n)
      BY <3>1 DEF LockInv
    <3>3. \A n : Applied(d, n) => Applied(d, n)'
      BY <2>1, <3>1 DEF Applied
    <3>. QED  BY <2>1, <3>1, <3>2, <3>3
  <2>. QED  BY <2>1, <2>3, <2>4 DEF LockInv
<1>. QED  BY <1>1, <1>2, <1>3, <1>4, <1>5, StepSession

----------------------------------------------------------------------------
(* The turn.                                                               *)

LEMMA AskedTyped ==
  ASSUME NEW q \in Requests
  PROVE  LET r == [Idle EXCEPT !.pc = "gate", !.tool = q.tool, !.args = q.args]
         IN  /\ r \in CallRecord /\ r.pc = "gate"
             /\ r.tool \in Mutations => r.args \in Batches \cup {None}
             /\ r.tool = "serialize_dataset" => r.args \in Formats \cup {None}
<1>1. /\ q.tool \in Tools /\ q.args \in Arguments
      /\ q.tool \in Mutations => q.args \in Batches \cup {None}
      /\ q.tool = "serialize_dataset" => q.args \in Formats \cup {None}
  BY DEF Requests, Tools, Mutations, Arguments
<1>. QED  BY <1>1, IdleTyped DEF CallRecord, Places

\* At the start and after a turn no call is under way.
LEMMA AllIdle ==
  ASSUME NEW c \in Calls, call = [d \in Calls |-> Idle]
  PROVE  call[c] = Idle /\ call[c].pc = "idle" /\ call[c].tool = None
BY DEF Idle

LEMMA IdleCalls ==
  ASSUME call = [c \in Calls |-> Idle]
  PROVE  CallsTyped
<1>1. None \notin Mutations \cup {"serialize_dataset"}
  BY DatasetAssumption DEF Tools
<1>. QED  BY <1>1, IdleTyped DEF CallsTyped, CallRecord

LEMMA InitInv == DatasetInit => DatasetInv
<1>. SUFFICES ASSUME DatasetInit PROVE DatasetInv
  OBVIOUS
<1>1. \A c \in Calls : call[c].pc = "idle"
  BY AllIdle DEF DatasetInit
<1>2. CallsTyped
  BY IdleCalls DEF DatasetInit
<1>3. StateTyped
  BY FS_EmptySet DEF DatasetInit, StateTyped
<1>4. LockInv
  BY <1>1 DEF DatasetInit, LockInv
<1>5. ModeInv
  BY <1>1 DEF DatasetInit, ModeInv, Modes, Guarded
<1>. QED  BY <1>2, <1>3, <1>4, <1>5 DEF DatasetInv

\* Between the steps of calls the session and the guard state rest.
LEMMA RestTyped ==
  ASSUME StateTyped, UNCHANGED <<sessionVars, guardVars, served, unseen>>
  PROVE  StateTyped'
BY DEF StateTyped, sessionVars, guardVars

LEMMA RestLock ==
  ASSUME LockInv, UNCHANGED sessionVars, \A c \in Calls : call[c].pc # "write",
         \A c \in Calls : call'[c].pc # "write", writer \in Calls \cup {None}
  PROVE  LockInv'
BY DEF LockInv, sessionVars

LEMMA ModelTurnInv == DatasetInv /\ ModelTurn => DatasetInv'
<1>. SUFFICES ASSUME DatasetInv, ModelTurn PROVE DatasetInv'
  OBVIOUS
<1>1. PICK asked \in [Calls -> Requests \cup {None}] :
        call' = [c \in Calls |-> IF asked[c] = None THEN Idle
                                 ELSE [Idle EXCEPT !.pc = "gate", !.tool = asked[c].tool,
                                                   !.args = asked[c].args]]
  BY DEF ModelTurn
<1>2. None \notin Mutations \cup {"serialize_dataset"}
  BY DatasetAssumption DEF Tools
<1>3. ASSUME NEW c \in Calls
      PROVE  /\ call'[c] \in CallRecord /\ call'[c].pc \in {"idle", "gate"}
             /\ call'[c].tool \in Mutations => call'[c].args \in Batches \cup {None}
             /\ call'[c].tool = "serialize_dataset" => call'[c].args \in Formats \cup {None}
  <2>1. CASE asked[c] = None
    <3>1. call'[c] = Idle /\ Idle.pc = "idle"
      BY <1>1, <2>1 DEF Idle
    <3>. QED  BY <1>2, <3>1, IdleTyped
  <2>2. CASE asked[c] # None
    <3>1. asked[c] \in Requests
      BY <2>2
    <3>2. call'[c] = [Idle EXCEPT !.pc = "gate", !.tool = asked[c].tool, !.args = asked[c].args]
      BY <1>1, <2>2
    <3>. QED  BY <3>1, <3>2, AskedTyped
  <2>. QED  BY <2>1, <2>2
<1>4. CallsTyped'
  <2>1. call' \in [Calls -> CallRecord]
    BY <1>1, <1>3
  <2>. QED  BY <1>3, <2>1 DEF CallsTyped, CallRecord
<1>5. StateTyped'
  BY RestTyped DEF DatasetInv, ModelTurn
<1>6. LockInv'
  BY <1>3, RestLock DEF DatasetInv, StateTyped, ModelTurn
<1>7. ModeInv'
  <2>1. \A c \in Calls : modeWrites[c] = None
    BY DEF ModelTurn, DatasetInv, ModeInv
  <2>. QED  BY <1>3, <2>1 DEF ModelTurn, turnVars, DatasetInv, ModeInv, Guarded, Due
<1>. QED  BY <1>4, <1>5, <1>6, <1>7 DEF DatasetInv

LEMMA GuardStopsInv == DatasetInv /\ GuardStops => DatasetInv'
<1>. SUFFICES ASSUME DatasetInv, GuardStops PROVE DatasetInv'
  OBVIOUS
<1>1. \A c \in Calls : call'[c] = call[c] /\ call[c].pc \in {"idle", "gate"}
  BY DEF GuardStops
<1>2. CallsTyped'
  BY DEF GuardStops, DatasetInv, CallsTyped
<1>3. StateTyped'
  BY RestTyped DEF DatasetInv, GuardStops
<1>4. LockInv'
  BY <1>1, RestLock DEF DatasetInv, StateTyped, GuardStops
<1>5. ModeInv'
  <2>1. \A c \in Calls : modeWrites[c] = None
    BY <1>1 DEF DatasetInv, ModeInv
  <2>. QED  BY <1>1, <2>1 DEF GuardStops, DatasetInv, ModeInv, Modes, Guarded
<1>. QED  BY <1>2, <1>3, <1>4, <1>5 DEF DatasetInv

LEMMA TurnOverInv ==
  ASSUME DatasetInv, TurnEnds \/ TurnFails
  PROVE  DatasetInv' /\ BetweenTurns' /\ mode' \in Due \cup {mode}
<1>0. CallsDone /\ TurnOver
  BY DEF TurnEnds, TurnFails
<1>1. \A c \in Calls : /\ call'[c].pc = "idle" /\ call[c].pc # "write"
                      /\ modeWrites'[c] = None
  BY <1>0 DEF CallsDone, TurnOver, Idle, Over
<1>2. CallsTyped'
  <2>1. None \notin Mutations \cup {"serialize_dataset"}
    BY DatasetAssumption DEF Tools
  <2>. QED  BY <1>0, <2>1, IdleTyped DEF CallsDone, CallsTyped, CallRecord
<1>3. StateTyped'
  BY <1>0, RestTyped DEF DatasetInv, CallsDone
<1>4. LockInv'
  BY <1>0, <1>1, RestLock DEF DatasetInv, StateTyped, CallsDone
<1>5. mode' \in Due \cup {mode}
  BY DEF TurnEnds, TurnFails, DatasetInv, ModeInv
<1>6. ModeInv'
  <2>1. mode' \in Modes
    BY <1>5 DEF DatasetInv, ModeInv, Due, Modes
  <2>. QED  BY <1>0, <1>1, <2>1 DEF CallsDone, ModeInv, Guarded
<1>. QED  BY <1>1, <1>2, <1>3, <1>4, <1>5, <1>6 DEF DatasetInv, BetweenTurns

LEMMA NextInv == DatasetInv /\ [DatasetNext]_dsVars => DatasetInv'
<1>. SUFFICES ASSUME DatasetInv, [DatasetNext]_dsVars PROVE DatasetInv'
  OBVIOUS
<1>1. CASE ModelTurn
  BY <1>1, ModelTurnInv
<1>2. CASE GuardStops
  BY <1>2, GuardStopsInv
<1>3. CASE TurnEnds \/ TurnFails
  BY <1>3, TurnOverInv
<1>4. ASSUME NEW c \in Calls, CallStep(c) PROVE DatasetInv'
  BY <1>4, StepsFacts, StepTyped, StepLock, StepModeInv DEF DatasetInv
<1>5. CASE UNCHANGED dsVars
  BY <1>5 DEF dsVars, sessionVars, guardVars, turnVars, DatasetInv, CallsTyped, StateTyped,
              LockInv, Applied, ModeInv, Due
<1>. QED  BY <1>1, <1>2, <1>3, <1>4, <1>5 DEF DatasetNext

----------------------------------------------------------------------------
(* Theorems.                                                               *)

\* The invariant: types, the lock, and what a turn may write to the mode.
THEOREM DatasetInvariant == DatasetSpec => []DatasetInv
BY InitInv, NextInv, PTL DEF DatasetSpec

\* The state of the dataset middleware keeps its types.
THEOREM DatasetTypeCorrect == DatasetSpec => []DatasetTypeOK
<1>1. DatasetInv => DatasetTypeOK
  <2>1. DatasetInv => modeWrites \in [Calls -> Modes \cup {None}]
    BY DEF DatasetInv, ModeInv, Due, Modes
  <2>. QED  BY <2>1 DEF DatasetInv, CallsTyped, StateTyped, ModeInv, DatasetTypeOK
<1>. QED  BY <1>1, DatasetInvariant, PTL

\* Nothing that the calls of its last turn do starts a stopped run again.
THEOREM StoppedRunsStayStopped == DatasetSpec => StopNowSticks
<1>1. DatasetInv /\ [DatasetNext]_dsVars => [mode = "stop_now" => mode' = "stop_now"]_dsVars
  <2>. SUFFICES ASSUME DatasetInv, [DatasetNext]_dsVars, mode = "stop_now"
                PROVE  mode' = "stop_now"
    OBVIOUS
  <2>1. CASE ModelTurn \/ GuardStops
    BY <2>1 DEF ModelTurn, GuardStops, Policed
  <2>2. CASE TurnEnds \/ TurnFails
    BY <2>2, TurnOverInv DEF Due
  <2>3. ASSUME NEW c \in Calls, CallStep(c) PROVE mode' = mode
    BY <2>3, StepMode DEF DatasetInv
  <2>4. CASE UNCHANGED dsVars
    BY <2>4 DEF dsVars, turnVars
  <2>. QED  BY <2>1, <2>2, <2>3, <2>4 DEF DatasetNext
<1>. QED  BY <1>1, DatasetInvariant, PTL DEF DatasetSpec, StopNowSticks

\* The session is written by one call at a time, and outside a write section readers
\* find a graph that no batch has half changed.
WriteExclusion ==
  /\ \A c, d \in Calls : call[c].pc = "write" /\ call[d].pc = "write" => c = d
  /\ (\A c \in Calls : call[c].pc # "write") => graph = committed

\* Exclusion, for any number of parallel calls, exceptions in write sections included.
THEOREM WritersExclude == DatasetSpec => []WriteExclusion
<1>1. DatasetInv => WriteExclusion
  BY OneWriter DEF DatasetInv, WriteExclusion, LockInv, StateTyped
<1>. QED  BY <1>1, DatasetInvariant, PTL

----------------------------------------------------------------------------
(* The refinement: a write section amounts to one write of the session, at *)
(* its end.                                                                *)

LEMMA SectionWrites ==
  ASSUME DatasetInv, NEW c \in Calls, WhitelistViolation(c) \/ Exit(c)
  PROVE  \E b \in Batches : Session!AddBatch(b) \/ Session!RemoveBatch(b)
<1>. DEFINE b == call[c].args
<1>1. /\ call[c].pc = "write" /\ b \in Batches /\ b \in Seq(Triples)
      /\ committed' = graph /\ served' = served
  BY DatasetAssumption DEF WhitelistViolation, Exit, At, DatasetInv, LockInv
<1>2. PICK n \in 0..Len(b) : call[c].todo = SubSeq(b, n + 1, Len(b)) /\ Applied(c, n)
  BY <1>1 DEF DatasetInv, LockInv
<1>3. CASE call[c].tool = "add_triples"
  <2>1. committed' = committed \cup ToSet(SubSeq(b, 1, n))
    BY <1>1, <1>2, <1>3, PrefixSet DEF Applied
  <2>2. Session!Write(committed \cup ToSet(SubSeq(b, 1, n)))
    BY <1>1, <2>1 DEF Session!Write
  <2>3. Session!AddBatch(b)
    BY <2>2 DEF Session!AddBatch, ToSet, Session!ToSet
  <2>. QED  BY <1>1, <2>3
<1>4. CASE call[c].tool # "add_triples"
  <2>1. call[c].todo = <<>>
    BY <1>4 DEF WhitelistViolation, Exit, At
  <2>2. n = Len(b)
    BY <1>1, <1>2, <2>1, EndOfBatch
  <2>3. committed' = committed \ ToSet(b)
    BY <1>1, <1>2, <1>4, <2>2, WholeSet DEF Applied
  <2>4. Session!RemoveBatch(b)
    BY <1>1, <2>3 DEF Session!RemoveBatch, Session!Write, ToSet, Session!ToSet
  <2>. QED  BY <1>1, <2>4
<1>. QED  BY <1>3, <1>4

LEMMA StepImplements ==
  ASSUME DatasetInv, NEW c \in Calls, CallStep(c)
  PROVE  [Session!SessionNext]_<<committed, served>>
<1>1. CASE WhitelistViolation(c) \/ Exit(c)
  BY <1>1, SectionWrites DEF Session!SessionNext
<1>2. CASE Replace(c)
  BY <1>2 DEF Replace, Session!SessionNext, Session!Replace, Session!Write
<1>3. CASE Snapshot(c)
  <2>1. graph = committed /\ committed' = committed
    BY <1>3, OneWriter DEF Snapshot, DatasetInv, sessionVars
  <2>2. CASE call[c].tool = "list_triples"
    BY <1>3, <2>1, <2>2 DEF Snapshot
  <2>3. CASE call[c].tool = "serialize_dataset"
    <3>1. call[c].args \in Formats
      BY <1>3, <2>3 DEF Snapshot, DatasetInv, CallsTyped
    <3>2. Session!Serve(call[c].args)
      BY <1>3, <2>1, <2>3 DEF Snapshot, Session!Serve
    <3>. QED  BY <3>1, <3>2 DEF Session!SessionNext
  <2>. QED  BY <1>3, <2>2, <2>3 DEF Snapshot, At
<1>4. CASE \/ PassThrough(c) \/ AdmitList(c) \/ RejectReset(c) \/ AdmitReset(c)
           \/ RejectFinal(c) \/ RejectSerialize(c) \/ AdmitSerialize(c) \/ Measure(c)
           \/ RejectNoop(c) \/ AdmitMutation(c)
  BY <1>4 DEF PassThrough, AdmitList, RejectReset, AdmitReset, RejectFinal, RejectSerialize,
              AdmitSerialize, Measure, RejectNoop, AdmitMutation, sessionVars
<1>5. CASE \/ RefuseArguments(c) \/ RecordError(c) \/ Enter(c) \/ WriteTriple(c) \/ ResetSize(c) \/ ResetBump(c) \/ Remeasure(c)
           \/ RecordAdd(c) \/ RecordRemove(c) \/ RecordReset(c) \/ RecordSerialize(c)
  BY <1>5 DEF RefuseArguments, RecordError, Enter, WriteTriple, ResetSize, ResetBump, Remeasure, RecordAdd, RecordRemove,
              RecordReset, RecordSerialize, sessionVars
<1>. QED  BY <1>1, <1>2, <1>3, <1>4, <1>5 DEF CallStep

\* The dataset tools implement the session that DatasetSession promises: whole batches
\* (up to the exception that ends one), and readers between them.
THEOREM SessionImplemented == DatasetSpec => ImplementsSession
<1>1. DatasetInit => Session!SessionInit
  BY DEF DatasetInit, Session!SessionInit
<1>2. DatasetInv /\ [DatasetNext]_dsVars => [Session!SessionNext]_<<committed, served>>
  <2>. SUFFICES ASSUME DatasetInv, [DatasetNext]_dsVars
                PROVE  [Session!SessionNext]_<<committed, served>>
    OBVIOUS
  <2>1. CASE ModelTurn \/ GuardStops \/ TurnEnds \/ TurnFails
    BY <2>1 DEF ModelTurn, GuardStops, TurnEnds, TurnFails, CallsDone, sessionVars
  <2>2. ASSUME NEW c \in Calls, CallStep(c) PROVE [Session!SessionNext]_<<committed, served>>
    BY <2>2, StepImplements
  <2>3. CASE UNCHANGED dsVars
    BY <2>3 DEF dsVars, sessionVars
  <2>. QED  BY <2>1, <2>2, <2>3 DEF DatasetNext
<1>. QED  BY <1>1, <1>2, DatasetInvariant, PTL DEF DatasetSpec, ImplementsSession, Session!SessionSpec

-----------------------------------------------------------------------------
(* The repetition guards of the tools speak the truth about the graph,     *)
(* unless a change escaped them.                                           *)

Size == Cardinality(committed)

\* What the guard state says of the graph that readers may see.
RecordsTrue ==
  /\ \A b \in Batches : lastNoop["add_triples"] = b => ToSet(b) \subseteq committed
  /\ \A b \in Batches : lastNoop["remove_triples"] = b => ToSet(b) \cap committed = {}
  /\ \A f \in Formats : lastSerialize = <<revision, f>> => served[f] = committed

\* The agent is, or will at the end of the turn be, held to a final answer.
HeldBack ==
  \/ mode = "finalize_only" /\ \A c \in Calls : modeWrites[c] # "normal"
  \/ \E c \in Calls : modeWrites[c] = "finalize_only"

Holds == RecordsTrue /\ (HeldBack => \E f \in Formats : served[f] = committed)

\* Call c has changed the graph and not yet recorded it.
Changed(c) ==
  \/ /\ call[c].tool = "add_triples" /\ call[c].pc \in {"remeasure", "record"}
     /\ call[c].before < Size
  \/ /\ call[c].tool = "remove_triples" /\ call[c].pc \in {"remeasure", "record"}
     /\ Size < call[c].before
  \/ /\ call[c].tool = "reset_dataset" /\ call[c].pc \in {"bump", "remeasure", "record"}
     /\ Policed
Settled == \A c \in Calls : ~Changed(c)

\* What a call knows of the graph.
AddKnows(k) ==
  /\ Policed /\ k.pc \in {"check", "enter", "write"} => k.before = Size
  /\ k.pc \in {"remeasure", "record"} =>
       /\ k.before <= Size /\ (Parallel \/ k.args = None => k.before = Size)
       /\ k.before = Size /\ k.args # None => ToSet(k.args) \subseteq committed
  /\ k.pc = "record" => k.after = Size

RemoveKnows(k) ==
  /\ Policed /\ k.pc \in {"check", "enter", "write"} => k.before = Size
  /\ k.pc \in {"remeasure", "record"} =>
       /\ Size <= k.before /\ (Parallel \/ k.args = None => k.before = Size)
       /\ k.before = Size /\ k.args # None => ToSet(k.args) \cap committed = {}
  /\ k.pc = "record" => k.after = Size

ResetKnows(k) ==
  /\ k.pc = "measure" => committed # {}
  /\ Policed /\ k.pc \in {"size", "replace"} => committed # {} /\ k.before = Size
  /\ Policed /\ k.pc = "replace" => k.seen = Size
  /\ Policed /\ k.pc \in {"bump", "remeasure", "record"} =>
       ~Parallel /\ committed = {} /\ k.before > 0
  /\ Policed /\ k.pc = "bump" => k.seen # 0
  /\ k.pc \in {"remeasure", "record"} => lastSerialize = None
  /\ k.pc = "record" => k.after = 0

Knows(c) ==
  /\ call[c].tool = "add_triples" => AddKnows(call[c])
  /\ call[c].tool = "remove_triples" => RemoveKnows(call[c])
  /\ call[c].tool = "reset_dataset" => ResetKnows(call[c])
  /\ call[c].tool = "serialize_dataset" =>
       (call[c].pc = "record" /\ call[c].args # None => served[call[c].args] = committed)

\* As long as no change escaped the guards: what calls know is right (of a call that
\* runs alone it is right even so), the guard state holds as soon as what is under way
\* has been recorded, and parallel calls give nobody tools back.
GuardInv ==
  /\ IsFiniteSet(committed)
  /\ ~Parallel \/ ~unseen => \A c \in Calls : Knows(c)
  /\ ~unseen /\ Settled => Holds
  /\ ~unseen /\ Parallel => \A c \in Calls : modeWrites[c] # "normal"

----------------------------------------------------------------------------
(* Alone and in parallel.                                                  *)

LEMMA ActiveSet ==
  ASSUME DatasetInv, NEW c \in Calls, CallStep(c)
  PROVE  Parallel' = Parallel /\ Policed' = Policed /\ mode' = mode
<1>1. \A d \in Calls : call'[d].pc # "idle" <=> call[d].pc # "idle"
  BY StepsFacts DEF DatasetInv, Over
<1>2. {d \in Calls : call'[d].pc # "idle"} = {d \in Calls : call[d].pc # "idle"}
  BY <1>1
<1>3. mode' = mode
  BY StepMode DEF DatasetInv
<1>. QED  BY <1>2, <1>3 DEF Parallel, Policed

\* A call that is not parallel is the only one that is not idle.
LEMMA Alone ==
  ASSUME ~Parallel, NEW c \in Calls, NEW d \in Calls,
         call[c].pc # "idle", call[d].pc # "idle"
  PROVE  c = d
<1>. DEFINE A == {e \in Calls : call[e].pc # "idle"}
<1>1. IsFiniteSet(A) /\ Cardinality(A) \in Nat /\ ~(Cardinality(A) > 1)
  BY FS_Subset, FS_CardinalityType, DatasetAssumption DEF Parallel
<1>2. {c, d} \subseteq A
  OBVIOUS
<1>3. SUFFICES ASSUME c # d PROVE FALSE
  OBVIOUS
<1>4. IsFiniteSet({c, d}) /\ Cardinality({c, d}) = 2
  <2>1. IsFiniteSet({c}) /\ Cardinality({c}) = 1
    BY FS_Singleton
  <2>2. d \notin {c} /\ {c, d} = {c} \cup {d}
    BY <1>3
  <2>3. IsFiniteSet({c} \cup {d}) /\ Cardinality({c} \cup {d}) = Cardinality({c}) + 1
    BY <2>1, <2>2, FS_AddElement
  <2>. QED  BY <2>1, <2>2, <2>3
<1>5. Cardinality({c, d}) <= Cardinality(A)
  <2>. HIDE DEF A
  <2>. QED  BY <1>1, <1>2, FS_Subset
<1>. HIDE DEF A
<1>. QED  BY <1>1, <1>4, <1>5

\* A change of the graph that leaves unseen FALSE is one of a lone call under the
\* tool policies that did not fail.
LEMMA SeenChange ==
  ASSUME DatasetInv, NEW c \in Calls, CallStep(c), ~unseen', committed' # committed
  PROVE  /\ ~unseen /\ ~Parallel /\ Policed
         /\ Exit(c) \/ Replace(c)
<1>1. CASE WhitelistViolation(c)
  BY <1>1 DEF WhitelistViolation, Overlooked
<1>2. CASE Exit(c)
  BY <1>2 DEF Exit, Overlooked
<1>3. CASE Replace(c)
  BY <1>3 DEF Replace, Overlooked
<1>4. CASE UNCHANGED committed
  BY <1>4
<1>5. WhitelistViolation(c) \/ Exit(c) \/ Replace(c) \/ UNCHANGED committed
  BY StepSession DEF Enter, WriteTriple, sessionVars
<1>. QED  BY <1>1, <1>2, <1>3, <1>4, <1>5

\* unseen goes down only when a lone call records its change.
LEMMA SeenAgain ==
  ASSUME DatasetInv, NEW c \in Calls, CallStep(c), ~unseen', unseen
  PROVE  /\ ~Parallel /\ call[c].pc = "record" /\ Effective(c)
         /\ RecordAdd(c) \/ RecordRemove(c) \/ RecordReset(c)
<1>1. CASE RecordAdd(c) \/ RecordRemove(c) \/ RecordReset(c)
  BY <1>1 DEF RecordAdd, RecordRemove, RecordReset, Accounted, At
<1>2. CASE WhitelistViolation(c) \/ Exit(c) \/ Replace(c)
  BY <1>2 DEF WhitelistViolation, Exit, Replace, Overlooked
<1>3. CASE \/ PassThrough(c) \/ AdmitList(c) \/ RejectReset(c) \/ AdmitReset(c)
           \/ RejectFinal(c) \/ RejectSerialize(c) \/ AdmitSerialize(c) \/ Measure(c)
           \/ RejectNoop(c) \/ AdmitMutation(c)
  BY <1>3 DEF PassThrough, AdmitList, RejectReset, AdmitReset, RejectFinal, RejectSerialize,
              AdmitSerialize, Measure, RejectNoop, AdmitMutation
<1>4. CASE \/ RefuseArguments(c) \/ RecordError(c) \/ Enter(c) \/ WriteTriple(c)
           \/ ResetSize(c) \/ ResetBump(c) \/ Snapshot(c) \/ Remeasure(c) \/ RecordSerialize(c)
  BY <1>4 DEF RefuseArguments, RecordError, Enter, WriteTriple, ResetSize, ResetBump, Snapshot, Remeasure, RecordSerialize
<1>. QED  BY <1>1, <1>2, <1>3, <1>4 DEF CallStep

LEMMA ServedKeeps ==
  ASSUME DatasetInv, NEW c \in Calls, CallStep(c), NEW f \in Formats,
         served[f] = committed, committed' = committed
  PROVE  served'[f] = committed'
<1>1. CASE Snapshot(c)
  <2>1. graph = committed
    BY <1>1, OneWriter DEF Snapshot, DatasetInv
  <2>. QED  BY <1>1, <2>1 DEF Snapshot, DatasetInv, StateTyped
<1>2. CASE served' = served
  BY <1>2
<1>3. Snapshot(c) \/ served' = served
  BY StepGuardState DEF ResetBump, RecordAdd, RecordRemove, RecordReset, RecordSerialize
<1>. QED  BY <1>1, <1>2, <1>3

LEMMA OthersKnow ==
  ASSUME DatasetInv, GuardInv, NEW c \in Calls, CallStep(c), ~Parallel \/ ~unseen',
         NEW d \in Calls, d # c
  PROVE  Knows(d)'
<1>1. call'[d] = call[d] /\ call[c].pc # "idle"
  BY StepsFacts DEF DatasetInv, Over
<1>2. CASE ~Parallel
  <2>1. call[d].pc = "idle"
    BY <1>1, <1>2, Alone
  <2>. QED  BY <1>1, <2>1 DEF Knows, AddKnows, RemoveKnows, ResetKnows
<1>3. CASE Parallel
  <2>1. committed' = committed /\ Knows(d)
    BY <1>3, SeenChange, SeenAgain DEF GuardInv
  <2>2. Parallel' /\ Policed' = Policed
    BY <1>3, ActiveSet
  <2>3. call[d].pc \in Guarded => Policed
    BY DEF DatasetInv, ModeInv, Policed
  <2>4. Size' = Size
    BY <2>1 DEF Size
  <2>5. call[d].tool = "add_triples" => AddKnows(call[d])'
    BY <1>1, <1>3, <2>1, <2>2, <2>4 DEF Knows, AddKnows
  <2>6. call[d].tool = "remove_triples" => RemoveKnows(call[d])'
    BY <1>1, <1>3, <2>1, <2>2, <2>4 DEF Knows, RemoveKnows
  <2>7. call[d].tool = "reset_dataset" => ResetKnows(call[d])'
    BY <1>1, <1>3, <2>1, <2>2, <2>3, <2>4 DEF Knows, ResetKnows, Guarded
  <2>8. call[d].tool = "serialize_dataset" =>
          (call[d].pc = "record" /\ call[d].args # None => served'[call[d].args] = committed')
    BY <2>1, ServedKeeps DEF Knows, DatasetInv, CallsTyped
  <2>. QED  BY <1>1, <2>5, <2>6, <2>7, <2>8 DEF Knows
<1>. QED  BY <1>2, <1>3

----------------------------------------------------------------------------
(* What a call knows after a step of its own.                              *)

LEMMA ReturnKnows ==
  ASSUME DatasetInv, NEW c \in Calls, Return(c)
  PROVE  Knows(c)'
<1>1. call'[c].tool = None
  BY ReturnedTyped DEF Return, Returned, DatasetInv, CallsTyped
<1>2. None \notin Tools
  BY DatasetAssumption
<1>. QED  BY <1>1, <1>2 DEF Knows, Tools, Mutations

LEMMA RaiseKnows ==
  ASSUME DatasetInv, NEW c \in Calls, Raise(c)
  PROVE  Knows(c)'
<1>1. call'[c].tool = None
  BY RaisedTyped DEF Raise, Raised, DatasetInv, CallsTyped
<1>2. None \notin Tools
  BY DatasetAssumption
<1>. QED  BY <1>1, <1>2 DEF Knows, Tools, Mutations

\* Everything up to the write section.
LEMMA GateKnows ==
  ASSUME DatasetInv, NEW c \in Calls, ~Parallel \/ ~unseen => Knows(c), CallStep(c),
         ~Parallel \/ ~unseen', unseen' = unseen, committed' = committed,
         \/ PassThrough(c) \/ AdmitList(c) \/ AdmitReset(c) \/ AdmitSerialize(c) \/ Measure(c)
         \/ AdmitMutation(c) \/ Enter(c) \/ WriteTriple(c) \/ ResetSize(c)
  PROVE  Knows(c)'
<1>1. Knows(c)
  OBVIOUS
<1>2. /\ Policed' = Policed /\ Parallel' = Parallel /\ Size' = Size
      /\ Readable => Cardinality(graph) = Size /\ graph = committed
  BY ActiveSet, OneWriter DEF Size, DatasetInv
<1>. USE DEF At
<1>a. CASE PassThrough(c)
  <2>1. /\ call'[c].tool = call[c].tool /\ ~Policed
        /\ call'[c].pc \in {"enter", "size", "snapshot"}
    BY <1>a DEF PassThrough, HandlerOf, Goto, DatasetInv, CallsTyped
  <2>. QED  BY <1>2, <2>1 DEF Knows, AddKnows, RemoveKnows, ResetKnows
<1>b. CASE AdmitList(c)
  <2>1. call'[c].tool = "list_triples"
    BY <1>b DEF AdmitList, Goto, DatasetInv, CallsTyped
  <2>. QED  BY <2>1 DEF Knows
<1>c. CASE AdmitReset(c)
  <2>1. call'[c].tool = "reset_dataset" /\ call'[c].pc = "measure" /\ committed' # {}
    BY <1>2, <1>c DEF AdmitReset, Goto, DatasetInv, CallsTyped
  <2>. QED  BY <2>1 DEF Knows, ResetKnows
<1>d. CASE AdmitSerialize(c)
  <2>1. call'[c].tool = "serialize_dataset" /\ call'[c].pc = "snapshot"
    BY <1>d DEF AdmitSerialize, DatasetInv, CallsTyped
  <2>. QED  BY <2>1 DEF Knows
<1>e. CASE Measure(c) /\ call[c].tool \in Mutations
  <2>1. call'[c].tool = call[c].tool /\ call'[c].pc = "check" /\ call'[c].before = Size
    BY <1>2, <1>e DEF Measure, DatasetInv, CallsTyped, Mutations
  <2>. QED  BY <1>2, <1>e, <2>1 DEF Knows, AddKnows, RemoveKnows, Mutations
<1>f. CASE Measure(c) /\ call[c].tool \notin Mutations
  <2>1. /\ call'[c].tool = "reset_dataset" /\ call'[c].pc = "size" /\ call'[c].before = Size
        /\ call[c].tool = "reset_dataset" /\ call[c].pc = "measure"
    BY <1>2, <1>f DEF Measure, DatasetInv, CallsTyped
  <2>. QED  BY <1>1, <1>2, <2>1 DEF Knows, ResetKnows
<1>g. CASE AdmitMutation(c) \/ Enter(c) \/ WriteTriple(c)
  <2>1. /\ call[c].tool \in Mutations /\ call'[c].tool = call[c].tool
        /\ call[c].pc \in {"check", "enter", "write"} /\ call'[c].pc \in {"enter", "write"}
        /\ call'[c].before = call[c].before
    BY <1>g DEF AdmitMutation, Enter, WriteTriple, Goto, DatasetInv, CallsTyped
  <2>. QED  BY <1>1, <1>2, <2>1 DEF Knows, AddKnows, RemoveKnows, Mutations
<1>h. CASE ResetSize(c)
  <2>1. /\ call'[c].tool = "reset_dataset" /\ call'[c].pc = "replace" /\ call'[c].seen = Size
        /\ call'[c].before = call[c].before
        /\ call[c].tool = "reset_dataset" /\ call[c].pc = "size"
    BY <1>2, <1>h DEF ResetSize, DatasetInv, CallsTyped
  <2>. QED  BY <1>1, <1>2, <2>1 DEF Knows, ResetKnows
<1>. QED  BY <1>a, <1>b, <1>c, <1>d, <1>e, <1>f, <1>g, <1>h

\* A write section that was not cut short has dealt with its whole batch.
LEMMA SectionEffect ==
  ASSUME DatasetInv, NEW c \in Calls, Exit(c)
  PROVE  committed' = IF call[c].tool = "add_triples" THEN committed \cup ToSet(call[c].args)
                                                      ELSE committed \ ToSet(call[c].args)
<1>. DEFINE b == call[c].args
<1>1. /\ call[c].pc = "write" /\ b \in Seq(Triples) /\ call[c].todo = <<>>
      /\ committed' = graph
  BY DatasetAssumption DEF Exit, At, DatasetInv, LockInv
<1>2. PICK n \in 0..Len(b) : call[c].todo = SubSeq(b, n + 1, Len(b)) /\ Applied(c, n)
  BY <1>1 DEF DatasetInv, LockInv
<1>3. n = Len(b)
  BY <1>1, <1>2, EndOfBatch
<1>. QED  BY <1>1, <1>2, <1>3, WholeSet DEF Applied

\* What a whole batch does to the size: none if and only if it changes nothing.
LEMMA BatchSize ==
  ASSUME IsFiniteSet(committed), NEW B, IsFiniteSet(committed')
  PROVE  /\ Size \in Nat /\ Size' \in Nat
         /\ committed' = committed \cup B =>
              Size <= Size' /\ (Size = Size' => committed' = committed /\ B \subseteq committed')
         /\ committed' = committed \ B =>
              Size' <= Size /\ (Size = Size' => committed' = committed /\ B \cap committed' = {})
<1>1. Size \in Nat /\ Size' \in Nat
  BY FS_CardinalityType DEF Size
<1>2. ASSUME committed' = committed \cup B
      PROVE  Size <= Size' /\ (Size = Size' => committed' = committed /\ B \subseteq committed')
  BY <1>2, FS_Subset DEF Size
<1>3. ASSUME committed' = committed \ B
      PROVE  Size' <= Size /\ (Size = Size' => committed' = committed /\ B \cap committed' = {})
  BY <1>3, FS_Subset DEF Size
<1>. QED  BY <1>1, <1>2, <1>3

LEMMA FiniteStep ==
  ASSUME DatasetInv, IsFiniteSet(committed), NEW c \in Calls, CallStep(c)
  PROVE  IsFiniteSet(committed')
<1>1. committed' \in {committed, graph, {}}
  BY StepSession DEF Enter, WriteTriple, WhitelistViolation, Exit, Replace, sessionVars
<1>. QED  BY <1>1, FS_EmptySet DEF DatasetInv, StateTyped

LEMMA ExitKnows ==
  ASSUME DatasetInv, IsFiniteSet(committed), NEW c \in Calls, Knows(c), CallStep(c),
         ~Parallel \/ ~unseen', Exit(c)
  PROVE  Knows(c)'
<1>1. Policed' = Policed /\ Parallel' = Parallel
  BY ActiveSet
<1>2. CASE ~Policed
  <2>1. Return(c)
    BY <1>2 DEF Exit, Leave, AfterHandler
  <2>. QED  BY <2>1, ReturnKnows
<1>3. CASE Policed
  <2>0. call[c].args # None
    BY DatasetAssumption DEF Exit, At, DatasetInv, LockInv
  <2>1. /\ call[c].tool \in Mutations /\ call[c].pc = "write"
        /\ call'[c].tool = call[c].tool /\ call'[c].pc = "remeasure"
        /\ call'[c].before = call[c].before /\ call'[c].args = call[c].args
    BY <1>3 DEF Exit, Leave, AfterHandler, Goto, At, DatasetInv, CallsTyped, Mutations
  <2>2. call[c].before = Size
    BY <1>3, <2>1 DEF Knows, AddKnows, RemoveKnows, Mutations
  <2>3. Parallel => Size' = Size
    BY SeenChange DEF Size
  <2>4. IsFiniteSet(committed')
    BY FiniteStep
  <2>5. CASE call[c].tool = "add_triples"
    <3>1. Size <= Size' /\ (Size = Size' => ToSet(call[c].args) \subseteq committed')
      BY <2>4, <2>5, SectionEffect, BatchSize
    <3>2. AddKnows(call[c])'
      BY <1>1, <2>0, <2>1, <2>2, <2>3, <3>1 DEF AddKnows
    <3>. QED  BY <2>1, <2>5, <3>2 DEF Knows
  <2>6. CASE call[c].tool = "remove_triples"
    <3>1. Size' <= Size /\ (Size = Size' => ToSet(call[c].args) \cap committed' = {})
      BY <2>4, <2>6, SectionEffect, BatchSize
    <3>2. RemoveKnows(call[c])'
      BY <1>1, <2>0, <2>1, <2>2, <2>3, <3>1 DEF RemoveKnows
    <3>. QED  BY <2>1, <2>6, <3>2 DEF Knows
  <2>. QED  BY <2>1, <2>5, <2>6 DEF Mutations
<1>. QED  BY <1>2, <1>3

LEMMA ReplaceKnows ==
  ASSUME DatasetInv, IsFiniteSet(committed), NEW c \in Calls, Knows(c), CallStep(c),
         ~Parallel \/ ~unseen', Replace(c)
  PROVE  Knows(c)'
<1>1. Policed' = Policed /\ Parallel' = Parallel
  BY ActiveSet
<1>2. /\ call[c].tool = "reset_dataset" /\ call[c].pc = "replace"
      /\ call'[c].tool = call[c].tool /\ call'[c].pc = "bump"
      /\ call'[c].before = call[c].before /\ call'[c].seen = call[c].seen
      /\ committed' = {}
  BY DEF Replace, Goto, At, DatasetInv, CallsTyped
<1>3. Policed => committed # {} /\ call[c].before = Size /\ call[c].seen = Size
  BY <1>2 DEF Knows, ResetKnows
<1>4. committed # {} => Size \in Nat /\ Size > 0
  BY FS_EmptySet, FS_CardinalityType DEF Size
<1>5. Policed => ~Parallel
  BY <1>2, <1>3, SeenChange
<1>. QED  BY <1>1, <1>2, <1>3, <1>4, <1>5 DEF Knows, ResetKnows

LEMMA RefuseKnows ==
  ASSUME DatasetInv, IsFiniteSet(committed), NEW c \in Calls, Knows(c), CallStep(c), RefuseArguments(c)
  PROVE  Knows(c)'
<1>1. Policed' = Policed /\ Parallel' = Parallel
  BY ActiveSet
<1>2. CASE ~Policed
  <2>1. Return(c)
    BY <1>2 DEF RefuseArguments, Leave, AfterHandler
  <2>. QED  BY <2>1, ReturnKnows
<1>3. CASE Policed
  <2>1. /\ \/ call[c].tool \in Mutations /\ call[c].pc = "enter" /\ call'[c].pc = "remeasure"
           \/ call[c].tool = "serialize_dataset"
        /\ call'[c].tool = call[c].tool /\ call'[c].args = None
        /\ call'[c].before = call[c].before /\ committed' = committed
    BY <1>3 DEF RefuseArguments, Leave, AfterHandler, Goto, At, DatasetInv, CallsTyped, Mutations,
                sessionVars
  <2>2. call[c].tool \in Mutations => call[c].before = Size /\ Size' = Size
    BY <1>3, <2>1 DEF Knows, AddKnows, RemoveKnows, Mutations, Size
  <2>3. Size \in Nat
    BY FS_CardinalityType DEF Size
  <2>. QED  BY <1>1, <2>1, <2>2, <2>3 DEF Knows, AddKnows, RemoveKnows, Mutations
<1>. QED  BY <1>2, <1>3

LEMMA BumpKnows ==
  ASSUME DatasetInv, NEW c \in Calls, Knows(c), CallStep(c), ResetBump(c)
  PROVE  Knows(c)'
<1>1. CASE ~Policed
  <2>1. Return(c)
    BY <1>1 DEF ResetBump, Leave, AfterHandler
  <2>. QED  BY <2>1, ReturnKnows
<1>2. CASE Policed
  <2>1. /\ call[c].tool = "reset_dataset" /\ call[c].pc = "bump"
        /\ call'[c].tool = call[c].tool /\ call'[c].pc = "remeasure"
        /\ call'[c].before = call[c].before /\ committed' = committed
    BY <1>2 DEF ResetBump, Leave, AfterHandler, Goto, At, DatasetInv, CallsTyped, sessionVars
  <2>2. ~Parallel /\ committed = {} /\ call[c].before > 0 /\ call[c].seen # 0
    BY <1>2, <2>1 DEF Knows, ResetKnows
  <2>3. lastSerialize' = None /\ ~Parallel'
    BY <2>2, ActiveSet DEF ResetBump
  <2>. QED  BY <2>1, <2>2, <2>3 DEF Knows, ResetKnows
<1>. QED  BY <1>1, <1>2

LEMMA SnapshotKnows ==
  ASSUME DatasetInv, NEW c \in Calls, CallStep(c), Snapshot(c)
  PROVE  Knows(c)'
<1>1. CASE Return(c)
  BY <1>1, ReturnKnows
<1>2. CASE ~Return(c)
  <2>1. /\ call[c].tool = "serialize_dataset" /\ call[c].args \in Formats
        /\ call'[c].tool = call[c].tool /\ call'[c].args = call[c].args
    BY <1>2 DEF Snapshot, Leave, AfterHandler, Goto, At, DatasetInv, CallsTyped
  <2>2. graph = committed /\ committed' = committed
    BY OneWriter DEF Snapshot, DatasetInv, sessionVars
  <2>3. served'[call[c].args] = graph
    BY <2>1 DEF Snapshot, DatasetInv, StateTyped
  <2>. QED  BY <2>1, <2>2, <2>3 DEF Knows
<1>. QED  BY <1>1, <1>2

LEMMA RemeasureKnows ==
  ASSUME DatasetInv, NEW c \in Calls, Knows(c), CallStep(c), Remeasure(c)
  PROVE  Knows(c)'
<1>1. Policed' = Policed /\ Parallel' = Parallel
  BY ActiveSet
<1>2. /\ call[c].tool \in Mutations \cup {"reset_dataset"} /\ call[c].pc = "remeasure"
      /\ call'[c].tool = call[c].tool /\ call'[c].pc = "record"
      /\ call'[c].before = call[c].before /\ call'[c].args = call[c].args
      /\ call'[c].after = Cardinality(graph)
      /\ committed' = committed /\ lastSerialize' = lastSerialize
  BY DEF Remeasure, At, DatasetInv, CallsTyped, sessionVars, guardVars
<1>3. graph = committed /\ Size' = Size
  BY <1>2, OneWriter DEF Remeasure, DatasetInv, Size
<1>4. Policed
  BY <1>2 DEF DatasetInv, ModeInv, Guarded, Policed
<1>5. committed = {} => Cardinality(committed) = 0
  BY FS_EmptySet
<1>. QED
  BY <1>1, <1>2, <1>3, <1>4, <1>5 DEF Knows, AddKnows, RemoveKnows, ResetKnows, Mutations, Size

\* What a call that takes a step knows is right.
LEMMA Acquainted ==
  ASSUME DatasetInv, GuardInv, NEW c \in Calls, CallStep(c), ~Parallel \/ ~unseen'
  PROVE  Knows(c)
BY SeenAgain DEF GuardInv

LEMMA StepKnows ==
  ASSUME DatasetInv, GuardInv, NEW c \in Calls, CallStep(c), ~Parallel \/ ~unseen'
  PROVE  Knows(c)'
<1>1. Knows(c) /\ IsFiniteSet(committed)
  BY Acquainted DEF GuardInv
<1>2. CASE \/ PassThrough(c) \/ AdmitList(c) \/ AdmitReset(c) \/ AdmitSerialize(c)
           \/ Measure(c) \/ AdmitMutation(c) \/ Enter(c) \/ WriteTriple(c) \/ ResetSize(c)
  <2>1. unseen' = unseen /\ committed' = committed
    BY <1>2 DEF PassThrough, AdmitList, AdmitReset, AdmitSerialize, Measure, AdmitMutation,
                Enter, WriteTriple, ResetSize, sessionVars
  <2>. QED  BY <1>1, <1>2, <2>1, GateKnows
<1>3. CASE \/ RejectReset(c) \/ RejectFinal(c) \/ RejectSerialize(c) \/ RejectNoop(c)
           \/ WhitelistViolation(c) \/ RecordError(c) \/ RecordAdd(c) \/ RecordRemove(c)
           \/ RecordReset(c) \/ RecordSerialize(c)
  BY <1>3, ReturnKnows, RaiseKnows DEF RejectReset, RejectFinal, RejectSerialize, RejectNoop,
     WhitelistViolation, RecordError, RecordAdd, RecordRemove, RecordReset, RecordSerialize
<1>4. CASE Exit(c)
  BY <1>1, <1>4, ExitKnows
<1>5. CASE Replace(c)
  BY <1>1, <1>5, ReplaceKnows
<1>6. CASE ResetBump(c)
  BY <1>1, <1>6, BumpKnows
<1>7. CASE Snapshot(c)
  BY <1>7, SnapshotKnows
<1>8. CASE Remeasure(c)
  BY <1>1, <1>8, RemeasureKnows
<1>9. CASE RefuseArguments(c)
  BY <1>1, <1>9, RefuseKnows
<1>. QED  BY <1>2, <1>3, <1>4, <1>5, <1>6, <1>7, <1>8, <1>9 DEF CallStep

----------------------------------------------------------------------------
(* What the guard state says, when nothing is left to be recorded.         *)

\* Then the step has not changed the graph,
LEMMA SettledSame ==
  ASSUME DatasetInv, GuardInv, NEW c \in Calls, CallStep(c), ~unseen', Settled'
  PROVE  committed' = committed
<1>. SUFFICES ASSUME committed' # committed PROVE FALSE
  OBVIOUS
<1>1. /\ Policed /\ Policed' /\ ~Changed(c)'
      /\ Exit(c) \/ Replace(c)
  BY SeenChange, ActiveSet DEF Settled
<1>2. CASE Replace(c)
  <2>1. call'[c].tool = "reset_dataset" /\ call'[c].pc = "bump"
    BY <1>2 DEF Replace, Goto, At, DatasetInv, CallsTyped
  <2>. QED  BY <1>1, <2>1 DEF Changed
<1>3. CASE Exit(c)
  <2>1. /\ call[c].tool \in Mutations /\ call[c].pc = "write"
        /\ call'[c].tool = call[c].tool /\ call'[c].pc = "remeasure"
        /\ call'[c].before = call[c].before
    BY <1>1, <1>3 DEF Exit, Leave, AfterHandler, Goto, At, DatasetInv, CallsTyped, Mutations
  <2>2. call[c].before = Size
    BY <1>1, <2>1, Acquainted DEF Knows, AddKnows, RemoveKnows, Mutations
  <2>3. IsFiniteSet(committed) /\ IsFiniteSet(committed')
    BY FiniteStep DEF GuardInv
  <2>4. CASE call[c].tool = "add_triples"
    <3>1. Size < Size'
      BY <1>3, <2>3, <2>4, SectionEffect, BatchSize
    <3>. QED  BY <1>1, <2>1, <2>2, <2>4, <3>1 DEF Changed
  <2>5. CASE call[c].tool = "remove_triples"
    <3>1. Size' < Size
      BY <1>3, <2>3, <2>5, SectionEffect, BatchSize
    <3>. QED  BY <1>1, <2>1, <2>2, <2>5, <3>1 DEF Changed
  <2>. QED  BY <2>1, <2>4, <2>5 DEF Mutations
<1>. QED  BY <1>1, <1>2, <1>3

\* and, unless it is the record of a change, nothing was left to be recorded before.
LEMMA SettledOthers ==
  ASSUME DatasetInv, GuardInv, NEW c \in Calls, CallStep(c), ~unseen', Settled',
         ~Changed(c)
  PROVE  Settled
<1>1. Size' = Size /\ Policed' = Policed
  BY SettledSame, ActiveSet DEF Size
<1>2. \A d \in Calls : d # c => call'[d] = call[d] /\ ~Changed(d)'
  BY StepsFacts DEF Settled, DatasetInv
<1>. QED  BY <1>1, <1>2 DEF Settled, Changed

LEMMA SettledBefore ==
  ASSUME DatasetInv, GuardInv, NEW c \in Calls, CallStep(c), ~unseen', Settled',
         ~RecordError(c), ~RecordAdd(c), ~RecordRemove(c), ~RecordReset(c)
  PROVE  Holds
<1>1. ~unseen
  BY SeenAgain
<1>2. Size' = Size /\ Policed' = Policed /\ ~Changed(c)'
  BY SettledSame, ActiveSet DEF Size, Settled
<1>3. ~Changed(c)
  <2>1. CASE Remeasure(c)
    <3>1. /\ call'[c].tool = call[c].tool /\ call'[c].before = call[c].before
          /\ call[c].pc = "remeasure" /\ call'[c].pc = "record"
      BY <2>1 DEF Remeasure, At, DatasetInv, CallsTyped
    <3>. QED  BY <1>2, <3>1 DEF Changed
  <2>2. CASE ResetBump(c)
    <3>1. call[c].tool = "reset_dataset"
      BY <2>2 DEF ResetBump, At
    <3>2. Policed => call'[c].tool = "reset_dataset" /\ call'[c].pc = "remeasure"
      BY <2>2, <3>1 DEF ResetBump, Leave, AfterHandler, Goto, DatasetInv, CallsTyped
    <3>. QED  BY <1>2, <3>1, <3>2 DEF Changed
  <2>3. CASE RecordSerialize(c)
    BY <2>3 DEF RecordSerialize, At, Changed
  <2>4. CASE call[c].pc \notin {"bump", "remeasure", "record"}
    BY <2>4 DEF Changed
  <2>5. CASE \/ PassThrough(c) \/ AdmitList(c) \/ RejectReset(c) \/ AdmitReset(c)
             \/ RejectFinal(c) \/ RejectSerialize(c) \/ AdmitSerialize(c) \/ Measure(c)
             \/ RejectNoop(c) \/ AdmitMutation(c)
    BY <2>4, <2>5 DEF PassThrough, AdmitList, RejectReset, AdmitReset, RejectFinal,
       RejectSerialize, AdmitSerialize, Measure, RejectNoop, AdmitMutation, At
  <2>6. CASE \/ RefuseArguments(c) \/ Enter(c) \/ WriteTriple(c) \/ WhitelistViolation(c)
             \/ Exit(c) \/ ResetSize(c) \/ Replace(c) \/ Snapshot(c)
    BY <2>4, <2>6 DEF RefuseArguments, Enter, WriteTriple, WhitelistViolation, Exit, ResetSize, Replace,
       Snapshot, At
  <2>. QED  BY <2>1, <2>2, <2>3, <2>5, <2>6 DEF CallStep
<1>. QED  BY <1>1, <1>3, SettledOthers DEF GuardInv

LEMMA HoldsKeeps ==
  ASSUME DatasetInv, NEW c \in Calls, CallStep(c), Holds, committed' = committed,
         UNCHANGED guardVars, HeldBack' => HeldBack
  PROVE  Holds'
<1>1. RecordsTrue'
  BY ServedKeeps DEF Holds, RecordsTrue, guardVars
<1>2. HeldBack' => \E f \in Formats : served'[f] = committed'
  BY ServedKeeps DEF Holds
<1>. QED  BY <1>1, <1>2 DEF Holds

\* The record of a lone call's change wipes the guard state.
LEMMA Cleared ==
  ASSUME DatasetInv, NEW c \in Calls, CallStep(c), call[c].pc = "record", ~Parallel,
         Effective(c), ModeAfterSuccess(c), lastSerialize' = None,
         lastNoop' = [t \in Mutations |-> None]
  PROVE  Holds'
<1>1. None \notin Batches /\ None \notin Nat \X Formats
  BY DatasetAssumption
<1>2. revision' \in Nat
  BY GuardTyped DEF DatasetInv
<1>3. RecordsTrue'
  <2>1. lastNoop'["add_triples"] = None /\ lastNoop'["remove_triples"] = None
    BY DEF Mutations
  <2>2. \A f \in Formats : lastSerialize' # <<revision', f>>
    BY <1>1, <1>2
  <2>. QED  BY <1>1, <2>1, <2>2 DEF RecordsTrue
<1>4. \A d \in Calls : modeWrites[d] = None
  <2>. SUFFICES ASSUME NEW d \in Calls, call[d].pc = "returned" PROVE FALSE
    BY DEF DatasetInv, ModeInv
  <2>1. c = d
    BY Alone
  <2>. QED  BY <2>1
<1>5. mode' = mode
  BY StepMode DEF DatasetInv
<1>6. ~HeldBack'
  <2>1. None # "finalize_only"
    BY DatasetAssumption DEF Modes
  <2>2. \A d \in Calls : modeWrites'[d] # "finalize_only"
    BY <1>4, <2>1 DEF ModeAfterSuccess, DatasetInv, ModeInv
  <2>3. mode' = "finalize_only" => modeWrites'[c] = "normal"
    BY <1>5 DEF ModeAfterSuccess, DatasetInv, ModeInv
  <2>. QED  BY <2>2, <2>3 DEF HeldBack
<1>. QED  BY <1>3, <1>6 DEF Holds

LEMMA RecordAddHolds ==
  ASSUME DatasetInv, GuardInv, NEW c \in Calls, CallStep(c), ~unseen', Settled', RecordAdd(c)
  PROVE  Holds'
<1>1. /\ call[c].tool = "add_triples" /\ call[c].pc = "record"
      /\ call[c].before \in Nat /\ call[c].args \in Batches
      /\ call[c].after \in Nat
  BY DEF RecordAdd, At, DatasetInv, CallsTyped, Mutations
<1>2. /\ call[c].before <= Size /\ call[c].after = Size
      /\ Parallel => call[c].before = Size
      /\ call[c].before = Size => ToSet(call[c].args) \subseteq committed
  BY <1>1, Acquainted DEF RecordAdd, Knows, AddKnows
<1>3. CASE Grew(c)
  <2>1. Effective(c) /\ ~Parallel
    BY <1>1, <1>2, <1>3 DEF Grew, Effective
  <2>2. lastNoop' = [t \in Mutations |-> None] /\ lastSerialize' = None
    BY <1>1, <1>3 DEF RecordAdd, NewRevision, Grew
  <2>3. ModeAfterSuccess(c)
    BY DEF RecordAdd
  <2>. QED  BY <1>1, <2>1, <2>2, <2>3, Cleared
<1>4. CASE ~Grew(c)
  <2>1. call[c].before = Size /\ call[c].after = call[c].before /\ ~Effective(c)
    BY <1>1, <1>2, <1>4 DEF Grew, Effective
  <2>2. unseen' = unseen /\ modeWrites' = modeWrites
    BY <2>1 DEF RecordAdd, Accounted, ModeAfterSuccess, DatasetInv, StateTyped
  <2>3. Settled
    BY <1>1, <2>1, SettledOthers DEF Changed
  <2>4. Holds /\ committed' = committed
    BY <2>2, <2>3, SettledSame DEF GuardInv
  <2>5. /\ lastNoop' = [lastNoop EXCEPT !["add_triples"] = call[c].args]
        /\ UNCHANGED <<revision, lastSerialize, served, mode>>
    BY <1>4, <2>1 DEF RecordAdd, SameRevision
  <2>6. lastNoop'["add_triples"] = call[c].args
        /\ lastNoop'["remove_triples"] = lastNoop["remove_triples"]
    BY <2>5 DEF DatasetInv, StateTyped, Mutations
  <2>7. ToSet(call[c].args) \subseteq committed'
    BY <1>2, <2>1, <2>4
  <2>8. RecordsTrue'
    BY <2>4, <2>5, <2>6, <2>7 DEF Holds, RecordsTrue
  <2>9. HeldBack' = HeldBack
    BY <2>2, <2>5 DEF HeldBack
  <2>. QED  BY <2>4, <2>5, <2>8, <2>9 DEF Holds
<1>. QED  BY <1>3, <1>4

LEMMA RecordRemoveHolds ==
  ASSUME DatasetInv, GuardInv, NEW c \in Calls, CallStep(c), ~unseen', Settled', RecordRemove(c)
  PROVE  Holds'
<1>1. /\ call[c].tool = "remove_triples" /\ call[c].pc = "record"
      /\ call[c].before \in Nat /\ call[c].args \in Batches
      /\ call[c].after \in Nat
  BY DEF RecordRemove, At, DatasetInv, CallsTyped, Mutations
<1>2. /\ Size <= call[c].before /\ call[c].after = Size
      /\ Parallel => call[c].before = Size
      /\ call[c].before = Size => ToSet(call[c].args) \cap committed = {}
  BY <1>1, Acquainted DEF RecordRemove, Knows, RemoveKnows
<1>3. CASE Shrank(c)
  <2>1. Effective(c) /\ ~Parallel
    BY <1>1, <1>2, <1>3 DEF Shrank, Effective
  <2>2. /\ lastNoop' = [add_triples |-> None, remove_triples |-> None]
        /\ lastSerialize' = None
    BY <1>1, <1>3 DEF RecordRemove, NewRevision, Shrank
  <2>3. lastNoop' = [t \in Mutations |-> None]
    BY <2>2 DEF Mutations
  <2>4. ModeAfterSuccess(c)
    BY DEF RecordRemove
  <2>. QED  BY <1>1, <2>1, <2>2, <2>3, <2>4, Cleared
<1>4. CASE ~Shrank(c)
  <2>1. call[c].before = Size /\ call[c].after = call[c].before /\ ~Effective(c)
    BY <1>1, <1>2, <1>4 DEF Shrank, Effective
  <2>2. unseen' = unseen /\ modeWrites' = modeWrites
    BY <2>1 DEF RecordRemove, Accounted, ModeAfterSuccess, DatasetInv, StateTyped
  <2>3. Settled
    BY <1>1, <2>1, SettledOthers DEF Changed
  <2>4. Holds /\ committed' = committed
    BY <2>2, <2>3, SettledSame DEF GuardInv
  <2>5. /\ lastNoop'["add_triples"] = None /\ lastNoop'["remove_triples"] = call[c].args
        /\ UNCHANGED <<revision, lastSerialize, served, mode>>
    BY <1>4, <2>1 DEF RecordRemove, SameRevision
  <2>6. ToSet(call[c].args) \cap committed' = {} /\ None \notin Batches
    BY <1>2, <2>1, <2>4, DatasetAssumption
  <2>7. RecordsTrue'
    BY <2>4, <2>5, <2>6 DEF Holds, RecordsTrue
  <2>8. HeldBack' = HeldBack
    BY <2>2, <2>5 DEF HeldBack
  <2>. QED  BY <2>4, <2>5, <2>7, <2>8 DEF Holds
<1>. QED  BY <1>3, <1>4

LEMMA RecordResetHolds ==
  ASSUME DatasetInv, GuardInv, NEW c \in Calls, CallStep(c), ~unseen', RecordReset(c)
  PROVE  Holds'
<1>1. /\ call[c].tool = "reset_dataset" /\ call[c].pc = "record" /\ call[c].before \in Nat
  BY DEF RecordReset, At, DatasetInv, CallsTyped
<1>2. Policed
  BY <1>1 DEF DatasetInv, ModeInv, Guarded, Policed
<1>3. ~Parallel /\ call[c].before > 0 /\ call[c].after = 0 /\ lastSerialize = None
  BY <1>1, <1>2, Acquainted DEF Knows, ResetKnows
<1>4. Effective(c)
  BY <1>1, <1>3 DEF Effective, Shrank
<1>. QED  BY <1>1, <1>3, <1>4, Cleared DEF RecordReset

LEMMA RecordErrorHolds ==
  ASSUME DatasetInv, GuardInv, NEW c \in Calls, CallStep(c), ~unseen', Settled', RecordError(c)
  PROVE  Holds'
<1>1. /\ call[c].pc = "record" /\ call[c].before \in Nat /\ call[c].after \in Nat
      /\ call[c].tool \in Mutations \cup {"serialize_dataset"}
      /\ UNCHANGED guardVars /\ unseen' = unseen /\ mode' = mode
  BY DEF RecordError, At, DatasetInv, CallsTyped
<1>2. committed' = committed /\ Knows(c)
  BY SettledSame, Acquainted
<1>3. HeldBack' => HeldBack
  <2>1. CASE modeWrites' = modeWrites
    BY <1>1, <2>1 DEF HeldBack
  <2>2. CASE modeWrites' # modeWrites
    <3>1. modeWrites' = [modeWrites EXCEPT ![c] = "normal"]
      BY <2>2 DEF RecordError, ModeAfterSuccess
    <3>2. modeWrites'[c] = "normal" /\ \A d \in Calls : d # c => modeWrites'[d] = modeWrites[d]
      BY <3>1 DEF DatasetInv, ModeInv
    <3>. QED  BY <1>1, <3>2 DEF HeldBack
  <2>. QED  BY <2>1, <2>2
<1>4. ~Changed(c)
  BY <1>1, <1>2 DEF RecordError, Knows, AddKnows, RemoveKnows, Changed, Mutations
<1>5. Holds
  BY <1>1, <1>4, SettledOthers DEF GuardInv
<1>. QED  BY <1>1, <1>2, <1>3, <1>5, HoldsKeeps DEF RecordError

LEMMA StepHolds ==
  ASSUME DatasetInv, GuardInv, NEW c \in Calls, CallStep(c), ~unseen', Settled'
  PROVE  Holds'
<1>1. committed' = committed /\ mode' = mode
  BY SettledSame, StepMode DEF DatasetInv
<1>2. CASE RecordError(c) \/ RecordAdd(c) \/ RecordRemove(c) \/ RecordReset(c)
  BY <1>2, RecordErrorHolds, RecordAddHolds, RecordRemoveHolds, RecordResetHolds
<1>3. CASE ~RecordError(c) /\ ~RecordAdd(c) /\ ~RecordRemove(c) /\ ~RecordReset(c)
  <2>1. Holds
    BY <1>3, SettledBefore
  <2>2. CASE RejectSerialize(c)
    <3>1. /\ call[c].args \in Formats /\ lastSerialize = <<revision, call[c].args>>
          /\ UNCHANGED guardVars
      BY <2>2 DEF RejectSerialize, SerializeSignature, At, DatasetInv, CallsTyped
    <3>2. served[call[c].args] = committed
      BY <2>1, <3>1 DEF Holds, RecordsTrue
    <3>3. served'[call[c].args] = committed'
      BY <1>1, <3>1, <3>2, ServedKeeps
    <3>4. RecordsTrue'
      BY <1>1, <2>1, <3>1, ServedKeeps DEF Holds, RecordsTrue, guardVars
    <3>. QED  BY <3>1, <3>3, <3>4 DEF Holds
  <2>3. CASE ResetBump(c)
    <3>1. /\ lastNoop' = lastNoop /\ modeWrites' = modeWrites
          /\ lastSerialize' = None \/ UNCHANGED <<revision, lastSerialize>>
      BY <2>3 DEF ResetBump, turnVars
    <3>2. \A f \in Formats : None # <<revision', f>>
      BY GuardTyped, DatasetAssumption DEF DatasetInv
    <3>3. RecordsTrue'
      BY <1>1, <2>1, <3>1, <3>2, ServedKeeps DEF Holds, RecordsTrue
    <3>. QED  BY <1>1, <2>1, <3>1, <3>3, ServedKeeps DEF Holds, HeldBack
  <2>4. CASE RecordSerialize(c)
    <3>1. /\ call[c].args \in Formats /\ served[call[c].args] = committed
          /\ lastSerialize' = <<call[c].seen, call[c].args>>
          /\ UNCHANGED <<revision, lastNoop, modeWrites, served>>
      BY <2>4, Acquainted DEF RecordSerialize, At, Knows, DatasetInv, CallsTyped, turnVars
    <3>2. RecordsTrue'
      BY <1>1, <2>1, <3>1 DEF Holds, RecordsTrue
    <3>. QED  BY <1>1, <2>1, <3>1, <3>2 DEF Holds, HeldBack
  <2>5. CASE UNCHANGED <<guardVars, modeWrites>>
    BY <1>1, <2>1, <2>5, HoldsKeeps DEF HeldBack
  <2>6. \/ RejectSerialize(c) \/ ResetBump(c) \/ RecordSerialize(c)
        \/ UNCHANGED <<guardVars, modeWrites>>
    <3>1. CASE \/ PassThrough(c) \/ AdmitList(c) \/ RejectReset(c) \/ AdmitReset(c)
               \/ RejectFinal(c) \/ AdmitSerialize(c) \/ Measure(c)
               \/ RejectNoop(c) \/ AdmitMutation(c)
      BY <3>1 DEF PassThrough, AdmitList, RejectReset, AdmitReset, RejectFinal,
         AdmitSerialize, Measure, RejectNoop, AdmitMutation, turnVars
    <3>2. CASE \/ RefuseArguments(c) \/ Enter(c) \/ WriteTriple(c) \/ WhitelistViolation(c)
               \/ Exit(c) \/ ResetSize(c) \/ Replace(c) \/ Snapshot(c) \/ Remeasure(c)
      BY <3>2 DEF RefuseArguments, Enter, WriteTriple, WhitelistViolation, Exit, ResetSize, Replace,
         Snapshot, Remeasure, turnVars
    <3>. QED  BY <1>3, <3>1, <3>2 DEF CallStep
  <2>. QED  BY <2>2, <2>3, <2>4, <2>5, <2>6
<1>. QED  BY <1>2, <1>3

----------------------------------------------------------------------------
(* The turn, and the theorems.                                             *)

\* At the ends of a turn no call knows or has changed anything.
Resting == \A c \in Calls : call[c].pc \in Over \cup {"gate"}

LEMMA RestingKnows ==
  ASSUME Resting
  PROVE  Settled /\ \A c \in Calls : Knows(c)
BY DEF Resting, Over, Settled, Changed, Knows, AddKnows, RemoveKnows, ResetKnows

LEMMA TurnGuardInv ==
  ASSUME GuardInv, Resting, Resting', ~unseen => (HeldBack' => HeldBack),
         ~unseen' /\ Parallel' => \A c \in Calls : modeWrites'[c] # "normal",
         UNCHANGED <<sessionVars, guardVars, served, unseen>>
  PROVE  GuardInv'
<1>1. Settled /\ \A c \in Calls : Knows(c)'
  BY DEF Resting, Over, Settled, Changed, Knows, AddKnows, RemoveKnows, ResetKnows
<1>2. /\ committed' = committed /\ served' = served /\ unseen' = unseen /\ lastNoop' = lastNoop
      /\ lastSerialize' = lastSerialize /\ revision' = revision
  BY DEF sessionVars, guardVars
<1>3. ~unseen' => Holds
  BY <1>1, <1>2 DEF GuardInv
<1>4. ~unseen' => Holds'
  BY <1>2, <1>3 DEF Holds, RecordsTrue
<1>. QED  BY <1>1, <1>2, <1>4 DEF GuardInv

LEMMA GuardInit == DatasetInit => GuardInv
<1>. SUFFICES ASSUME DatasetInit PROVE GuardInv
  OBVIOUS
<1>1. Resting /\ IsFiniteSet(committed)
  BY AllIdle, FS_EmptySet DEF DatasetInit, Resting, Over
<1>2. Holds
  <2>1. None \notin Batches /\ None \notin Nat \X Formats
    BY DatasetAssumption
  <2>2. lastNoop["add_triples"] = None /\ lastNoop["remove_triples"] = None
    BY DEF DatasetInit, Mutations
  <2>3. \A f \in Formats : lastSerialize # <<revision, f>>
    BY <2>1 DEF DatasetInit
  <2>4. ~HeldBack
    BY DatasetAssumption DEF DatasetInit, HeldBack, Modes
  <2>. QED  BY <2>1, <2>2, <2>3, <2>4 DEF Holds, RecordsTrue
<1>3. \A c \in Calls : modeWrites[c] # "normal"
  BY DatasetAssumption DEF DatasetInit, Modes
<1>. QED  BY <1>1, <1>2, <1>3, RestingKnows DEF GuardInv

\* A call that runs beside others, none of whose changes escaped, gives nobody tools back.
LEMMA ParallelWrites ==
  ASSUME DatasetInv, GuardInv, NEW c \in Calls, CallStep(c), ~unseen', Parallel'
  PROVE  \A d \in Calls : modeWrites'[d] # "normal"
<1>1. Parallel /\ ~unseen /\ Knows(c)
  BY ActiveSet, SeenAgain, Acquainted
<1>2. \A d \in Calls : modeWrites[d] # "normal"
  BY <1>1 DEF GuardInv
<1>3. CASE RecordError(c) \/ RecordAdd(c) \/ RecordRemove(c) \/ RecordReset(c)
  <2>1. /\ call[c].pc = "record" /\ call[c].before \in Nat /\ call[c].after \in Nat
        /\ ModeAfterSuccess(c)
    BY <1>3 DEF RecordError, RecordAdd, RecordRemove, RecordReset, At, DatasetInv, CallsTyped
  <2>2. Policed
    BY <2>1 DEF DatasetInv, ModeInv, Guarded, Policed
  <2>3. ~Effective(c)
    BY <1>1, <2>1, <2>2 DEF Knows, AddKnows, RemoveKnows, ResetKnows, Effective, Grew, Shrank
  <2>. QED  BY <1>2, <2>1, <2>3 DEF ModeAfterSuccess
<1>4. CASE RejectSerialize(c)
  <2>1. modeWrites' = [modeWrites EXCEPT ![c] = "finalize_only"]
    BY <1>4 DEF RejectSerialize
  <2>. QED  BY <1>2, <2>1 DEF DatasetInv, ModeInv
<1>5. CASE \/ PassThrough(c) \/ AdmitList(c) \/ RejectReset(c) \/ AdmitReset(c)
           \/ RejectFinal(c) \/ AdmitSerialize(c) \/ Measure(c)
           \/ RejectNoop(c) \/ AdmitMutation(c)
  BY <1>2, <1>5 DEF PassThrough, AdmitList, RejectReset, AdmitReset, RejectFinal,
     AdmitSerialize, Measure, RejectNoop, AdmitMutation, turnVars
<1>6. CASE \/ RefuseArguments(c) \/ Enter(c) \/ WriteTriple(c) \/ WhitelistViolation(c)
           \/ Exit(c) \/ ResetSize(c) \/ Replace(c) \/ ResetBump(c) \/ Snapshot(c)
           \/ Remeasure(c) \/ RecordSerialize(c)
  BY <1>2, <1>6 DEF RefuseArguments, Enter, WriteTriple, WhitelistViolation, Exit, ResetSize,
     Replace, ResetBump, Snapshot, Remeasure, RecordSerialize, turnVars
<1>. QED  BY <1>3, <1>4, <1>5, <1>6 DEF CallStep

LEMMA GuardNext == DatasetInv /\ GuardInv /\ [DatasetNext]_dsVars => GuardInv'
<1>. SUFFICES ASSUME DatasetInv, GuardInv, [DatasetNext]_dsVars PROVE GuardInv'
  OBVIOUS
<1>1. CASE ModelTurn
  <2>1. Resting /\ UNCHANGED <<sessionVars, guardVars, turnVars, served, unseen>>
    BY <1>1 DEF ModelTurn, Resting, Over
  <2>2. Resting'
    <3>1. PICK asked \in [Calls -> Requests \cup {None}] :
            call' = [c \in Calls |-> IF asked[c] = None THEN Idle
                                     ELSE [Idle EXCEPT !.pc = "gate", !.tool = asked[c].tool,
                                                       !.args = asked[c].args]]
      BY <1>1 DEF ModelTurn
    <3>2. SUFFICES ASSUME NEW c \in Calls PROVE call'[c].pc \in {"idle", "gate"}
      BY DEF Resting, Over
    <3>. QED  BY <3>1 DEF Idle
  <2>3. \A c \in Calls : modeWrites'[c] # "normal"
    BY <1>1, DatasetAssumption DEF ModelTurn, DatasetInv, ModeInv, turnVars, Modes
  <2>. QED  BY <2>1, <2>2, <2>3, TurnGuardInv DEF turnVars, HeldBack
<1>2. CASE GuardStops
  <2>1. Resting /\ Resting' /\ (HeldBack' => HeldBack)
        /\ UNCHANGED <<sessionVars, guardVars, served, unseen>>
    BY <1>2 DEF GuardStops, Resting, HeldBack, Over
  <2>2. \A c \in Calls : modeWrites'[c] # "normal"
    BY <1>2, DatasetAssumption DEF GuardStops, DatasetInv, ModeInv, Modes
  <2>. QED  BY <2>1, <2>2, TurnGuardInv
<1>3. CASE TurnEnds \/ TurnFails
  <2>0. TurnOver /\ CallsDone
    BY <1>3 DEF TurnEnds, TurnFails
  <2>1. /\ Resting /\ Resting'
        /\ UNCHANGED <<sessionVars, guardVars, served, unseen>>
        /\ \A c \in Calls : modeWrites'[c] = None
    BY <2>0 DEF TurnOver, CallsDone, Resting, Idle, Over
  <2>2. None \notin Modes
    BY DatasetAssumption
  <2>3. ASSUME ~unseen, HeldBack' PROVE HeldBack
    <3>1. mode' = "finalize_only"
      BY <2>1, <2>2, <2>3 DEF HeldBack, Modes
    <3>2. CASE TurnEnds
      BY <2>2, <3>1, <3>2 DEF TurnEnds, HeldBack, Modes
    <3>3. CASE TurnFails
      <4>1. mode = "finalize_only"
        BY <3>1, <3>3 DEF TurnFails
      <4>2. PICK c, d \in Calls : c # d /\ modeWrites[c] # None /\ modeWrites[d] # None
        BY <3>3, <4>1 DEF TurnFails, DatasetInv, ModeInv
      <4>3. /\ call[c].pc # "idle" /\ call[d].pc # "idle" /\ modeWrites[c] = "normal"
        BY <4>1, <4>2 DEF DatasetInv, ModeInv, Due
      <4>4. Parallel
        BY <4>2, <4>3, Alone
      <4>. QED  BY <2>3, <4>3, <4>4 DEF GuardInv
    <3>. QED  BY <1>3, <3>2, <3>3
  <2>. QED  BY <2>1, <2>2, <2>3, TurnGuardInv DEF Modes
<1>4. ASSUME NEW c \in Calls, CallStep(c) PROVE GuardInv'
  <2>1. IsFiniteSet(committed')
    BY <1>4, FiniteStep DEF GuardInv
  <2>2. ASSUME ~Parallel' \/ ~unseen', NEW d \in Calls PROVE Knows(d)'
    <3>1. ~Parallel \/ ~unseen'
      BY <1>4, <2>2, ActiveSet
    <3>. QED  BY <1>4, <2>2, <3>1, StepKnows, OthersKnow
  <2>3. ~unseen' /\ Settled' => Holds'
    BY <1>4, StepHolds
  <2>4. ~unseen' /\ Parallel' => \A d \in Calls : modeWrites'[d] # "normal"
    BY <1>4, ParallelWrites
  <2>. QED  BY <2>1, <2>2, <2>3, <2>4 DEF GuardInv
<1>5. CASE UNCHANGED dsVars
  BY <1>5 DEF dsVars, sessionVars, guardVars, turnVars, GuardInv, Parallel, Policed, Size, Knows,
     AddKnows, RemoveKnows, ResetKnows, Settled, Changed, Holds, RecordsTrue, HeldBack
<1>. QED  BY <1>1, <1>2, <1>3, <1>4, <1>5 DEF DatasetNext

LEMMA GuardInvariant == DatasetSpec => []GuardInv
BY DatasetInvariant, GuardInit, GuardNext, PTL DEF DatasetSpec

\* Between turns the graph is what readers may see, and nothing is to be recorded.
LEMMA TurnsMeet ==
  ASSUME DatasetInv, GuardInv, BetweenTurns, ~unseen
  PROVE  graph = committed /\ (\A c \in Calls : modeWrites[c] = None) /\ Holds
<1>1. graph = committed
  BY DEF DatasetInv, LockInv, StateTyped, BetweenTurns
<1>2. \A c \in Calls : modeWrites[c] = None
  BY DEF DatasetInv, ModeInv, BetweenTurns
<1>3. Resting
  BY DEF BetweenTurns, Resting, Over
<1>. QED  BY <1>1, <1>2, <1>3, RestingKnows DEF GuardInv

\* A call is refused as a useless repetition only if it is one: between turns what the
\* gate compares it with is true of the graph, unless a change escaped the guard.
THEOREM GuardRecordsStayTrue == DatasetSpec => []GuardRecordsTrue
<1>1. DatasetInv /\ GuardInv => GuardRecordsTrue
  BY TurnsMeet DEF GuardRecordsTrue, Holds, RecordsTrue
<1>. QED  BY <1>1, DatasetInvariant, GuardInvariant, PTL

\* An agent held to a final answer has been given the graph as it is.
THEOREM FinalAnswersEarned == DatasetSpec => []FinalizeOnlyEarned
<1>1. DatasetInv /\ GuardInv => FinalizeOnlyEarned
  BY TurnsMeet, DatasetAssumption DEF FinalizeOnlyEarned, Holds, HeldBack, Modes
<1>. QED  BY <1>1, DatasetInvariant, GuardInvariant, PTL
----------------------------------------------------------------------------
(* Final-answer-only mode ends with the turn that changes the dataset.     *)

Changers  == Mutations \cup {"reset_dataset"}
Afterward == {"bump", "remeasure", "record"}

\* In final-answer-only mode, and in no other, what the tools did is remembered: by the
\* calls that come from their tools, and by all that update the mode.
EffectsInv ==
  /\ mode # "finalize_only" => \A c \in Calls : effects[c] = "none"
  /\ \A c \in Calls : effects[c] # "none" =>
       call[c].pc = "returned" \/ (call[c].pc \in Afterward /\ call[c].tool \in Changers)
  /\ mode = "finalize_only" =>
       \A c \in Calls :
         /\ call[c].pc \in Afterward /\ call[c].tool \in Changers => effects[c] # "none"
         /\ modeWrites[c] # None => effects[c] # "none"

\* No other call of the turn has come from a tool that may change the dataset.
Solo(c) == \A d \in Calls \ {c} : effects[d] = "none"

\* What such a call knows of the dataset: its first size is right until it changes the
\* dataset itself, then it will see the change, and at last it gives the tools back.
SoleKnows(c) ==
  /\ \/ call[c].tool \in Mutations /\ call[c].pc \in {"check", "enter", "write"}
     \/ call[c].tool = "reset_dataset" /\ call[c].pc \in {"size", "replace"}
     => call[c].before = Size
  /\ effects[c] = "changed" =>
       /\ call[c].pc # "returned" =>
            IF call[c].tool = "add_triples" THEN call[c].before < Size
                                            ELSE Size < call[c].before
       /\ call[c].pc = "record" => call[c].after = Size
       /\ call[c].pc = "returned" => modeWrites[c] = "normal"

SoloInv ==
  /\ EffectsInv
  /\ mode = "finalize_only" => \A c \in Calls : Solo(c) => SoleKnows(c)

\* Outside final-answer-only mode nothing is remembered.
LEMMA NothingRemembered ==
  ASSUME mode # "finalize_only", NEW c \in Calls, CallStep(c)
  PROVE  effects' = effects
<1>1. CASE RefuseArguments(c) \/ WhitelistViolation(c) \/ Exit(c) \/ Replace(c)
  BY <1>1 DEF RefuseArguments, WhitelistViolation, Exit, Replace, Done
<1>2. CASE \/ PassThrough(c) \/ AdmitList(c) \/ RejectReset(c) \/ AdmitReset(c)
           \/ RejectFinal(c) \/ RejectSerialize(c) \/ AdmitSerialize(c) \/ Measure(c)
           \/ RejectNoop(c) \/ AdmitMutation(c)
  BY <1>2 DEF PassThrough, AdmitList, RejectReset, AdmitReset, RejectFinal, RejectSerialize,
              AdmitSerialize, Measure, RejectNoop, AdmitMutation, turnVars
<1>3. CASE \/ Enter(c) \/ WriteTriple(c) \/ ResetSize(c) \/ ResetBump(c) \/ Snapshot(c)
           \/ Remeasure(c) \/ RecordError(c) \/ RecordAdd(c) \/ RecordRemove(c)
           \/ RecordReset(c) \/ RecordSerialize(c)
  BY <1>3 DEF Enter, WriteTriple, ResetSize, ResetBump, Snapshot, Remeasure, RecordError,
              RecordAdd, RecordRemove, RecordReset, RecordSerialize, turnVars
<1>. QED  BY <1>1, <1>2, <1>3 DEF CallStep

\* In it, a call may be at its gate or in its tool,
Before(c) ==
  /\ call[c].pc \notin Afterward \cup Over
  /\ \/ call'[c].pc = "returned"
     \/ call'[c].tool = "serialize_dataset"
     \/ /\ call'[c].pc \notin Afterward \cup {"raised"} /\ call'[c].tool = call[c].tool
        /\ \/ call'[c].pc \in {"snapshot", "measure"}
           \/ call'[c].before = Size
           \/ /\ call'[c].pc \in {"enter", "write", "replace"} /\ call'[c].before = call[c].before
              /\ \/ call[c].pc \in {"check", "enter", "write"} /\ call[c].tool \in Mutations
                 \/ call[c].pc = "size" /\ call[c].tool = "reset_dataset"
  /\ UNCHANGED <<effects, modeWrites, committed>>

\* at the last step of its tool,
Effect(c) ==
  /\ call[c].tool \in Changers /\ modeWrites' = modeWrites /\ modeWrites[c] = None
  /\ \/ call'[c].pc = "returned" /\ effects' = [effects EXCEPT ![c] = "ran"]
     \/ /\ call'[c].pc \in {"bump", "remeasure"} /\ call'[c].tool = call[c].tool
        /\ \/ effects' = [effects EXCEPT ![c] = "ran"]
           \/ /\ effects' = [effects EXCEPT ![c] = "changed"]
              /\ Exit(c) \/ Replace(c)
              /\ call'[c].before = call[c].before /\ committed' # committed

\* between that and the update of the guard,
After(c) ==
  /\ call[c].pc \in Afterward /\ call[c].tool \in Changers
  /\ call'[c].pc \in {"remeasure", "record"} /\ call'[c].tool = call[c].tool
  /\ call'[c].before = call[c].before
  /\ call'[c].pc = "record" => call'[c].after = Size
  /\ UNCHANGED <<effects, modeWrites, committed>>

\* or at the update.
Update(c) ==
  /\ call[c].pc = "record" /\ call'[c].pc = "returned"
  /\ UNCHANGED <<effects, committed>>
  /\ \/ ModeAfterSuccess(c)
     \/ call[c].tool = "serialize_dataset" /\ modeWrites' = modeWrites

LEMMA BeforeSteps ==
  ASSUME DatasetInv, mode = "finalize_only", NEW c \in Calls,
         \/ AdmitList(c) \/ RejectReset(c) \/ AdmitReset(c) \/ RejectFinal(c) \/ Measure(c)
         \/ RejectNoop(c) \/ AdmitMutation(c) \/ Enter(c) \/ WriteTriple(c) \/ ResetSize(c)
         \/ Snapshot(c) \/ (RefuseArguments(c) /\ call[c].tool \notin Mutations)
  PROVE  Before(c)
<1>. USE DEF At, Over, Afterward
<1>1. Policed /\ (Readable => Cardinality(graph) = Size)
  BY OneWriter DEF Policed, DatasetInv, Size
<1>2. CASE RejectReset(c) \/ RejectFinal(c) \/ RejectNoop(c)
  BY <1>2, ReturnReturns DEF RejectReset, RejectFinal, RejectNoop, Before, DatasetInv,
     sessionVars, turnVars
<1>3. CASE AdmitList(c) \/ AdmitReset(c) \/ AdmitMutation(c)
  BY <1>3 DEF AdmitList, AdmitReset, AdmitMutation, Goto, Before, DatasetInv, CallsTyped,
     sessionVars, turnVars
<1>4. CASE Measure(c)
  BY <1>1, <1>4 DEF Measure, Before, DatasetInv, CallsTyped, sessionVars, turnVars
<1>5. CASE Enter(c) \/ WriteTriple(c) \/ ResetSize(c)
  BY <1>5 DEF Enter, WriteTriple, ResetSize, Before, DatasetInv, CallsTyped, sessionVars, turnVars
<1>6. CASE Snapshot(c) \/ (RefuseArguments(c) /\ call[c].tool \notin Mutations)
  <2>1. /\ call[c].tool \in {"serialize_dataset", "list_triples"} /\ call[c].pc = "snapshot"
        /\ Leave(c) /\ UNCHANGED <<effects, modeWrites, committed>>
    BY <1>6 DEF Snapshot, RefuseArguments, sessionVars, turnVars
  <2>2. CASE call[c].tool = "serialize_dataset"
    <3>1. Goto(c, "record")
      BY <1>1, <2>1, <2>2 DEF Leave, AfterHandler
    <3>2. call'[c].tool = "serialize_dataset"
      BY <2>2, <3>1 DEF Goto, DatasetInv, CallsTyped
    <3>. QED  BY <2>1, <3>2 DEF Before
  <2>3. CASE call[c].tool = "list_triples"
    <3>1. Return(c)
      BY <2>1, <2>3 DEF Leave, AfterHandler
    <3>. QED  BY <2>1, <3>1, ReturnReturns DEF Before, DatasetInv
  <2>. QED  BY <2>1, <2>2, <2>3
<1>. QED  BY <1>2, <1>3, <1>4, <1>5, <1>6

LEMMA EffectSteps ==
  ASSUME DatasetInv, mode = "finalize_only", NEW c \in Calls,
         \/ WhitelistViolation(c) \/ Exit(c) \/ Replace(c)
         \/ RefuseArguments(c) /\ call[c].tool \in Mutations
  PROVE  Effect(c)
<1>1. Policed /\ effects \in [Calls -> {"none", "ran", "changed"}]
  BY DEF Policed, DatasetInv, ModeInv
<1>2. /\ call[c].tool \in Changers /\ modeWrites' = modeWrites /\ modeWrites[c] = None
  BY DEF WhitelistViolation, Exit, Replace, RefuseArguments, At, Changers, Mutations, DatasetInv,
         ModeInv
<1>3. CASE WhitelistViolation(c)
  BY <1>1, <1>2, <1>3, ReturnReturns DEF WhitelistViolation, Done, Effect, DatasetInv
<1>4. CASE Exit(c) \/ (RefuseArguments(c) /\ call[c].tool \in Mutations)
  <2>1. Goto(c, "remeasure")
    BY <1>1, <1>4 DEF Exit, RefuseArguments, At, Leave, AfterHandler, Mutations
  <2>2. /\ call'[c].pc = "remeasure" /\ call'[c].tool = call[c].tool
        /\ call'[c].before = call[c].before
    BY <2>1 DEF Goto, DatasetInv, CallsTyped
  <2>3. \/ effects' = [effects EXCEPT ![c] = "ran"]
        \/ effects' = [effects EXCEPT ![c] = "changed"] /\ Exit(c) /\ committed' # committed
    BY <1>4 DEF Exit, RefuseArguments, Done, At, Mutations
  <2>. QED  BY <1>2, <2>2, <2>3 DEF Effect
<1>5. CASE Replace(c)
  <2>1. /\ call'[c].pc = "bump" /\ call'[c].tool = call[c].tool
        /\ call'[c].before = call[c].before
    BY <1>5 DEF Replace, Goto, DatasetInv, CallsTyped
  <2>2. \/ effects' = [effects EXCEPT ![c] = "ran"]
        \/ effects' = [effects EXCEPT ![c] = "changed"] /\ committed' # committed
    BY <1>5 DEF Replace, Done
  <2>. QED  BY <1>2, <1>5, <2>1, <2>2 DEF Effect
<1>. QED  BY <1>3, <1>4, <1>5

LEMMA AfterSteps ==
  ASSUME DatasetInv, mode = "finalize_only", NEW c \in Calls, ResetBump(c) \/ Remeasure(c)
  PROVE  After(c)
<1>1. Policed /\ (Readable => Cardinality(graph) = Size)
  BY OneWriter DEF Policed, DatasetInv, Size
<1>2. CASE ResetBump(c)
  <2>1. Goto(c, "remeasure")
    BY <1>1, <1>2 DEF ResetBump, At, Leave, AfterHandler
  <2>. QED  BY <1>2, <2>1 DEF ResetBump, At, Goto, After, Afterward, Changers, DatasetInv, CallsTyped,
                sessionVars, turnVars
<1>3. CASE Remeasure(c)
  BY <1>1, <1>3 DEF Remeasure, At, After, Afterward, Changers, DatasetInv, CallsTyped,
     sessionVars, turnVars
<1>. QED  BY <1>2, <1>3

LEMMA UpdateSteps ==
  ASSUME DatasetInv, NEW c \in Calls,
         \/ RecordError(c) \/ RecordAdd(c) \/ RecordRemove(c) \/ RecordReset(c)
         \/ RecordSerialize(c)
  PROVE  Update(c)
BY ReturnReturns DEF RecordError, RecordAdd, RecordRemove, RecordReset, RecordSerialize, At,
   Update, DatasetInv, sessionVars, turnVars

LEMMA FinalSteps ==
  ASSUME DatasetInv, mode = "finalize_only", NEW c \in Calls, CallStep(c)
  PROVE  Before(c) \/ Effect(c) \/ After(c) \/ Update(c)
<1>1. ~PassThrough(c) /\ ~RejectSerialize(c) /\ ~AdmitSerialize(c)
  BY DEF PassThrough, RejectSerialize, AdmitSerialize, Policed
<1>. QED  BY <1>1, BeforeSteps, EffectSteps, AfterSteps, UpdateSteps DEF CallStep

\* A call gives the tools back when it has seen a change.
LEMMA UpdateWrites ==
  ASSUME DatasetInv, EffectsInv, mode = "finalize_only", NEW c \in Calls, Update(c)
  PROVE  /\ \A d \in Calls \ {c} : modeWrites'[d] = modeWrites[d]
         /\ modeWrites'[c] # None => effects[c] # "none"
         /\ effects[c] # "none" /\ Effective(c) => modeWrites'[c] = "normal"
<1>1. modeWrites \in [Calls -> Due \cup {None}] /\ modeWrites[c] = None
  BY DEF DatasetInv, ModeInv, Update
<1>2. Effective(c) => call[c].tool \in Changers
  BY DEF Effective, Changers, Mutations
<1>3. call[c].tool \in Changers => effects[c] # "none"
  BY DEF EffectsInv, Update, Afterward
<1>4. effects[c] # "none" => call[c].tool # "serialize_dataset"
  BY DEF EffectsInv, Update, Changers, Mutations
<1>. QED  BY <1>1, <1>2, <1>3, <1>4 DEF Update, ModeAfterSuccess

LEMMA EffectsStep ==
  ASSUME DatasetInv, EffectsInv, NEW c \in Calls, CallStep(c)
  PROVE  EffectsInv'
<1>1. /\ mode' = mode /\ effects \in [Calls -> {"none", "ran", "changed"}]
      /\ \A d \in Calls : d # c => call'[d] = call[d] /\ effects'[d] = effects[d]
      /\ call[c].pc \notin Over
  BY StepMode, StepsFacts, StepEffects DEF DatasetInv, ModeInv
<1>2. CASE mode # "finalize_only"
  BY <1>1, <1>2, NothingRemembered DEF EffectsInv
<1>3. CASE mode = "finalize_only"
  <2>1. ASSUME NEW d \in Calls, d # c, modeWrites'[d] = modeWrites[d]
        PROVE  /\ effects'[d] # "none" =>
                    call'[d].pc = "returned" \/ (call'[d].pc \in Afterward /\ call'[d].tool \in Changers)
               /\ call'[d].pc \in Afterward /\ call'[d].tool \in Changers => effects'[d] # "none"
               /\ modeWrites'[d] # None => effects'[d] # "none"
    BY <1>1, <1>3, <2>1 DEF EffectsInv
  <2>2. CASE Before(c)
    <3>1. effects[c] = "none" /\ modeWrites[c] = None
      BY <1>1, <1>3, <2>2 DEF Before, EffectsInv, Over
    <3>2. ~(call'[c].pc \in Afterward /\ call'[c].tool \in Changers)
      BY <2>2 DEF Before, Afterward, Changers, Mutations
    <3>. QED  BY <1>1, <1>3, <2>1, <2>2, <3>1, <3>2 DEF Before, EffectsInv
  <2>3. CASE Effect(c)
    <3>1. effects'[c] # "none"
      BY <1>1, <2>3 DEF Effect
    <3>2. call'[c].pc = "returned" \/ (call'[c].pc \in Afterward /\ call'[c].tool \in Changers)
      BY <2>3 DEF Effect, Afterward
    <3>. QED  BY <1>1, <1>3, <2>1, <2>3, <3>1, <3>2 DEF Effect, EffectsInv
  <2>4. CASE After(c)
    BY <1>1, <1>3, <2>1, <2>4 DEF After, Afterward, EffectsInv
  <2>5. CASE Update(c)
    BY <1>1, <1>3, <2>1, <2>5, UpdateWrites DEF Update, Afterward, EffectsInv
  <2>. QED  BY <1>3, <2>2, <2>3, <2>4, <2>5, FinalSteps
<1>. QED  BY <1>2, <1>3

\* What a call knows is not disturbed by a step of another one that leaves it sole.
LEMMA SoleOthers ==
  ASSUME DatasetInv, SoloInv, mode = "finalize_only", NEW c \in Calls, CallStep(c),
         NEW d \in Calls, d # c, Solo(d)'
  PROVE  SoleKnows(d)'
<1>1. /\ call'[d] = call[d] /\ effects'[d] = effects[d] /\ effects'[c] = "none"
      /\ effects \in [Calls -> {"none", "ran", "changed"}]
  BY StepsFacts, StepEffects DEF DatasetInv, ModeInv, Solo
<1>2. ~Effect(c)
  BY <1>1 DEF Effect
<1>3. effects' = effects /\ committed' = committed /\ modeWrites'[d] = modeWrites[d]
  BY <1>2, FinalSteps, UpdateWrites DEF Before, After, Update, SoloInv
<1>4. SoleKnows(d)
  BY <1>3 DEF SoloInv, Solo
<1>. QED  BY <1>1, <1>3, <1>4 DEF SoleKnows, Size

LEMMA SoleSteps ==
  ASSUME DatasetInv, GuardInv, SoloInv, mode = "finalize_only", NEW c \in Calls, CallStep(c),
         Solo(c)'
  PROVE  SoleKnows(c)'
<1>1. /\ effects \in [Calls -> {"none", "ran", "changed"}] /\ call[c].pc \notin Over
      /\ EffectsInv
  BY StepsFacts DEF DatasetInv, ModeInv, SoloInv
<1>2. SoleKnows(c)
  BY StepEffects DEF DatasetInv, ModeInv, SoloInv, Solo
<1>3. CASE Before(c)
  <2>1. effects'[c] = "none" /\ Size' = Size
    BY <1>1, <1>3 DEF Before, EffectsInv, Over, Size
  <2>2. \/ call'[c].tool \in Mutations /\ call'[c].pc \in {"check", "enter", "write"}
        \/ call'[c].tool = "reset_dataset" /\ call'[c].pc \in {"size", "replace"}
        => call'[c].before = Size
    BY <1>2, <1>3, <2>1 DEF Before, SoleKnows, Mutations
  <2>. QED  BY <2>1, <2>2 DEF SoleKnows
<1>4. CASE Effect(c)
  <2>1. call'[c].pc \notin {"check", "enter", "write", "size", "replace", "record"}
    BY <1>4 DEF Effect
  <2>2. ASSUME effects'[c] = "changed"
        PROVE  /\ call'[c].pc # "returned"
               /\ IF call'[c].tool = "add_triples" THEN call'[c].before < Size'
                                                   ELSE Size' < call'[c].before
    <3>1. /\ call'[c].pc \in {"bump", "remeasure"} /\ call'[c].tool = call[c].tool
          /\ Exit(c) \/ Replace(c)
          /\ call'[c].before = call[c].before /\ committed' # committed
      BY <1>1, <1>4, <2>2 DEF Effect
    <3>2. call[c].before = Size
      BY <1>2, <3>1 DEF Exit, Replace, At, SoleKnows
    <3>3. IsFiniteSet(committed) /\ IsFiniteSet(committed')
      BY FiniteStep DEF GuardInv
    <3>4. CASE Exit(c) /\ call[c].tool = "add_triples"
      <4>1. Size \in Nat /\ Size' \in Nat /\ Size <= Size' /\ Size # Size'
        BY <3>1, <3>3, <3>4, SectionEffect, BatchSize
      <4>. QED  BY <3>1, <3>2, <3>4, <4>1
    <3>5. CASE Exit(c) /\ call[c].tool # "add_triples"
      <4>1. Size \in Nat /\ Size' \in Nat /\ Size' <= Size /\ Size # Size'
        BY <3>1, <3>3, <3>5, SectionEffect, BatchSize
      <4>. QED  BY <3>1, <3>2, <3>5, <4>1
    <3>6. CASE Replace(c)
      <4>1. committed' = {} /\ call[c].tool = "reset_dataset"
        BY <3>6 DEF Replace, At
      <4>2. committed' = committed \ committed
        BY <4>1
      <4>3. Size \in Nat /\ Size' \in Nat /\ Size' <= Size /\ Size # Size'
        BY <3>1, <3>3, <4>2, BatchSize
      <4>. QED  BY <3>1, <3>2, <4>1, <4>3
    <3>. QED  BY <3>1, <3>4, <3>5, <3>6
  <2>. QED  BY <2>1, <2>2 DEF SoleKnows
<1>5. CASE After(c)
  BY <1>2, <1>5 DEF After, Afterward, SoleKnows, Size
<1>6. CASE Update(c)
  <2>1. effects'[c] = effects[c] /\ call'[c].pc = "returned" /\ call[c].pc = "record"
    BY <1>6 DEF Update
  <2>2. ASSUME effects[c] = "changed" PROVE modeWrites'[c] = "normal"
    <3>1. call[c].tool \in Changers
      BY <1>1, <2>1, <2>2 DEF EffectsInv
    <3>2. Effective(c)
      BY <1>2, <2>1, <2>2, <3>1 DEF SoleKnows, Effective, Grew, Shrank, Changers, Mutations
    <3>. QED  BY <1>1, <1>6, <2>2, <3>2, UpdateWrites
  <2>. QED  BY <2>1, <2>2 DEF SoleKnows
<1>. QED  BY <1>3, <1>4, <1>5, <1>6, FinalSteps

LEMMA SoloInit == DatasetInit => SoloInv
BY AllIdle DEF DatasetInit, SoloInv, EffectsInv, Afterward, SoleKnows

LEMMA SoloNext == DatasetInv /\ GuardInv /\ SoloInv /\ [DatasetNext]_dsVars => SoloInv'
<1>. SUFFICES ASSUME DatasetInv, GuardInv, SoloInv, [DatasetNext]_dsVars PROVE SoloInv'
  OBVIOUS
<1>1. ASSUME NEW c \in Calls, CallStep(c) PROVE SoloInv'
  <2>1. mode' = mode
    BY <1>1, StepMode DEF DatasetInv
  <2>. QED  BY <1>1, <2>1, EffectsStep, SoleOthers, SoleSteps DEF SoloInv
<1>2. ASSUME \A c \in Calls : /\ call'[c].pc \in {"idle", "gate"}
                              /\ effects'[c] = "none" /\ modeWrites'[c] = None
      PROVE  SoloInv'
  BY <1>2 DEF SoloInv, EffectsInv, Afterward, SoleKnows
<1>3. CASE TurnEnds \/ TurnFails
  BY <1>2, <1>3 DEF TurnEnds, TurnFails, CallsDone, Idle
<1>4. CASE ModelTurn \/ GuardStops
  <2>1. \A c \in Calls : call[c].pc \in {"idle", "gate"} /\ call'[c].pc \in {"idle", "gate"}
    <3>1. CASE ModelTurn
      <4>1. PICK asked \in [Calls -> Requests \cup {None}] :
              call' = [c \in Calls |-> IF asked[c] = None THEN Idle
                                       ELSE [Idle EXCEPT !.pc = "gate", !.tool = asked[c].tool,
                                                         !.args = asked[c].args]]
        BY <3>1 DEF ModelTurn
      <4>. QED  BY <3>1, <4>1 DEF ModelTurn, Idle
    <3>2. CASE GuardStops
      BY <3>2 DEF GuardStops
    <3>. QED  BY <1>4, <3>1, <3>2
  <2>2. UNCHANGED <<effects, modeWrites>>
    BY <1>4 DEF ModelTurn, GuardStops, turnVars
  <2>3. \A c \in Calls : effects[c] = "none" /\ modeWrites[c] = None
    BY <2>1 DEF SoloInv, EffectsInv, Afterward, DatasetInv, ModeInv
  <2>. QED  BY <1>2, <2>1, <2>2, <2>3
<1>5. CASE UNCHANGED dsVars
  BY <1>5 DEF dsVars, sessionVars, turnVars, SoloInv, EffectsInv, Solo, SoleKnows, Size
<1>. QED  BY <1>1, <1>3, <1>4, <1>5 DEF DatasetNext

LEMMA SoloInvariant == DatasetSpec => []SoloInv
BY SoloInit, SoloNext, DatasetInvariant, GuardInvariant, PTL DEF DatasetSpec

\* An agent that is held to a final answer and changes the dataset has its tools back
\* after that turn, whatever calls that change nothing run beside the change.
THEOREM ChangesEndFinalizeOnly == DatasetSpec => ChangeEndsFinalizeOnly
<1>1. DatasetInv /\ SoloInv /\ [DatasetNext]_dsVars =>
        [mode = "finalize_only" /\ BetweenTurns' /\ (\E c \in Calls : OnlyChange(c))
           => mode' = "normal"]_dsVars
  <2>. SUFFICES ASSUME DatasetInv, SoloInv, DatasetNext, mode = "finalize_only", BetweenTurns',
                       NEW c \in Calls, OnlyChange(c)
                PROVE  mode' = "normal"
    OBVIOUS
  <2>1. /\ Solo(c) /\ SoleKnows(c) /\ effects[c] = "changed"
        /\ call[c].pc = "returned" \/ call[c].pc \in Afterward
    BY DEF OnlyChange, Solo, SoloInv, EffectsInv
  <2>2. ~ModelTurn /\ ~GuardStops
    BY <2>1 DEF ModelTurn, GuardStops, Afterward
  <2>3. ASSUME NEW d \in Calls, CallStep(d) PROVE FALSE
    BY <2>3, StepsFacts DEF DatasetInv, BetweenTurns
  <2>4. TurnEnds \/ TurnFails
    BY <2>2, <2>3 DEF DatasetNext
  <2>5. modeWrites[c] = "normal"
    BY <2>1, <2>4 DEF TurnEnds, TurnFails, TurnOver, SoleKnows, Over, Afterward
  <2>6. \A d \in Calls \ {c} : modeWrites[d] = None
    BY <2>1 DEF Solo, SoloInv, EffectsInv
  <2>7. ~TurnFails
    <3>1. \A d \in Calls : call[d].pc # "raised"
      BY DEF DatasetInv, ModeInv
    <3>. QED  BY <2>6, <3>1 DEF TurnFails
  <2>8. modeWrites[c] # None
    BY <2>5, DatasetAssumption DEF Modes
  <2>. QED  BY <2>4, <2>5, <2>6, <2>7, <2>8 DEF TurnEnds
<1>. QED  BY <1>1, DatasetInvariant, SoloInvariant, PTL DEF DatasetSpec, ChangeEndsFinalizeOnly

----------------------------------------------------------------------------
(* Every call comes to an end.                                             *)

\* The places a call of a tool goes through.
PlacesOf(tool) ==
  CASE tool \in Mutations          -> {"gate", "check", "enter", "write", "remeasure", "record"}
    [] tool = "reset_dataset"      -> {"gate", "measure", "size", "replace", "bump", "remeasure", "record"}
    [] tool = "serialize_dataset"  -> {"gate", "snapshot", "record"}
    [] tool = "list_triples"       -> {"gate", "snapshot"}

Active(c) == call[c].pc \notin Over
OnItsWay(c) == call[c].tool \in Tools /\ call[c].pc \in PlacesOf(call[c].tool)

\* How many places lie ahead of a place at most, the triples of a batch aside.
Ahead(place) ==
  CASE place \in Over                -> 0
    [] place = "record"                 -> 1
    [] place = "remeasure"              -> 2
    [] place \in {"bump", "snapshot"}   -> 3
    [] place \in {"replace", "write"}   -> 4
    [] place \in {"size", "enter"}      -> 5
    [] place \in {"measure", "check"}   -> 6
    [] place = "gate"                   -> 7

\* The triples that a call has still to write.
TriplesLeft(c) ==
  CASE call[c].pc = "write" -> Len(call[c].todo)
    [] /\ call[c].pc \in {"gate", "check", "enter"}
       /\ call[c].tool \in Mutations /\ call[c].args # None -> Len(call[c].args)
    [] OTHER -> 0

\* A bound on the steps that are left to a call.
StepsLeft(c) == Ahead(call[c].pc) + TriplesLeft(c)

\* What a call waits for is there: its next step may be taken.
Ready(c) ==
  /\ Active(c) /\ OnItsWay(c)
  /\ \/ Readable
     \/ call[c].pc \in {"check", "write", "bump", "record"}
     \/ call[c].pc = "gate" /\ (~Policed \/ call[c].tool \in {"serialize_dataset", "list_triples"})

TurnRuns == \E c \in Calls : Active(c)

\* A step of a call: it returns or raises, or goes on to one of some places of its tool.
GoesOn(c, places) ==
  /\ call'[c].pc \in places \cap PlacesOf(call[c].tool)
  /\ call'[c].tool = call[c].tool /\ call'[c].args = call[c].args
StepAhead(c) ==
  \/ call'[c].pc \in {"returned", "raised"}
  \/ call[c].pc = "gate" /\ GoesOn(c, {"measure", "check", "enter", "size", "snapshot"})
  \/ call[c].pc = "measure" /\ GoesOn(c, {"size"})
  \/ call[c].pc = "check" /\ GoesOn(c, {"enter"})
  \/ call[c].pc = "enter" /\ GoesOn(c, {"remeasure"})
  \/ /\ call[c].pc = "enter" /\ GoesOn(c, {"write"})
     /\ call[c].tool \in Mutations /\ call[c].args # None /\ call'[c].todo = call[c].args
  \/ /\ call[c].pc = "write" /\ GoesOn(c, {"write"})
     /\ call[c].todo # <<>> /\ call'[c].todo = Tail(call[c].todo)
  \/ call[c].pc = "size" /\ GoesOn(c, {"replace"})
  \/ call[c].pc = "replace" /\ GoesOn(c, {"bump"})
  \/ call[c].pc \in {"write", "bump", "snapshot"} /\ GoesOn(c, {"remeasure", "record"})
  \/ call[c].pc = "remeasure" /\ GoesOn(c, {"record"})

LEMMA MutationPlaces ==
  ASSUME NEW tool \in Mutations
  PROVE  {"gate", "check", "enter", "write"} \subseteq PlacesOf(tool)
BY DEF PlacesOf, Mutations

LEMMA GotoGoesOn ==
  ASSUME CallsTyped, NEW c \in Calls, NEW p, p \in PlacesOf(call[c].tool), Goto(c, p)
  PROVE  GoesOn(c, {p})
BY DEF CallsTyped, Goto, GoesOn

LEMMA LeaveGoesOn ==
  ASSUME CallsTyped, NEW c \in Calls, OnItsWay(c), Leave(c)
  PROVE  call'[c].pc = "returned" \/ GoesOn(c, {"remeasure", "record"})
<1>. DEFINE p == AfterHandler(call[c].tool)
<1>1. CASE p = "return"
  BY <1>1, ReturnReturns DEF Leave
<1>2. CASE p # "return"
  <2>1. p \in {"remeasure", "record"} \cap PlacesOf(call[c].tool)
    BY <1>2 DEF AfterHandler, OnItsWay, PlacesOf, Tools, Mutations
  <2>2. Goto(c, p)
    BY <1>2 DEF Leave
  <2>. HIDE DEF p
  <2>3. GoesOn(c, {p})
    BY <2>1, <2>2, GotoGoesOn
  <2>. QED  BY <2>1, <2>3 DEF GoesOn
<1>. QED  BY <1>1, <1>2

\* A call never goes back.
LEMMA CallsGoAhead ==
  ASSUME CallsTyped, NEW c \in Calls, OnItsWay(c), CallStep(c)
  PROVE  StepAhead(c)
<1>1. PICK x : x = call[c]
  OBVIOUS
<1>2. /\ x \in CallRecord /\ x.tool \in Tools /\ x.pc \in PlacesOf(x.tool)
      /\ call \in [Calls -> CallRecord]
  BY <1>1 DEF CallsTyped, CallRecord, OnItsWay
<1>3. CASE \/ RejectReset(c) \/ RejectFinal(c) \/ RejectSerialize(c) \/ RejectNoop(c)
           \/ RecordError(c) \/ RecordAdd(c) \/ RecordRemove(c) \/ RecordReset(c)
           \/ RecordSerialize(c)
  BY <1>3, ReturnReturns DEF RejectReset, RejectFinal, RejectSerialize, RejectNoop,
     RecordError, RecordAdd, RecordRemove, RecordReset, RecordSerialize, StepAhead
<1>4. CASE PassThrough(c)
  <2>1. HandlerOf(x.tool) \in {"enter", "size", "snapshot"} \cap PlacesOf(x.tool)
    BY <1>2 DEF HandlerOf, PlacesOf, Tools, Mutations
  <2>2. GoesOn(c, {HandlerOf(x.tool)})
    BY <1>1, <1>4, <2>1, GotoGoesOn DEF PassThrough
  <2>. QED  BY <1>4, <2>1, <2>2 DEF PassThrough, GoesOn, StepAhead
<1>5. CASE AdmitList(c) \/ AdmitReset(c)
  <2>1. /\ AdmitList(c) => "snapshot" \in PlacesOf(x.tool)
        /\ AdmitReset(c) => "measure" \in PlacesOf(x.tool)
    BY <1>1 DEF AdmitList, AdmitReset, At, PlacesOf, Mutations
  <2>2. GoesOn(c, {"snapshot"}) \/ GoesOn(c, {"measure"})
    BY <1>1, <1>5, <2>1, GotoGoesOn DEF AdmitList, AdmitReset
  <2>. QED  BY <1>5, <2>2 DEF AdmitList, AdmitReset, At, GoesOn, StepAhead
<1>6. CASE AdmitSerialize(c)
  <2>1. call'[c] = [call[c] EXCEPT !.pc = "snapshot", !.seen = revision]
    BY <1>2, <1>6 DEF AdmitSerialize
  <2>2. "snapshot" \in PlacesOf(x.tool) /\ x.pc = "gate"
    BY <1>1, <1>6 DEF AdmitSerialize, At, PlacesOf, Mutations
  <2>3. GoesOn(c, {"snapshot"})
    BY <1>1, <1>2, <2>1, <2>2 DEF GoesOn, CallRecord
  <2>. QED  BY <1>1, <2>2, <2>3 DEF GoesOn, StepAhead
<1>7. CASE Measure(c)
  <2>1. CASE At(c, "gate", Mutations) /\ call' = [call EXCEPT ![c].pc = "check", ![c].before = Cardinality(graph)]
    <3>1. call'[c] = [call[c] EXCEPT !.pc = "check", !.before = Cardinality(graph)]
      BY <1>2, <2>1
    <3>2. "check" \in PlacesOf(x.tool) /\ x.pc = "gate"
      BY <1>1, <2>1, MutationPlaces DEF At
    <3>3. GoesOn(c, {"check"})
      BY <1>1, <1>2, <3>1, <3>2 DEF GoesOn, CallRecord
    <3>. QED  BY <1>1, <3>2, <3>3 DEF GoesOn, StepAhead
  <2>2. CASE At(c, "measure", {"reset_dataset"}) /\ call' = [call EXCEPT ![c].pc = "size", ![c].before = Cardinality(graph)]
    <3>1. call'[c] = [call[c] EXCEPT !.pc = "size", !.before = Cardinality(graph)]
      BY <1>2, <2>2
    <3>2. "size" \in PlacesOf(x.tool) /\ x.pc = "measure"
      BY <1>1, <2>2 DEF At, PlacesOf, Mutations
    <3>3. GoesOn(c, {"size"})
      BY <1>1, <1>2, <3>1, <3>2 DEF GoesOn, CallRecord
    <3>. QED  BY <1>1, <3>2, <3>3 DEF StepAhead
  <2>. QED  BY <1>7, <2>1, <2>2 DEF Measure
<1>8. CASE AdmitMutation(c)
  <2>1. "enter" \in PlacesOf(x.tool) /\ x.pc = "check"
    BY <1>1, <1>8, MutationPlaces DEF AdmitMutation, At
  <2>2. GoesOn(c, {"enter"})
    BY <1>1, <1>8, <2>1, GotoGoesOn DEF AdmitMutation
  <2>. QED  BY <1>1, <2>1, <2>2 DEF StepAhead
<1>9. CASE Enter(c)
  <2>1. call'[c] = [call[c] EXCEPT !.pc = "write", !.todo = call[c].args]
    BY <1>2, <1>9 DEF Enter
  <2>2. "write" \in PlacesOf(x.tool) /\ x.pc = "enter" /\ x.tool \in Mutations /\ x.args # None
    BY <1>1, <1>9, MutationPlaces DEF Enter, At
  <2>3. GoesOn(c, {"write"}) /\ call'[c].todo = call[c].args
    BY <1>1, <1>2, <2>1, <2>2 DEF GoesOn, CallRecord
  <2>. QED  BY <1>1, <2>2, <2>3 DEF StepAhead
<1>10. CASE WriteTriple(c)
  <2>1. call'[c] = [call[c] EXCEPT !.todo = Tail(call[c].todo)]
    BY <1>2, <1>10 DEF WriteTriple
  <2>2. x.pc = "write" /\ "write" \in PlacesOf(x.tool) /\ x.todo # <<>>
    BY <1>1, <1>10, MutationPlaces DEF WriteTriple, At
  <2>3. GoesOn(c, {"write"}) /\ call'[c].todo = Tail(call[c].todo)
    BY <1>1, <1>2, <2>1, <2>2 DEF GoesOn, CallRecord
  <2>. QED  BY <1>1, <2>2, <2>3 DEF StepAhead
<1>11. CASE Exit(c) \/ ResetBump(c) \/ Snapshot(c)
  BY <1>11, LeaveGoesOn DEF Exit, ResetBump, Snapshot, At, StepAhead
<1>12. CASE ResetSize(c)
  <2>1. call'[c] = [call[c] EXCEPT !.pc = "replace", !.seen = Cardinality(graph)]
    BY <1>2, <1>12 DEF ResetSize
  <2>2. "replace" \in PlacesOf(x.tool) /\ x.pc = "size"
    BY <1>1, <1>12 DEF ResetSize, At, PlacesOf, Mutations
  <2>3. GoesOn(c, {"replace"})
    BY <1>1, <1>2, <2>1, <2>2 DEF GoesOn, CallRecord
  <2>. QED  BY <1>1, <2>2, <2>3 DEF StepAhead
<1>13. CASE Replace(c)
  <2>1. "bump" \in PlacesOf(x.tool) /\ x.pc = "replace"
    BY <1>1, <1>13 DEF Replace, At, PlacesOf, Mutations
  <2>2. GoesOn(c, {"bump"})
    BY <1>1, <1>13, <2>1, GotoGoesOn DEF Replace
  <2>. QED  BY <1>1, <2>1, <2>2 DEF StepAhead
<1>14. CASE Remeasure(c)
  <2>1. call'[c] = [call[c] EXCEPT !.pc = "record", !.after = Cardinality(graph)]
    BY <1>2, <1>14 DEF Remeasure
  <2>2. "record" \in PlacesOf(x.tool) /\ x.pc = "remeasure"
    BY <1>1, <1>14 DEF Remeasure, At, PlacesOf, Mutations
  <2>3. GoesOn(c, {"record"})
    BY <1>1, <1>2, <2>1, <2>2 DEF GoesOn, CallRecord
  <2>. QED  BY <1>1, <2>2, <2>3 DEF StepAhead
<1>15. CASE WhitelistViolation(c)
  <2>1. Return(c) \/ Raise(c)
    BY <1>15 DEF WhitelistViolation
  <2>2. Raise(c) => call'[c].pc = "raised"
    BY RaisedTyped DEF Raise, Raised, CallsTyped
  <2>. QED  BY <2>1, <2>2, ReturnReturns DEF StepAhead
<1>16. CASE RefuseArguments(c)
  <2>1. CASE call[c].tool \in Mutations
    <3>1. /\ call[c].pc = "enter"
          /\ AfterHandler(call[c].tool) \in {"return", "remeasure"}
          /\ "remeasure" \in PlacesOf(call[c].tool)
      BY <1>16, <2>1 DEF RefuseArguments, At, AfterHandler, PlacesOf, Mutations
    <3>2. Return(c) \/ Goto(c, "remeasure")
      BY <1>16, <3>1 DEF RefuseArguments, Leave
    <3>3. Goto(c, "remeasure") => GoesOn(c, {"remeasure"})
      BY <3>1, GotoGoesOn
    <3>. QED  BY <3>1, <3>2, <3>3, ReturnReturns DEF StepAhead
  <2>2. CASE call[c].tool \notin Mutations
    BY <1>16, <2>2, LeaveGoesOn DEF RefuseArguments, At, StepAhead
  <2>. QED  BY <2>1, <2>2
<1>. QED  BY <1>15, <1>16, <1>3, <1>4, <1>5, <1>6, <1>7, <1>8, <1>9, <1>10, <1>11, <1>12, <1>13, <1>14
             DEF CallStep

\* The bound is a number: a batch is finite.
LEMMA StepsLeftTyped ==
  ASSUME CallsTyped, NEW c \in Calls
  PROVE  /\ Ahead(call[c].pc) \in 0 .. 7 /\ TriplesLeft(c) \in Nat /\ StepsLeft(c) \in Nat
         /\ Active(c) => StepsLeft(c) > 0
<1>1. call[c].pc \in Places /\ call[c].todo \in Seq(Triples)
      /\ (call[c].tool \in Mutations => call[c].args \in Seq(Triples) \cup {None})
  BY DatasetAssumption DEF CallsTyped
<1>2. Ahead(call[c].pc) \in 0 .. 7 /\ (Active(c) => Ahead(call[c].pc) > 0)
  BY <1>1 DEF Ahead, Over, Places, Active
<1>3. TriplesLeft(c) \in Nat
  BY <1>1 DEF TriplesLeft
<1>. QED  BY <1>2, <1>3 DEF StepsLeft

LEMMA GoingAheadLowers ==
  ASSUME CallsTyped, CallsTyped', NEW c \in Calls, Active(c), OnItsWay(c), StepAhead(c)
  PROVE  StepsLeft(c)' < StepsLeft(c) /\ (Active(c)' => OnItsWay(c)')
<1>1. PICK x, y : x = call[c] /\ y = call'[c]
  OBVIOUS
<1>2. /\ x.tool \in Tools /\ x.pc \in PlacesOf(x.tool) /\ x.todo \in Seq(Triples)
      /\ (x.tool \in Mutations => x.args \in Seq(Triples) \cup {None})
  BY <1>1, DatasetAssumption DEF CallsTyped, OnItsWay
<1>3. TriplesLeft(c) \in Nat /\ StepsLeft(c) \in Nat /\ StepsLeft(c) > 0 /\ TriplesLeft(c)' \in Nat
  <2>1. y.todo \in Seq(Triples) /\ (y.tool \in Mutations => y.args \in Seq(Triples) \cup {None})
    BY <1>1, DatasetAssumption DEF CallsTyped
  <2>2. TriplesLeft(c)' \in Nat
    BY <1>1, <2>1 DEF TriplesLeft
  <2>. QED  BY <2>2, StepsLeftTyped
<1>4. CASE y.pc \in {"returned", "raised"}
  <2>1. TriplesLeft(c)' = 0
    BY <1>1, <1>4 DEF TriplesLeft
  <2>2. Ahead(call[c].pc)' = 0
    BY <1>1, <1>4 DEF Ahead, Over
  <2>3. StepsLeft(c)' = 0
    BY <2>1, <2>2 DEF StepsLeft
  <2>. QED  BY <1>1, <1>3, <1>4, <2>3 DEF Active, Over
<1>5. ASSUME NEW places, GoesOn(c, places)
      PROVE  OnItsWay(c)' /\ y.pc \in places /\ y.tool = x.tool /\ y.args = x.args
  BY <1>1, <1>2, <1>5 DEF GoesOn, OnItsWay
<1>6. ASSUME Ahead(y.pc) < Ahead(x.pc), TriplesLeft(c)' <= TriplesLeft(c),
             Ahead(y.pc) \in Nat, Ahead(x.pc) \in Nat
      PROVE  StepsLeft(c)' < StepsLeft(c)
  BY <1>1, <1>3, <1>6 DEF StepsLeft
<1>7. CASE x.pc \in {"gate", "check"} /\ GoesOn(c, {"measure", "check", "enter", "size", "snapshot"})
           /\ Ahead(y.pc) < Ahead(x.pc)
  <2>1. y.pc \in {"measure", "check", "enter", "size", "snapshot"} /\ y.tool = x.tool /\ y.args = x.args
    BY <1>5, <1>7
  <2>2. Ahead(y.pc) \in Nat /\ Ahead(x.pc) \in Nat
    BY <1>7, <2>1 DEF Ahead, Over
  <2>3. TriplesLeft(c)' <= TriplesLeft(c)
    BY <1>1, <1>2, <1>7, <2>1 DEF TriplesLeft
  <2>. QED  BY <1>5, <1>6, <1>7, <2>2, <2>3
<1>8. CASE /\ x.pc = "enter" /\ GoesOn(c, {"write"}) /\ x.tool \in Mutations
           /\ x.args # None /\ y.todo = x.args
  <2>1. y.pc = "write" /\ y.tool = x.tool
    BY <1>5, <1>8
  <2>2. Ahead(y.pc) = 4 /\ Ahead(x.pc) = 5
    BY <1>8, <2>1 DEF Ahead, Over
  <2>3. TriplesLeft(c)' <= TriplesLeft(c)
    BY <1>1, <1>2, <1>8, <2>1 DEF TriplesLeft
  <2>. QED  BY <1>5, <1>6, <1>8, <2>2, <2>3
<1>9. CASE x.pc = "write" /\ GoesOn(c, {"write"}) /\ x.todo # <<>> /\ y.todo = Tail(x.todo)
  <2>1. y.pc = "write" /\ y.tool = x.tool
    BY <1>5, <1>9
  <2>2. x.tool \in Mutations
    BY <1>2, <1>9 DEF PlacesOf, Tools
  <2>3. Len(y.todo) = Len(x.todo) - 1 /\ Len(x.todo) \in Nat
    BY <1>2, <1>9
  <2>. QED  BY <1>1, <1>5, <1>9, <2>1, <2>2, <2>3 DEF StepsLeft, TriplesLeft, Ahead, Over
<1>10. CASE x.pc \notin {"gate", "check"} /\ Ahead(y.pc) < Ahead(x.pc)
            /\ GoesOn(c, {"size", "replace", "bump", "remeasure", "record"})
  <2>1. y.pc \in {"size", "replace", "bump", "remeasure", "record"}
    BY <1>5, <1>10
  <2>2. TriplesLeft(c)' = 0
    BY <1>1, <2>1 DEF TriplesLeft
  <2>3. Ahead(y.pc) \in Nat
    BY <2>1 DEF Ahead, Over
  <2>4. Ahead(x.pc) \in Nat
    BY <1>1, StepsLeftTyped
  <2>. QED  BY <1>3, <1>5, <1>6, <1>10, <2>2, <2>3, <2>4
<1>11. \/ x.pc = "gate" /\ GoesOn(c, {"measure", "check", "enter", "size", "snapshot"})
       \/ x.pc = "check" /\ GoesOn(c, {"enter"})
       => x.pc \in {"gate", "check"} /\ GoesOn(c, {"measure", "check", "enter", "size", "snapshot"})
           /\ Ahead(y.pc) < Ahead(x.pc)
  BY <1>1 DEF GoesOn, Ahead, Over
<1>12. \/ x.pc = "measure" /\ GoesOn(c, {"size"})
       \/ x.pc = "size" /\ GoesOn(c, {"replace"})
       \/ x.pc = "replace" /\ GoesOn(c, {"bump"})
       \/ x.pc \in {"write", "bump", "snapshot"} /\ GoesOn(c, {"remeasure", "record"})
       \/ x.pc = "enter" /\ GoesOn(c, {"remeasure"})
       \/ x.pc = "remeasure" /\ GoesOn(c, {"record"})
       => x.pc \notin {"gate", "check"} /\ Ahead(y.pc) < Ahead(x.pc)
            /\ GoesOn(c, {"size", "replace", "bump", "remeasure", "record"})
  BY <1>1 DEF GoesOn, Ahead, Over
<1>. QED  BY <1>1, <1>4, <1>7, <1>8, <1>9, <1>10, <1>11, <1>12 DEF StepAhead

\* Calls under way are where their tools take them.
WaysInv == \A c \in Calls : Active(c) => OnItsWay(c)

\* Call c has come nearer to its end, and the others have stayed where they were.
Advances(c) ==
  /\ StepsLeft(c)' < StepsLeft(c)
  /\ \A d \in Calls \ {c} : call'[d] = call[d]

LEMMA StepAdvances ==
  ASSUME CallsTyped, StateTyped, WaysInv, NEW c \in Calls, CallStep(c)
  PROVE  Advances(c) /\ WaysInv'
<1>1. /\ CallsTyped' /\ Active(c)
      /\ \A d \in Calls : d # c => call'[d] = call[d]
  BY StepsFacts DEF Active, Over
<1>2. OnItsWay(c)
  BY <1>1 DEF WaysInv
<1>3. StepsLeft(c)' < StepsLeft(c) /\ (Active(c)' => OnItsWay(c)')
  BY <1>1, <1>2, CallsGoAhead, GoingAheadLowers
<1>4. ASSUME NEW d \in Calls, d # c, Active(d)' PROVE OnItsWay(d)'
  <2>1. call'[d] = call[d]
    BY <1>1, <1>4
  <2>. QED  BY <1>4, <2>1 DEF WaysInv, Active, Over, OnItsWay
<1>. QED  BY <1>1, <1>3, <1>4 DEF Advances, WaysInv

\* All calls of a turn start at the gate.
LEMMA TurnStarts ==
  ASSUME ModelTurn PROVE WaysInv'
<1>1. PICK asked \in [Calls -> Requests \cup {None}] :
        call' = [c \in Calls |-> IF asked[c] = None THEN Idle
                                 ELSE [Idle EXCEPT !.pc = "gate", !.tool = asked[c].tool,
                                                   !.args = asked[c].args]]
  BY DEF ModelTurn
<1>2. ASSUME NEW c \in Calls PROVE Active(c)' => OnItsWay(c)'
  <2>1. CASE asked[c] = None
    <3>1. call'[c].pc = "idle"
      BY <1>1, <2>1 DEF Idle
    <3>. QED  BY <3>1 DEF Active, Over
  <2>2. CASE asked[c] # None
    <3>1. asked[c].tool \in Tools
      BY <2>2 DEF Requests, Tools
    <3>2. call'[c].pc = "gate" /\ call'[c].tool = asked[c].tool
      BY <1>1, <2>2 DEF Idle
    <3>3. "gate" \in PlacesOf(asked[c].tool)
      BY <3>1 DEF PlacesOf, Tools
    <3>. QED  BY <3>1, <3>2, <3>3 DEF OnItsWay
  <2>. QED  BY <2>1, <2>2
<1>. QED  BY <1>2 DEF WaysInv

LEMMA WaysInit == DatasetInit => WaysInv
BY AllIdle DEF DatasetInit, WaysInv, Active, Over

LEMMA WaysNext == DatasetInv /\ WaysInv /\ [DatasetNext]_dsVars => WaysInv'
<1>. SUFFICES ASSUME DatasetInv, WaysInv, [DatasetNext]_dsVars PROVE WaysInv'
  OBVIOUS
<1>1. CASE ModelTurn
  BY <1>1, TurnStarts
<1>2. CASE TurnEnds \/ TurnFails
  <2>1. \A c \in Calls : call'[c].pc = "idle"
    BY <1>2, TurnOverInv DEF BetweenTurns
  <2>. QED  BY <2>1 DEF WaysInv, Active, Over
<1>3. ASSUME NEW c \in Calls, CallStep(c) PROVE WaysInv'
  BY <1>3, StepAdvances DEF DatasetInv
<1>4. CASE GuardStops \/ UNCHANGED dsVars
  BY <1>4 DEF GuardStops, dsVars, WaysInv, Active, Over, OnItsWay
<1>. QED  BY <1>1, <1>2, <1>3, <1>4 DEF DatasetNext

LEMMA WaysInvariant == DatasetSpec => []WaysInv
BY WaysInit, WaysNext, DatasetInvariant, PTL DEF DatasetSpec

\* While calls of a turn are under way one of them can always take its next step: the
\* write lock is never held by a call that waits for it, or by one that was rejected, has
\* failed or has answered.
THEOREM TurnsNeverHang == DatasetSpec => [](TurnRuns => \E c \in Calls : Ready(c))
<1>1. DatasetInv /\ WaysInv => (TurnRuns => \E c \in Calls : Ready(c))
  <2>. SUFFICES ASSUME DatasetInv, WaysInv, NEW c \in Calls, Active(c)
                PROVE  \E d \in Calls : Ready(d)
    BY DEF TurnRuns
  <2>1. CASE writer = None
    BY <2>1 DEF Ready, Readable, WaysInv
  <2>2. CASE writer # None
    <3>1. writer \in Calls /\ call[writer].pc = "write"
      BY <2>2 DEF DatasetInv, StateTyped, LockInv
    <3>. QED  BY <3>1 DEF Ready, Active, Over, WaysInv
  <2>. QED  BY <2>1, <2>2
<1>. QED  BY <1>1, DatasetInvariant, WaysInvariant, PTL

\* While calls of a turn are under way nothing happens but that one of them comes nearer
\* to its end, by at most seven places and the triples of its batch in all, or that the
\* run is stopped, once; so no call goes on for ever, whatever the others do.
THEOREM CallsTakeBoundedlyManySteps ==
  DatasetSpec =>
    /\ [](\A c \in Calls : StepsLeft(c) \in Nat)
    /\ [][TurnRuns => \/ Policed /\ ~Policed' /\ UNCHANGED call
                      \/ \E c \in Calls : Advances(c)]_dsVars
<1>1. DatasetInv => \A c \in Calls : StepsLeft(c) \in Nat
  BY StepsLeftTyped DEF DatasetInv
<1>2. DatasetInv /\ WaysInv /\ [DatasetNext]_dsVars =>
        [TurnRuns => \/ Policed /\ ~Policed' /\ UNCHANGED call
                     \/ \E c \in Calls : Advances(c)]_dsVars
  <2>. SUFFICES ASSUME DatasetInv, WaysInv, DatasetNext, TurnRuns
                PROVE  \/ Policed /\ ~Policed' /\ UNCHANGED call
                       \/ \E c \in Calls : Advances(c)
    OBVIOUS
  <2>1. ~ModelTurn /\ ~TurnEnds /\ ~TurnFails
    BY DEF ModelTurn, TurnEnds, TurnFails, TurnOver, TurnRuns, Active, Over
  <2>2. CASE GuardStops
    BY <2>2 DEF GuardStops, Policed
  <2>3. ASSUME NEW c \in Calls, CallStep(c) PROVE Advances(c)
    BY <2>3, StepAdvances DEF DatasetInv
  <2>. QED  BY <2>1, <2>2, <2>3 DEF DatasetNext
<1>. QED  BY <1>1, <1>2, DatasetInvariant, WaysInvariant, PTL DEF DatasetSpec
=============================================================================
