-------------------------- MODULE ContinuationGuard --------------------------
(***************************************************************************)
(* The guard of a single run of an agent                                   *)
(* (middleware/continuation_guard_middleware.py, _message_heuristics.py).  *)
(*                                                                         *)
(* The agent alternates between a model call and the tool calls it asked   *)
(* for.  The guard runs before the model call, around it and after it.  It *)
(* repairs the transcript on its way to the provider, takes turns back     *)
(* that ask for a forbidden, malformed or just refused call, adds          *)
(* reminders, and ends the run.  Tools and the dataset behind them are     *)
(* seen through what they write to the transcript and to                   *)
(* continuation_mode (see DatasetMiddleware).                              *)
(*                                                                         *)
(* A message carries what the guard tests: who speaks, the calls asked     *)
(* for, the markers found in a text, the family of a reminder, the status  *)
(* of a tool result and the dataset version a serialization shows.         *)
(***************************************************************************)
EXTENDS Integers, SequencesExt

CONSTANTS
  Histories,    \* transcripts a run may start from
  Texts,        \* sets of markers of the texts the model may write
  Turns,        \* sequences of tools the model may ask for in one turn
  MaxMessages,  \* bound on the transcript a model call starts from
  MaxVersion,   \* bound on the changes of the dataset
  None

Tools == {"serialize_dataset", "add_triples"}
Markers == {"completed", "reuse", "preamble", "recovery", "plan", "plain"}
Modes == {"normal", "finalize_only", "stop_now"}
Reminders == {"recovery", "plan", "finalize", "transcript", "retry", "invalid"}

\* Ids are unique in a transcript: a number, and for a tool result the number of the
\* message that asked for it and the place of the call in it.
UserMessage == [id : Nat \X {0}, role : {"user"}, kind : Reminders \cup {"task"}]
AIMessage   == [id : Nat \X {0}, role : {"ai"}, tools : Seq(Tools), malformed : BOOLEAN,
                text : SUBSET Markers]
ToolMessage == [id : Nat \X (Nat \ {0}), role : {"tool"}, ok : BOOLEAN,
                shows : Nat \cup {None}]
Message == UserMessage \cup AIMessage \cup ToolMessage
IsTranscript(ms) ==
  /\ ms \in Seq(Message)
  /\ \A i, j \in DOMAIN ms : ms[i].id = ms[j].id => i = j

ASSUME GuardAssumption ==
  /\ \A ms \in Histories : IsTranscript(ms)
  /\ Texts \subseteq SUBSET Markers
  /\ Turns \subseteq Seq(Tools) /\ <<>> \notin Turns
  /\ MaxMessages \in Nat /\ MaxVersion \in Nat
  /\ None \notin Nat /\ None \notin Tools \cup Reminders

MaxForbiddenRounds == 5
MaxRejectedRounds  == 3

VARIABLES
  pc,         \* the hook or node the run is in
  messages,   \* the transcript in the state of the run
  mode,       \* continuation_mode
  rounds,     \* finalize_only_forbidden_tool_rounds
  rejected,   \* normal_mode_rejected_tool_signature (and _name)
  retries,    \* normal_mode_rejected_tool_rounds
  pending,    \* pending_tool_transcript_system_reminder
  version,    \* the dataset: how often it has changed,
  revision,   \* _dataset_revision: the changes its guard has been told of,
  serialized, \* and the revision that was last serialized, as the guard knows
  unseen,     \* history: a failed call has changed it since it was last serialized
  request,    \* history: the last call of the provider
  owed,       \* history: the reminder for which the guard called the model again
  recovered   \* history: the version shown by an answer the guard wrote, or None

trackVars == <<rejected, retries>>
dataVars  == <<version, revision, serialized, unseen>>
guardVars == <<pc, messages, mode, rounds, rejected, retries, pending, dataVars,
               request, owed, recovered>>

-----------------------------------------------------------------------------
(* Messages.                                                               *)

User(n, kind) == [id |-> <<n, 0>>, role |-> "user", kind |-> kind]
AI(n, tools, malformed, text) ==
  [id |-> <<n, 0>>, role |-> "ai", tools |-> tools, malformed |-> malformed,
   text |-> text]
ToolResult(call, ok, shows) == [id |-> call, role |-> "tool", ok |-> ok, shows |-> shows]

Fresh(ms) == 1 + Max({0} \cup {ms[i].id[1] : i \in DOMAIN ms})

EndsWith(ms, role) == ms # <<>> /\ Last(ms).role = role
CallsOf(m) ==
  IF m.role = "ai" THEN {<<m.id[1], k>> : k \in DOMAIN m.tools} ELSE {}
AsksForTools(m) == m.tools # <<>> \/ m.malformed

LastWhere(ms, Test(_)) == SelectLastInSeq(ms, Test)
LatestAI(ms) == LET IsAI(m) == m.role = "ai" IN LastWhere(ms, IsAI)

\* The messages between the two latest messages of the model.
Recent(ms) ==
  LET last == LatestAI(ms)
      prev == LatestAI(SubSeq(ms, 1, last - 1))
  IN IF last = 0 THEN {} ELSE {ms[i] : i \in (prev + 1) .. (last - 1)}
HasRecentReminder(ms, kind) ==
  \E m \in Recent(ms) : m.role = "user" /\ m.kind = kind
HasRecentError(ms) == \E m \in Recent(ms) : m.role = "tool" /\ ~m.ok
EndsWithReminder(ms, kind) == EndsWith(ms, "user") /\ Last(ms).kind = kind

\* The version shown by the last successful serialization, or None.
LastSerialization(ms) ==
  LET Shows(m) == m.role = "tool" /\ m.shows # None
      i == LastWhere(ms, Shows)
  IN IF i = 0 THEN None ELSE ms[i].shows

-----------------------------------------------------------------------------
(* Transcript repair.                                                      *)

\* A result nobody waits for: the calls open at that place are those of the last
\* message that is not a result, without the ones answered since.
AskedBefore(ms, j) == Max({0} \cup {a \in 1 .. j - 1 : ms[a].role # "tool"})
Orphan(ms, j) ==
  LET a == AskedBefore(ms, j)
  IN /\ ms[j].role = "tool"
     /\ \/ a = 0
        \/ ms[j].id \notin CallsOf(ms[a])
        \/ \E k \in a + 1 .. j - 1 : ms[k].id = ms[j].id

\* A message whose calls have no results when the next message, or the end, comes.
NextMessage(ms, a) ==
  Min({Len(ms) + 1} \cup {j \in a + 1 .. Len(ms) : ms[j].role # "tool"})
Unresolved(ms, a) ==
  ~(CallsOf(ms[a]) \subseteq {ms[k].id : k \in a + 1 .. NextMessage(ms, a) - 1})

\* The loop of the repair takes one such message out at a time, and then the results
\* of a removed request; what is left does not depend on the order.
Kept(ms, i) ==
  IF ms[i].role = "tool"
  THEN ~Orphan(ms, i) /\ ~Unresolved(ms, AskedBefore(ms, i))
  ELSE ~Unresolved(ms, i)
Sound(ms) == \A i \in DOMAIN ms : Kept(ms, i)

\* The messages whose ids are not among those of the removed ones.
Without(ms, ids) ==
  LET rest[n \in 0 .. Len(ms)] ==
        IF n = 0 THEN <<>>
        ELSE IF ms[n].id \in ids THEN rest[n - 1] ELSE Append(rest[n - 1], ms[n])
  IN rest[Len(ms)]

\* (Mutant of Repaired: the results of a removed request stay.)
RepairedRequests(ms) ==
  Without(ms, {ms[i].id : i \in {j \in DOMAIN ms : ms[j].role # "tool" /\ ~Kept(ms, j)}})

Repaired(ms) == Without(ms, {ms[i].id : i \in {j \in DOMAIN ms : ~Kept(ms, j)}})

\* _repair_tool_transcript_messages: the repaired messages, and a reminder as the
\* last message, or for the system prompt when a tool result is the last message.
Repair(ms) ==
  LET clean  == Repaired(ms)
      family == IF mode = "finalize_only" THEN "finalize" ELSE "transcript"
      wanted == /\ clean # ms
                /\ ~EndsWithReminder(clean, family)
                /\ ~HasRecentReminder(clean, family)
      defer  == wanted /\ EndsWith(clean, "tool")
  IN [messages |-> IF wanted /\ ~defer THEN Append(clean, User(Fresh(ms), family))
                   ELSE clean,
      reminder |-> IF wanted THEN family ELSE None,
      system   |-> IF defer THEN family ELSE None]

-----------------------------------------------------------------------------
GuardInit ==
  /\ pc = "before_model"
  /\ messages \in Histories
  /\ mode \in Modes
  /\ version = 0 /\ revision = 0 /\ unseen = FALSE
  /\ serialized \in {None, 0}
  /\ mode = "finalize_only" => serialized = 0
  /\ LastSerialization(messages) \in {None, 0}
  /\ rounds = 0 /\ rejected = None /\ retries = 0 /\ pending = None
  /\ request = [messages |-> <<>>, system |-> {}]
  /\ owed = None /\ recovered = None

\* (Mutant of Forget: the call stays.)
ForgetCount == UNCHANGED rejected /\ retries' = 0
Forget == rejected' = None /\ retries' = 0
StopRun == mode' = "stop_now" /\ pc' = "end"

-----------------------------------------------------------------------------
(* before_model.                                                           *)

\* The state of the mode the run is not in is reset.
ClearInactive ==
  /\ rounds' = IF mode = "finalize_only" THEN rounds ELSE 0
  /\ IF mode = "normal" THEN UNCHANGED trackVars ELSE Forget

BeforeModelStops ==
  /\ pc = "before_model" /\ mode = "stop_now"
  /\ pc' = "end" /\ pending' = None
  /\ UNCHANGED <<messages, mode, rounds, trackVars, dataVars, request, owed, recovered>>

\* Removals are left to wrap_model_call; the reminder is handed on as pending.
BeforeModelRepairs ==
  /\ pc = "before_model" /\ mode # "stop_now"
  /\ Repair(messages).reminder # None
  /\ pending' = Repair(messages).reminder
  /\ ClearInactive
  /\ pc' = "model" /\ owed' = None
  /\ UNCHANGED <<messages, mode, dataVars, request, recovered>>

BeforeModelPasses ==
  /\ pc = "before_model" /\ mode = "normal"
  /\ Repair(messages).reminder = None
  /\ ClearInactive
  /\ pc' = "model" /\ pending' = None /\ owed' = None
  /\ UNCHANGED <<messages, mode, dataVars, request, recovered>>

BeforeModelFinalizes ==
  /\ pc = "before_model" /\ mode = "finalize_only"
  /\ Repair(messages).reminder = None
  /\ messages' =
       IF \/ EndsWithReminder(messages, "finalize")
          \/ HasRecentReminder(messages, "finalize")
          \/ EndsWith(messages, "tool")
       THEN messages
       ELSE Append(messages, User(Fresh(messages), "finalize"))
  /\ pc' = "model" /\ pending' = None /\ owed' = None
  /\ UNCHANGED <<mode, rounds, trackVars, dataVars, request, recovered>>

-----------------------------------------------------------------------------
(* wrap_model_call and the answer of the provider.                         *)

\* (Mutant of SystemReminders: a pending reminder only with a repaired transcript.)
SystemRemindersOfRepair(repair) ==
  {repair.system,
   IF mode = "finalize_only" /\ EndsWith(repair.messages, "tool") THEN "finalize" ELSE None,
   IF repair.reminder # None THEN pending ELSE None} \ {None}

SystemReminders(repair) ==
  {repair.system,
   IF mode = "finalize_only" /\ EndsWith(repair.messages, "tool") THEN "finalize" ELSE None,
   IF repair.system = None THEN pending ELSE None} \ {None}

CallModel ==
  /\ pc = "model" /\ Len(messages) < MaxMessages
  /\ LET repair == Repair(messages)
     IN request' = [messages |-> repair.messages, system |-> SystemReminders(repair)]
  /\ \/ \E text \in Texts :
          messages' = Append(messages, AI(Fresh(messages), <<>>, FALSE, text))
     \/ \E tools \in Turns \cup {<<>>}, malformed \in BOOLEAN :
          /\ tools # <<>> \/ malformed
          /\ messages' = Append(messages, AI(Fresh(messages), tools, malformed, {"plain"}))
  /\ pc' = "after_model" /\ pending' = None
  /\ UNCHANGED <<mode, rounds, trackVars, dataVars, owed, recovered>>

-----------------------------------------------------------------------------
(* after_model.                                                            *)

\* The latest message of the model is the last message here.
Reply == Last(messages)
TakenBack == Front(messages)
ToolResultBefore == EndsWith(TakenBack, "tool")

\* The model is called again at once, with the reminder as the last message,
Reprompt(kept, kind) ==
  /\ messages' = Append(kept, User(Fresh(kept), kind))
  /\ owed' = kind /\ pending' = None /\ pc' = "model"

\* or, for a turn taken back, with it in the system prompt if it would follow a tool
\* result, and without it if the transcript has it already.
RepromptRetry(kind) ==
  /\ IF HasRecentReminder(messages, kind)
     THEN messages' = TakenBack /\ pending' = None
     ELSE IF ToolResultBefore
          THEN messages' = TakenBack /\ pending' = kind
          ELSE messages' = Append(TakenBack, User(Fresh(TakenBack), kind)) /\ pending' = None
  /\ owed' = kind /\ pc' = "model"

Answer(kept) ==
  /\ messages' = Append(kept, AI(Fresh(kept), <<>>, FALSE, {"completed"}))
  /\ recovered' = LastSerialization(messages)
  /\ StopRun /\ rounds' = 0 /\ Forget /\ pending' = None /\ owed' = None

\* A tool call in finalize_only is answered for the model,
RecoverFromForbiddenCall ==
  /\ pc = "after_model" /\ mode = "finalize_only" /\ AsksForTools(Reply)
  /\ LastSerialization(messages) # None
  /\ Answer(TakenBack)
  /\ UNCHANGED <<dataVars, request>>

\* (Mutant of RefuseForbiddenCall: one turn too many.)
RefuseForbiddenCallLate ==
  /\ pc = "after_model" /\ mode = "finalize_only" /\ AsksForTools(Reply)
  /\ LastSerialization(messages) = None
  /\ rounds < MaxForbiddenRounds
  /\ rounds' = rounds + 1
  /\ IF ToolResultBefore
     THEN messages' = TakenBack /\ owed' = "finalize" /\ pending' = None /\ pc' = "model"
     ELSE Reprompt(TakenBack, "finalize")
  /\ Forget
  /\ UNCHANGED <<mode, dataVars, request, recovered>>

\* taken back so many times,
RefuseForbiddenCall ==
  /\ pc = "after_model" /\ mode = "finalize_only" /\ AsksForTools(Reply)
  /\ LastSerialization(messages) = None
  /\ rounds + 1 < MaxForbiddenRounds
  /\ rounds' = rounds + 1
  /\ IF ToolResultBefore
     THEN messages' = TakenBack /\ owed' = "finalize" /\ pending' = None /\ pc' = "model"
     ELSE Reprompt(TakenBack, "finalize")
  /\ Forget
  /\ UNCHANGED <<mode, dataVars, request, recovered>>

\* and then ends the run.
BreakForbiddenCalls ==
  /\ pc = "after_model" /\ mode = "finalize_only" /\ AsksForTools(Reply)
  /\ LastSerialization(messages) = None
  /\ rounds + 1 >= MaxForbiddenRounds
  /\ messages' = TakenBack
  /\ StopRun /\ rounds' = 0 /\ pending' = None /\ owed' = None
  /\ UNCHANGED <<trackVars, dataVars, request, recovered>>

InvalidToolCall ==
  /\ pc = "after_model" /\ mode # "finalize_only" /\ Reply.malformed
  /\ RepromptRetry("invalid")
  /\ Forget
  /\ UNCHANGED <<mode, rounds, dataVars, request, recovered>>

\* A tool call like the one that failed last is taken back so many times,
FailedIn(ms) ==
  LET IsResult(m) == m.role = "tool"
      last  == LastWhere(ms, IsResult)
      asked == {i \in DOMAIN ms : last # 0 /\ ms[last].id \in CallsOf(ms[i])}
  IN IF last = 0 \/ asked = {} THEN None
     ELSE IF ms[last].ok THEN None
     ELSE LET i == CHOOSE j \in asked : TRUE IN ms[i].tools[ms[last].id[2]]
FailedTool == FailedIn(messages)

Repeats == Len(Reply.tools) = 1 /\ Reply.tools[1] = FailedTool

\* (Mutant of RetryRound: the count starts again with every retry.)
RetryRoundForgetful == 1

RetryRound == IF rejected = Reply.tools[1] THEN retries + 1 ELSE 1

AsksInNormal ==
  pc = "after_model" /\ mode = "normal" /\ ~Reply.malformed /\ Reply.tools # <<>>

RefuseRetry ==
  /\ AsksInNormal /\ Repeats /\ RetryRound < MaxRejectedRounds
  /\ RepromptRetry("retry")
  /\ rejected' = Reply.tools[1] /\ retries' = RetryRound
  /\ UNCHANGED <<mode, rounds, dataVars, request, recovered>>

\* and then ends the run.
BreakRetries ==
  /\ AsksInNormal /\ Repeats /\ RetryRound >= MaxRejectedRounds
  /\ messages' = TakenBack
  /\ StopRun /\ Forget /\ pending' = None /\ owed' = None
  /\ UNCHANGED <<rounds, dataVars, request, recovered>>

AllowTools ==
  /\ AsksInNormal /\ ~Repeats
  /\ Forget
  /\ pc' = "tools" /\ pending' = None /\ owed' = None
  /\ UNCHANGED <<messages, mode, rounds, dataVars, request, recovered>>

Writes == pc = "after_model" /\ ~AsksForTools(Reply)

\* Without tool calls and without a jump, the run is over.
Over == Forget /\ pc' = "end" /\ pending' = None /\ owed' = None

EmptyText ==
  /\ Writes /\ Reply.text = {}
  /\ Over
  /\ UNCHANGED <<messages, mode, rounds, dataVars, request, recovered>>

FinalAnswer ==
  /\ Writes /\ mode = "finalize_only" /\ "completed" \in Reply.text
  /\ StopRun /\ rounds' = 0 /\ pending' = None /\ owed' = None
  /\ UNCHANGED <<messages, trackVars, dataVars, request, recovered>>

Reuses == "reuse" \in Reply.text /\ LastSerialization(messages) # None

ReuseSerialization ==
  /\ Writes /\ mode = "finalize_only" /\ "completed" \notin Reply.text /\ Reuses
  /\ Answer(messages)
  /\ UNCHANGED <<dataVars, request>>

InsistOnAnswer ==
  /\ Writes /\ mode = "finalize_only" /\ Reply.text # {}
  /\ "completed" \notin Reply.text /\ ~Reuses
  /\ Reprompt(messages, "finalize")
  /\ Forget
  /\ UNCHANGED <<mode, rounds, dataVars, request, recovered>>

WritesInNormal == Writes /\ mode = "normal" /\ Reply.text # {}

\* (Mutant of AfterSerialization: any serialization of the run is good enough.)
AfterAnySerialization ==
  "preamble" \in Reply.text /\ LastSerialization(messages) # None

AfterSerialization ==
  /\ "preamble" \in Reply.text
  /\ ToolResultBefore /\ Last(TakenBack).ok /\ Last(TakenBack).shows # None

AnswerForPreamble ==
  /\ WritesInNormal /\ AfterSerialization
  /\ Answer(messages)
  /\ UNCHANGED <<dataVars, request>>

\* What a text other than a completed answer makes the guard ask for, if anything.
Nudge ==
  CASE "completed" \in Reply.text -> None
    [] "completed" \notin Reply.text /\ "recovery" \in Reply.text ->
         IF HasRecentError(messages) /\ ~HasRecentReminder(messages, "recovery")
         THEN "recovery" ELSE None
    [] Reply.text \cap {"completed", "recovery", "plan"} = {"plan"} ->
         IF HasRecentReminder(messages, "finalize") THEN None
         ELSE IF HasRecentReminder(messages, "plan") THEN "finalize" ELSE "plan"
    [] OTHER -> None

NudgeOn ==
  /\ WritesInNormal /\ ~AfterSerialization /\ Nudge # None
  /\ Reprompt(messages, Nudge)
  /\ Forget
  /\ UNCHANGED <<mode, rounds, dataVars, request, recovered>>

LetEnd ==
  /\ WritesInNormal /\ ~AfterSerialization /\ Nudge = None
  /\ Over
  /\ UNCHANGED <<messages, mode, rounds, dataVars, request, recovered>>

-----------------------------------------------------------------------------
(* The tool calls of a turn.  The dataset tools reject a serialization     *)
(* that would show what the last one showed, as far as their guard has     *)
(* been told, and thereby ask for a final answer; the calls of a turn run  *)
(* in any order, and their results are written in the order of the calls.  *)

Outcome(ok, shows, data) == [ok |-> ok, shows |-> shows, data |-> data]

\* A call may fail after it has changed the dataset (a term that the whitelist rejects,
\* behind others that it takes): the guard of the dataset is then told nothing.
Outcomes(tool, data) ==
  IF tool = "serialize_dataset"
  THEN IF data.serialized = data.revision
       THEN {Outcome(FALSE, None, [data EXCEPT !.finals = @ + 1])}
       ELSE {Outcome(TRUE, data.version,
                     [data EXCEPT !.serialized = data.revision, !.unseen = FALSE])}
  ELSE {Outcome(FALSE, None, data), Outcome(TRUE, None, data)}
         \cup IF data.version = MaxVersion THEN {}
              ELSE {Outcome(FALSE, None, [data EXCEPT !.version = @ + 1, !.unseen = TRUE]),
                    Outcome(TRUE, None, [data EXCEPT !.version = @ + 1, !.revision = @ + 1,
                                                     !.serialized = None])}

\* What the calls of the reply may come to, made one after the other: the data (with
\* the number of answers that update continuation_mode) and, by call, the outcome.
After(tools, x, i) ==
  {[data |-> o.data, outcome |-> [x.outcome EXCEPT ![i] = o]] : o \in Outcomes(tools[i], x.data)}
Executions(tools, order) ==
  LET start == [data    |-> [version |-> version, revision |-> revision,
                             serialized |-> serialized, unseen |-> unseen, finals |-> 0],
                outcome |-> tools]
      made[n \in 0 .. Len(tools)] ==
        IF n = 0 THEN {start} ELSE UNION {After(tools, x, order[n]) : x \in made[n - 1]}
  IN made[Len(tools)]

ResultsOf(x) ==
  [i \in DOMAIN x.outcome |->
     ToolResult(<<Reply.id[1], i>>, x.outcome[i].ok, x.outcome[i].shows)]

\* What is left in the dataset.
Leaves(data) ==
  /\ version' = data.version /\ revision' = data.revision
  /\ serialized' = data.serialized /\ unseen' = data.unseen

RunTools ==
  /\ pc = "tools"
  /\ \E order \in Bijection(DOMAIN Reply.tools, DOMAIN Reply.tools) :
       \E x \in Executions(Reply.tools, order) :
         /\ x.data.finals <= 1
         /\ messages' = messages \o ResultsOf(x)
         /\ Leaves(x.data)
         /\ mode' = IF x.data.finals = 1 THEN "finalize_only" ELSE mode
  /\ pc' = "before_model" /\ pending' = None
  /\ UNCHANGED <<rounds, trackVars, request, owed, recovered>>

TakenUp ==
  /\ messages' = Append(messages, User(Fresh(messages), "task"))
  /\ pc' = "before_model" /\ pending' = None
  /\ UNCHANGED <<mode, rounds, trackVars, request, owed, recovered>>

\* continuation_mode takes one update in a step: with two the step is refused and ends
\* the run; what it did to the dataset stays.  The user takes it up again with a message.
TurnRefused ==
  /\ pc = "tools"
  /\ \E order \in Bijection(DOMAIN Reply.tools, DOMAIN Reply.tools) :
       \E x \in Executions(Reply.tools, order) : x.data.finals > 1 /\ Leaves(x.data)
  /\ TakenUp

\* So he may when the run is interrupted among the tool calls, which may or may not
\* have had their effect on the dataset.
Interrupted ==
  /\ pc = "tools" /\ Sound(TakenBack)
  /\ \/ UNCHANGED dataVars
     \/ \E x \in Executions(Reply.tools, [i \in DOMAIN Reply.tools |-> i]) : Leaves(x.data)
  /\ TakenUp

-----------------------------------------------------------------------------
BeforeModel ==
  BeforeModelStops \/ BeforeModelRepairs \/ BeforeModelPasses \/ BeforeModelFinalizes
AfterModel ==
  \/ RecoverFromForbiddenCall \/ RefuseForbiddenCall \/ BreakForbiddenCalls
  \/ InvalidToolCall \/ RefuseRetry \/ BreakRetries \/ AllowTools
  \/ EmptyText \/ FinalAnswer \/ ReuseSerialization \/ InsistOnAnswer
  \/ AnswerForPreamble \/ NudgeOn \/ LetEnd

GuardNext ==
  BeforeModel \/ CallModel \/ AfterModel \/ RunTools \/ TurnRefused \/ Interrupted

GuardSpec == GuardInit /\ [][GuardNext]_guardVars

\* The agent loop goes on until the run ends: the provider answers and tools return.
\* Every step moves pc, so a step of the run is a step that moves it.
Advance ==
  /\ pc # "end" /\ (pc = "model" => Len(messages) < MaxMessages)
  /\ pc' \in {"before_model", "model", "after_model", "tools", "end"} \ {pc}
FairGuardSpec == GuardSpec /\ WF_pc(Advance)

-----------------------------------------------------------------------------
\* The fields of the guard's state keep their types, the counters stay below the
\* limits of the circuit breakers.
GuardTypeOK ==
  /\ pc \in {"before_model", "model", "after_model", "tools", "end"}
  /\ IsTranscript(messages)
  /\ mode \in Modes
  /\ rounds \in 0 .. MaxForbiddenRounds - 1
  /\ rejected \in Tools \cup {None} /\ retries \in 0 .. MaxRejectedRounds - 1
  /\ {pending, owed} \subseteq Reminders \cup {None}
  /\ version \in Nat /\ revision \in Nat /\ unseen \in BOOLEAN
  /\ {serialized, recovered} \subseteq Nat \cup {None}

\* A reminder of the guard never stands directly after a tool result in what the
\* provider gets, which OpenAI-compatible providers refuse.
NoReminderAfterTool ==
  \A i \in 1 .. Len(request.messages) - 1 :
    ~(/\ request.messages[i].role = "tool"
      /\ request.messages[i + 1].role = "user"
      /\ request.messages[i + 1].kind # "task")

\* Whatever the transcript went through (an interrupted turn, a lost request, turns
\* taken back), the provider only ever gets calls paired with their results; and as
\* long as the stored transcript itself is in order, no reminder follows a result.
ProviderSafe ==
  /\ Sound(request.messages)
  /\ pc = "after_model" /\ Sound(TakenBack) => NoReminderAfterTool

\* Every model call that the guard asked for carries the reminder it was asked for,
\* after the last message of the model or in the system prompt, though the reminder
\* may be written by one hook, held back by a second and added by a third.
GuidanceDelivered ==
  pc = "after_model" /\ owed # None /\ Sound(TakenBack) =>
    \/ owed \in request.system
    \/ \E i \in (LatestAI(request.messages) + 1) .. Len(request.messages) :
         request.messages[i].role = "user" /\ request.messages[i].kind = owed

\* The call that is being counted is the one whose result stands last in the
\* transcript, and it failed: nothing ran since it was refused.
RetriesAreOfTheFailedCall ==
  /\ (rejected = None) <=> (retries = 0)
  /\ rejected # None => rejected = FailedTool

\* An answer that the guard writes in place of the model shows the dataset as it is,
\* if calls were made one at a time, none lost its result, and none failed after it had
\* changed the dataset: of such a change nobody is told, and the next serialization is
\* refused as a repetition.
AnswerIsCurrent ==
  /\ recovered # None /\ ~unseen
  /\ Sound(messages)
  /\ \A i \in DOMAIN messages : messages[i].role = "ai" => Len(messages[i].tools) <= 1
  => recovered = version

\* A model that from some moment on does nothing but ask for tools in finalize_only,
\* or repeat the call that just failed, does not keep the run going.
Stubborn ==
  /\ Len(messages) < MaxMessages
  /\ pc = "after_model" =>
       \/ mode = "finalize_only" /\ AsksForTools(Reply)
       \/ mode = "normal" /\ ~Reply.malformed /\ Repeats
StubbornRunsEnd == <>[]Stubborn => <>(pc = "end")
=============================================================================
