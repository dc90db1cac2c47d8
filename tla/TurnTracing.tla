----------------------------- MODULE TurnTracing -----------------------------
(***************************************************************************)
(* Turn tracing (middleware/tracing.py): a recorder turns the callbacks of *)
(* an agent into events, a sink keeps the latest of them, and the tracer   *)
(* folds events into turns, each with its tool invocations.                *)
(*                                                                         *)
(* The agent that calls back is external.  What is assumed of it: model    *)
(* calls come one at a time; the tool calls of a reply run side by side, a *)
(* run ends with the tool message or with a Command (which has neither     *)
(* name nor call id), and a call refused by a middleware has no run; the   *)
(* node of each call ends with its tool message; and when the whole run    *)
(* ends, its outcome is the state, with every tool message of the thread.  *)
(* The continuation guard takes replies back, and may end the run then.    *)
(*                                                                         *)
(* A result or a message is represented by the id of its call, and a       *)
(* token by its model call.                                                *)
(***************************************************************************)
EXTENDS Naturals, SequencesExt

CONSTANTS
  MaxEvents,   \* the capacity of the sink
  MaxTurns,    \* bound on the model calls
  Replies,     \* the sequences of tools that a reply may ask for
  Commanding,  \* the tools that end with a Command
  None

ASSUME TracingAssumption ==
  /\ MaxEvents \in Nat \ {0} /\ MaxTurns \in Nat
  /\ Replies \subseteq Seq(STRING)
  /\ None \notin STRING /\ None \notin Nat \X Nat

VARIABLES
  phase,       \* of the agent: "idle", "model", "reply", "decide", "tools"
  turn,        \* number, and run id, of the latest model call
  asked,       \* the tools its reply asked for
  open,        \* the reply asked for tools, though maybe not in a valid call
  progress,    \* of each call asked for: "waiting", "running", "ended", "answered"
  transcript,  \* the tool messages in the state of the thread: ids and names
  sink,        \* the events in the sink
  history,     \* history: all events
  cut          \* history: the turns taken back as the guard ended the run

agentVars   == <<phase, turn, asked, open, progress, transcript>>
tracingVars == <<agentVars, sink, history, cut>>

-----------------------------------------------------------------------------
(* Events.                                                                 *)

Event(kind, run, name, id) == [kind |-> kind, run |-> run, name |-> name, id |-> id]
Call(k)         == [id |-> <<turn, k>>, name |-> asked[k]]
MessageEvent(c) == Event("tool_message", c.id[1], c.name, c.id)

\* (Mutants of Bounded: what does not fit is dropped; one event too many stays.)
BoundedFirst(events) == IF Len(events) <= MaxEvents THEN events ELSE SubSeq(events, 1, MaxEvents)
BoundedLoosely(events) ==
  IF Len(events) <= MaxEvents THEN events ELSE SubSeq(events, Len(events) - MaxEvents, Len(events))

Bounded(events) ==
  IF Len(events) <= MaxEvents THEN events
  ELSE SubSeq(events, Len(events) - MaxEvents + 1, Len(events))

Record(events) ==
  /\ sink' = Bounded(sink \o events)
  /\ history' = history \o events

TracingInit ==
  /\ phase = "idle" /\ turn = 0
  /\ asked = <<>> /\ open = FALSE /\ progress = <<>> /\ transcript = <<>>
  /\ sink = <<>> /\ history = <<>> /\ cut = {}

-----------------------------------------------------------------------------
(* The callbacks.                                                          *)

OnChatModelStart ==
  /\ phase \in {"idle", "model"} /\ turn < MaxTurns
  /\ turn' = turn + 1 /\ phase' = "reply"
  /\ asked' = <<>> /\ open' = FALSE /\ progress' = <<>>
  /\ Record(<<Event("chat_model_start", turn', None, None)>>)
  /\ UNCHANGED <<transcript, cut>>

\* One token stands for the stream.
OnLlmNewToken ==
  /\ phase = "reply" /\ Last(history).kind = "chat_model_start"
  /\ Record(<<Event("llm_new_token", turn, None, None)>>)
  /\ UNCHANGED <<agentVars, cut>>

\* The finish reason may be tool_calls without a valid call.
OnLlmEnd(tools, finish) ==
  /\ phase = "reply"
  /\ asked' = tools /\ open' = (tools # <<>> \/ finish = "tool_calls")
  /\ progress' = [k \in DOMAIN tools |-> "waiting"]
  /\ phase' = "decide"
  /\ Record(<<[kind |-> "llm_end", run |-> turn, tools |-> tools, finish |-> finish]>>)
  /\ UNCHANGED <<turn, transcript, cut>>

\* The guard calls the model again, whether or not the reply asked for tools,
Reprompt ==
  /\ phase = "decide" /\ phase' = "model"
  /\ UNCHANGED <<turn, asked, open, progress, transcript, sink, history, cut>>

\* or tools are run.
Allow ==
  /\ phase = "decide" /\ asked # <<>> /\ phase' = "tools"
  /\ UNCHANGED <<turn, asked, open, progress, transcript, sink, history, cut>>

Moves(k, from, to) ==
  /\ phase = "tools" /\ progress[k] = from
  /\ progress' = [progress EXCEPT ![k] = to]
  /\ UNCHANGED <<phase, turn, asked, open, transcript, cut>>

OnToolStart(k) ==
  /\ Moves(k, "waiting", "running")
  /\ Record(<<Event("tool_start", turn, asked[k], None)>>)

OnToolEnd(k) ==
  /\ Moves(k, "running", "ended")
  /\ Record(<<IF asked[k] \in Commanding THEN Event("tool_end", turn, None, None)
              ELSE Event("tool_end", turn, asked[k], Call(k).id)>>)

\* The node of a call ends, after its run or after a refusal.
OnToolNodeEnd(k) ==
  /\ Moves(k, "ended", "answered") \/ Moves(k, "waiting", "answered")
  /\ Record(<<MessageEvent(Call(k))>>)

ToolsDone ==
  /\ phase = "tools" /\ \A k \in DOMAIN asked : progress[k] = "answered"
  /\ transcript' = transcript \o [k \in DOMAIN asked |-> Call(k)]
  /\ phase' = "model"
  /\ UNCHANGED <<turn, asked, open, progress, sink, history, cut>>

\* The end of the run: _tool_messages goes through the state from its end.
OnChainEnd ==
  /\ phase = "decide" /\ phase' = "idle"
  /\ Record([i \in DOMAIN transcript |-> MessageEvent(Reverse(transcript)[i])])
  /\ cut' = IF open THEN cut \cup {turn} ELSE cut
  /\ UNCHANGED <<turn, asked, open, progress, transcript>>

TracingNext ==
  \/ OnChatModelStart
  \/ OnLlmNewToken
  \/ \E tools \in Replies : OnLlmEnd(tools, "tool_calls")
  \/ OnLlmEnd(<<>>, "stop")
  \/ Reprompt
  \/ Allow
  \/ \E k \in DOMAIN asked : OnToolStart(k) \/ OnToolEnd(k) \/ OnToolNodeEnd(k)
  \/ ToolsDone
  \/ OnChainEnd

TracingSpec == TracingInit /\ [][TracingNext]_tracingVars

-----------------------------------------------------------------------------
(* TurnTracer: a fold over events.                                         *)

Invocation(id, name) == [id |-> id, name |-> name, result |-> None, message |-> None]
Turn(run)            == [run |-> run, output |-> {}, invocations |-> <<>>]

IsComplete(invocation) == invocation.result # None \/ invocation.message # None

\* (Mutant of Matched: the id of the call is not looked at first.)
MatchedByName(invocations, name, id) ==
  LET Fits(v)  == ~IsComplete(v) /\ (name = None \/ v.name = name)
      Named(v) == id # None /\ v.name = name
  IN  IF SelectLastInSeq(invocations, Fits) # 0 THEN SelectLastInSeq(invocations, Fits)
      ELSE SelectLastInSeq(invocations, Named)

\* _match_tool_invocation: the invocation with the id of the call, or else the last
\* one that is incomplete and has the name, or else the last one with the name; 0 if
\* there is none.
Matched(invocations, name, id) ==
  LET IsIt(v)  == id # None /\ v.id = id
      Fits(v)  == ~IsComplete(v) /\ (name = None \/ v.name = name)
      Named(v) == id # None /\ v.name = name
  IN  IF SelectInSeq(invocations, IsIt) # 0 THEN SelectInSeq(invocations, IsIt)
      ELSE IF SelectLastInSeq(invocations, Fits) # 0 THEN SelectLastInSeq(invocations, Fits)
      ELSE SelectLastInSeq(invocations, Named)

\* What a result without a name or an id shows up as.
Shown(e) == IF e.id = None THEN "unidentified" ELSE e.id

\* An invocation after an event about it.
Changed(v, e) ==
  CASE e.kind = "tool_start"   -> v
    [] e.kind = "tool_end"     -> [v EXCEPT !.result = Shown(e)]
    [] e.kind = "tool_message" -> [v EXCEPT !.message = e.id]

\* The invocation that an event is about, added if there is none, and changed.
Correlated(invocations, e) ==
  LET at == Matched(invocations, e.name, e.id)
      Identified(v) == IF v.id = None THEN [v EXCEPT !.id = e.id] ELSE v
  IN  IF at = 0
      THEN Append(invocations, Changed(Invocation(e.id, IF e.name = None THEN "unknown" ELSE e.name), e))
      ELSE [k \in DOMAIN invocations |->
              IF k = at THEN Changed(Identified(invocations[k]), e) ELSE invocations[k]]

\* The turn under way after an event other than chat_model_start.
Continued(t, e) ==
  CASE e.kind = "llm_new_token" -> [t EXCEPT !.output = @ \cup {e.run}]
    [] e.kind = "llm_end" ->
         [t EXCEPT !.invocations = [k \in DOMAIN e.tools |-> Invocation(<<e.run, k>>, e.tools[k])]]
    [] e.kind \in {"tool_start", "tool_end", "tool_message"} ->
         [t EXCEPT !.invocations = Correlated(t.invocations, e)]

EndsTurn(e) == e.kind = "llm_end" /\ e.tools = <<>> /\ e.finish # "tool_calls"

Closed(state) == state.turns \o state.current

\* The closed turns and, as a sequence of at most one, the turn under way.
After(state, e) ==
  IF e.kind = "chat_model_start" THEN [turns |-> Closed(state), current |-> <<Turn(e.run)>>]
  ELSE IF state.current = <<>> THEN state
  ELSE LET t == Continued(state.current[1], e)
       IN  IF EndsTurn(e) THEN [turns |-> Append(state.turns, t), current |-> <<>>]
           ELSE [state EXCEPT !.current = <<t>>]

\* The state of the tracer after a sequence of events.
Traced(events) ==
  LET state[n \in 0 .. Len(events)] ==
        IF n = 0 THEN [turns |-> <<>>, current |-> <<>>] ELSE After(state[n - 1], events[n])
  IN  state[Len(events)]

Snapshot(events) == Closed(Traced(events))

-----------------------------------------------------------------------------
(* Properties.                                                             *)

\* The sink keeps to its capacity, and what it holds is the end of the history.
TracingTypeOK ==
  /\ phase \in {"idle", "model", "reply", "decide", "tools"}
  /\ turn \in 0 .. MaxTurns /\ cut \subseteq 1 .. turn /\ open \in BOOLEAN
  /\ \A k \in DOMAIN progress : progress[k] \in {"waiting", "running", "ended", "answered"}
  /\ Len(sink) <= MaxEvents

\* The events that a full sink drops cost whole turns, the oldest ones, and change
\* none of the turns that are left: an event whose turn has lost its start is in none.
DropsWholeTurns == IsSuffix(Snapshot(sink), Snapshot(history))

Requested(run) ==
  UNION {{[id |-> <<run, k>>, name |-> history[i].tools[k]] : k \in DOMAIN history[i].tools} :
           i \in {j \in DOMAIN history : history[j].kind = "llm_end" /\ history[j].run = run}}
Reported(kind) == {history[i].id : i \in {j \in DOMAIN history : history[j].kind = kind}}

\* Each turn that the guard did not cut short has an invocation for every call that
\* its reply asked for, with the result and the message of this call and of no other,
\* in whatever order parallel calls of one tool end, and whether or not the call was
\* allowed to run; what cannot be identified is not put in place of what can.
AnswersReachTheirCalls ==
  LET turns == Snapshot(history)
      messaged == Reported("tool_message")
      returned == Reported("tool_end")
  IN  \A i \in DOMAIN turns : turns[i].run \notin cut =>
        LET known == {v \in ToSet(turns[i].invocations) : v.id # None}
        IN  /\ {[id |-> v.id, name |-> v.name] : v \in known} = Requested(turns[i].run)
            /\ \A v \in known :
                 /\ v.message = IF v.id \in messaged THEN v.id ELSE None
                 /\ v.id \in returned => v.result = v.id
                 /\ v.id \notin returned => v.result \in {None, "unidentified"}

\* Tool messages are correlated by the id of their call, which they all have (DR-015:
\* "tool lifecycle correlation SHOULD use `tool_call_id` when available").
CorrelatedById ==
  LET turns == Snapshot(history)
  IN  \A i \in DOMAIN turns : \A v \in ToSet(turns[i].invocations) : v.message \in {None, v.id}
=============================================================================
