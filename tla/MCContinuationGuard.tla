------------------------ MODULE MCContinuationGuard ------------------------
(* Transcripts and answers for model-checking ContinuationGuard.           *)
EXTENDS ContinuationGuard

Call(n, tools) == AI(n, tools, FALSE, {"plain"})

\* A new run; a run taken up after a failed call; a transcript that lost the request
\* of a result; and one that ends with a call nobody answered, after a failed call.
MCHistories ==
  {<<User(1, "task")>>,
   <<User(1, "task"), Call(2, <<"add_triples">>), ToolResult(<<2, 1>>, FALSE, None)>>,
   <<User(1, "task"), ToolResult(<<9, 1>>, TRUE, 0), User(2, "task")>>,
   <<User(1, "task"), Call(2, <<"add_triples">>), ToolResult(<<2, 1>>, FALSE, None),
     Call(3, <<"add_triples">>)>>}

MCTexts ==
  {{}} \cup {{m} : m \in Markers} \cup {{"preamble", "plan"}, {"recovery", "plan"}}

MCTurns ==
  {<<"serialize_dataset">>, <<"add_triples">>, <<"serialize_dataset", "add_triples">>,
   <<"serialize_dataset", "serialize_dataset">>}
=============================================================================
