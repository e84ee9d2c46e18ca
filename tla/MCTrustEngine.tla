--------------------------- MODULE MCTrustEngine ---------------------------
(***************************************************************************)
(* Instances of TrustEngine for TLC.                                       *)
(***************************************************************************)
EXTENDS TrustEngine, TLC

CONSTANTS r1, r2, r3, r4, v1, v2

Ctx(e, a) == [entity |-> e, intent |-> "CONNECT", anomalies |-> a]

Clean      == Ctx("e1", {})
Flooding   == Ctx("e1", {<<"syn_rate_per_second", 101>>})
Odd        == Ctx("e2", NonDict)
Unreadable == Ctx("e2", Malformed)
Test       == Ctx("test_entity_abc123", {})

Saying(v, c, why) == [form |-> "json", verdict |-> v, confidence |-> c, reason |-> why]
Json(v, c) == Saying(v, c, "model")
Prose(ws)  == [form |-> "prose", words |-> ws]

\* Answers that take different ways through the parser.
ParserAnswers == {Json("ALLOW", 150), Json("ALLOW", 49), Json("DENY", 50),
                  Json("other", 90), Prose({"ALLOW", "DENY"}), Prose({}),
                  Saying("ALLOW", 90, "ollama_error")}
\* An answer, and one that the engine takes for a failure.
BreakerAnswers == {Json("ALLOW", 90), Saying("ALLOW", 90, "ollama_error")}

BreakerSessions == {Clean, Flooding, Test}
AllSessions == {Clean, Odd, Unreadable, Test}

Symmetry == Permutations(Requests) \cup Permutations(Verifiers)
=============================================================================
