-------------------------- MODULE VerdictParserV3 --------------------------
(***************************************************************************)
(* How version 3 reads a verdict from Ollama's answer                      *)
(* (kelan-python/kelan/ai/ollama_client.py, _parse_verdict and             *)
(* _build_verdict).  An answer is kept as what the parser distinguishes.   *)
(***************************************************************************)
EXTENDS FiniteSets

Verdicts == {"ALLOW", "DENY", "MONITOR"}

\* An answer is one JSON object, another JSON value, text around an object, or
\* text; it may hold a verdict that is none, and a confidence that is no number:
\* "text" makes float() raise ValueError, "null" makes it raise TypeError.
\* "words" are the verdicts named anywhere in it.
Answers ==
    {a \in [form : {"object", "value", "block", "text"},
            verdict : Verdicts \cup {"other"},
            confidence : {"low", "high", "nan", "text", "null"},
            words : SUBSET {"ALLOW", "DENY"}] :
        a.form \in {"object", "block"} => {a.verdict} \cap {"ALLOW", "DENY"} \subseteq a.words}

Readable(a) == a.confidence \in {"low", "high", "nan"}

BuildM_KeepsWhatIsUnsure(a) == IF a.verdict = "other" THEN "MONITOR" ELSE a.verdict

\* _build_verdict: nan < 0.5 is false.
Build(a) == IF a.verdict = "other" \/ a.confidence = "low" THEN "MONITOR" ELSE a.verdict

ByKeywordM_AllowFirst(a) ==
    IF "ALLOW" \in a.words THEN "ALLOW" ELSE IF "DENY" \in a.words THEN "DENY" ELSE "MONITOR"

ByKeyword(a) ==
    IF "DENY" \in a.words THEN "DENY" ELSE IF "ALLOW" \in a.words THEN "ALLOW" ELSE "MONITOR"

\* _parse_verdict.  The first strategy handles no exception but ValueError, the
\* second all of them.
Parse(a) ==
    CASE a.form = "value" \/ (a.form = "object" /\ a.confidence = "null") -> "raises"
      [] a.form \in {"object", "block"} /\ Readable(a) -> Build(a)
      [] OTHER -> ByKeyword(a)

\* The verdicts that a call of Ollama may end with.
ModelVerdicts == {Parse(a) : a \in Answers} \ {"raises"}

-----------------------------------------------------------------------------
\* No verdict is stronger than the answer: one that is not sure of itself gives
\* MONITOR, ALLOW and DENY are named in it, and an answer that cannot be read
\* but speaks of DENY does not give ALLOW.
NoStrongerThanTheAnswer ==
    \A a \in Answers :
        /\ a.form \in {"object", "block"} /\ a.confidence = "low" => Parse(a) = "MONITOR"
        /\ Parse(a) \in {"ALLOW", "DENY"} => Parse(a) \in a.words
        /\ Parse(a) = "ALLOW" /\ "DENY" \in a.words =>
              a.form \in {"object", "block"} /\ Readable(a) /\ a.verdict = "ALLOW"
=============================================================================
