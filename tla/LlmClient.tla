------------------------------ MODULE LlmClient ------------------------------
(***************************************************************************)
(* One call of an extraction or synthesis model                            *)
(* (crates/llm-memory-llm/src: client_http.rs, haiku.rs, sonnet.rs): the   *)
(* payload, the answer of the provider, and how a JSON object is taken out *)
(* of it.  Text is a sequence of "{", "}", "q" for a quotation mark and "x" *)
(* for anything else, an escaped quotation mark included.  The mock client *)
(* of the tests is not modelled.                                           *)
(***************************************************************************)
EXTENDS Integers, Sequences, SequencesExt

None == -1

\* The model names as far as the code looks at them.
Models == [v25 : BOOLEAN, flash : BOOLEAN]

thinking_budget_for_model(model) ==
    IF ~model.v25 THEN None ELSE IF model.flash THEN 0 ELSE 128

\* extract and synthesize ask for structured output and little thinking;
\* thinkingConfig is left out for None.
build_gemini_payload(model) ==
    [model |-> model, thinking_budget |-> thinking_budget_for_model(model)]

\* External: a model without thinking takes no thinkingConfig, and only the
\* flash models can switch it off.
ProviderAccepts(payload) ==
    IF payload.model.v25
    THEN payload.model.flash \/ payload.thinking_budget \notin 0..127
    ELSE payload.thinking_budget = None

\* The outcome of a call: Ok with a text, or an error of one kind.
Ok(text) == [ok |-> TRUE, text |-> text]
Err == [ok |-> FALSE, text |-> <<>>]

\* The text of the first candidate, unless the prompt was blocked, there is no
\* candidate, or it did not end normally.  A missing finishReason passes.
parse_gemini_response(resp) ==
    LET joined == FlattenSeq(resp.parts)
    IN  IF \/ resp.blocked
           \/ ~resp.candidate
           \/ resp.finish_reason \notin {"STOP", "missing"}
           \/ joined = <<>>
        THEN Err ELSE Ok(joined)

\* A token that cannot be fetched, a transport error and a status other than
\* success are errors; so is a body that is not JSON.
complete(model, resp) ==
    IF \/ resp.transport # "ok"
       \/ ~ProviderAccepts(build_gemini_payload(model))
    THEN Err ELSE parse_gemini_response(resp)

Places(text, c) == {i \in DOMAIN text : text[i] = c}

\* Mutant: the object ends at the first closing brace.
ExtractJsonFirstClose(text) ==
    LET opens == Places(text, "{")
        closes == Places(text, "}")
    IN  IF opens = {} \/ closes = {} THEN <<>>
        ELSE SubSeq(text, CHOOSE i \in opens : \A j \in opens : i <= j,
                          CHOOSE i \in closes : \A j \in closes : i <= j)

\* From the first opening to the last closing brace; empty when there is none.
extract_json(text) ==
    LET opens == Places(text, "{")
        closes == Places(text, "}")
    IN  IF opens = {} \/ closes = {} THEN <<>>
        ELSE SubSeq(text, CHOOSE i \in opens : \A j \in opens : i <= j,
                          CHOOSE i \in closes : \A j \in closes : i >= j)

\* How many braces are open, and whether a string is; the braces in a string
\* are text.
ReadJson(r, c) ==
    [depth |-> IF r.quoted THEN r.depth
               ELSE r.depth + (CASE c = "{" -> 1 [] c = "}" -> -1 [] OTHER -> 0),
     quoted |-> IF c = "q" THEN ~r.quoted ELSE r.quoted]

\* What serde_json may accept as one object: braces that match outside of
\* strings, the last one closing the first.
IsObject(s) ==
    LET read[n \in 0..Len(s)] ==
          IF n = 0 THEN [depth |-> 0, quoted |-> FALSE] ELSE ReadJson(read[n - 1], s[n])
    IN  Len(s) > 1 /\ read[Len(s)].depth = 0 /\ \A n \in 1..Len(s) - 1 : read[n].depth > 0

\* HaikuExtractor::extract and SonnetSynthesizer::synthesize.
extract(model, resp) ==
    LET c == complete(model, resp)
        json_text == extract_json(c.text)
    IN  IF c.ok /\ IsObject(json_text) THEN Ok(json_text) ELSE Err
=============================================================================
