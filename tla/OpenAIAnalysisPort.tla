------------------------- MODULE OpenAIAnalysisPort -------------------------
(***************************************************************************)
(* OpenAIAnalysisPort.analyze (model_analysis.py): what the Lead Manager   *)
(* gets of a response of the model's provider.                             *)
(*                                                                         *)
(* _validate_request repeats the limits the Lead Manager has just kept,    *)
(* and refuses none of its requests.                                       *)
(***************************************************************************)
EXTENDS Integers

\* The call of the provider raises, or gives a response: completed or not, with
\* a text that is blank, no JSON, a JSON value, or an object that has the schema
\* of the role or another one.
Response(sizes, growths) ==
  [raises : BOOLEAN, completed : BOOLEAN, size : sizes, growth : growths,
   text : {"blank", "noJson", "value", "otherSchema", "schema"}]

\* A ModelAnalysisError.
Raised == [raises |-> TRUE, size |-> 0, parses |-> FALSE]

\* The object is written anew: blanks go, letters outside ASCII are escaped.
Normalized(response) ==
  [raises |-> FALSE, size |-> response.size + response.growth,
   parses |-> response.text = "schema"]

\* The length is looked at before the text is normalized.
Analyze(response, limit) ==
  IF \/ response.raises \/ ~response.completed
     \/ response.text = "blank" \/ response.size > limit
     \/ response.text \in {"noJson", "value"}
  THEN Raised ELSE Normalized(response)
=============================================================================
