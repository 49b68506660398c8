---------------------------- MODULE MCRefinement ----------------------------
(***************************************************************************)
(* Tables with a computed column, with a column that may be left out and   *)
(* without columns; every kind of backend, with the largest, a smaller,    *)
(* the smallest and an unknown model.                                      *)
(***************************************************************************)
EXTENDS Refinement
FourTables ==
  {[columns |-> {1, 2}, skippable |-> {}, computed |-> {}],
   [columns |-> {1, 3}, skippable |-> {3}, computed |-> {3}],
   [columns |-> {1}, skippable |-> {1}, computed |-> {}],
   [columns |-> {}, skippable |-> {}, computed |-> {}]}
FiveAnswers ==
  [target : {TRUE}, columns : {{}, {1}, {1, 2}, {1, 3}}] \cup [target : {FALSE}, columns : {{1}}]
OldFile == {<<>>, <<[target |-> TRUE, columns |-> {1, 2}]>>}
Cloud(name, protocol, m) == [backend |-> name, tool_calling_protocol |-> protocol, model |-> m, loaded |-> {}]
Here(name, m, models) ==
  [backend |-> name, tool_calling_protocol |-> "gemma4", model |-> m, loaded |-> models]
FiveSetups ==
  {Cloud("google_ai_studio", "gemma4", 1), Cloud("openai_compat", "openai", 2),
   Cloud("openai_compat", "gemma4", 0), Here("lm_studio", 1, {1, 4, 5}), Here("ollama", 4, {4, 5})}
=============================================================================
