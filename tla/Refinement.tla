----------------------------- MODULE Refinement -----------------------------
(***************************************************************************)
(* Asking the model for the rules of a table: AiConfigRefiner's loop of    *)
(* attempts with ever shorter prompts, LLMCallerMixin's fall back to       *)
(* smaller models, the forms a request is sent in, the check of an answer  *)
(* against the live table, the cache of accepted answers, and the          *)
(* command's request without the loop.                                     *)
(*                                                                         *)
(* Models are numbered in the order they are tried; 0 is a model of        *)
(* another family.  An answer is whether it names the table, and the       *)
(* columns it has rules for.  A key for the model's service is configured. *)
(* A request works with the columns it read first, its Inspector keeps     *)
(* them: an alteration of the table during one is one after it.            *)
(***************************************************************************)
EXTENDS Integers, Sequences, FiniteSets

CONSTANTS
  Layouts,      (* what the table may look like: [columns, skippable, computed] *)
  Setups,       (* where requests go: [backend, tool_calling_protocol, model, loaded] *)
  Answers,      (* what the model may answer: [target, columns] *)
  LegacyFiles,  (* what the file of an old version may hold: <<>> or <<answer>> *)
  MaxRetries,   (* bound on the callers' max_retries *)
  MaxRuns       (* bound on the requests of callers *)

ASSUME RefinementAssumption ==
  /\ MaxRetries \in Nat
  /\ \A s \in Setups : s.model \in 0 .. 5 /\ s.loaded \subseteq 0 .. 5
  /\ \A f \in LegacyFiles : f = <<>> \/ \E a \in Answers : f = <<a>>

VARIABLES
  setup,     (* one of Setups *)
  table,     (* what the table looks like now *)
  cache,     (* the file of the table: <<>> or <<[schema_hash, config]>> *)
  legacy,    (* the file an old version left: <<>> or <<config>> *)
  phase,     (* "idle", "wait" for the server, "check" the answer or "done" *)
  run,       (* the request of a caller: [mode, stream, no_cache, max_retries] *)
  attempt,   (* of the loop *)
  state,     (* _RetryState *)
  call,      (* what the server was sent: [level, model, attempt, form] *)
  answer,    (* the answer to check *)
  outcome,   (* how the run ended *)
  runs,      (* number of runs begun *)
  refused,   (* ghost: levels that overflowed, models that timed out, forms refused *)
  valid      (* ghost: answers that passed the check, with the columns of the table *)

env == <<setup, table, cache, legacy, runs>>
vars == <<env, phase, run, attempt, state, call, answer, outcome, refused, valid>>

Nothing == [target |-> FALSE, columns |-> {}]

-----------------------------------------------------------------------------
(* Backends and models.                                                     *)

_GEMMA_MODEL_PRIORITY == 1 .. 5
is_local_only == {3}
Local == setup.backend \in {"lm_studio", "ollama"}

\* The two smallest models reason at length: when they run here they are not streamed from, and get
\* the shortest prompt alone.
is_reasoning_model == setup.model \in {4, 5}
is_small_local_model == Local /\ is_reasoning_model
should_use_streaming == ~is_small_local_model
should_use_ultra_compact == is_small_local_model

resolve_tool_calling_protocol ==
  CASE setup.tool_calling_protocol = "gemma4" /\ setup.backend = "google_ai_studio" -> "gemma4"
    [] setup.tool_calling_protocol = "openai" /\ ~Local -> "openai"
    [] OTHER -> "none"

\* 0 when there is none.
Smallest(models) == IF models = {} THEN 0 ELSE CHOOSE m \in models : \A n \in models : m <= n
select_next_gemma_model(failed) ==
  IF failed \notin _GEMMA_MODEL_PRIORITY THEN 0
  ELSE Smallest({m \in _GEMMA_MODEL_PRIORITY : m > failed /\ (m \in is_local_only => Local)})

\* A local server that does not answer has no models; what it said is kept for two minutes, which the
\* requests of a run outlast.
detect_all_local_models == IF Local THEN {setup.loaded, {}} ELSE {{}}
\* The first loaded model down the list from the next one.
_find_local_fallback_model(next, all_local) == Smallest({m \in all_local : m >= next})
_select_fallback_model(current, all_local) ==
  LET next == select_next_gemma_model(current)
  IN  IF next # 0 /\ Local THEN _find_local_fallback_model(next, all_local) ELSE next

-----------------------------------------------------------------------------
(* One request to the server.                                               *)

_MAX_FALLBACK_ATTEMPTS == 3

\* Strict calls ask for tools if they can, or else for a JSON format; streamed ones for a JSON format
\* from a local server only.
_send_llm_request == IF resolve_tool_calling_protocol # "none" THEN "tools" ELSE "json"
_create_streaming_response == IF Local THEN "json" ELSE "text"
_call_llm_once(level, model, number) ==
  [level |-> level, model |-> model, attempt |-> number, form |-> _send_llm_request]
_call_llm_streaming_once(level, model, number) ==
  [level |-> level, model |-> model, attempt |-> number, form |-> _create_streaming_response]
Request(level, model, number) ==
  IF run.stream THEN _call_llm_streaming_once(level, model, number) ELSE _call_llm_once(level, model, number)

\* A call begins with the configured model.
call_llm(level) == _call_llm_once(level, setup.model, 1)
call_llm_streaming(level) == _call_llm_streaming_once(level, setup.model, 1)
call_fn(r, level) == IF r.stream THEN call_llm_streaming(level) ELSE call_llm(level)

\* What the message of an error is about: a context that is exceeded, a tool or function, a JSON format
\* that is not supported, some parameter that is not, or nothing known.
ApiErrors == {"context", "tool", "format", "parameter", "other"}
classify_api_error(error) ==
  CASE error = "context" -> "ContextOverflowError"
    [] error = "tool" -> "ToolCallError"
    [] error \in {"format", "parameter"} -> "ModelFallbackError"
    [] OTHER -> "None"
_unsupported_local_json_format(error) == error = "format"

\* The errors that one form answers with another.
_try_tool_calling(error) == call.form = "tools" /\ classify_api_error(error) = "ToolCallError"
_send_with_json_mode(error) ==
  /\ call.form = "json" /\ classify_api_error(error) = "ModelFallbackError"
  /\ ~Local \/ _unsupported_local_json_format(error)

-----------------------------------------------------------------------------
(* The loop of attempts.                                                    *)

ErrorSummary(type, retryable) == [error_type |-> type, retryable |-> retryable]
_RetryState ==
  [last_error_type |-> "None", same_error_count |-> 0, messages_history |-> <<>>, min_prompt_level |-> 0]
_NON_RETRYABLE_ERRORS == {"empty_config", "json_syntax"}

\* The prompts of a request, from the longest.
_get_prompt_levels == IF should_use_ultra_compact THEN <<"ultra">> ELSE <<"full", "compact", "ultra">>
Ultra(level) == level + 1 = Len(_get_prompt_levels)

\* Only the full prompt has examples.
build_initial_messages(level) ==
  IF _get_prompt_levels[level + 1] = "full" THEN <<"system", "user", "assistant", "user">>
  ELSE <<"system", "user">>
\* The places of the history and the initial messages where a message begins: feedback that would
\* follow the user's own words is joined to them.
_merge_message_history(initial_messages, history) ==
  LET all == initial_messages \o history
  IN  {i \in DOMAIN all : i > Len(initial_messages) /\ all[i] = "user" => all[i - 1] # "user"}

End(kind, config) ==
  phase' = "done" /\ outcome' = [kind |-> kind, config |-> config] /\ UNCHANGED <<attempt, state, call>>
Send(request) == phase' = "wait" /\ call' = request /\ UNCHANGED outcome

\* The state with an error counted, and whether it is the same unusable answer twice in a row.
_check_repeated_error(error) ==
  [state EXCEPT
     !.last_error_type = error.error_type,
     !.same_error_count = CASE error.error_type \notin _NON_RETRYABLE_ERRORS -> @
                            [] error.error_type = state.last_error_type -> @ + 1
                            [] OTHER -> 1]
Repeated(error) ==
  error.error_type \in _NON_RETRYABLE_ERRORS /\ _check_repeated_error(error).same_error_count >= 2
\* What ends the loop, after a generation as after a validation.
GivesUp(error) == Repeated(error) \/ ~error.retryable \/ attempt = run.max_retries

_run_refinement_loop(error, feedback) ==
  IF GivesUp(error) THEN End("failed", Nothing)
  ELSE /\ attempt' = attempt + 1
       /\ state' = [_check_repeated_error(error) EXCEPT !.messages_history = @ \o feedback]
       /\ Send(call_fn(run, state.min_prompt_level))

\* There is no answer to show the model again, and what is no fault of its answer is not told.
_record_generation_failure(error) ==
  _run_refinement_loop(error, IF error.error_type \in _NON_RETRYABLE_ERRORS THEN <<"user">> ELSE <<>>)
\* The model is shown its answer and what was wrong with it.
_handle_validation_result(error) == _run_refinement_loop(error, <<"assistant", "user">>)

\* The command without the loop asks again for an answer it cannot use, with a shorter prompt.
_handle_ai_direct(unusable) ==
  IF unusable /\ ~Ultra(call.level) THEN Send(call_fn(run, call.level + 1)) /\ UNCHANGED <<attempt, state>>
  ELSE End("failed", Nothing)

\* The request gave nothing to check.
Unanswered(error, unusable) ==
  IF run.mode = "direct" THEN _handle_ai_direct(unusable) ELSE _record_generation_failure(error)

\* What was refused: levels stay refused for the run, models for the call, forms for the model.
Forget(kinds) == {r \in refused : r[1] \notin kinds}
Settled == refused' = Forget({"model", "form"})

-----------------------------------------------------------------------------
(* What the server may do.                                                  *)

Waiting == phase = "wait" /\ UNCHANGED <<env, run, valid>>

\* The command writes rules for the table it was asked about only; refined ones are for it already.
_write_ai_output(config) == IF config.target THEN End("config", config) ELSE End("failed", Nothing)

\* An answer is checked in the loop, where parameters its generators do not take are dropped first.
Answered ==
  /\ Waiting /\ Settled
  /\ \E a \in Answers :
       IF run.mode = "direct" THEN _write_ai_output(a) /\ UNCHANGED answer
       ELSE /\ phase' = "check" /\ answer' = a
            /\ UNCHANGED <<attempt, state, call, outcome>>

\* No content, content that breaks off at the limit or does not parse, and an empty object.
parse_json_response == {"empty_response", "truncated_response", "invalid_json", "{}"}
_try_json_error(code) ==
  ErrorSummary(IF code \in {"empty_response", "{}"} THEN "empty_config" ELSE "json_syntax", TRUE)
Unusable ==
  /\ Waiting /\ Settled /\ UNCHANGED answer
  /\ \E code \in parse_json_response : Unanswered(_try_json_error(code), TRUE)

\* The endpoint has no tools, or its model no JSON format: the request is sent once more without.
Resend ==
  /\ Waiting /\ UNCHANGED <<attempt, state, answer>>
  /\ \E error \in ApiErrors :
       \/ _try_tool_calling(error) /\ Send([call EXCEPT !.form = "json"])
       \/ _send_with_json_mode(error) /\ Send([call EXCEPT !.form = "text"])
  /\ refused' = refused \cup {<<"form", call.form>>}

\* The shortest level an overflow leaves.
\* A mistake: the next attempt begins with the long prompt again.
FromTheStart(level) == state.min_prompt_level
AfterOverflow(level) == level + 1

\* The prompt is too long: the loop goes on with a shorter one.  The shortest one's error, and the
\* direct command's, is not one its callers catch.
Overflow ==
  /\ Waiting /\ UNCHANGED answer
  /\ refused' = Forget({"model", "form"}) \cup {<<"level", call.level>>}
  /\ IF run.mode = "direct" \/ Ultra(call.level) THEN End("escaped", Nothing)
     ELSE /\ state' = [state EXCEPT !.min_prompt_level = AfterOverflow(call.level)]
          /\ Send(call_fn(run, call.level + 1))
          /\ UNCHANGED attempt

\* Any other error becomes a RuntimeError.  Its message tells what no retry can mend.
_default_error(infrastructure) == ErrorSummary("runtime_error", ~infrastructure)
_handle_llm_api_exception ==
  /\ Waiting /\ Settled /\ UNCHANGED answer
  /\ \E error \in ApiErrors :
       /\ classify_api_error(error) # "ContextOverflowError"
       /\ ~_try_tool_calling(error) /\ ~_send_with_json_mode(error)
       /\ Unanswered(_default_error(FALSE), FALSE)

\* A connection that fails or times out is tried again with a smaller model.  That none is loaded here
\* is known by its message, that the list has come to its end is not.
_call_with_fallback ==
  /\ Waiting /\ UNCHANGED answer
  /\ \E all_local \in detect_all_local_models :
     LET next == _select_fallback_model(call.model, all_local)
     IN  IF next # 0 /\ call.attempt < _MAX_FALLBACK_ATTEMPTS
         THEN /\ refused' = Forget({"form"}) \cup {<<"model", call.model>>}
              /\ Send(Request(call.level, next, call.attempt + 1))
              /\ UNCHANGED <<attempt, state>>
         ELSE Settled /\ Unanswered(_default_error(next = 0 /\ select_next_gemma_model(call.model) # 0), FALSE)

-----------------------------------------------------------------------------
(* The check of an answer, and the cache.                                   *)

\* An answer need not be a table's configuration at all.
_try_pydantic_error == {ErrorSummary("pydantic_validation", TRUE)}
\* What may be wrong with generators and expressions; a file that is missing or closed to us is fatal.
summarize_error ==
  {ErrorSummary("unknown_generator", TRUE), ErrorSummary("expression_error", TRUE),
   ErrorSummary("fatal", FALSE), _default_error(FALSE)}
\* Rows are inserted and rolled back.  A foreign key that fails passes, and hides what comes after it.
None == ErrorSummary("None", TRUE)
_validate_preview_insert == {None, _default_error(FALSE)}

validate_table_target(config) == config.target
_check_computed_column_assignments(config) == config.columns \cap table.computed # {}
\* The first thing wrong with an answer.
_validate_config(config) ==
  CASE ~validate_table_target(config) -> {ErrorSummary("table_mismatch", TRUE)}
    [] ~(config.columns \subseteq table.columns) -> {ErrorSummary("column_mismatch", TRUE)}
    [] config.columns = {} /\ table.columns # table.skippable -> {ErrorSummary("empty_config", TRUE)}
    [] _check_computed_column_assignments(config) -> {ErrorSummary("computed_column_assignment", TRUE)}
    [] OTHER -> summarize_error \cup _validate_preview_insert

_compute_schema_hash == table.columns    \* the names alone
_cache_successful_config(config) ==
  IF run.no_cache THEN {cache}
  ELSE {cache, <<[schema_hash |-> _compute_schema_hash, config |-> config]>>}    \* a file may fail to be written

Check ==
  /\ phase = "check"
  /\ \E error \in _try_pydantic_error \cup _validate_config(answer) :
       IF error = None
       THEN /\ cache' \in _cache_successful_config(answer)
            /\ valid' = valid \cup {<<answer, table.columns>>}
            /\ End("config", answer)
       ELSE _handle_validation_result(error) /\ UNCHANGED <<cache, valid>>
  /\ answer' = Nothing
  /\ UNCHANGED <<setup, table, legacy, runs, run, refused>>

\* A file of this version is for the columns it names.
\* A mistake: the columns the answer was accepted for do not matter.
AnyTable(entry) == TRUE
_decode_cached_config(entry) == entry.schema_hash = _compute_schema_hash

\* The old version's file, which names no columns, is read where there is none of this version.
get_cached_config ==
  IF cache = <<>> THEN legacy
  ELSE IF _decode_cached_config(cache[1]) THEN <<cache[1].config>> ELSE <<>>

\* The options of the command choose the loop or one request.
_run_ai_analysis ==
  [mode : {"refine"}, stream : {should_use_streaming}, no_cache : BOOLEAN, max_retries : 1 .. MaxRetries]
    \cup [mode : {"direct"}, stream : {should_use_streaming}, no_cache : {FALSE}, max_retries : {0}]
\* The tools of the MCP server always refine, without streaming.
sqlseed_ai_generate_yaml ==
  [mode : {"refine"}, stream : {FALSE}, no_cache : {FALSE}, max_retries : 0 .. MaxRetries]

\* A table without columns is refused; a cached answer for the table is taken; a file that cannot be
\* read is none.
Start ==
  /\ phase = "idle" /\ runs < MaxRuns /\ runs' = runs + 1
  /\ run' \in _run_ai_analysis \cup sqlseed_ai_generate_yaml
  /\ IF table.columns = {} THEN End("failed", Nothing)
     ELSE \E cached \in {<<>>, get_cached_config} :
            IF run'.mode = "refine" /\ ~run'.no_cache /\ cached # <<>> /\ validate_table_target(cached[1])
            THEN End("config", cached[1])
            ELSE Send(call_fn(run', 0)) /\ UNCHANGED <<attempt, state>>
  /\ UNCHANGED <<setup, table, cache, legacy, answer, refused, valid>>

\* External: the caller has its answer and may make another request.
NoRun == [mode |-> "refine", stream |-> FALSE, no_cache |-> FALSE, max_retries |-> 0]
NoCall == [level |-> 0, model |-> 0, attempt |-> 0, form |-> "text"]
NoOutcome == [kind |-> "none", config |-> Nothing]
Return ==
  /\ phase = "done" /\ phase' = "idle" /\ run' = NoRun /\ attempt' = 0 /\ state' = _RetryState
  /\ call' = NoCall /\ answer' = Nothing /\ outcome' = NoOutcome /\ refused' = {}
  /\ valid' = {v \in valid : \E i \in DOMAIN cache : cache[i].config = v[1]}
  /\ UNCHANGED env

\* External: someone alters or drops the table between two runs.
Alter ==
  /\ phase = "idle" /\ runs \in 1 .. MaxRuns - 1 /\ table' \in Layouts \ {table}
  /\ UNCHANGED <<setup, cache, legacy, phase, run, attempt, state, call, answer, outcome, runs, refused, valid>>

Init ==
  /\ setup \in Setups /\ table \in Layouts /\ cache = <<>> /\ legacy \in LegacyFiles
  /\ phase = "idle" /\ run = NoRun /\ attempt = 0 /\ state = _RetryState /\ call = NoCall
  /\ answer = Nothing /\ outcome = NoOutcome /\ runs = 0 /\ refused = {} /\ valid = {}

Next ==
  \/ Start \/ Answered \/ Unusable \/ Resend \/ Overflow \/ _handle_llm_api_exception
  \/ _call_with_fallback \/ Check \/ Return \/ Alter
Spec == Init /\ [][Next]_vars

-----------------------------------------------------------------------------
\* Rules that were refined or cached fit the table: they passed the check for its columns, even when
\* the table was altered since they were cached.  Only a file of the old version was never checked.
SuggestionFits ==
  phase = "done" /\ run.mode = "refine" /\ outcome.kind = "config" =>
    \/ <<outcome.config, table.columns>> \in valid
    \/ cache = <<>> /\ legacy = <<outcome.config>>

\* What was refused is not asked for again: no prompt as long as one that overflowed in this run, no
\* model that timed out in this call, no form this model refused; a run has max_retries + 1 attempts
\* and the roles of what is sent alternate, as the templates of some models require.
RefusedIsNotRepeated ==
  phase = "wait" =>
    /\ \A r \in refused : r[1] = "level" => call.level > r[2]
    /\ <<"model", call.model>> \notin refused /\ <<"form", call.form>> \notin refused
    /\ call.attempt <= _MAX_FALLBACK_ATTEMPTS /\ attempt <= run.max_retries
    /\ LET initial == build_initial_messages(call.level)
           all == initial \o state.messages_history
           sent == _merge_message_history(initial, state.messages_history)
       IN  \A i, j \in sent : i < j /\ (\A k \in sent : k <= i \/ j <= k) => all[i] # all[j]

\* A failure is one the callers report, AISuggestionFailedError or another they catch.
FailureIsReported == outcome.kind # "escaped"
=============================================================================
