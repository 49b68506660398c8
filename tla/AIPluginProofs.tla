---------------------------- MODULE AIPluginProofs ----------------------------
(***************************************************************************)
(* RefinementInv is an invariant of Refinement for any tables, backends,   *)
(* models that are loaded, answers and numbers of retries: what is cached  *)
(* passed the check for the columns it is filed under, and what was        *)
(* refused comes before what is asked for now.                             *)
(* HealInv is an invariant of Healing for any columns, constraints and     *)
(* numbers of rounds: the rules the model wrote stay within the tables at  *)
(* work and the tables accepted before, and what those were before the     *)
(* model is at hand for as long as it may be needed.                       *)
(***************************************************************************)
EXTENDS Refinement, Healing, SequenceTheorems, TLAPS

Roles == {"user", "assistant"}
Forms == {"tools", "json", "text"}
ErrorTypes ==
  {"None", "empty_config", "json_syntax", "runtime_error", "pydantic_validation", "unknown_generator",
   "expression_error", "fatal", "table_mismatch", "column_mismatch", "computed_column_assignment"}

Shapes ==
  /\ setup \in Setups /\ legacy \in LegacyFiles
  /\ phase \in {"idle", "wait", "check", "done"}
  /\ run \in [mode : {"refine", "direct"}, stream : BOOLEAN, no_cache : BOOLEAN, max_retries : 0 .. MaxRetries]
  /\ attempt \in 0 .. run.max_retries
  /\ state \in [last_error_type : ErrorTypes, same_error_count : Nat, messages_history : Seq(Roles),
                min_prompt_level : Nat]
  /\ call \in [level : Nat, model : 0 .. 5, attempt : 0 .. _MAX_FALLBACK_ATTEMPTS, form : Forms]
  /\ phase = "idle" => run = NoRun /\ state = _RetryState /\ refused = {}

\* The file of the table holds what passed the check for the columns it names.
CacheIsChecked ==
  cache # <<>> => \E c, h : cache = <<[schema_hash |-> h, config |-> c]>> /\ <<c, h>> \in valid

\* The forms a request may have been sent in before.
Before(form) ==
  CASE form = "tools" -> {} [] form = "json" -> {"tools"} [] OTHER -> {"tools", "json"}

\* Levels, models and forms are taken in order, and what was refused is behind.
RefusedIsBehind ==
  /\ phase \in {"wait", "check"} =>
       \A r \in refused : r[1] = "level" => r[2] \in Nat /\ r[2] < state.min_prompt_level
  /\ phase = "wait" =>
       /\ state.min_prompt_level <= call.level
       /\ \A r \in refused : r[1] = "model" => r[2] \in Nat /\ r[2] < call.model
       /\ \A r \in refused : r[1] = "form" => r[2] \in Before(call.form)
       /\ \A r \in refused : r[1] \in {"level", "model", "form"}
  /\ phase = "check" => \A r \in refused : r[1] = "level"

\* An assistant's words are followed by the user's.
Feedback(h) ==
  /\ \A i \in 1 .. Len(h) - 1 : h[i] = "user" \/ h[i + 1] = "user"
  /\ h # <<>> => h[Len(h)] = "user"

RefinementInv ==
  Shapes /\ CacheIsChecked /\ RefusedIsBehind /\ Feedback(state.messages_history) /\ SuggestionFits

-----------------------------------------------------------------------------
(* Models and messages.                                                     *)

\* The smallest of some models is one of them.
LEMMA SmallestFacts ==
  ASSUME NEW S \in SUBSET (0 .. 5)
  PROVE  IF S = {} THEN Smallest(S) = 0 ELSE Smallest(S) \in S
<1>1. ASSUME S # {} PROVE \E m \in S : \A n \in S : m <= n
  <2>1. CASE 0 \in S BY <2>1
  <2>2. CASE 1 \in S /\ 0 \notin S BY <2>2
  <2>3. CASE 2 \in S /\ 0 \notin S /\ 1 \notin S BY <2>3
  <2>4. CASE 3 \in S /\ 0 \notin S /\ 1 \notin S /\ 2 \notin S BY <2>4
  <2>5. CASE 4 \in S /\ 0 \notin S /\ 1 \notin S /\ 2 \notin S /\ 3 \notin S BY <2>5
  <2>6. CASE S \subseteq {5}
    <3>1. S = {5} BY <1>1, <2>6
    <3>. QED BY <3>1
  <2>. QED BY <2>1, <2>2, <2>3, <2>4, <2>5, <2>6
<1>. QED BY <1>1 DEF Smallest

\* A model that is tried next comes after the one that failed (select_next_gemma_model,
\* _find_local_fallback_model).
LEMMA NextModelIsSmaller ==
  ASSUME RefinementAssumption, setup \in Setups, NEW m \in 0 .. 5,
         NEW all_local \in detect_all_local_models
  PROVE  LET next == _select_fallback_model(m, all_local)
         IN  next \in 0 .. 5 /\ (next # 0 => m < next)
<1> DEFINE smaller == {n \in _GEMMA_MODEL_PRIORITY : n > m /\ (n \in is_local_only => Local)}
<1>1. select_next_gemma_model(m) \in 0 .. 5 /\ (select_next_gemma_model(m) # 0 => m < select_next_gemma_model(m))
  <2>1. smaller \in SUBSET (0 .. 5) /\ \A n \in smaller : m < n
    BY DEF _GEMMA_MODEL_PRIORITY
  <2>2. IF smaller = {} THEN Smallest(smaller) = 0 ELSE Smallest(smaller) \in smaller
    BY <2>1, SmallestFacts
  <2>. QED BY <2>1, <2>2 DEF select_next_gemma_model
<1>2. all_local \in SUBSET (0 .. 5)
  BY DEF detect_all_local_models, RefinementAssumption
<1>3. ASSUME NEW next \in 1 .. 5, m < next
      PROVE  LET found == _find_local_fallback_model(next, all_local)
             IN  found \in 0 .. 5 /\ (found # 0 => m < found)
  <2> DEFINE later == {n \in all_local : n >= next}
  <2>1. later \in SUBSET (0 .. 5)
    BY <1>2
  <2>2. \A n \in later : n \in 0 .. 5 /\ n >= next
    BY <2>1
  <2>3. \A n \in later : m < n
    BY <1>3, <2>2
  <2>4. IF later = {} THEN Smallest(later) = 0 ELSE Smallest(later) \in later
    BY <2>1, SmallestFacts
  <2>. QED BY <2>1, <2>3, <2>4 DEF _find_local_fallback_model
<1>. QED BY <1>1, <1>3 DEF _select_fallback_model

\* Messages alternate when the initial ones do and no assistant's words follow another's
\* (_merge_message_history).
LEMMA MergedRolesAlternate ==
  ASSUME NEW h \in Seq(Roles), Feedback(h), NEW level
  PROVE  LET initial == build_initial_messages(level)
             all == initial \o h
             sent == _merge_message_history(initial, h)
         IN  \A i, j \in sent : i < j /\ (\A k \in sent : k <= i \/ j <= k) => all[i] # all[j]
<1> DEFINE initial == build_initial_messages(level)
           all == initial \o h
           sent == _merge_message_history(initial, h)
           AllRoles == {"system", "user", "assistant"}
<1>1. /\ initial \in Seq(AllRoles) /\ Len(initial) \in {2, 4} /\ initial[Len(initial)] = "user"
      /\ \A i \in 1 .. Len(initial) - 1 : initial[i] # initial[i + 1]
  <2>1. CASE initial = <<"system", "user", "assistant", "user">>
    BY <2>1
  <2>2. CASE initial = <<"system", "user">>
    BY <2>2
  <2>. QED BY <2>1, <2>2 DEF build_initial_messages
<1>2. /\ Len(h) \in Nat /\ DOMAIN all = 1 .. Len(initial) + Len(h)
      /\ \A i \in 1 .. Len(initial) : all[i] = initial[i]
      /\ \A i \in 1 .. Len(h) : all[Len(initial) + i] = h[i]
      /\ \A i \in 1 .. Len(h) : h[i] \in Roles
  <2>1. h \in Seq(AllRoles)
    BY DEF Roles
  <2>. QED BY <1>1, <2>1 DEF Roles
<1>3. \A i \in DOMAIN all : i - 1 \in DOMAIN all /\ i > Len(initial) =>
        all[i] \in Roles /\ (all[i] = "user" \/ all[i - 1] = "user")
  <2> SUFFICES ASSUME NEW i \in DOMAIN all, i > Len(initial)
               PROVE  all[i] \in Roles /\ (all[i] = "user" \/ all[i - 1] = "user")
    OBVIOUS
  <2>1. i \in Nat /\ Len(initial) \in Nat /\ i - Len(initial) \in 1 .. Len(h) /\ all[i] = h[i - Len(initial)]
    BY <1>1, <1>2
  <2>2. CASE i = Len(initial) + 1
    <3>1. all[i - 1] = "user"
      BY <1>1, <1>2, <2>2
    <3>. QED BY <1>2, <2>1, <3>1
  <2>3. CASE i > Len(initial) + 1
    <3>1. i - 1 - Len(initial) \in 1 .. Len(h) - 1 /\ all[i - 1] = h[i - 1 - Len(initial)]
      BY <1>1, <1>2, <2>1, <2>3
    <3>2. (i - 1 - Len(initial)) + 1 = i - Len(initial)
      BY <2>1
    <3>. QED BY <1>2, <2>1, <3>1, <3>2 DEF Feedback
  <2>4. i = Len(initial) + 1 \/ i > Len(initial) + 1
    BY <1>2, <2>1
  <2>. QED BY <2>2, <2>3, <2>4
<1>4. ASSUME NEW i \in sent, NEW j \in sent, i < j, \A k \in sent : k <= i \/ j <= k
      PROVE  all[i] # all[j]
  <2>1. sent = {k \in DOMAIN all : k > Len(initial) /\ all[k] = "user" => all[k - 1] # "user"}
    BY DEF _merge_message_history
  <2>2. i \in Nat /\ j \in Nat /\ i >= 1 /\ j \in DOMAIN all /\ i \in DOMAIN all /\ Len(initial) \in Nat
    BY <1>1, <1>2, <2>1
  <2>3. CASE j <= Len(initial)
    <3>1. j = i + 1
      <4>1. CASE i + 1 < j
        <5>1. i + 1 \in sent
          BY <1>1, <1>2, <2>1, <2>2, <2>3, <4>1
        <5>. QED BY <1>4, <2>2, <4>1, <5>1
      <4>. QED BY <1>4, <2>2, <4>1
    <3>2. i \in 1 .. Len(initial) - 1
      BY <2>2, <2>3, <3>1
    <3>. QED BY <1>1, <1>2, <2>2, <2>3, <3>1, <3>2
  <2>4. CASE j > Len(initial) /\ j = i + 1
    <3>1. j - 1 = i /\ j - 1 \in DOMAIN all
      BY <2>2, <2>4
    <3>2. all[j] = "user" \/ all[i] = "user"
      BY <1>3, <2>2, <2>4, <3>1
    <3>3. all[j] = "user" => all[i] # "user"
      BY <2>1, <2>2, <2>4, <3>1
    <3>. QED BY <3>2, <3>3
  <2>5. CASE j > Len(initial) /\ i + 1 < j
    <3>1. \A k \in (i + 1) .. (j - 1) : k \in DOMAIN all /\ k > Len(initial) /\ all[k] = "user" /\ all[k - 1] = "user"
      <4> SUFFICES ASSUME NEW k \in (i + 1) .. (j - 1)
                   PROVE  k \in DOMAIN all /\ k > Len(initial) /\ all[k] = "user" /\ all[k - 1] = "user"
        OBVIOUS
      <4>1. k \in DOMAIN all /\ k \notin sent
        BY <1>2, <1>4, <2>2
      <4>. QED BY <2>1, <4>1
    <3>2. all[i] = "user"
      <4>1. i + 1 \in (i + 1) .. (j - 1) /\ (i + 1) - 1 = i
        BY <2>2, <2>5
      <4>. QED BY <3>1, <4>1
    <3>3. all[j - 1] = "user"
      <4>1. j - 1 \in (i + 1) .. (j - 1)
        BY <2>2, <2>5
      <4>. QED BY <3>1, <4>1
    <3>4. all[j] # "user"
      BY <2>1, <2>2, <2>5, <3>3
    <3>. QED BY <3>2, <3>4
  <2>. QED BY <1>4, <2>2, <2>3, <2>4, <2>5
<1>. QED BY <1>4

\* Feedback that ends with the user's words, or is empty, may follow any other.
LEMMA FeedbackGrows ==
  ASSUME NEW h \in Seq(Roles), Feedback(h), NEW f \in {<<>>, <<"user">>, <<"assistant", "user">>}
  PROVE  h \o f \in Seq(Roles) /\ Feedback(h \o f)
<1>1. CASE f = <<>>
  <2>1. h \o f = h
    BY <1>1, ConcatEmptySeq
  <2>. QED BY <2>1
<1>2. CASE f = <<"user">>
  <2>1. /\ h \o f \in Seq(Roles) /\ Len(h) \in Nat /\ Len(h \o f) = Len(h) + 1
        /\ \A i \in 1 .. Len(h) : (h \o f)[i] = h[i]
        /\ (h \o f)[Len(h) + 1] = "user"
    BY <1>2 DEF Roles
  <2>2. \A i \in 1 .. Len(h \o f) - 1 : (h \o f)[i] = "user" \/ (h \o f)[i + 1] = "user"
    <3> SUFFICES ASSUME NEW i \in 1 .. Len(h)
                 PROVE  (h \o f)[i] = "user" \/ (h \o f)[i + 1] = "user"
      <4>1. Len(h \o f) - 1 = Len(h) BY <2>1
      <4>. QED BY <4>1
    <3>1. CASE i = Len(h)
      BY <2>1, <3>1
    <3>2. CASE i < Len(h)
      <4>1. i \in 1 .. Len(h) - 1 /\ i + 1 \in 1 .. Len(h)
        BY <2>1, <3>2
      <4>. QED BY <2>1, <4>1 DEF Feedback
    <3>. QED BY <2>1, <3>1, <3>2
  <2>. QED BY <2>1, <2>2 DEF Feedback
<1>3. CASE f = <<"assistant", "user">>
  <2>1. /\ h \o f \in Seq(Roles) /\ Len(h) \in Nat /\ Len(h \o f) = Len(h) + 2
        /\ \A i \in 1 .. Len(h) : (h \o f)[i] = h[i]
        /\ (h \o f)[Len(h) + 2] = "user"
    BY <1>3 DEF Roles
  <2>2. \A i \in 1 .. Len(h \o f) - 1 : (h \o f)[i] = "user" \/ (h \o f)[i + 1] = "user"
    <3> SUFFICES ASSUME NEW i \in 1 .. Len(h) + 1
                 PROVE  (h \o f)[i] = "user" \/ (h \o f)[i + 1] = "user"
      <4>1. Len(h \o f) - 1 = Len(h) + 1 BY <2>1
      <4>. QED BY <4>1
    <3>1. CASE i = Len(h) + 1
      <4>1. i + 1 = Len(h) + 2
        BY <2>1, <3>1
      <4>. QED BY <2>1, <4>1
    <3>2. CASE i = Len(h)
      <4>1. h # <<>> /\ h[i] = "user"
        BY <2>1, <3>2 DEF Feedback
      <4>. QED BY <2>1, <3>2, <4>1
    <3>3. CASE i < Len(h)
      <4>1. i \in 1 .. Len(h) - 1 /\ i + 1 \in 1 .. Len(h)
        BY <2>1, <3>3
      <4>. QED BY <2>1, <4>1 DEF Feedback
    <3>. QED BY <2>1, <3>1, <3>2, <3>3
  <2>. QED BY <2>1, <2>2 DEF Feedback
<1>. QED BY <1>1, <1>2, <1>3

-----------------------------------------------------------------------------
(* Requests.                                                                *)

\* A request begins in a form nothing comes before but what this server is never asked for.
LEMMA RequestFacts ==
  ASSUME RefinementAssumption, setup \in Setups, NEW level \in Nat, NEW m \in 0 .. 5,
         NEW number \in 0 .. _MAX_FALLBACK_ATTEMPTS
  PROVE  LET calls == [level : Nat, model : 0 .. 5, attempt : 0 .. _MAX_FALLBACK_ATTEMPTS, form : Forms]
         IN  /\ Request(level, m, number) \in calls
             /\ Request(level, m, number).level = level /\ Request(level, m, number).model = m
             /\ \A r : call_fn(r, level) \in calls /\ call_fn(r, level).level = level
BY DEF RefinementAssumption, Request, call_fn, call_llm, call_llm_streaming, _call_llm_once,
       _call_llm_streaming_once, _send_llm_request, _create_streaming_response, Forms, _MAX_FALLBACK_ATTEMPTS

\* What a step under way leaves alone, and that models and forms are forgotten.
Quiet == UNCHANGED <<env, run, valid>>
Clean == \A r \in refused' : r \in refused /\ r[1] = "level"

\* The loop goes on with the level that is left, or ends (_run_refinement_loop).
LEMMA LoopKeeps ==
  ASSUME RefinementAssumption, RefinementInv, phase \in {"wait", "check"}, Quiet, Clean,
         NEW error, error.error_type \in ErrorTypes,
         NEW feedback \in {<<>>, <<"user">>, <<"assistant", "user">>},
         _run_refinement_loop(error, feedback)
  PROVE  RefinementInv'
<1>1. CASE GivesUp(error)
  <2>1. End("failed", Nothing)
    BY <1>1 DEF _run_refinement_loop
  <2>2. Shapes'
    BY <2>1 DEF End, Quiet, env, RefinementInv, Shapes
  <2>3. RefusedIsBehind' /\ Feedback(state.messages_history)' /\ SuggestionFits'
    BY <2>1 DEF End, RefinementInv, RefusedIsBehind, Feedback, SuggestionFits
  <2>4. CacheIsChecked'
    BY DEF Quiet, env, RefinementInv, CacheIsChecked
  <2>. QED BY <2>2, <2>3, <2>4 DEF RefinementInv
<1>2. CASE ~GivesUp(error)
  <2>1. /\ attempt' = attempt + 1 /\ attempt # run.max_retries
        /\ state' = [_check_repeated_error(error) EXCEPT !.messages_history = @ \o feedback]
        /\ Send(call_fn(run, state.min_prompt_level))
    BY <1>2 DEF _run_refinement_loop, GivesUp
  <2>2. state.messages_history \in Seq(Roles) /\ state.min_prompt_level \in Nat
    BY DEF RefinementInv, Shapes
  <2>3. /\ state' \in [last_error_type : ErrorTypes, same_error_count : Nat, messages_history : Seq(Roles),
                        min_prompt_level : Nat]
        /\ state'.messages_history = state.messages_history \o feedback
        /\ state'.min_prompt_level = state.min_prompt_level
    <3>1. state.messages_history \o feedback \in Seq(Roles)
      BY <2>2, FeedbackGrows DEF RefinementInv
    <3> DEFINE counted == _check_repeated_error(error)
    <3>2. state.same_error_count \in Nat /\ state.last_error_type \in ErrorTypes
      BY DEF RefinementInv, Shapes
    <3>3. /\ counted \in [last_error_type : ErrorTypes, same_error_count : Nat,
                           messages_history : Seq(Roles), min_prompt_level : Nat]
          /\ counted.messages_history = state.messages_history
          /\ counted.min_prompt_level = state.min_prompt_level
      <4> DEFINE count == CASE error.error_type \notin _NON_RETRYABLE_ERRORS -> state.same_error_count
                            [] error.error_type = state.last_error_type -> state.same_error_count + 1
                            [] OTHER -> 1
      <4>1. counted = [state EXCEPT !.last_error_type = error.error_type, !.same_error_count = count]
        BY DEF _check_repeated_error
      <4>2. count \in Nat
        BY <3>2 DEF _NON_RETRYABLE_ERRORS
      <4> HIDE DEF count, counted
      <4>. QED BY <4>1, <4>2 DEF RefinementInv, Shapes
    <3>. QED BY <2>1, <3>1, <3>3
  <2>4. call' \in [level : Nat, model : 0 .. 5, attempt : 0 .. _MAX_FALLBACK_ATTEMPTS, form : Forms]
        /\ call'.level = state.min_prompt_level /\ phase' = "wait"
    <3>1. 0 \in 0 .. 5 /\ 0 \in 0 .. _MAX_FALLBACK_ATTEMPTS
      BY DEF _MAX_FALLBACK_ATTEMPTS
    <3>. QED BY <2>1, <2>2, <3>1, RequestFacts DEF Send, RefinementInv, Shapes
  <2>5. Shapes'
    <3>1. attempt' \in 0 .. run'.max_retries
      BY <2>1 DEF Quiet, RefinementInv, Shapes, RefinementAssumption
    <3>. QED BY <2>3, <2>4, <3>1 DEF Quiet, env, RefinementInv, Shapes
  <2>6. RefusedIsBehind'
    BY <2>2, <2>3, <2>4 DEF Clean, RefinementInv, RefusedIsBehind
  <2>7. Feedback(state.messages_history)'
    BY <2>2, <2>3, FeedbackGrows DEF RefinementInv
  <2>8. CacheIsChecked' /\ SuggestionFits'
    BY <2>4 DEF Quiet, env, RefinementInv, CacheIsChecked, SuggestionFits
  <2>. QED BY <2>5, <2>6, <2>7, <2>8 DEF RefinementInv
<1>. QED BY <1>1, <1>2

\* A run that ends without rules keeps what is cached.
LEMMA FailureKeeps ==
  ASSUME RefinementInv, Quiet, NEW kind, kind # "config" \/ run.mode = "direct", NEW config, End(kind, config)
  PROVE  RefinementInv'
<1>1. Shapes'
  BY DEF End, Quiet, env, RefinementInv, Shapes
<1>2. RefusedIsBehind' /\ Feedback(state.messages_history)' /\ SuggestionFits'
  BY DEF End, Quiet, RefinementInv, RefusedIsBehind, Feedback, SuggestionFits
<1>3. CacheIsChecked'
  BY DEF Quiet, env, RefinementInv, CacheIsChecked
<1>. QED BY <1>1, <1>2, <1>3 DEF RefinementInv

\* The server is asked again, in the same attempt.
LEMMA SendKeeps ==
  ASSUME RefinementAssumption, RefinementInv, phase = "wait", Quiet, UNCHANGED attempt,
         NEW request \in [level : Nat, model : 0 .. 5, attempt : 0 .. _MAX_FALLBACK_ATTEMPTS, form : Forms],
         Send(request),
         NEW least \in Nat, state' = [state EXCEPT !.min_prompt_level = least],
         least <= request.level,
         \A r \in refused' : r[1] = "level" => r[2] \in Nat /\ r[2] < least,
         \A r \in refused' : r[1] = "model" => r[2] \in Nat /\ r[2] < request.model,
         \A r \in refused' : r[1] = "form" => r[2] \in Before(request.form),
         \A r \in refused' : r[1] \in {"level", "model", "form"}
  PROVE  RefinementInv'
<1>1. /\ state' \in [last_error_type : ErrorTypes, same_error_count : Nat, messages_history : Seq(Roles),
                      min_prompt_level : Nat]
      /\ state'.messages_history = state.messages_history /\ state'.min_prompt_level = least
  BY DEF RefinementInv, Shapes
<1>2. phase' = "wait" /\ call' = request
  BY DEF Send
<1>3. Shapes'
  BY <1>1, <1>2 DEF Quiet, env, RefinementInv, Shapes
<1>4. RefusedIsBehind'
  BY <1>1, <1>2 DEF RefusedIsBehind
<1>5. Feedback(state.messages_history)' /\ CacheIsChecked' /\ SuggestionFits'
  BY <1>1, <1>2 DEF Quiet, env, RefinementInv, CacheIsChecked, SuggestionFits
<1>. QED BY <1>3, <1>4, <1>5 DEF RefinementInv

\* Nothing usable came back: the loop goes on, or the command asks for less (Unanswered).
LEMMA UnansweredKeeps ==
  ASSUME RefinementAssumption, RefinementInv, Waiting, Settled, NEW error, error.error_type \in ErrorTypes,
         NEW unusable, Unanswered(error, unusable)
  PROVE  RefinementInv'
<1>1. Quiet /\ Clean /\ phase = "wait"
  BY DEF Waiting, Quiet, Settled, Forget, Clean, RefinementInv, RefusedIsBehind
<1>2. CASE run.mode = "direct"
  <2>1. _handle_ai_direct(unusable)
    BY <1>2 DEF Unanswered
  <2>2. CASE unusable /\ ~Ultra(call.level)
    <3> DEFINE request == call_fn(run, call.level + 1)
    <3>1. Send(request) /\ UNCHANGED <<attempt, state>>
      BY <2>1, <2>2 DEF _handle_ai_direct
    <3>2. state.min_prompt_level \in Nat /\ call.level \in Nat /\ state.min_prompt_level <= call.level
      BY <1>1 DEF RefinementInv, Shapes, RefusedIsBehind
    <3>3. /\ request \in [level : Nat, model : 0 .. 5, attempt : 0 .. _MAX_FALLBACK_ATTEMPTS, form : Forms]
          /\ request.level = call.level + 1
      <4>1. 0 \in 0 .. 5 /\ 0 \in 0 .. _MAX_FALLBACK_ATTEMPTS
        BY DEF _MAX_FALLBACK_ATTEMPTS
      <4>2. call.level + 1 \in Nat /\ setup \in Setups
        BY <3>2 DEF RefinementInv, Shapes
      <4>. QED BY <4>1, <4>2, RequestFacts
    <3>4. state' = [state EXCEPT !.min_prompt_level = state.min_prompt_level]
      BY <3>1 DEF RefinementInv, Shapes
    <3>5. /\ \A r \in refused' : r[1] = "level" => r[2] \in Nat /\ r[2] < state.min_prompt_level
          /\ \A r \in refused' : r[1] = "level"
      BY <1>1 DEF Clean, RefinementInv, RefusedIsBehind
    <3> HIDE DEF request
    <3>6. state.min_prompt_level <= request.level
      BY <3>2, <3>3
    <3>7. /\ \A r \in refused' : r[1] = "model" => r[2] \in Nat /\ r[2] < request.model
          /\ \A r \in refused' : r[1] = "form" => r[2] \in Before(request.form)
          /\ \A r \in refused' : r[1] \in {"level", "model", "form"}
      BY <3>5
    <3>. QED BY <1>1, <3>1, <3>2, <3>3, <3>4, <3>5, <3>6, <3>7, SendKeeps
  <2>3. CASE ~(unusable /\ ~Ultra(call.level))
    BY <1>1, <1>2, <2>1, <2>3, FailureKeeps DEF _handle_ai_direct
  <2>. QED BY <2>2, <2>3
<1>3. CASE run.mode # "direct"
  BY <1>1, <1>3, LoopKeeps DEF Unanswered, _record_generation_failure
<1>. QED BY <1>2, <1>3

-----------------------------------------------------------------------------
(* Every operation keeps the invariant.                                     *)

\* A request finds the file of the table, the old version's file, or asks (Start).
LEMMA StartKeeps ==
  ASSUME RefinementAssumption, RefinementInv, Start
  PROVE  RefinementInv'
<1>1. /\ phase = "idle" /\ run' \in _run_ai_analysis \cup sqlseed_ai_generate_yaml
      /\ UNCHANGED <<setup, table, cache, legacy, answer, refused, valid, attempt, state>>
  BY DEF Start, End
<1>2. run' \in [mode : {"refine", "direct"}, stream : BOOLEAN, no_cache : BOOLEAN, max_retries : 0 .. MaxRetries]
  <2>1. should_use_streaming \in BOOLEAN /\ 0 \in 0 .. MaxRetries /\ 1 .. MaxRetries \subseteq 0 .. MaxRetries
    BY DEF should_use_streaming, is_small_local_model, Local, is_reasoning_model, RefinementAssumption
  <2>2. CASE run' \in [mode : {"refine"}, stream : {should_use_streaming}, no_cache : BOOLEAN, max_retries : 1 .. MaxRetries]
    BY <2>1, <2>2
  <2>3. CASE run' \in [mode : {"direct"}, stream : {should_use_streaming}, no_cache : {FALSE}, max_retries : {0}]
    BY <2>1, <2>3
  <2>4. CASE run' \in [mode : {"refine"}, stream : {FALSE}, no_cache : {FALSE}, max_retries : 0 .. MaxRetries]
    BY <2>1, <2>4
  <2>. QED BY <1>1, <2>2, <2>3, <2>4 DEF _run_ai_analysis, sqlseed_ai_generate_yaml
<1>3. attempt = 0 /\ refused = {} /\ state = _RetryState
  BY <1>1 DEF RefinementInv, Shapes, NoRun
<1>4. attempt' \in 0 .. run'.max_retries
  BY <1>1, <1>2, <1>3 DEF RefinementAssumption
<1>5. CacheIsChecked' /\ Feedback(state.messages_history)'
  BY <1>1 DEF RefinementInv, CacheIsChecked, Feedback
<1>6. CASE phase' = "done" /\ UNCHANGED call /\ (outcome'.kind = "config" /\ run'.mode = "refine" => get_cached_config = <<outcome'.config>>)
  <2>1. Shapes'
    BY <1>1, <1>2, <1>4, <1>6 DEF RefinementInv, Shapes
  <2>2. RefusedIsBehind'
    BY <1>6 DEF RefusedIsBehind
  <2>3. SuggestionFits'
    <3>1. CASE cache = <<>>
      BY <1>1, <1>6, <3>1 DEF get_cached_config, SuggestionFits
    <3>2. CASE cache # <<>>
      <4>1. PICK c, h : cache = <<[schema_hash |-> h, config |-> c]>> /\ <<c, h>> \in valid
        BY <3>2 DEF RefinementInv, CacheIsChecked
      <4>2. cache[1] = [schema_hash |-> h, config |-> c]
        BY <4>1
      <4>3. get_cached_config = (IF h = table.columns THEN <<c>> ELSE <<>>)
        BY <3>2, <4>2 DEF get_cached_config, _decode_cached_config, _compute_schema_hash
      <4>. QED BY <1>1, <1>6, <4>1, <4>3 DEF SuggestionFits
    <3>. QED BY <3>1, <3>2
  <2>. QED BY <1>5, <2>1, <2>2, <2>3 DEF RefinementInv
<1>7. CASE Send(call_fn(run', 0))
  <2>1. /\ call' \in [level : Nat, model : 0 .. 5, attempt : 0 .. _MAX_FALLBACK_ATTEMPTS, form : Forms]
        /\ call'.level = 0 /\ phase' = "wait"
    <3>1. 0 \in 0 .. 5 /\ 0 \in 0 .. _MAX_FALLBACK_ATTEMPTS /\ 0 \in Nat
      BY DEF _MAX_FALLBACK_ATTEMPTS
    <3>. QED BY <1>7, <3>1, RequestFacts DEF Send, RefinementInv, Shapes
  <2>2. Shapes'
    BY <1>1, <1>2, <1>4, <2>1 DEF RefinementInv, Shapes
  <2>3. RefusedIsBehind' /\ SuggestionFits'
    BY <1>1, <1>3, <2>1 DEF RefusedIsBehind, SuggestionFits, _RetryState
  <2>. QED BY <1>5, <2>2, <2>3 DEF RefinementInv
<1>8. CASE End("failed", Nothing)
  BY <1>6, <1>8 DEF End
<1>9. CASE \E cached \in {<<>>, get_cached_config} : cached # <<>> /\ End("config", cached[1])
  <2>1. get_cached_config # <<>> /\ End("config", get_cached_config[1])
    BY <1>9
  <2>2. get_cached_config = <<get_cached_config[1]>>
    <3>1. CASE cache = <<>>
      <4>1. get_cached_config = legacy
        BY <3>1 DEF get_cached_config
      <4>. QED BY <2>1, <4>1 DEF RefinementInv, Shapes, RefinementAssumption
    <3>2. CASE cache # <<>>
      BY <2>1, <3>2 DEF get_cached_config
    <3>. QED BY <3>1, <3>2
  <2>. QED BY <1>6, <2>1, <2>2 DEF End
<1>. QED BY <1>7, <1>8, <1>9 DEF Start

\* An answer that can be read is checked, or written by the command that does not refine (Answered).
LEMMA AnsweredKeeps ==
  ASSUME RefinementInv, Answered
  PROVE  RefinementInv'
<1>1. Quiet /\ Clean /\ phase = "wait"
  BY DEF Answered, Waiting, Quiet, Settled, Forget, Clean, RefinementInv, RefusedIsBehind
<1>2. CASE run.mode = "direct"
  BY <1>1, <1>2, FailureKeeps DEF Answered, _write_ai_output
<1>3. CASE run.mode # "direct"
  <2>1. phase' = "check" /\ UNCHANGED <<attempt, state, call, outcome>>
    BY <1>3 DEF Answered
  <2>2. Shapes' /\ Feedback(state.messages_history)'
    BY <1>1, <2>1 DEF Quiet, env, RefinementInv, Shapes, Feedback
  <2>3. RefusedIsBehind' /\ SuggestionFits'
    BY <1>1, <2>1 DEF Clean, RefinementInv, RefusedIsBehind, SuggestionFits
  <2>4. CacheIsChecked'
    BY <1>1 DEF Quiet, env, RefinementInv, CacheIsChecked
  <2>. QED BY <2>2, <2>3, <2>4 DEF RefinementInv
<1>. QED BY <1>2, <1>3

\* What is sent once more has the next form (Resend).
LEMMA ResendKeeps ==
  ASSUME RefinementAssumption, RefinementInv, Resend
  PROVE  RefinementInv'
<1>1. Quiet /\ phase = "wait" /\ UNCHANGED <<attempt, state>> /\ refused' = refused \cup {<<"form", call.form>>}
  BY DEF Resend, Waiting, Quiet
<1>2. PICK form \in Forms : Send([call EXCEPT !.form = form]) /\ Before(call.form) \cup {call.form} \subseteq Before(form)
  <2>1. CASE call.form = "tools" /\ Send([call EXCEPT !.form = "json"])
    BY <2>1 DEF Before, Forms
  <2>2. CASE call.form = "json" /\ Send([call EXCEPT !.form = "text"])
    BY <2>2 DEF Before, Forms
  <2>. QED BY <2>1, <2>2 DEF Resend, _try_tool_calling, _send_with_json_mode
<1> DEFINE request == [call EXCEPT !.form = form]
<1>3. /\ request \in [level : Nat, model : 0 .. 5, attempt : 0 .. _MAX_FALLBACK_ATTEMPTS, form : Forms]
      /\ request.level = call.level /\ request.model = call.model /\ request.form = form
  BY DEF RefinementInv, Shapes
<1>4. state.min_prompt_level \in Nat /\ state.min_prompt_level <= call.level
      /\ state' = [state EXCEPT !.min_prompt_level = state.min_prompt_level]
  BY <1>1 DEF RefinementInv, Shapes, RefusedIsBehind
<1>5. \A r \in refused' : r \in refused \/ (r[1] = "form" /\ r[2] = call.form)
  BY <1>1
<1>6. /\ \A r \in refused' : r[1] = "level" => r[2] \in Nat /\ r[2] < state.min_prompt_level
      /\ \A r \in refused' : r[1] = "model" => r[2] \in Nat /\ r[2] < request.model
      /\ \A r \in refused' : r[1] = "form" => r[2] \in Before(request.form)
      /\ \A r \in refused' : r[1] \in {"level", "model", "form"}
  BY <1>1, <1>2, <1>3, <1>5 DEF RefinementInv, RefusedIsBehind
<1>7. Send(request)
  BY <1>2
<1> HIDE DEF request
<1>. QED BY <1>1, <1>3, <1>4, <1>6, <1>7, SendKeeps

\* After a prompt that is too long comes a shorter one (Overflow).
LEMMA OverflowKeeps ==
  ASSUME RefinementAssumption, RefinementInv, Overflow
  PROVE  RefinementInv'
<1>1. Quiet /\ phase = "wait" /\ refused' = Forget({"model", "form"}) \cup {<<"level", call.level>>}
  BY DEF Overflow, Waiting, Quiet
<1>2. CASE run.mode = "direct" \/ Ultra(call.level)
  BY <1>1, <1>2, FailureKeeps DEF Overflow
<1>3. CASE ~(run.mode = "direct" \/ Ultra(call.level))
  <2> DEFINE least == call.level + 1
             request == call_fn(run, call.level + 1)
  <2>1. state' = [state EXCEPT !.min_prompt_level = least] /\ Send(request) /\ UNCHANGED attempt
    BY <1>3 DEF Overflow, AfterOverflow
  <2>2. state.min_prompt_level \in Nat /\ state.min_prompt_level <= call.level /\ call.level \in Nat /\ least \in Nat
    BY <1>1 DEF RefinementInv, Shapes, RefusedIsBehind
  <2>3. /\ request \in [level : Nat, model : 0 .. 5, attempt : 0 .. _MAX_FALLBACK_ATTEMPTS, form : Forms]
        /\ request.level = least
    <3>1. 0 \in 0 .. 5 /\ 0 \in 0 .. _MAX_FALLBACK_ATTEMPTS
      BY DEF _MAX_FALLBACK_ATTEMPTS
    <3>. QED BY <2>2, <3>1, RequestFacts DEF RefinementInv, Shapes
  <2>4. \A r \in refused' : r[1] = "level" /\ (r \in refused \/ r[2] = call.level)
    <3>1. \A r \in Forget({"model", "form"}) : r \in refused /\ r[1] = "level"
      BY <1>1 DEF Forget, RefinementInv, RefusedIsBehind
    <3>. QED BY <1>1, <3>1
  <2>5. \A r \in refused' : r[1] = "level" /\ r[2] \in Nat /\ r[2] < least
    BY <1>1, <2>2, <2>4 DEF RefinementInv, RefusedIsBehind
  <2>6. least <= request.level
    BY <2>2, <2>3
  <2> HIDE DEF least, request
  <2>. QED BY <1>1, <2>1, <2>2, <2>3, <2>5, <2>6, SendKeeps
<1>. QED BY <1>2, <1>3

\* Another model comes after the one that failed (_call_with_fallback).
LEMMA FallbackKeeps ==
  ASSUME RefinementAssumption, RefinementInv, _call_with_fallback
  PROVE  RefinementInv'
<1>1. PICK all_local \in detect_all_local_models :
        LET next == _select_fallback_model(call.model, all_local)
        IN  IF next # 0 /\ call.attempt < _MAX_FALLBACK_ATTEMPTS
            THEN /\ refused' = Forget({"form"}) \cup {<<"model", call.model>>}
                 /\ Send(Request(call.level, next, call.attempt + 1))
                 /\ UNCHANGED <<attempt, state>>
            ELSE Settled /\ Unanswered(_default_error(next = 0 /\ select_next_gemma_model(call.model) # 0), FALSE)
  BY DEF _call_with_fallback
<1> DEFINE next == _select_fallback_model(call.model, all_local)
<1>2. Quiet /\ phase = "wait" /\ Waiting
  BY DEF _call_with_fallback, Waiting, Quiet
<1>3. CASE next # 0 /\ call.attempt < _MAX_FALLBACK_ATTEMPTS
  <2> DEFINE request == Request(call.level, next, call.attempt + 1)
  <2>1. /\ refused' = Forget({"form"}) \cup {<<"model", call.model>>}
        /\ Send(request) /\ UNCHANGED <<attempt, state>>
    BY <1>1, <1>3
  <2>2. /\ state.min_prompt_level \in Nat /\ state.min_prompt_level <= call.level /\ call.level \in Nat
        /\ call.model \in 0 .. 5 /\ call.attempt \in 0 .. _MAX_FALLBACK_ATTEMPTS
        /\ state' = [state EXCEPT !.min_prompt_level = state.min_prompt_level]
    BY <1>2, <2>1 DEF RefinementInv, Shapes, RefusedIsBehind
  <2>3. next \in 0 .. 5 /\ call.model < next
    BY <1>3, <2>2, NextModelIsSmaller DEF RefinementInv, Shapes
  <2>4. /\ request \in [level : Nat, model : 0 .. 5, attempt : 0 .. _MAX_FALLBACK_ATTEMPTS, form : Forms]
        /\ request.level = call.level /\ request.model = next
    <3>1. call.attempt + 1 \in 0 .. _MAX_FALLBACK_ATTEMPTS
      BY <1>3, <2>2 DEF _MAX_FALLBACK_ATTEMPTS
    <3> HIDE DEF next
    <3>. QED BY <2>2, <2>3, <3>1, RequestFacts DEF RefinementInv, Shapes
  <2>5. \A r \in refused' : (r \in refused /\ r[1] \in {"level", "model"}) \/ (r[1] = "model" /\ r[2] = call.model)
    <3>1. \A r \in Forget({"form"}) : r \in refused /\ r[1] \in {"level", "model"}
      BY <1>2 DEF Forget, RefinementInv, RefusedIsBehind
    <3>. QED BY <2>1, <3>1
  <2> HIDE DEF next, request
  <2>6. /\ \A r \in refused' : r[1] = "level" => r[2] \in Nat /\ r[2] < state.min_prompt_level
        /\ \A r \in refused' : r[1] = "model" => r[2] \in Nat /\ r[2] < request.model
        /\ \A r \in refused' : r[1] \in {"level", "model"}
    <3>1. \A r \in refused : r[1] = "level" => r[2] \in Nat /\ r[2] < state.min_prompt_level
      BY <1>2 DEF RefinementInv, RefusedIsBehind
    <3>2. \A r \in refused : r[1] = "model" => r[2] \in Nat /\ r[2] < call.model
      BY <1>2 DEF RefinementInv, RefusedIsBehind
    <3>. QED BY <2>2, <2>3, <2>4, <2>5, <3>1, <3>2
  <2>. QED BY <1>2, <2>1, <2>2, <2>4, <2>6, SendKeeps
<1>4. CASE ~(next # 0 /\ call.attempt < _MAX_FALLBACK_ATTEMPTS)
  <2>1. Settled /\ Unanswered(_default_error(next = 0 /\ select_next_gemma_model(call.model) # 0), FALSE)
    BY <1>1, <1>4
  <2>2. \A fatal : _default_error(fatal).error_type \in ErrorTypes
    BY DEF _default_error, ErrorSummary, ErrorTypes
  <2>. QED BY <1>2, <2>1, <2>2, UnansweredKeeps
<1>. QED BY <1>3, <1>4

\* An answer that passes is kept with the columns it passed for (Check).
LEMMA CheckKeeps ==
  ASSUME RefinementAssumption, RefinementInv, Check
  PROVE  RefinementInv'
<1>1. PICK error \in _try_pydantic_error \cup _validate_config(answer) :
        IF error = None
        THEN /\ cache' \in _cache_successful_config(answer)
             /\ valid' = valid \cup {<<answer, table.columns>>}
             /\ End("config", answer)
        ELSE _handle_validation_result(error) /\ UNCHANGED <<cache, valid>>
  BY DEF Check
<1>2. phase = "check" /\ UNCHANGED <<setup, table, legacy, runs, run, refused>>
  BY DEF Check
<1>3. CASE error = None
  <2>1. /\ cache' = cache \/ cache' = <<[schema_hash |-> table.columns, config |-> answer]>>
        /\ valid' = valid \cup {<<answer, table.columns>>}
        /\ phase' = "done" /\ outcome' = [kind |-> "config", config |-> answer]
        /\ UNCHANGED <<attempt, state, call>>
    BY <1>1, <1>3 DEF _cache_successful_config, _compute_schema_hash, End
  <2>2. Shapes' /\ Feedback(state.messages_history)'
    BY <1>2, <2>1 DEF RefinementInv, Shapes, Feedback
  <2>3. RefusedIsBehind' /\ SuggestionFits'
    BY <1>2, <2>1 DEF RefusedIsBehind, SuggestionFits
  <2>4. CacheIsChecked'
    <3>1. CASE cache' = cache
      BY <2>1, <3>1 DEF RefinementInv, CacheIsChecked
    <3>2. CASE cache' = <<[schema_hash |-> table.columns, config |-> answer]>>
      <4>1. <<answer, table.columns>> \in valid'
        BY <2>1
      <4>. QED BY <3>2, <4>1 DEF CacheIsChecked
    <3>. QED BY <2>1, <3>1, <3>2
  <2>. QED BY <2>2, <2>3, <2>4 DEF RefinementInv
<1>4. CASE error # None
  <2>1. _run_refinement_loop(error, <<"assistant", "user">>) /\ Quiet
    BY <1>1, <1>2, <1>4 DEF _handle_validation_result, Quiet, env
  <2>2. Clean
    BY <1>2 DEF Clean, RefinementInv, RefusedIsBehind
  <2>3. error.error_type \in ErrorTypes
    BY DEF _try_pydantic_error, _validate_config, summarize_error, _validate_preview_insert, None,
           _default_error, ErrorSummary, ErrorTypes
  <2>. QED BY <1>2, <2>1, <2>2, <2>3, LoopKeeps
<1>. QED BY <1>3, <1>4

\* What is cached stays known as checked (Return).
LEMMA ReturnKeeps ==
  ASSUME RefinementAssumption, RefinementInv, Return
  PROVE  RefinementInv'
<1>1. /\ phase' = "idle" /\ run' = NoRun /\ attempt' = 0 /\ state' = _RetryState /\ call' = NoCall
      /\ refused' = {} /\ UNCHANGED env
      /\ valid' = {v \in valid : \E i \in DOMAIN cache : cache[i].config = v[1]}
  BY DEF Return
<1>2. <<>> \in Seq(Roles) /\ Len(<<>>) = 0
  OBVIOUS
<1>3. Shapes'
  BY <1>1, <1>2 DEF env, RefinementInv, Shapes, NoRun, NoCall, _RetryState, ErrorTypes, Forms,
                    _MAX_FALLBACK_ATTEMPTS, RefinementAssumption
<1>4. RefusedIsBehind' /\ Feedback(state.messages_history)' /\ SuggestionFits'
  BY <1>1, <1>2 DEF RefusedIsBehind, Feedback, SuggestionFits, _RetryState
<1>5. CacheIsChecked'
  <2>1. CASE cache = <<>>
    BY <1>1, <2>1 DEF env, CacheIsChecked
  <2>2. CASE cache # <<>>
    <3>1. PICK c, h : cache = <<[schema_hash |-> h, config |-> c]>> /\ <<c, h>> \in valid
      BY <2>2 DEF RefinementInv, CacheIsChecked
    <3>2. 1 \in DOMAIN cache /\ cache[1].config = c
      BY <3>1
    <3>3. <<c, h>> \in valid'
      BY <1>1, <3>1, <3>2
    <3>. QED BY <1>1, <3>1, <3>3 DEF env, CacheIsChecked
  <2>. QED BY <2>1, <2>2
<1>. QED BY <1>3, <1>4, <1>5 DEF RefinementInv

\* Nothing was refused at first.
LEMMA InitHolds ==
  ASSUME RefinementAssumption, Init
  PROVE  RefinementInv
<1>1. <<>> \in Seq(Roles) /\ Len(<<>>) = 0
  OBVIOUS
<1>2. Shapes
  BY <1>1 DEF Init, Shapes, NoRun, NoCall, _RetryState, ErrorTypes, Forms, _MAX_FALLBACK_ATTEMPTS,
              RefinementAssumption
<1>3. CacheIsChecked /\ RefusedIsBehind /\ Feedback(state.messages_history) /\ SuggestionFits
  BY <1>1 DEF Init, CacheIsChecked, RefusedIsBehind, Feedback, SuggestionFits, _RetryState
<1>. QED BY <1>2, <1>3 DEF RefinementInv

\* Every operation of the callers, the server and the outside keeps RefinementInv.
THEOREM RefinementInvariance == Spec => []RefinementInv
<1>1. Init => RefinementInv
  BY InitHolds, RefinementAssumption
<1>2. RefinementInv /\ [Next]_vars => RefinementInv'
  <2> SUFFICES ASSUME RefinementInv, [Next]_vars
               PROVE  RefinementInv'
    OBVIOUS
  <2>1. CASE Unusable
    <3>1. Waiting /\ Settled
      BY <2>1 DEF Unusable
    <3>2. PICK code \in parse_json_response : Unanswered(_try_json_error(code), TRUE)
      BY <2>1 DEF Unusable
    <3>3. _try_json_error(code).error_type \in ErrorTypes
      BY DEF _try_json_error, ErrorSummary, ErrorTypes
    <3>. QED BY <3>1, <3>2, <3>3, UnansweredKeeps, RefinementAssumption
  <2>2. CASE _handle_llm_api_exception
    <3>1. Waiting /\ Settled /\ Unanswered(_default_error(FALSE), FALSE)
      BY <2>2 DEF _handle_llm_api_exception
    <3>2. _default_error(FALSE).error_type \in ErrorTypes
      BY DEF _default_error, ErrorSummary, ErrorTypes
    <3>. QED BY <3>1, <3>2, UnansweredKeeps, RefinementAssumption
  <2>3. CASE Alter
    <3>1. UNCHANGED <<setup, cache, legacy, phase, run, attempt, state, call, outcome, refused, valid>> /\ phase = "idle"
      BY <2>3 DEF Alter
    <3>. QED BY <3>1 DEF RefinementInv, Shapes, CacheIsChecked, RefusedIsBehind, Feedback, SuggestionFits
  <2>4. CASE UNCHANGED vars
    BY <2>4 DEF vars, env, RefinementInv, Shapes, CacheIsChecked, RefusedIsBehind, Feedback, SuggestionFits
  <2>. QED BY <2>1, <2>2, <2>3, <2>4, RefinementAssumption, StartKeeps, AnsweredKeeps, ResendKeeps,
              OverflowKeeps, FallbackKeeps, CheckKeeps, ReturnKeeps DEF Next
<1>. QED BY <1>1, <1>2, PTL DEF Spec

\* Whatever answers the model gives and however the table is altered, rules that are refined or taken
\* from the cache passed the check for the columns the table has (get_cached_config,
\* _decode_cached_config, _cache_successful_config).
THEOREM SuggestionsFit == Spec => []SuggestionFits
<1>1. RefinementInv => SuggestionFits
  BY DEF RefinementInv
<1>. QED BY <1>1, RefinementInvariance, PTL

\* No prompt, model or form is tried again after it was refused, within the bounds on attempts, and
\* the roles of the messages alternate (_run_refinement_loop, _call_with_fallback, Resend).
THEOREM RefusalsAreFinal == Spec => []RefusedIsNotRepeated
<1>1. RefinementInv => RefusedIsNotRepeated
  <2> SUFFICES ASSUME RefinementInv, phase = "wait"
               PROVE  /\ \A r \in refused : r[1] = "level" => call.level > r[2]
                      /\ <<"model", call.model>> \notin refused /\ <<"form", call.form>> \notin refused
                      /\ call.attempt <= _MAX_FALLBACK_ATTEMPTS /\ attempt <= run.max_retries
                      /\ LET initial == build_initial_messages(call.level)
                             all == initial \o state.messages_history
                             sent == _merge_message_history(initial, state.messages_history)
                         IN  \A i, j \in sent : i < j /\ (\A k \in sent : k <= i \/ j <= k) => all[i] # all[j]
    BY DEF RefusedIsNotRepeated
  <2>1. /\ state.min_prompt_level \in Nat /\ call.level \in Nat /\ state.min_prompt_level <= call.level
        /\ \A r \in refused : r[1] = "level" => r[2] \in Nat /\ r[2] < state.min_prompt_level
    BY DEF RefinementInv, Shapes, RefusedIsBehind
  <2>2. \A r \in refused : r[1] = "level" => call.level > r[2]
    BY <2>1
  <2>3. <<"model", call.model>> \notin refused
    <3>1. call.model \in 0 .. 5 /\ \A r \in refused : r[1] = "model" => r[2] \in Nat /\ r[2] < call.model
      BY DEF RefinementInv, Shapes, RefusedIsBehind
    <3>. QED BY <3>1
  <2>4. <<"form", call.form>> \notin refused
    BY DEF RefinementInv, Shapes, RefusedIsBehind, Before, Forms
  <2>5. call.attempt <= _MAX_FALLBACK_ATTEMPTS /\ attempt <= run.max_retries
    BY DEF RefinementInv, Shapes, _MAX_FALLBACK_ATTEMPTS, RefinementAssumption
  <2>6. state.messages_history \in Seq(Roles) /\ Feedback(state.messages_history)
    BY DEF RefinementInv, Shapes
  <2>. QED BY <2>2, <2>3, <2>4, <2>5, <2>6, MergedRolesAlternate
<1>. QED BY <1>1, RefinementInvariance, PTL

-----------------------------------------------------------------------------

Active == {"repair", "round", "level1", "level2", "compact", "ultra", "merge"}
Rounds == Active \ {"repair"}
Signatures == SUBSET {<<c.name, s>> : c \in SchemaColumns, s \in {"crash", "semantic_error"}}
Reasons == {"none", "valid", "default", "time", "rounds", "answer", "oscillation"}

HealShapes ==
  /\ world \in Worlds /\ given \in BOOLEAN
  /\ stage \in Active \cup {"next", "verified", "done", "failed"}
  /\ sub \in 1 .. Last + 1 /\ (stage \in Active => sub <= Last)
  /\ rule \in [SchemaColumns -> Rules] /\ original \in [SchemaColumns -> Rules] /\ read \in [SchemaColumns -> Rules]
  /\ loose \subseteq SchemaColumns /\ reported \subseteq SchemaColumns
  /\ failed \subseteq degraded /\ degraded \subseteq SchemaColumns
  /\ round \in 0 .. MaxRounds + 1 /\ (stage \in Rounds \ {"round"} => round <= MaxRounds)
  /\ patch \in [SchemaColumns -> ModelRules \cup {Untouched}] /\ twice \in BOOLEAN
  /\ history \in Seq(Signatures) /\ Len(history) <= MaxHistory
  /\ result \in [Tables -> Reasons]

\* The work on a subgraph stays within it.
WithinSubgraph ==
  /\ stage \in Rounds => \A v \in reports : v.columns \subseteq ColumnsOf(sub)
  /\ stage = "level2" => \A q \in queue : q[2] \in ColumnsOf(sub)
  /\ \A c \in SchemaColumns :
       patch[c] # Untouched => c \in ColumnsOf(sub) /\ stage \in {"level2", "merge", "failed"}
  /\ \A t \in Tables : t >= sub => result[t] = "none"
  /\ \A c \in failed : c.table < sub

\* The model's rules are in the subgraph at work, whose earlier rules are at hand, and in earlier ones.
OriginalRules ==
  stage \notin {"done", "failed"} =>
    /\ \A c \in SchemaColumns : c.table > sub => rule[c].head \in {"start", "fixed"}
    /\ stage \in {"next", "repair"} => \A c \in ColumnsOf(sub) : rule[c].head \in {"start", "fixed"}
    /\ stage \in Rounds => \A c \in ColumnsOf(sub) : original[c].head \in {"start", "fixed"}

VerifiedRules == stage = "verified" => rule = read

HealInv ==
  /\ HealShapes /\ WithinSubgraph /\ OriginalRules /\ VerifiedRules
  /\ AcceptedIsValid /\ FailedReturnsToItsRule /\ CallersColumnsAreKept

\* Violations are about columns of the table.
LEMMA ViolationsOfTable ==
  ASSUME HealAssumption, world \in Worlds, NEW t, NEW r
  PROVE  /\ \A v \in Validate(r, t) : v.columns \subseteq ColumnsOf(t) /\ v.severity \in {"crash", "semantic_error"}
         /\ FailedColumns(Validate(r, t)) \subseteq ColumnsOf(t)
         /\ Signature(Validate(r, t)) \in Signatures
<1>1. \A v \in Validate(r, t) : v.columns \subseteq ColumnsOf(t) /\ v.severity \in {"crash", "semantic_error"}
  <2> SUFFICES ASSUME NEW v \in Validate(r, t)
               PROVE  v.columns \subseteq ColumnsOf(t) /\ v.severity \in {"crash", "semantic_error"}
    OBVIOUS
  <2>1. CASE \E c \in ColumnsOf(t) : v = [columns |-> {c}, severity |-> "crash"]
    BY <2>1
  <2>2. CASE \E p \in world.clash : /\ \A i \in 1 .. 2 : p[i][1].table = t
                                   /\ v = [columns |-> {p[1][1], p[2][1]}, severity |-> "semantic_error"]
    <3>1. PICK p \in world.clash : /\ \A i \in 1 .. 2 : p[i][1].table = t
                                   /\ v = [columns |-> {p[1][1], p[2][1]}, severity |-> "semantic_error"]
      BY <2>2
    <3>2. p \in (SchemaColumns \X Rules) \X (SchemaColumns \X Rules)
      BY DEF HealAssumption
    <3>3. p[1][1] \in SchemaColumns /\ p[2][1] \in SchemaColumns
      BY <3>2
    <3>4. p[1][1].table = t /\ p[2][1].table = t
      BY <3>1
    <3> QED BY <3>1, <3>3, <3>4 DEF ColumnsOf
  <2> QED BY <2>1, <2>2 DEF Validate
<1>2. FailedColumns(Validate(r, t)) \subseteq ColumnsOf(t)
  BY <1>1 DEF FailedColumns
<1>3. Signature(Validate(r, t)) \in Signatures
  <2> DEFINE vs == Validate(r, t)
  <2>1. \A v \in vs : v.columns \subseteq SchemaColumns /\ v.severity \in {"crash", "semantic_error"}
    BY <1>1 DEF ColumnsOf
  <2> SUFFICES ASSUME NEW e \in Signature(vs)
               PROVE  e \in {<<c.name, s>> : c \in SchemaColumns, s \in {"crash", "semantic_error"}}
    BY DEF Signatures
  <2> HIDE DEF vs
  <2>2. PICK v \in vs : e \in {<<c.name, v.severity>> : c \in v.columns}
    BY DEF Signature
  <2>3. PICK c \in v.columns : e = <<c.name, v.severity>>
    BY <2>2
  <2>4. c \in SchemaColumns /\ v.severity \in {"crash", "semantic_error"}
    BY <2>1
  <2> QED BY <2>3, <2>4
<1> QED BY <1>1, <1>2, <1>3

\* They depend on the rules of the table alone.
LEMMA ViolationsAreLocal ==
  ASSUME HealAssumption, world \in Worlds, NEW t, NEW r, NEW s, \A c \in ColumnsOf(t) : r[c] = s[c]
  PROVE  Validate(r, t) = Validate(s, t)
<1>1. {x \in ColumnsOf(t) : <<x, r[x]>> \in world.bad} = {x \in ColumnsOf(t) : <<x, s[x]>> \in world.bad}
  OBVIOUS
<1>2. ASSUME NEW x \in world.clash
      PROVE  (\A i \in 1 .. 2 : x[i][1].table = t /\ r[x[i][1]] = x[i][2])
               <=> (\A i \in 1 .. 2 : x[i][1].table = t /\ s[x[i][1]] = x[i][2])
  <2>1. x \in (SchemaColumns \X Rules) \X (SchemaColumns \X Rules)
    BY DEF HealAssumption
  <2>2. \A i \in 1 .. 2 : x[i][1] \in SchemaColumns
    BY <2>1
  <2> QED BY <2>2 DEF ColumnsOf
<1>3. {x \in world.clash : \A i \in 1 .. 2 : x[i][1].table = t /\ r[x[i][1]] = x[i][2]}
        = {x \in world.clash : \A i \in 1 .. 2 : x[i][1].table = t /\ s[x[i][1]] = x[i][2]}
  BY <1>2
<1> QED BY <1>1, <1>3 DEF Validate

\* A degraded column takes along columns only.
LEMMA CascadeFacts ==
  ASSUME NEW cols \in SUBSET SchemaColumns
  PROVE  cols \subseteq Cascade(cols) /\ Cascade(cols) \subseteq SchemaColumns
BY DEF Cascade

\* The history of the detector.
LEMMA RememberedFacts ==
  ASSUME history \in Seq(Signatures), Len(history) <= MaxHistory, MaxHistory \in Nat,
         NEW sig \in Signatures
  PROVE  Remembered(sig) \in Seq(Signatures) /\ Len(Remembered(sig)) <= MaxHistory
<1> DEFINE longer == Append(history, sig)
<1>0. longer \in Seq(Signatures) /\ Len(longer) = Len(history) + 1 /\ Len(history) \in Nat
  BY AppendProperties, LenProperties
<1>1. longer \in Seq(Signatures) /\ Len(longer) = Len(history) + 1 /\ longer # <<>> /\ Len(history) \in Nat
  BY <1>0, EmptySeq
<1>2. Tail(longer) \in Seq(Signatures) /\ Len(Tail(longer)) = Len(longer) - 1
  BY <1>1, HeadTailProperties
<1> HIDE DEF longer
<1>3. Remembered(sig) = IF Len(longer) > MaxHistory THEN Tail(longer) ELSE longer
  BY DEF Remembered, longer
<1> QED BY <1>1, <1>2, <1>3

\* An exception ends the run.
LEMMA FailKeeps ==
  ASSUME HealInv, Fail
  PROVE  HealInv'
<1>1. /\ stage' = "failed"
      /\ UNCHANGED <<world, given, sub, rule, loose, original, reported, round, reports, queue, patch, twice,
                     history, own, result, failed, degraded, read>>
  BY DEF Fail, progress, ends
<1>2. HealShapes'
  BY <1>1 DEF HealInv, HealShapes, Active, Rounds
<1>3. WithinSubgraph'
  BY <1>1 DEF HealInv, WithinSubgraph, Active, Rounds, ColumnsOf
<1>4. OriginalRules' /\ VerifiedRules' /\ AcceptedIsValid' /\ FailedReturnsToItsRule' /\ CallersColumnsAreKept'
  BY <1>1 DEF OriginalRules, VerifiedRules, AcceptedIsValid, FailedReturnsToItsRule, CallersColumnsAreKept
<1> QED BY <1>2, <1>3, <1>4 DEF HealInv

\* The rules of a table pass its validation.
Passes(t) == Validate(rule, t) = {}

LEMMA PassesNext ==
  ASSUME UNCHANGED world, NEW t PROVE Passes(t)' <=> Validate(rule', t) = {}
BY DEF Passes, Validate

\* A step that leaves the rules of other subgraphs alone keeps what was accepted.
LEMMA OthersStayValid ==
  ASSUME HealAssumption, HealInv, stage \notin {"done", "failed"}, UNCHANGED world,
         \A c \in SchemaColumns \ ColumnsOf(sub) : rule'[c] = rule[c],
         NEW t \in Tables, t # sub, result[t] = "valid"
  PROVE  Passes(t)'
<1>1. Validate(rule, t) = {} /\ world \in Worlds
  BY DEF HealInv, AcceptedIsValid, HealShapes
<1>2. \A c \in ColumnsOf(t) : rule[c] = rule'[c]
  BY DEF ColumnsOf
<1>3. Validate(rule', t) = {}
  BY <1>1, <1>2, ViolationsAreLocal
<1> QED BY <1>3, PassesNext

\* A subgraph ends, and the next one follows.
LEMMA AcceptKeeps ==
  ASSUME HealAssumption, HealInv, stage \in Active \cup {"next"}, sub <= Last,
         NEW how \in Reasons, Accept(how), how = "valid" => Validate(rule', sub) = {},
         rule' \in [SchemaColumns -> Rules], \A c \in SchemaColumns \ ColumnsOf(sub) : rule'[c] = rule[c],
         NEW cols, cols \subseteq ColumnsOf(sub), \A c \in cols : rule'[c].head \in {"start", "fixed"},
         failed' = failed \cup cols, failed' \subseteq degraded', degraded' \subseteq SchemaColumns,
         reported' \subseteq SchemaColumns, patch' = Unpatched, twice' \in BOOLEAN,
         UNCHANGED <<world, given, loose, original, round, history, read>>
  PROVE  HealInv'
<1>1. /\ stage' = "next" /\ sub' = sub + 1 /\ result' = [result EXCEPT ![sub] = how] /\ sub \in Nat
      /\ sub \in Tables /\ sub' \in 1 .. Last + 1
  BY DEF Accept, HealInv, HealShapes, HealAssumption, Tables
<1>2. patch' \in [SchemaColumns -> ModelRules \cup {Untouched}] /\ \A c \in SchemaColumns : patch'[c] = Untouched
  BY DEF Unpatched
<1>3. HealShapes'
  BY <1>1, <1>2 DEF HealInv, HealShapes, Active, Rounds
<1>4. \A c \in SchemaColumns : c.table \in Nat
  BY DEF HealAssumption, Tables
<1>5. WithinSubgraph'
  <2>1. \A t \in Tables : t >= sub' => result'[t] = "none"
    BY <1>1 DEF HealInv, WithinSubgraph, HealShapes, Tables
  <2>2. \A c \in failed' : c.table < sub'
    BY <1>1, <1>4 DEF HealInv, WithinSubgraph, HealShapes, ColumnsOf
  <2> QED BY <1>1, <1>2, <2>1, <2>2 DEF WithinSubgraph, Rounds, Active
<1>6. OriginalRules'
  <2>1. ASSUME NEW c \in SchemaColumns, c.table >= sub' PROVE rule'[c].head \in {"start", "fixed"}
    <3>1. c.table > sub /\ c \notin ColumnsOf(sub)
      BY <1>1, <1>4, <2>1 DEF ColumnsOf
    <3> QED BY <3>1 DEF HealInv, OriginalRules, Active
  <2>2. \A c \in SchemaColumns : c.table \in Nat
    BY <1>4
  <2> QED BY <1>1, <2>1, <2>2 DEF OriginalRules, ColumnsOf, Rounds, Active
<1>7. AcceptedIsValid'
  <2> SUFFICES ASSUME NEW t \in Tables, result'[t] = "valid" PROVE Passes(t)'
    BY DEF AcceptedIsValid, Passes
  <2>1. CASE t = sub
    BY <1>1, <2>1, PassesNext DEF HealInv, HealShapes
  <2>2. CASE t # sub
    BY <1>1, <2>2, OthersStayValid DEF HealInv, HealShapes, Active
  <2> QED BY <2>1, <2>2
<1>8. FailedReturnsToItsRule'
  <2>1. \A c \in failed : c \in SchemaColumns /\ c \notin ColumnsOf(sub) /\ rule[c].head \in {"start", "fixed"}
    BY <1>1, <1>4 DEF HealInv, HealShapes, WithinSubgraph, ColumnsOf, FailedReturnsToItsRule, Active
  <2> QED BY <2>1 DEF FailedReturnsToItsRule
<1>9. VerifiedRules' /\ CallersColumnsAreKept'
  BY <1>1 DEF VerifiedRules, CallersColumnsAreKept
<1> QED BY <1>3, <1>5, <1>6, <1>7, <1>8, <1>9 DEF HealInv

\* What still fails is degraded.
LEMMA DegradeKeeps ==
  ASSUME HealAssumption, HealInv, stage \in Rounds, NEW r \in [SchemaColumns -> Rules],
         \A c \in SchemaColumns \ ColumnsOf(sub) : r[c] = rule[c],
         NEW vs, FailedColumns(vs) \subseteq ColumnsOf(sub), NEW reason \in Reasons \ {"valid"},
         Degrade(r, vs, reason), UNCHANGED <<world, given, loose, original, reported, round, history, read>>
  PROVE  HealInv'
<1> DEFINE cols == FailedColumns(vs)
<1>1. /\ rule' = Restored(r, cols) /\ failed' = failed \cup cols /\ degraded' = degraded \cup Cascade(cols)
      /\ Accept(reason) /\ patch' = Unpatched /\ twice' = FALSE
  BY DEF Degrade, Marked
<1>2. sub <= Last /\ stage \in Active /\ cols \subseteq SchemaColumns /\ original \in [SchemaColumns -> Rules]
      /\ failed \subseteq degraded /\ degraded \subseteq SchemaColumns /\ reported \subseteq SchemaColumns
  BY DEF HealInv, HealShapes, Rounds, Active, ColumnsOf
<1>3. cols \subseteq Cascade(cols) /\ Cascade(cols) \subseteq SchemaColumns
  BY <1>2, CascadeFacts
<1>4. rule' \in [SchemaColumns -> Rules] /\ \A c \in SchemaColumns \ ColumnsOf(sub) : rule'[c] = rule[c]
  <2>1. ASSUME NEW c \in SchemaColumns, NEW h \in {"start", "fixed", "settled"} \cup ModelRules
        PROVE  [r[c] EXCEPT !.head = h] \in Rules
    BY DEF Rules
  <2>2. \A c \in SchemaColumns : original[c].head \in {"start", "fixed", "settled"} \cup ModelRules
    BY <1>2 DEF Rules
  <2> QED BY <1>1, <2>1, <2>2 DEF Restored
<1>5. \A c \in cols : rule'[c].head \in {"start", "fixed"}
  BY <1>1, <1>2 DEF Restored, HealInv, OriginalRules, Rounds, Active
<1>6. failed' \subseteq degraded' /\ degraded' \subseteq SchemaColumns /\ reported' \subseteq SchemaColumns
  BY <1>1, <1>2, <1>3
<1>7. twice' \in BOOLEAN /\ cols \subseteq ColumnsOf(sub) /\ reason \in Reasons /\ reason # "valid"
  BY <1>1
<1>8. UNCHANGED <<world, given, loose, original, round, history, read>>
  OBVIOUS
<1>9. stage \in Active \cup {"next"} /\ sub <= Last
  BY <1>2
<1> HIDE DEF cols
<1> QED BY <1>1, <1>9, <1>4, <1>5, <1>6, <1>7, <1>8, AcceptKeeps

LEMMA GiveUpKeeps ==
  ASSUME HealAssumption, HealInv, stage \in Rounds, NEW reason \in Reasons \ {"valid"}, GiveUp(reason)
  PROVE  HealInv'
<1>1. FailedColumns(reports) \subseteq ColumnsOf(sub)
  BY DEF HealInv, WithinSubgraph, FailedColumns
<1>2. rule \in [SchemaColumns -> Rules] /\ Degrade(rule, reports, reason)
      /\ UNCHANGED <<world, given, loose, original, reported, round, history, read>>
  BY DEF HealInv, HealShapes, GiveUp
<1> QED BY <1>1, <1>2, DegradeKeeps

\* A step of the work on a subgraph changes rules of its tables alone.
LEMMA WorkKeeps ==
  ASSUME HealAssumption, HealInv, stage \in Active, stage' \in Rounds,
         \A c \in SchemaColumns \ ColumnsOf(sub) : rule'[c] = rule[c],
         \A c \in ColumnsOf(sub) : original'[c].head \in {"start", "fixed"},
         HealShapes', WithinSubgraph', UNCHANGED <<world, sub, result, failed>>
  PROVE  HealInv'
<1>1. stage \notin {"next", "verified", "done", "failed"} /\ stage' \notin {"next", "repair", "verified", "done", "failed"}
  BY DEF Active, Rounds
<1>2. sub \in Tables /\ sub \in Nat /\ \A c \in SchemaColumns : c.table \in Nat
  BY DEF HealInv, HealShapes, HealAssumption, Tables
<1>3. OriginalRules'
  <2>1. \A c \in SchemaColumns : c.table > sub => c \notin ColumnsOf(sub)
    BY <1>2 DEF ColumnsOf
  <2>2. \A c \in SchemaColumns : c.table > sub => rule'[c].head \in {"start", "fixed"}
    BY <1>1, <2>1 DEF HealInv, OriginalRules
  <2> QED BY <1>1, <2>2 DEF OriginalRules, ColumnsOf
<1>4. AcceptedIsValid'
  <2> SUFFICES ASSUME NEW t \in Tables, result'[t] = "valid" PROVE Passes(t)'
    BY DEF AcceptedIsValid, Passes
  <2>1. result[t] = "valid" /\ t # sub
    BY <1>2 DEF HealInv, WithinSubgraph, Tables
  <2> QED BY <1>1, <2>1, OthersStayValid
<1>5. FailedReturnsToItsRule'
  <2>1. \A c \in failed : c \in SchemaColumns /\ c \notin ColumnsOf(sub) /\ rule[c].head \in {"start", "fixed"}
    BY <1>1, <1>2 DEF HealInv, HealShapes, WithinSubgraph, ColumnsOf, FailedReturnsToItsRule
  <2> QED BY <2>1 DEF FailedReturnsToItsRule
<1>6. VerifiedRules' /\ CallersColumnsAreKept'
  BY <1>1 DEF VerifiedRules, CallersColumnsAreKept
<1> QED BY <1>3, <1>4, <1>5, <1>6 DEF HealInv

\* Before its model is asked, a subgraph has no patch.
LEMMA NoPatch ==
  ASSUME HealInv, stage \notin {"level2", "merge", "failed"}
  PROVE  patch = Unpatched
<1>1. patch \in [SchemaColumns -> ModelRules \cup {Untouched}] /\ \A c \in SchemaColumns : patch[c] = Untouched
  BY DEF HealInv, HealShapes, WithinSubgraph
<1> QED BY <1>1 DEF Unpatched

\* A subgraph that passes its validation is accepted; so is one that the time budget leaves out.
LEMMA EndKeeps ==
  ASSUME HealAssumption, HealInv, stage \in Active \cup {"next"}, sub <= Last,
         NEW how \in {"valid", "default"}, Accept(how), how = "valid" => Validate(rule', sub) = {},
         rule' \in [SchemaColumns -> Rules], \A c \in SchemaColumns \ ColumnsOf(sub) : rule'[c] = rule[c],
         reported' \subseteq SchemaColumns, patch' = Unpatched, twice' = twice,
         UNCHANGED <<world, given, loose, original, round, history, read, failed, degraded>>
  PROVE  HealInv'
<1>1. failed' = failed \cup {} /\ failed' \subseteq degraded' /\ degraded' \subseteq SchemaColumns /\ twice' \in BOOLEAN
  BY DEF HealInv, HealShapes
<1>2. how \in Reasons /\ {} \subseteq ColumnsOf(sub) /\ \A c \in {} : rule'[c].head \in {"start", "fixed"}
  BY DEF Reasons
<1> QED BY <1>1, <1>2, AcceptKeeps

LEMMA ValidKeeps ==
  ASSUME HealAssumption, HealInv, stage \in Active \cup {"next"}, sub <= Last,
         Accept("valid"), Validate(rule', sub) = {},
         rule' \in [SchemaColumns -> Rules], \A c \in SchemaColumns \ ColumnsOf(sub) : rule'[c] = rule[c],
         reported' \subseteq SchemaColumns, patch' = Unpatched, twice' = twice,
         UNCHANGED <<world, given, loose, original, round, history, read, failed, degraded>>
  PROVE  HealInv'
BY EndKeeps

LEMMA ExpiredKeeps ==
  ASSUME HealAssumption, HealInv, Expired
  PROVE  HealInv'
<1>1. CASE given
  BY <1>1, FailKeeps DEF Expired
<1>2. CASE ~given
  <2>1. /\ stage = "next" /\ sub <= Last /\ Accept("default")
        /\ UNCHANGED <<world, given, rule, loose, original, reported, round, reports, queue, patch, twice,
                       history, failed, degraded, read>>
    BY <1>2 DEF Expired, progress
  <2>2. rule' \in [SchemaColumns -> Rules] /\ \A c \in SchemaColumns \ ColumnsOf(sub) : rule'[c] = rule[c]
    BY <2>1 DEF HealInv, HealShapes
  <2>3. patch' = Unpatched /\ reported' \subseteq SchemaColumns /\ stage \in Active \cup {"next"}
    BY <2>1, NoPatch DEF HealInv, HealShapes
  <2>4. UNCHANGED <<world, given, loose, original, round, history, read, failed, degraded>> /\ twice' = twice
    BY <2>1
  <2>5. "default" \in {"valid", "default"} /\ ("default" = "valid" => Validate(rule', sub) = {})
    OBVIOUS
  <2> QED BY <2>1, <2>2, <2>3, <2>4, <2>5, EndKeeps
<1> QED BY <1>1, <1>2

LEMMA CheckSubgraphKeeps ==
  ASSUME HealAssumption, HealInv, CheckSubgraph
  PROVE  HealInv'
<1> DEFINE vs == Validate(rule, sub)
<1>1. /\ stage = "next" /\ sub <= Last
      /\ reported' = IF given THEN reported \cup FailedColumns(vs) ELSE reported
      /\ IF vs = {} THEN Accept("valid") ELSE stage' = "repair" /\ UNCHANGED <<sub, result, own>>
      /\ UNCHANGED <<world, given, rule, loose, original, round, reports, queue, patch, twice,
                     history, failed, degraded, read>>
  BY DEF CheckSubgraph, progress
<1>2. world \in Worlds /\ rule \in [SchemaColumns -> Rules] /\ reported \subseteq SchemaColumns
  BY DEF HealInv, HealShapes
<1>3. FailedColumns(vs) \subseteq ColumnsOf(sub) /\ ColumnsOf(sub) \subseteq SchemaColumns
  BY <1>2, ViolationsOfTable DEF ColumnsOf
<1>4. reported' \subseteq SchemaColumns
  BY <1>1, <1>2, <1>3
<1>5. patch' = Unpatched
  BY <1>1, NoPatch
<1>6. CASE vs = {}
  <2>1. Validate(rule', sub) = {} /\ Accept("valid")
    BY <1>1, <1>6
  <2> HIDE DEF vs
  <2> QED BY <1>1, <1>2, <1>4, <1>5, <2>1, ValidKeeps
<1>7. CASE vs # {}
  <2>1. stage' = "repair" /\ UNCHANGED <<sub, result, own>>
    BY <1>1, <1>7
  <2> HIDE DEF vs
  <2>2. HealShapes'
    BY <1>1, <1>4, <2>1 DEF HealInv, HealShapes, Active, Rounds
  <2>3. WithinSubgraph'
    BY <1>1, <2>1 DEF HealInv, WithinSubgraph, Rounds, Active
  <2>4. OriginalRules' /\ VerifiedRules'
    BY <1>1, <2>1 DEF HealInv, OriginalRules, VerifiedRules, ColumnsOf, Rounds, Active
  <2>5. AcceptedIsValid'
    <3> SUFFICES ASSUME NEW t \in Tables, result'[t] = "valid" PROVE Passes(t)'
      BY DEF AcceptedIsValid, Passes
    <3>1. Validate(rule, t) = {}
      BY <1>1, <2>1 DEF HealInv, AcceptedIsValid
    <3> QED BY <1>1, <3>1, PassesNext
  <2>6. FailedReturnsToItsRule' /\ CallersColumnsAreKept'
    BY <1>1, <2>1 DEF HealInv, FailedReturnsToItsRule, CallersColumnsAreKept
  <2> QED BY <2>2, <2>3, <2>4, <2>5, <2>6 DEF HealInv
<1> QED BY <1>6, <1>7

LEMMA RepairKeeps ==
  ASSUME HealAssumption, HealInv, Repair
  PROVE  HealInv'
<1>1. PICK S \in SUBSET FailedColumns(Validate(rule, sub)) :
        /\ rule' = [c \in SchemaColumns |-> IF c \in S THEN [rule[c] EXCEPT !.head = "fixed"] ELSE rule[c]]
        /\ IF Validate(rule', sub) = {}
           THEN Accept("valid") /\ UNCHANGED <<original, progress>>
           ELSE /\ stage' = "round" /\ round' = 1 /\ reports' = Validate(rule', sub)
                /\ original' = rule'
                /\ UNCHANGED <<sub, result, own, queue, patch, twice>>
  BY DEF Repair
<1>2. stage = "repair" /\ UNCHANGED <<world, given, loose, reported, history, failed, degraded, read>>
  BY DEF Repair
<1>3. world \in Worlds /\ rule \in [SchemaColumns -> Rules] /\ reported \subseteq SchemaColumns /\ sub <= Last
  BY <1>2 DEF HealInv, HealShapes, Active
<1>4. S \subseteq ColumnsOf(sub)
  BY <1>3, ViolationsOfTable
<1>5. rule' \in [SchemaColumns -> Rules] /\ \A c \in SchemaColumns \ ColumnsOf(sub) : rule'[c] = rule[c]
  BY <1>1, <1>3, <1>4 DEF Rules
<1>6. CASE Validate(rule', sub) = {}
  <2>1. Accept("valid") /\ UNCHANGED <<original, round, reports, queue, patch, twice>>
    BY <1>1, <1>6 DEF progress
  <2>2. patch' = Unpatched /\ stage \in Active \cup {"next"} /\ reported' \subseteq SchemaColumns
    BY <1>2, <1>3, <2>1, NoPatch DEF Active
  <2> QED BY <1>2, <1>3, <1>5, <1>6, <2>1, <2>2, ValidKeeps
<1>7. CASE Validate(rule', sub) # {}
  <2>1. /\ stage' = "round" /\ round' = 1 /\ reports' = Validate(rule', sub) /\ original' = rule'
        /\ UNCHANGED <<sub, result, own, queue, patch, twice>>
    BY <1>1, <1>7
  <2>2. HealShapes'
    BY <1>2, <1>3, <1>5, <2>1 DEF HealInv, HealShapes, HealAssumption, Active, Rounds
  <2>3. \A v \in reports' : v.columns \subseteq ColumnsOf(sub)
    BY <1>3, <2>1, ViolationsOfTable
  <2>4. WithinSubgraph'
    BY <1>2, <2>1, <2>3 DEF HealInv, WithinSubgraph, ColumnsOf
  <2>5. \A c \in ColumnsOf(sub) : original'[c].head \in {"start", "fixed"}
    BY <1>1, <1>2, <1>3, <2>1 DEF HealInv, OriginalRules, ColumnsOf
  <2>6. stage \in Active /\ stage' \in Rounds
    BY <1>2, <2>1 DEF Active, Rounds
  <2> QED BY <1>2, <1>5, <2>1, <2>2, <2>4, <2>5, <2>6, WorkKeeps
<1> QED BY <1>6, <1>7

\* A step of a round that changes no rule.
LEMMA QuietKeeps ==
  ASSUME HealAssumption, HealInv, stage \in Rounds, stage' \in Rounds, HealShapes', WithinSubgraph',
         UNCHANGED <<world, sub, rule, original, result, failed>>
  PROVE  HealInv'
<1>1. stage \in Active /\ \A c \in SchemaColumns \ ColumnsOf(sub) : rule'[c] = rule[c]
  BY DEF Rounds
<1>2. \A c \in ColumnsOf(sub) : original'[c].head \in {"start", "fixed"}
  BY DEF HealInv, OriginalRules, Rounds, Active
<1> QED BY <1>1, <1>2, WorkKeeps

\* The columns of the reports are the subgraph's.
LEMMA AttemptsFacts ==
  ASSUME HealInv, stage \in Rounds
  PROVE  \A q \in Attempts : q[2] \in ColumnsOf(sub)
BY DEF HealInv, WithinSubgraph, Attempts

LEMMA StartRoundKeeps ==
  ASSUME HealAssumption, HealInv, StartRound
  PROVE  HealInv'
<1>1. stage = "round" /\ stage \in Rounds
  BY DEF StartRound, Rounds, Active
<1>2. CASE GiveUp("time")
  BY <1>1, <1>2, GiveUpKeeps DEF Reasons
<1>3. CASE GiveUp("rounds")
  BY <1>1, <1>3, GiveUpKeeps DEF Reasons
<1>4. CASE /\ round <= MaxRounds
           /\ (stage' = "level1" /\ UNCHANGED queue) \/ (stage' = "level2" /\ queue' = Attempts)
           /\ UNCHANGED <<world, given, sub, rule, loose, original, reported, round, reports,
                          patch, twice, history, own, ends, read>>
  <2>1. UNCHANGED <<world, given, sub, rule, loose, original, reported, round, reports,
                    patch, twice, history, own, result, failed, degraded, read>>
    BY <1>4 DEF ends
  <2>2. HealShapes'
    BY <1>1, <1>4, <2>1 DEF HealInv, HealShapes, Active, Rounds
  <2>3. WithinSubgraph'
    <3>1. stage' = "level2" => \A q \in queue' : q[2] \in ColumnsOf(sub)
      BY <1>1, <1>4, AttemptsFacts
    <3>2. \A c \in SchemaColumns : patch[c] = Untouched
      BY <1>1 DEF HealInv, WithinSubgraph
    <3> QED BY <1>1, <1>4, <2>1, <3>1, <3>2 DEF HealInv, WithinSubgraph, ColumnsOf
  <2>4. stage' \in Rounds
    BY <1>4 DEF Rounds, Active
  <2> QED BY <1>1, <2>1, <2>2, <2>3, <2>4, QuietKeeps
<1> QED BY <1>2, <1>3, <1>4 DEF StartRound

LEMMA GotoKeeps ==
  ASSUME HealAssumption, HealInv, stage \in Rounds \ {"round"}, NEW p \in {"level2", "compact", "ultra"}, NEW q,
         p = "level2" => \A e \in q : e[2] \in ColumnsOf(sub), Goto(p, q)
  PROVE  HealInv'
<1>1. /\ stage' = p /\ queue' = q /\ patch' = Unpatched /\ twice' = FALSE
      /\ UNCHANGED <<world, given, sub, rule, loose, original, reported, round, reports, history, own,
                     result, failed, degraded, read>>
  BY DEF Goto, ends
<1>2. patch' \in [SchemaColumns -> ModelRules \cup {Untouched}] /\ \A c \in SchemaColumns : patch'[c] = Untouched
  BY <1>1 DEF Unpatched
<1>3. HealShapes'
  BY <1>1, <1>2 DEF HealInv, HealShapes, Active, Rounds
<1>4. WithinSubgraph'
  BY <1>1, <1>2 DEF HealInv, WithinSubgraph, ColumnsOf
<1>5. stage' \in Rounds
  BY <1>1 DEF Rounds, Active
<1> QED BY <1>1, <1>3, <1>4, <1>5, QuietKeeps

LEMMA AnswersKeep ==
  ASSUME HealAssumption, HealInv, stage \in Rounds \ {"round"}, ModelAnswers
  PROVE  HealInv'
<1>1. PICK p \in [ColumnsOf(sub) -> ModelRules \cup {Untouched}] :
        patch' = [c \in SchemaColumns |-> IF c \in ColumnsOf(sub) THEN p[c] ELSE Untouched]
  BY DEF ModelAnswers
<1>2. /\ stage' = "merge" /\ twice' = FALSE /\ queue' = {}
      /\ UNCHANGED <<world, given, sub, rule, loose, original, reported, round, reports, history, own,
                     result, failed, degraded, read>>
  BY DEF ModelAnswers, ends
<1>3. patch' \in [SchemaColumns -> ModelRules \cup {Untouched}]
      /\ \A c \in SchemaColumns : patch'[c] # Untouched => c \in ColumnsOf(sub)
  BY <1>1
<1>4. HealShapes'
  BY <1>2, <1>3 DEF HealInv, HealShapes, Active, Rounds
<1>5. WithinSubgraph'
  BY <1>2, <1>3 DEF HealInv, WithinSubgraph, ColumnsOf
<1>6. stage' \in Rounds
  BY <1>2 DEF Rounds, Active
<1> QED BY <1>2, <1>4, <1>5, <1>6, QuietKeeps

LEMMA Level1Keeps ==
  ASSUME HealAssumption, HealInv, Level1
  PROVE  HealInv'
<1>1. stage = "level1" /\ stage \in Rounds \ {"round"} /\ stage \in Rounds
  BY DEF Level1, Rounds, Active
<1>2. CASE ModelAnswers
  BY <1>1, <1>2, AnswersKeep
<1>3. CASE Goto("level2", Attempts)
  BY <1>1, <1>3, AttemptsFacts, GotoKeeps
<1>4. CASE Goto("compact", {})
  BY <1>1, <1>4, GotoKeeps
<1>5. CASE GiveUp("answer")
  BY <1>1, <1>5, GiveUpKeeps DEF Reasons
<1>6. CASE Fail
  BY <1>6, FailKeeps
<1> QED BY <1>2, <1>3, <1>4, <1>5, <1>6 DEF Level1

LEMMA Level2Keeps ==
  ASSUME HealAssumption, HealInv, Level2
  PROVE  HealInv'
<1>1. stage = "level2" /\ stage \in Rounds \ {"round"} /\ stage \in Rounds
  BY DEF Level2, Rounds, Active
<1>2. PICK q \in queue :
        \/ \E m \in ModelRules :
             /\ patch' = [patch EXCEPT ![q[2]] = m]
             /\ twice' = (twice \/ patch[q[2]] # Untouched)
             /\ queue' = queue \ {q}
             /\ UNCHANGED <<world, given, stage, sub, rule, loose, original, reported, round,
                            reports, history, own, ends, read>>
        \/ SkipColumn(q) \/ Goto("compact", {}) \/ Fail
  BY DEF Level2
<1>3. q[2] \in ColumnsOf(sub) /\ \A e \in queue : e[2] \in ColumnsOf(sub)
  BY <1>1 DEF HealInv, WithinSubgraph
<1>4. CASE \E m \in ModelRules :
             /\ patch' = [patch EXCEPT ![q[2]] = m]
             /\ twice' = (twice \/ patch[q[2]] # Untouched)
             /\ queue' = queue \ {q}
             /\ UNCHANGED <<world, given, stage, sub, rule, loose, original, reported, round,
                            reports, history, own, ends, read>>
  <2>1. PICK m \in ModelRules :
          /\ patch' = [patch EXCEPT ![q[2]] = m]
          /\ twice' = (twice \/ patch[q[2]] # Untouched)
          /\ queue' = queue \ {q}
          /\ UNCHANGED <<world, given, stage, sub, rule, loose, original, reported, round,
                         reports, history, own, ends, read>>
    BY <1>4
  <2>2. UNCHANGED <<world, given, stage, sub, rule, loose, original, reported, round, reports, history, own,
                    result, failed, degraded, read>>
    BY <2>1 DEF ends
  <2>3. patch' \in [SchemaColumns -> ModelRules \cup {Untouched}] /\ twice' \in BOOLEAN
    BY <2>1, <2>2 DEF HealInv, HealShapes
  <2>4. HealShapes'
    BY <2>2, <2>3 DEF HealInv, HealShapes, Active, Rounds
  <2>5. patch \in [SchemaColumns -> ModelRules \cup {Untouched}]
        /\ \A c \in SchemaColumns : patch[c] # Untouched => c \in ColumnsOf(sub)
    BY DEF HealInv, HealShapes, WithinSubgraph
  <2>6. \A c \in SchemaColumns : patch'[c] # Untouched => c \in ColumnsOf(sub)
    BY <1>3, <2>1, <2>5
  <2>7. \A e \in queue' : e[2] \in ColumnsOf(sub)
    BY <1>3, <2>1
  <2>8. WithinSubgraph'
    BY <1>1, <2>2, <2>6, <2>7 DEF HealInv, WithinSubgraph, ColumnsOf
  <2> QED BY <1>1, <2>2, <2>4, <2>8, QuietKeeps
<1>5. CASE SkipColumn(q)
  <2>1. /\ queue' = queue \ {q}
        /\ UNCHANGED <<world, given, stage, sub, rule, loose, original, reported, round, reports, patch, twice,
                       history, own, result, failed, degraded, read>>
    BY <1>5 DEF SkipColumn, ends
  <2>2. HealShapes'
    BY <2>1 DEF HealInv, HealShapes, Active, Rounds
  <2>3. WithinSubgraph'
    BY <1>1, <2>1 DEF HealInv, WithinSubgraph, ColumnsOf
  <2> QED BY <1>1, <2>1, <2>2, <2>3, QuietKeeps
<1>6. CASE Goto("compact", {})
  BY <1>1, <1>6, GotoKeeps
<1>7. CASE Fail
  BY <1>7, FailKeeps
<1> QED BY <1>2, <1>4, <1>5, <1>6, <1>7

LEMMA Level2DoneKeeps ==
  ASSUME HealAssumption, HealInv, Level2Done
  PROVE  HealInv'
<1>1. stage = "level2" /\ stage \in Rounds \ {"round"} /\ stage \in Rounds
  BY DEF Level2Done, Rounds, Active
<1>2. CASE patch = Unpatched
  BY <1>1, <1>2, GiveUpKeeps DEF Reasons, Level2Done
<1>3. CASE patch # Unpatched
  <2>1. /\ stage' = "merge"
        /\ UNCHANGED <<world, given, sub, rule, loose, original, reported, round, reports, queue, patch, twice,
                       history, own, result, failed, degraded, read>>
    BY <1>3 DEF Level2Done, progress, ends
  <2>2. HealShapes'
    BY <1>1, <2>1 DEF HealInv, HealShapes, Active, Rounds
  <2>3. WithinSubgraph'
    BY <1>1, <2>1 DEF HealInv, WithinSubgraph, ColumnsOf
  <2>4. stage' \in Rounds
    BY <2>1 DEF Rounds, Active
  <2> QED BY <1>1, <2>1, <2>2, <2>3, <2>4, QuietKeeps
<1> QED BY <1>2, <1>3

LEMMA Level3Keeps ==
  ASSUME HealAssumption, HealInv, Level3
  PROVE  HealInv'
<1>1. stage \in {"compact", "ultra"} /\ stage \in Rounds \ {"round"} /\ stage \in Rounds
  BY DEF Level3, Rounds, Active
<1>2. CASE ModelAnswers
  BY <1>1, <1>2, AnswersKeep
<1>3. CASE Goto("ultra", {})
  BY <1>1, <1>3, GotoKeeps
<1>4. CASE GiveUp("answer")
  BY <1>1, <1>4, GiveUpKeeps DEF Reasons
<1>5. CASE Fail
  BY <1>5, FailKeeps
<1> QED BY <1>2, <1>3, <1>4, <1>5 DEF Level3

LEMMA RejectKeeps ==
  ASSUME HealAssumption, HealInv, Reject
  PROVE  HealInv'
<1>1. stage \in Rounds /\ GiveUp("answer")
  BY DEF Reject, Rounds, Active
<1> QED BY <1>1, GiveUpKeeps DEF Reasons

LEMMA MergeKeeps ==
  ASSUME HealAssumption, HealInv, Merge
  PROVE  HealInv'
<1> DEFINE candidate == Merged(rule, patch)
           vs == Validate(candidate, sub)
           sig == Signature(vs)
<1>1. /\ stage = "merge" /\ stage \in Rounds /\ stage \in Active /\ sub <= Last
      /\ world \in Worlds /\ rule \in [SchemaColumns -> Rules] /\ reported \subseteq SchemaColumns
      /\ patch \in [SchemaColumns -> ModelRules \cup {Untouched}]
      /\ \A c \in SchemaColumns : patch[c] # Untouched => c \in ColumnsOf(sub)
  BY DEF Merge, HealInv, HealShapes, WithinSubgraph, Rounds, Active
<1>2. candidate \in [SchemaColumns -> Rules] /\ \A c \in SchemaColumns \ ColumnsOf(sub) : candidate[c] = rule[c]
  BY <1>1 DEF Merged, Rules
<1>3. /\ \A v \in vs : v.columns \subseteq ColumnsOf(sub)
      /\ FailedColumns(vs) \subseteq ColumnsOf(sub) /\ sig \in Signatures
  BY <1>1, ViolationsOfTable
<1>4. CASE vs = {}
  <2>1. /\ rule' = candidate /\ Accept("valid") /\ patch' = Unpatched
        /\ UNCHANGED <<world, given, loose, original, reported, round, reports, queue, twice, history,
                       failed, degraded, read>>
    BY <1>4 DEF Merge, Revalidate
  <2>2. Validate(rule', sub) = {}
    BY <1>4, <2>1
  <2> HIDE DEF candidate, vs, sig
  <2> QED BY <1>1, <1>2, <2>1, <2>2, ValidKeeps
<1>5. CASE vs # {} /\ Oscillates(sig)
  <2>1. /\ Degrade(candidate, vs, "oscillation")
        /\ UNCHANGED <<world, given, loose, original, reported, round, history, read>>
    BY <1>5 DEF Merge, Revalidate
  <2> HIDE DEF candidate, vs, sig
  <2>2. "oscillation" \in Reasons \ {"valid"}
    BY DEF Reasons
  <2> QED BY <1>1, <1>2, <1>3, <2>1, <2>2, DegradeKeeps
<1>6. CASE vs # {} /\ ~Oscillates(sig)
  <2>1. /\ rule' = candidate /\ reports' = vs
        /\ history' = Remembered(sig) /\ own' = own + 1
        /\ stage' = "round" /\ round' = round + 1 /\ patch' = Unpatched
        /\ UNCHANGED <<world, given, sub, loose, original, reported, queue, twice, result, failed, degraded, read>>
    BY <1>6 DEF Merge, Revalidate, ends
  <2> HIDE DEF candidate, vs, sig
  <2>2. history' \in Seq(Signatures) /\ Len(history') <= MaxHistory
    BY <1>3, <2>1, RememberedFacts DEF HealInv, HealShapes, HealAssumption
  <2>3. patch' \in [SchemaColumns -> ModelRules \cup {Untouched}] /\ \A c \in SchemaColumns : patch'[c] = Untouched
    BY <2>1 DEF Unpatched
  <2>4. round' \in 0 .. MaxRounds + 1
    BY <1>1, <2>1 DEF HealInv, HealShapes, HealAssumption, Rounds, Active
  <2>5. HealShapes'
    BY <1>1, <1>2, <2>1, <2>2, <2>3, <2>4 DEF HealInv, HealShapes, Active, Rounds
  <2>6. WithinSubgraph'
    BY <1>3, <2>1, <2>3 DEF HealInv, WithinSubgraph, ColumnsOf
  <2>7. \A c \in ColumnsOf(sub) : original'[c].head \in {"start", "fixed"}
    BY <1>1, <2>1 DEF HealInv, OriginalRules
  <2>8. stage' \in Rounds
    BY <2>1 DEF Rounds, Active
  <2> QED BY <1>1, <1>2, <2>1, <2>5, <2>6, <2>7, <2>8, WorkKeeps
<1> QED BY <1>4, <1>5, <1>6

LEMMA VerifyKeeps ==
  ASSUME HealAssumption, HealInv, Verify
  PROVE  HealInv'
<1>1. /\ stage = "next" /\ stage' = "verified" /\ loose' = BrokenKeys /\ read' = rule
      /\ UNCHANGED <<world, given, sub, rule, original, reported, round, reports, queue, patch, twice,
                     history, own, result, failed, degraded>>
  BY DEF Verify, progress, ends
<1>2. HealShapes'
  BY <1>1 DEF HealInv, HealShapes, HealAssumption, Active, Rounds
<1>3. WithinSubgraph'
  BY <1>1 DEF HealInv, WithinSubgraph, Rounds, Active
<1>4. OriginalRules' /\ VerifiedRules'
  BY <1>1 DEF HealInv, OriginalRules, VerifiedRules, Rounds, Active
<1>5. AcceptedIsValid'
  <2> SUFFICES ASSUME NEW t \in Tables, result'[t] = "valid" PROVE Passes(t)'
    BY DEF AcceptedIsValid, Passes
  <2>1. Validate(rule, t) = {}
    BY <1>1 DEF HealInv, AcceptedIsValid
  <2> QED BY <1>1, <2>1, PassesNext
<1>6. FailedReturnsToItsRule' /\ CallersColumnsAreKept'
  BY <1>1 DEF HealInv, FailedReturnsToItsRule, CallersColumnsAreKept
<1> QED BY <1>2, <1>3, <1>4, <1>5, <1>6 DEF HealInv

LEMMA FinishKeeps ==
  ASSUME HealAssumption, HealInv, Finish
  PROVE  HealInv'
<1>1. PICK S \in SUBSET SchemaColumns :
        rule' = [c \in SchemaColumns |-> IF c \in S \ Preserved THEN Rewritten ELSE rule[c]]
  BY DEF Finish
<1>2. /\ stage = "verified" /\ stage' = "done"
      /\ UNCHANGED <<world, given, sub, loose, original, reported, round, reports, queue, patch, twice,
                     history, own, result, failed, degraded, read>>
  BY DEF Finish, progress, ends
<1>3. rule \in [SchemaColumns -> Rules] /\ rule = read
  BY <1>2 DEF HealInv, HealShapes, VerifiedRules
<1>4. rule' \in [SchemaColumns -> Rules]
  BY <1>1, <1>3 DEF Rules, Rewritten
<1>5. HealShapes'
  BY <1>2, <1>4 DEF HealInv, HealShapes, Active, Rounds
<1>6. WithinSubgraph'
  BY <1>2 DEF HealInv, WithinSubgraph, Rounds, Active
<1>7. CallersColumnsAreKept'
  <2> SUFFICES ASSUME given, NEW c \in SchemaColumns, read[c] = Written, c \notin reported \cup loose \cup degraded
               PROVE  rule'[c] = Written
    BY <1>2 DEF CallersColumnsAreKept
  <2>1. c \in Preserved /\ rule[c] = Written
    BY <1>3 DEF Preserved
  <2> QED BY <1>1, <2>1
<1>8. OriginalRules' /\ VerifiedRules' /\ AcceptedIsValid' /\ FailedReturnsToItsRule'
  BY <1>2 DEF OriginalRules, VerifiedRules, AcceptedIsValid, FailedReturnsToItsRule
<1> QED BY <1>5, <1>6, <1>7, <1>8 DEF HealInv

LEMMA HealInvStarts ==
  ASSUME HealAssumption, HealInit
  PROVE  HealInv
<1>1. /\ world \in Worlds /\ given \in BOOLEAN /\ stage = "next" /\ sub = 1
      /\ rule = [c \in SchemaColumns |-> Written] /\ original = rule /\ read = rule
      /\ loose = {} /\ reported = {} /\ failed = {} /\ degraded = {}
      /\ round = 0 /\ twice = FALSE /\ history = <<>>
      /\ result = [t \in Tables |-> "none"]
  BY DEF HealInit
<1>2. patch \in [SchemaColumns -> ModelRules \cup {Untouched}] /\ \A c \in SchemaColumns : patch[c] = Untouched
  BY DEF HealInit, Unpatched
<1>3. rule \in [SchemaColumns -> Rules] /\ \A c \in SchemaColumns : rule[c] = Written /\ rule[c].head = "start"
  BY <1>1 DEF Rules, Written
<1>4. history \in Seq(Signatures) /\ Len(history) <= MaxHistory
  BY <1>1, EmptySeq DEF HealAssumption
<1>5. result \in [Tables -> Reasons] /\ \A t \in Tables : result[t] = "none"
  BY <1>1 DEF Reasons
<1>6. HealShapes
  <2>1. 0 \in 0 .. MaxRounds + 1 /\ 1 \in 1 .. Last + 1 /\ "next" \notin Active
    BY DEF HealAssumption, Active
  <2>2. original \in [SchemaColumns -> Rules] /\ read \in [SchemaColumns -> Rules] /\ sub \in 1 .. Last + 1
        /\ round \in 0 .. MaxRounds + 1 /\ twice \in BOOLEAN
    BY <1>1, <1>3, <2>1
  <2>3. stage \notin Active /\ stage \in Active \cup {"next", "verified", "done", "failed"}
    BY <1>1, <2>1
  <2> QED BY <1>1, <1>2, <1>3, <1>4, <1>5, <2>2, <2>3 DEF HealShapes, Rounds
<1>7. WithinSubgraph
  BY <1>1, <1>2, <1>5 DEF WithinSubgraph, Rounds, Active
<1>8. OriginalRules
  BY <1>1, <1>3 DEF OriginalRules, Rounds, Active, ColumnsOf
<1>9. VerifiedRules /\ AcceptedIsValid /\ FailedReturnsToItsRule /\ CallersColumnsAreKept
  BY <1>1, <1>5 DEF VerifiedRules, AcceptedIsValid, FailedReturnsToItsRule, CallersColumnsAreKept
<1> QED BY <1>6, <1>7, <1>8, <1>9 DEF HealInv

LEMMA HealInvStays ==
  ASSUME HealAssumption, HealInv, [HealNext]_healVars
  PROVE  HealInv'
<1>1. CASE UNCHANGED healVars
  <2>1. UNCHANGED <<world, given, stage, sub, rule, loose, original, reported, round, reports,
                    queue, patch, twice, history, own, result, failed, degraded, read>>
    BY <1>1 DEF healVars
  <2>2. HealShapes' /\ VerifiedRules' /\ FailedReturnsToItsRule' /\ CallersColumnsAreKept'
    BY <2>1 DEF HealInv, HealShapes, VerifiedRules, FailedReturnsToItsRule, CallersColumnsAreKept
  <2>3. WithinSubgraph'
    BY <2>1 DEF HealInv, WithinSubgraph, ColumnsOf
  <2>4. OriginalRules'
    BY <2>1 DEF HealInv, OriginalRules, ColumnsOf
  <2>5. AcceptedIsValid'
    <3>1. \A t \in Tables : Validate(rule, t)' = Validate(rule, t)
      BY <2>1 DEF Validate
    <3> QED BY <2>1, <3>1 DEF HealInv, AcceptedIsValid
  <2> QED BY <2>2, <2>3, <2>4, <2>5 DEF HealInv
<1>2. CASE Expired BY <1>2, ExpiredKeeps
<1>3. CASE CheckSubgraph BY <1>3, CheckSubgraphKeeps
<1>4. CASE Repair BY <1>4, RepairKeeps
<1>5. CASE StrategyRaises BY <1>5, FailKeeps DEF StrategyRaises
<1>6. CASE StartRound BY <1>6, StartRoundKeeps
<1>7. CASE Level1 BY <1>7, Level1Keeps
<1>8. CASE Level2 BY <1>8, Level2Keeps
<1>9. CASE Level2Done BY <1>9, Level2DoneKeeps
<1>10. CASE Level3 BY <1>10, Level3Keeps
<1>11. CASE Reject BY <1>11, RejectKeeps
<1>12. CASE Merge BY <1>12, MergeKeeps
<1>13. CASE Verify BY <1>13, VerifyKeeps
<1>14. CASE SchemaChanged BY <1>14, FailKeeps DEF SchemaChanged
<1>15. CASE Finish BY <1>15, FinishKeeps
<1>16. CASE FinalCandidateRejected BY <1>16, FailKeeps DEF FinalCandidateRejected
<1> QED BY <1>1, <1>2, <1>3, <1>4, <1>5, <1>6, <1>7, <1>8, <1>9, <1>10, <1>11, <1>12, <1>13, <1>14, <1>15, <1>16
           DEF HealNext

\* However the validator's findings, the model's answers, the levels of the healer and its giving up
\* follow each other: what the run accepts for a table passes its validation and is not undone by a
\* later table, what still fails draws from what it drew from before the model, and the caller's
\* columns that nothing reported, changed or marked come back (HealOrchestrator.heal, AutoHealOrchestrator.run).
THEOREM HealingStaysSound ==
  ASSUME HealAssumption
  PROVE  HealSpec => []HealingIsSound
<1>1. HealInit => HealInv
  BY HealInvStarts
<1>2. HealInv /\ [HealNext]_healVars => HealInv'
  BY HealInvStays
<1>3. HealInv => HealingIsSound
  BY DEF HealInv, HealShapes, HealingIsSound, HealTypeOK, Active, Reasons
<1> QED BY <1>1, <1>2, <1>3, PTL DEF HealSpec
=============================================================================
