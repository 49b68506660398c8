---------------------------- MODULE ColumnRepair ----------------------------
(***************************************************************************)
(* The AI plugin's rules before the model is asked: the first rule of a    *)
(* column is read off its schema (or is the caller's), FastValidator       *)
(* reports what does not fit, RepairExecutor applies one strategy per      *)
(* report, worst first, and the table is validated once more: what is      *)
(* clean is accepted, the rest goes to the model.                          *)
(*                                                                         *)
(* A table has a column "c" of any kind and a plain column "d" beside it.  *)
(* Texts of a choice are integers, lengths and years are small numbers, an *)
(* optional number is <<>> or <<n>>.  A rule is a record: generator,       *)
(* bounds lo and hi, choices of, lengths min and max, the lengths regex    *)
(* gives, first and last year, and the columns it derives from.            *)
(***************************************************************************)
EXTENDS Integers, Sequences, FiniteSets

CONSTANT Odd    (* TRUE: also the columns the strategies do not handle *)

VARIABLES
  schema,   (* the columns, and whether they form a composite foreign key *)
  rows,     (* the rows the table is to get *)
  given,    (* ghost: the rules the run began with *)
  config,   (* the rules *)
  phase,    (* "validate", "repair", "accepted" or "model" *)
  queue,    (* the reports still to repair *)
  flagged,  (* ghost: the columns reported for their CHECK *)
  applied   (* the fixes made: a column and a strategy *)

vars == <<schema, rows, given, config, phase, queue, flagged, applied>>

Columns == {"c", "d"}
Assumed == 3          \* the 1000 rows of a table without a count
Cap == 2              \* next year
Far == 99             \* the length of an unbounded quantifier
DefaultMax == 9       \* 9999
DefaultLength == 3    \* a string of 10 letters
CodeLength == 4       \* 20 letters
LongLength == 8       \* 50 letters
NANP == 5             \* the length of a +1 telephone number
Capacity(length) == 2 ^ length
Plus == 2             \* how far an unbounded quantifier may go on

Or(o, default) == IF o = <<>> THEN default ELSE o[1]
Blank(gen) == [gen |-> gen, lo |-> <<>>, hi |-> <<>>, of |-> {}, min |-> <<>>, max |-> <<>>,
               regex |-> <<>>, start |-> <<>>, end |-> <<>>, from |-> {}]
With(gen, r) == [Blank(gen) EXCEPT !.from = r.from]    \* a new generator, its parameters dropped
Keeping(gen, r) == [r EXCEPT !.gen = gen]

NUMERIC_GENERATORS == {"integer", "float", "random_int", "random_float"}
Strings == {"string", "text"}
NumericTypes == {"INTEGER", "REAL"}
TextTypes == {"TEXT", "VARCHAR"}

-----------------------------------------------------------------------------
(* The rule read off the schema: _build_initial_column_config.              *)

\* A CHECK is [kind, of, lo, hi]: kind is none, texts, boolean, numbers (IN), range, nonzero,
\* length or like, a LIKE of fixed length.
_parse_check_length(k) == [Blank("string") EXCEPT !.min = k.lo, !.max = k.hi]
_parse_check_like(k) == [Blank("pattern") EXCEPT !.regex = <<k.lo[1], k.lo[1], "like">>]
_parse_check_enum(k) == IF k.kind = "boolean" THEN Blank("boolean") ELSE [Blank("choice") EXCEPT !.of = k.of]
_parse_single_column_check(k) ==
  CASE k.kind = "length" -> _parse_check_length(k)
    [] k.kind = "like" -> _parse_check_like(k)
    [] k.kind \in {"boolean", "texts", "numbers"} -> _parse_check_enum(k)
    [] k.kind = "nonzero" -> [Blank("integer") EXCEPT !.lo = <<1>>]
    [] OTHER -> [Blank("integer") EXCEPT !.lo = k.lo, !.hi = k.hi]

_has_exact_check_length(r) == r.min # <<>> /\ r.min = r.max
Digits(n) == [Blank("pattern") EXCEPT !.regex = <<n, n, "digits">>]
Letters(n) == [Blank("pattern") EXCEPT !.regex = <<n, n, "letters">>]

_is_phone_like(name) == name = "phone"
_is_date_column(name) == name = "made_at"
_is_code_like(name) == name = "code"

_adapt_initial_check_column(c, r) ==
  CASE r.gen = "integer" /\ c.type = "REAL" -> Keeping("float", r)
    [] r.gen = "string" /\ c.unique = "unique" /\ _has_exact_check_length(r) -> Letters(r.min[1])
    [] r.gen = "string" /\ _is_phone_like(c.name) /\ _has_exact_check_length(r) -> Digits(r.min[1])
    [] r.gen = "string" /\ _is_phone_like(c.name) /\ r.min # <<>> -> Blank("phone")
    [] OTHER -> r

_infer_unique_column_config(c) == IF c.name = "email" THEN Blank("email") ELSE Blank("template")

_placeholder_generator(type) ==
  CASE type = "INTEGER" -> "integer" [] type = "REAL" -> "float"
    [] type \in {"DATE", "DATETIME"} -> "datetime" [] OTHER -> "string"

\* What the core's mapper says of a name, "string" and a length for a code.
map_column(c) ==
  CASE c.name \in {"phone", "email"} -> Blank(c.name)
    [] c.name = "note" -> Blank("sentence")
    [] c.name = "full_name" -> Blank("name")
    [] c.name = "code" /\ c.type \in TextTypes -> [Blank("string") EXCEPT !.min = <<2>>, !.max = <<DefaultLength>>]
    [] c.type = "BLOB" -> Blank("bytes")
    [] OTHER -> Blank(_placeholder_generator(c.type))
_map_initial_column(c) ==
  LET r == map_column(c)
  IN  IF r.gen = "string" /\ _is_date_column(c.name) THEN Blank("datetime") ELSE r

_build_initial_column_config(c) ==
  CASE c.check.kind # "none" -> _adapt_initial_check_column(c, _parse_single_column_check(c.check))
    [] c.unique = "unique" /\ c.type \in TextTypes -> _infer_unique_column_config(c)
    [] OTHER -> _map_initial_column(c)

-----------------------------------------------------------------------------
(* What the validator reports.                                              *)

Bad(gens, types, tags, kind, strategy, target, when) ==
  {[generator |-> g, type |-> t, tags |-> tags, kind |-> kind, strategy |-> strategy,
    target |-> target, when |-> when] : g \in gens, t \in types}

TypeViolations ==
  Bad({"integer"} \cup Strings, {"DATETIME"}, {}, "crash", "switch_generator", "datetime", "always")
  \cup Bad({"integer"} \cup Strings, {"DATE"}, {}, "crash", "switch_generator", "date", "always")
  \cup Bad({"integer", "float"}, {"TEXT"}, {}, "semantic", "switch_generator", "string", "always")
  \cup Bad({"string", "datetime"}, {"INTEGER"}, {}, "crash", "switch_generator", "integer", "always")
  \cup Bad(Strings, {"BLOB"}, {}, "crash", "switch_generator", "bytes", "always")
  \cup Bad({"random_float"}, {"INTEGER"}, {}, "crash", "coerce_float_to_int", "", "always")
  \cup Bad({"random_float"}, {"REAL"}, {}, "crash", "switch_generator", "float", "always")
  \cup Bad({"random_int"}, {"INTEGER"}, {}, "crash", "switch_generator", "integer", "always")

\* The entry for a telephone number kept as TEXT equals the one for an address and is not in the set.
NameViolations ==
  Bad({"choice", "word", "string"}, {"ANY"}, {"UNIQUE"}, "unique", "upgrade_to_template", "", "code")
  \cup Bad({"text"}, {"TEXT"}, {}, "semantic", "semantic_upgrade", "", "note")
  \cup Bad({"string"}, {"TEXT"}, {}, "semantic", "semantic_upgrade", "", "email")
  \cup Bad({"choice"}, {"ANY"}, {"UNIQUE"}, "unique", "expand_pool", "", "small")
  \cup Bad({"phone", "string"}, {"ANY"}, {}, "semantic", "upgrade_phone_to_pattern", "", "phone")
  \cup Bad({"text"}, {"ANY"}, {"UNIQUE"}, "unique", "downgrade_text_to_string", "", "code")
  \cup Bad({"date", "datetime"}, {"ANY"}, {}, "semantic", "cap_future_end_year", "", "future")
  \cup Bad({"pattern"}, {"ANY"}, {}, "semantic", "bound_regex", "", "unbounded")

BUILTIN_VIOLATIONS == TypeViolations \cup NameViolations

future_bound_key(r) == r.end # <<>> /\ r.end[1] > Cap
Unbounded(r) == r.regex # <<>> /\ r.regex[2] = Far
predicate(when, c, r) ==
  CASE when = "code" -> _is_code_like(c.name)
    [] when \in {"note", "email", "phone"} -> c.name = when
    [] when = "small" -> Cardinality(r.of) < rows
    [] when = "future" -> future_bound_key(r)
    [] when = "unbounded" -> Unbounded(r)
    [] OTHER -> TRUE

_extract_constraints(c) ==
  CASE c.unique = "unique" -> {"UNIQUE"} [] c.unique = "key" -> {"UNIQUE", "NOT_NULL"} [] OTHER -> {}

_match_specificity(v, c) ==
  LET tags == _extract_constraints(c)
  IN  CASE v.type = c.type /\ v.tags = tags -> 1
        [] v.type = c.type /\ v.tags \subseteq tags -> 2
        [] v.type = "ANY" /\ v.tags \subseteq tags -> 3
        [] OTHER -> 4

\* The entries of the best level: which of two comes first is the order of a set.
Matches(c, r) ==
  LET found == {v \in BUILTIN_VIOLATIONS :
                  v.generator = r.gen /\ _match_specificity(v, c) < 4 /\ predicate(v.when, c, r)}
  IN  {v \in found : \A w \in found : _match_specificity(v, c) <= _match_specificity(w, c)}

\* A bound of zero counts as none.
OrZero(o, default) == IF Or(o, 0) = 0 THEN default ELSE o[1]
_compute_cardinality(r) ==
  CASE r.gen = "choice" -> Cardinality(r.of)
    [] r.gen = "integer" -> OrZero(r.hi, DefaultMax) - OrZero(r.lo, 0) + 1
    [] r.gen = "string" -> Capacity(Or(r.max, DefaultLength))
    [] OTHER -> rows

Report(cols, hint, severity, target) == [cols |-> cols, hint |-> hint, severity |-> severity, target |-> target]
Optional(b, v) == IF b THEN <<v>> ELSE <<>>

_enum_compliance(r, k) ==
  CASE k.kind = "texts" -> r.gen \notin {"choice", "weighted_choice"}
    [] k.kind = "boolean" -> r.gen # "boolean"
    [] OTHER -> FALSE
_extract_range_bounds(k) == k.kind = "range"
Loose(o, bound, lower) == bound # <<>> /\ (o = <<>> \/ (IF lower THEN o[1] < bound[1] ELSE o[1] > bound[1]))

_check_constraint_compliance(x, c, r) ==
  LET k == c.check
      fix == IF k.kind = "texts" THEN "coerce_to_text_enum" ELSE "coerce_to_boolean_enum"
  IN  Optional(_enum_compliance(r, k), Report({x}, fix, "semantic", ""))
      \o Optional(_extract_range_bounds(k) /\ r.gen \in NUMERIC_GENERATORS
                    /\ (Loose(r.lo, k.lo, TRUE) \/ Loose(r.hi, k.hi, FALSE)),
                  Report({x}, "align_check_bounds", "semantic", ""))

\* Reports on one column, where match is an optional entry of the matrix.
SingleColumn(x, c, r, match) ==
  (IF match = <<>> THEN <<>> ELSE <<Report({x}, match[1].strategy, match[1].kind, match[1].target)>>)
    \o Optional("UNIQUE" \in _extract_constraints(c) /\ _compute_cardinality(r) < rows,
                Report({x}, "upgrade_to_template", "unique", ""))
    \o _check_constraint_compliance(x, c, r)

_check_derive_from_dag(t, x, y) ==
  Optional(x \in t[x].from, Report({x}, "fix_self_reference", "crash", ""))
    \o Optional(y \in t[x].from /\ x \in t[y].from, Report({x, y}, "break_derive_from_cycle", "crash", ""))

validate_group(t) ==
  Optional(schema.pair /\ t["c"].gen # t["d"].gen, Report(Columns, "align_group_generators", "semantic", ""))

validate(t, match) ==
  SingleColumn("c", schema.c, t["c"], match["c"]) \o SingleColumn("d", schema.d, t["d"], match["d"])
    \o _check_derive_from_dag(t, "c", "d") \o _check_derive_from_dag(t, "d", "c") \o validate_group(t)

Best(c, r) == IF Matches(c, r) = {} THEN {<<>>} ELSE {<<v>> : v \in Matches(c, r)}
\* Everything the validator may report of a table, whichever entry comes first.
Reports(t) == {validate(t, [c |-> m, d |-> n]) : m \in Best(schema.c, t["c"]), n \in Best(schema.d, t["d"])}
Clean(t) == <<>> \in Reports(t)

-----------------------------------------------------------------------------
(* The strategies: what a report makes of a rule.                           *)

_semantic_generator(name) ==
  CASE name \in {"email", "phone"} -> name [] name = "note" -> "sentence"
    [] name = "full_name" -> "name" [] OTHER -> ""
_extract_length_check(k) == IF k.kind = "length" /\ k.lo = k.hi THEN k.lo ELSE <<>>

_switch_generator(c, r, target) ==
  LET new == _semantic_generator(c.name)
  IN  IF target # "string" \/ new = "" THEN With(target, r)
      ELSE IF new = "phone" /\ _extract_length_check(c.check) # <<>> THEN Blank("pattern")
      ELSE With(new, r)

_semantic_upgrade(c, r) ==
  LET new == _semantic_generator(c.name)
  IN  IF new = "" THEN With(r.gen, r) ELSE With(new, r)

\* A mistake: a CHECK on the column does not matter.
EvenIfChecked(c, r) == IF c.type \in NumericTypes THEN r ELSE Blank("template")
_upgrade_to_template(c, r) ==
  IF c.type \in NumericTypes \/ c.check.kind # "none" THEN r ELSE Blank("template")

\* Choices are made up for twice the assumed rows: the context has no row count.
_expand_pool(r) ==
  LET missing == 2 * Assumed - Cardinality(r.of)
  IN  IF missing <= 0 THEN r ELSE [r EXCEPT !.of = @ \cup 100 .. (99 + missing)]

_break_derive_from_cycle(c, r) ==
  [r EXCEPT !.from = {},
            !.gen = IF @ # "" THEN @ ELSE IF c.type = "INTEGER" THEN "integer" ELSE "string"]
_coerce_float_to_int(r) == IF r.gen = "random_float" THEN Keeping("integer", r) ELSE r
_align_group_generators(r) == With("integer", r)
_bound_regex(r) ==
  IF r.gen = "pattern" /\ Unbounded(r) THEN [r EXCEPT !.regex = <<@[1], @[1] + Plus, @[3]>>] ELSE r
_cap_future_end_year(r) ==
  IF r.gen \in {"date", "datetime"} /\ future_bound_key(r) THEN [r EXCEPT !.end = <<Cap>>] ELSE r
_downgrade_text_to_string(c, r) ==
  IF r.gen \notin {"text", "word"} \/ ~_is_code_like(c.name) THEN r
  ELSE [r EXCEPT !.gen = "string", !.max = IF Or(@, LongLength + 1) > LongLength THEN <<CodeLength>> ELSE @]

Number(r, n, kind) == [Blank("pattern") EXCEPT !.regex = <<n, n, kind>>, !.from = r.from]
_upgrade_phone_to_pattern(c, r) ==
  LET exact == _extract_length_check(c.check)
  IN  CASE ~_is_phone_like(c.name) -> r
        [] exact # <<>> -> Number(r, exact[1], "digits")
        [] r.gen \in {"phone", "string"} \/ (r.gen = "pattern" /\ r.regex # <<>> /\ r.regex[3] # "nanp")
             -> Number(r, NANP, "nanp")
        [] OTHER -> r

_coerce_to_boolean_enum(r) == With("boolean", r)
_coerce_to_text_enum(c, r) == [With("choice", r) EXCEPT !.of = c.check.of]

\* The range is put back on the CHECK's side when tightening one end inverts it.
_reanchor_inverted_bounds(r, k) ==
  IF r.lo = <<>> \/ r.hi = <<>> \/ Or(r.lo, 0) <= Or(r.hi, 0) THEN r
  ELSE IF k.lo # <<>> /\ k.hi # <<>> THEN [r EXCEPT !.lo = k.lo, !.hi = k.hi]
  ELSE IF k.lo # <<>> THEN [r EXCEPT !.hi = r.lo] ELSE [r EXCEPT !.lo = r.hi]
_align_check_bounds(c, r) ==
  LET k == c.check
  IN  _reanchor_inverted_bounds(
        [r EXCEPT !.lo = IF Loose(@, k.lo, TRUE) THEN k.lo ELSE @,
                  !.hi = IF Loose(@, k.hi, FALSE) THEN k.hi ELSE @], k)

REPAIR_STRATEGIES(v, c, r) ==
  CASE v.hint = "switch_generator" -> _switch_generator(c, r, v.target)
    [] v.hint = "semantic_upgrade" -> _semantic_upgrade(c, r)
    [] v.hint = "upgrade_to_template" -> _upgrade_to_template(c, r)
    [] v.hint = "expand_pool" -> _expand_pool(r)
    [] v.hint \in {"break_derive_from_cycle", "fix_self_reference"} -> _break_derive_from_cycle(c, r)
    [] v.hint = "coerce_float_to_int" -> _coerce_float_to_int(r)
    [] v.hint = "align_group_generators" -> _align_group_generators(r)
    [] v.hint = "bound_regex" -> _bound_regex(r)
    [] v.hint = "cap_future_end_year" -> _cap_future_end_year(r)
    [] v.hint = "downgrade_text_to_string" -> _downgrade_text_to_string(c, r)
    [] v.hint = "upgrade_phone_to_pattern" -> _upgrade_phone_to_pattern(c, r)
    [] v.hint = "coerce_to_boolean_enum" -> _coerce_to_boolean_enum(r)
    [] v.hint = "coerce_to_text_enum" -> _coerce_to_text_enum(c, r)
    [] v.hint = "align_check_bounds" -> _align_check_bounds(c, r)

_sort_by_severity(reports) ==
  LET of(s) == SelectSeq(reports, LAMBDA v : v.severity = s)
  IN  of("crash") \o of("unique") \o of("semantic")

-----------------------------------------------------------------------------
(* Columns and rules a run begins with.                                     *)

Check(kind, of, lo, hi) == [kind |-> kind, of |-> of, lo |-> lo, hi |-> hi]
NoCheck == Check("none", {}, <<>>, <<>>)
NumericChecks ==
  {NoCheck, Check("boolean", {0, 1}, <<>>, <<>>), Check("numbers", {2, 3}, <<>>, <<>>),
   Check("nonzero", {}, <<>>, <<>>)}
  \cup {Check("range", {}, b[1], b[2]) : b \in {<<<<2>>, <<5>>>>, <<<<2>>, <<>>>>, <<<<>>, <<5>>>>, <<<<>>, <<0>>>>}}
TextChecks ==
  {NoCheck, Check("texts", {1, 2}, <<>>, <<>>), Check("texts", {1, 2, 3}, <<>>, <<>>),
   Check("like", {}, <<4>>, <<4>>)}
  \cup {Check("length", {}, b[1], b[2]) : b \in {<<<<3>>, <<3>>>>, <<<<3>>, <<>>>>, <<<<>>, <<3>>>>}}

Kinds(names, types, checks) ==
  {[name |-> n, type |-> t, unique |-> u, check |-> k] :
    n \in names, t \in types, u \in {"no", "unique", "key"}, k \in checks}
Plain == [name |-> "plain", type |-> "TEXT", unique |-> "no", check |-> NoCheck]
ColumnKinds ==
  Kinds({"plain", "code"}, NumericTypes, NumericChecks)
  \cup Kinds({"plain", "code", "phone", "email", "note", "full_name", "made_at"}, TextTypes, TextChecks)
  \cup Kinds({"made_at"}, {"DATE", "DATETIME"}, {NoCheck})
  \cup Kinds({"plain"}, {"BLOB"}, {NoCheck})

\* What a caller's configuration may say of a column; values outside a CHECK included.
Numeric ==
  {[Blank(g) EXCEPT !.lo = b[1], !.hi = b[2]] : g \in NUMERIC_GENERATORS,
     b \in {<<<<>>, <<>>>>, <<<<3>>, <<4>>>>, <<<<7>>, <<9>>>>, <<<<0>>, <<1>>>>, <<<<>>, <<0>>>>}}
Texts ==
  {[Blank(g) EXCEPT !.min = b[1], !.max = b[2]] : g \in Strings,
     b \in {<<<<>>, <<>>>>, <<<<1>>, <<1>>>>, <<<<3>>, <<3>>>>, <<<<6>>, <<>>>>, <<<<>>, <<9>>>>}}
  \cup {Blank(g) : g \in {"word", "phone", "email"}}
  \cup {[Blank("pattern") EXCEPT !.regex = <<2, e, "letters">>] : e \in {3, Far}}
Dates == {[Blank(g) EXCEPT !.start = b[1], !.end = b[2]] : g \in {"date", "datetime"},
            b \in {<<<<>>, <<>>>>, <<<<1>>, <<4>>>>, <<<<3>>, <<4>>>>}}
Choices == {[Blank("choice") EXCEPT !.of = S] : S \in {{0, 1}, {1, 2}, {1, 2, 3, 4}}}
Caller(c) ==
  Numeric \cup Choices \cup Dates \cup {Blank("boolean")} \cup (IF c.type \in NumericTypes THEN {} ELSE Texts)
From(S) == [Blank("") EXCEPT !.from = S]

\* What the strategies do not handle: a unique column of a few allowed values (the pool is filled up
\* with others), a name with a meaning and an inexact length, an exact length lost on the way to a
\* telephone number, a bound of zero, a minimum above the length of a code, a first year after the
\* last, a derived column that is given a generator besides, and bounds lost with a generator's name.
Unhandled(c, r) ==
  \/ c.check.kind = "nonzero" /\ r.gen \in {"random_int", "random_float"}
  \/ c.check.kind \in {"texts", "numbers"} /\ c.unique # "no"
  \/ c.check.kind = "length" /\ _semantic_generator(c.name) # "" /\ _extract_length_check(c.check) = <<>>
  \/ c.check.kind \in {"length", "like"} /\ c.name \in {"phone", "email", "note", "full_name"}
       /\ r.gen \in {"integer", "float"} \cup Strings \cup {"phone"}
       /\ (c.check.kind = "like" \/ c.name # "phone" \/ r.gen \in {"integer", "float"})
  \/ 0 \in {Or(r.hi, 1), Or(c.check.hi, 1)} /\ c.unique # "no"
  \/ Or(r.min, 0) > CodeLength
  \/ Or(r.start, 0) > Cap
  \/ r.gen = "" /\ c.check.kind \in {"texts", "boolean"}

Init ==
  /\ \E c \in ColumnKinds, pair \in BOOLEAN :
       /\ pair => c.name = "plain" /\ c.check = NoCheck /\ c.unique # "unique"
       /\ LET d == [Plain EXCEPT !.type = IF pair THEN c.type ELSE "TEXT"]
              built == [c |-> _build_initial_column_config(c), d |-> _build_initial_column_config(d)]
          IN  /\ schema = [c |-> c, d |-> d, pair |-> pair]
              /\ \/ config = built /\ rows = Assumed
                 \/ /\ rows \in {Assumed, 9}
                    /\ \/ \E r \in Caller(c) : config = [built EXCEPT !["c"] = r]
                       \/ /\ ~pair
                          /\ \E S, T \in SUBSET Columns \ {{}} :
                               \/ config = [built EXCEPT !["c"] = From(S)]
                               \/ config = [c |-> From(S), d |-> From(T)]
              /\ Odd \/ \A x \in Columns : ~Unhandled(schema[x], config[x])
  /\ given = config /\ phase = "validate" /\ queue = <<>> /\ flagged = {} /\ applied = {}

Validate ==
  /\ phase = "validate"
  /\ \E reports \in Reports(config) :
       /\ queue' = _sort_by_severity(reports)
       /\ flagged' = UNION {v.cols : v \in {w \in {reports[i] : i \in 1 .. Len(reports)} :
                              w.hint \in {"coerce_to_text_enum", "coerce_to_boolean_enum", "align_check_bounds"}}}
       /\ phase' = IF reports = <<>> THEN "accepted" ELSE "repair"
  /\ UNCHANGED <<schema, rows, given, config, applied>>

\* A strategy that returns the rule as it is declines.
Repair ==
  /\ phase = "repair" /\ queue # <<>>
  /\ LET v == Head(queue)
     IN  /\ config' = [x \in Columns |-> IF x \in v.cols THEN REPAIR_STRATEGIES(v, schema[x], config[x]) ELSE config[x]]
         /\ applied' = applied \cup {<<x, v.hint>> : x \in {y \in v.cols : config'[y] # config[y]}}
  /\ queue' = Tail(queue)
  /\ UNCHANGED <<schema, rows, given, phase, flagged>>

\* What the pipeline itself makes of the second validation is not used by the run.
Revalidate ==
  /\ phase = "repair" /\ queue = <<>>
  /\ phase' = IF Clean(config) THEN "accepted" ELSE "model"
  /\ UNCHANGED <<schema, rows, given, config, queue, flagged, applied>>

Next == Validate \/ Repair \/ Revalidate
Spec == Init /\ [][Next]_vars

-----------------------------------------------------------------------------
\* The lengths of the texts of a rule, and the ends of its numbers.
Lengths(r) ==
  CASE r.gen \in Strings -> <<Or(r.min, 1), Or(r.max, IF r.gen = "text" THEN LongLength ELSE DefaultLength)>>
    [] r.gen = "pattern" -> IF r.regex = <<>> THEN <<0, 0>> ELSE <<r.regex[1], r.regex[2]>>
    [] r.gen = "phone" -> <<NANP, NANP + 1>>
    [] OTHER -> <<1, Far>>
Least(r) == Or(r.lo, 0)
Greatest(r) == Or(r.hi, DefaultMax)

\* Every value the rule gives passes the CHECK.
Passes(c, r) ==
  LET k == c.check
      numbers == r.gen \in NUMERIC_GENERATORS
  IN  CASE k.kind = "none" -> TRUE
        [] k.kind \in {"texts", "boolean", "numbers"} ->
             \/ r.gen = "choice" /\ r.of \subseteq k.of
             \/ r.gen = "boolean" /\ k.kind = "boolean"
             \/ r.gen = "integer" /\ k.kind # "texts" /\ Least(r) .. Greatest(r) \subseteq k.of
        [] k.kind = "range" -> numbers /\ Least(r) >= Or(k.lo, -9) /\ Greatest(r) <= Or(k.hi, Far)
        [] k.kind = "nonzero" -> numbers /\ (Least(r) > 0 \/ Greatest(r) < 0)
        [] k.kind = "like" -> r.gen = "pattern" /\ r.regex # <<>> /\ r.regex[3] = "like"
        [] OTHER -> Lengths(r)[1] >= Or(k.lo, 0) /\ Lengths(r)[2] <= Or(k.hi, Far)

HasValues(r) ==
  CASE r.gen \in NUMERIC_GENERATORS -> Least(r) <= Greatest(r)
    [] r.gen \in Strings -> Lengths(r)[1] <= Lengths(r)[2]
    [] r.gen = "choice" -> r.of # {}
    [] r.gen \in {"date", "datetime"} -> Or(r.start, 0) <= Or(r.end, Cap)
    [] r.gen = "" -> r.from # {}
    [] OTHER -> TRUE

Room(r) ==
  CASE r.gen = "choice" -> Cardinality(r.of) >= rows
    [] r.gen = "integer" -> Greatest(r) - Least(r) + 1 >= rows
    [] OTHER -> TRUE

\* What the rules accept without the model can be generated: a column reported for its CHECK now passes
\* it, a column that passed it still does (no later strategy, chosen for a name or for uniqueness, takes
\* that back), every rule has values, enough of them where they must be unique, and no column derives
\* from itself or in a circle.
RepairsHold ==
  phase = "accepted" =>
    \A x \in Columns :
      /\ x \in flagged \/ Passes(schema[x], given[x]) => Passes(schema[x], config[x])
      /\ HasValues(given[x]) => HasValues(config[x])
      /\ schema[x].unique # "no" => Room(config[x])
      /\ \A y \in config[x].from : x \notin config[y].from

\* A telephone number of an exact length gets a pattern of that many digits
\* (_semantic_upgrade), also when the strategy that switches the generator asks for it.
DigitsOfTheLength ==
  phase = "accepted" /\ <<"c", "switch_generator">> \in applied /\ _extract_length_check(schema.c.check) # <<>>
    /\ _is_phone_like(schema.c.name) => Passes(schema.c, config["c"])
=============================================================================
