----------------------------- MODULE ColumnSpecs -----------------------------
(***************************************************************************)
(* How the core finds the generator of a column (_resolve_specs): the      *)
(* user's rule, clamped to the CHECKs (CheckAdapter); else the rules for   *)
(* names, types and defaults (ColumnMapper), the values already in the     *)
(* table (EnrichmentEngine), the schema (SchemaFallbackGenerator); and     *)
(* then room for unique values (UniqueAdjuster).                           *)
(*                                                                         *)
(* Values are integers: those of an "int" column, half steps of the        *)
(* decimal grid of a "real" one, and the lengths of the texts of a "text"  *)
(* one, where the listed texts differ in length.  An optional number is    *)
(* <<>> or <<n>>.  A spec is a record [gen, lo, hi, of, letters, null]:    *)
(* null is "none", "some" or "all", and gen "error" a ConfigurationError.  *)
(***************************************************************************)
EXTENDS Integers, Sequences, FiniteSets, SequencesExt

CONSTANT Odd    (* TRUE: also the columns the rules do not handle *)

\* Numbers of the code at the model's scale: 999999, 100, 50, count * 10, the size of a
\* charset, the length of a telephone number.
DefaultMax == 12
DefaultLength == 9
UniqueLength == 7
Room(count) == 2 * count
PhoneLength == 6
Letters == [wide |-> 2, one |-> 1]

Numbers == {"integer", "float"}
Plain(gen) == [gen |-> gen, lo |-> <<>>, hi |-> <<>>, of |-> {}, letters |-> "", null |-> "none"]
Between(gen, lo, hi) == [Plain(gen) EXCEPT !.lo = lo, !.hi = hi]
Choice(S) == [Plain("choice") EXCEPT !.of = S]
Error == Plain("error")
Has(o) == o # <<>>
Or(o, default) == IF Has(o) THEN o[1] ELSE default
Bigger(a, b) == IF a > b THEN a ELSE b
Smaller(a, b) == IF a < b THEN a ELSE b
\* The larger (smaller) of two optional numbers.
Highest(o, p) == IF ~Has(o) THEN p ELSE IF ~Has(p) THEN o ELSE <<Bigger(o[1], p[1])>>
Lowest(o, p) == IF ~Has(o) THEN p ELSE IF ~Has(p) THEN o ELSE <<Smaller(o[1], p[1])>>

----------------------------------------------------------------------------
(* CHECKs: a CHECK is a sequence of conjuncts [op, of, n, strict] with op   *)
(* "in" (also = and OR of =), "ge", "le", "lenge", "lenle", "leneq" or     *)
(* "other", what the parser cannot read.                                   *)

\* _intersect_choices: texts that exclude each other leave the earlier list.
_intersect_choices(kind, old, new) ==
  IF old = <<>> THEN <<new>>
  ELSE IF old[1] \cap new = {} /\ kind = "text" THEN old ELSE <<old[1] \cap new>>

\* _merge_bound: the tighter of two bounds <<value, strict>>, each the optional o and b.
_merge_bound(o, b, lower) ==
  IF o = <<>> \/ (IF lower THEN b[1] > o[1][1] ELSE b[1] < o[1][1]) \/ (b[1] = o[1][1] /\ b[2])
  THEN <<b>> ELSE o

\* add_bound, over a conjunct.
Constrain(kind, p, a) ==
  LET tight(n, lower) == IF ~a.strict THEN n ELSE IF lower THEN n + 1 ELSE n - 1
  IN  CASE a.op = "in" -> [p EXCEPT !.of = _intersect_choices(kind, @, a.of)]
        [] a.op = "ge" -> [p EXCEPT !.lower = _merge_bound(@, <<a.n, a.strict>>, TRUE)]
        [] a.op = "le" -> [p EXCEPT !.upper = _merge_bound(@, <<a.n, a.strict>>, FALSE)]
        [] a.op = "lenge" -> [p EXCEPT !.min = Highest(@, <<tight(a.n, TRUE)>>)]
        [] a.op = "lenle" -> [p EXCEPT !.max = Lowest(@, <<tight(a.n, FALSE)>>)]
        [] a.op = "leneq" -> [p EXCEPT !.min = Highest(@, <<a.n>>), !.max = Lowest(@, <<a.n>>)]
        [] OTHER -> p

\* _CheckConstraints.result, of a sequence of conjuncts.
_choice_in_bounds(kind, p, v) ==
  IF kind = "text" THEN (Has(p.min) => v >= p.min[1]) /\ (Has(p.max) => v <= p.max[1])
  ELSE /\ Has(p.lower) => v > p.lower[1][1] \/ (v = p.lower[1][1] /\ ~p.lower[1][2])
       /\ Has(p.upper) => v < p.upper[1][1] \/ (v = p.upper[1][1] /\ ~p.upper[1][2])
Classified(kind, p) ==
  IF Has(p.of) THEN [p EXCEPT !.kind = "choice", !.of = <<{v \in p.of[1] : _choice_in_bounds(kind, p, v)}>>]
  ELSE IF Has(p.min) \/ Has(p.max) THEN [p EXCEPT !.kind = "length_range"]
  ELSE IF Has(p.lower) \/ Has(p.upper) THEN [p EXCEPT !.kind = "range"] ELSE p
parse(kind, conjuncts) ==
  Classified(kind, FoldLeft(LAMBDA q, a : Constrain(kind, q, a),
    [kind |-> "none", of |-> <<>>, lower |-> <<>>, upper |-> <<>>, min |-> <<>>, max |-> <<>>], conjuncts))
parse_all(c) == parse(c.kind, FlattenSeq(c.checks))

\* _align_numeric_bound: the first value on the grid of the generator that a bound admits.
_align_numeric_bound(kind, value, strict, lower) ==
  LET step == IF kind = "real" THEN 2 ELSE 1
      below == (value \div step) * step
      at == below = value
  IN  IF lower THEN IF at /\ ~strict THEN value ELSE below + step
      ELSE IF at /\ strict THEN value - step ELSE below

\* _clamp_range: user and CHECK bounds together; _clamp_length has no grid.
\* A mistake: the bound is aligned before it is known which of the two it is.
AlwaysStrict(kind, value, b, lower) == _align_numeric_bound(kind, value, Has(b) /\ b[1][2], lower)
Aligned(kind, value, b, lower) ==
  _align_numeric_bound(kind, value, Has(b) /\ b[1][2] /\ b[1][1] = value, lower)
Clamped(kind, r, p) ==
  LET lo == Highest(r.lo, IF Has(p.lower) THEN <<p.lower[1][1]>> ELSE <<>>)
      hi == Lowest(r.hi, IF Has(p.upper) THEN <<p.upper[1][1]>> ELSE <<>>)
      newLo == IF Has(lo) THEN <<Aligned(kind, lo[1], p.lower, TRUE)>> ELSE <<>>
      newHi == IF Has(hi) THEN <<Aligned(kind, hi[1], p.upper, FALSE)>> ELSE <<>>
  IN  IF Has(newLo) /\ Has(newHi) /\ newLo[1] > newHi[1] THEN Error ELSE [r EXCEPT !.lo = newLo, !.hi = newHi]
_clamp_length(r, p) ==
  LET lo == Highest(r.lo, p.min)
      hi == Lowest(r.hi, p.max)
  IN  IF Has(lo) /\ Has(hi) /\ lo[1] > hi[1] THEN Error ELSE [r EXCEPT !.lo = lo, !.hi = hi]
_clamp_choices(r, p) ==
  IF r.of = {} THEN [r EXCEPT !.of = p.of[1]]
  ELSE IF r.of \cap p.of[1] = {} THEN Error ELSE [r EXCEPT !.of = @ \cap p.of[1]]

\* adapt_user_configs: only a rule whose generator is of the CHECK's kind.
_adapt_column(c, r) ==
  LET p == parse_all(c)
  IN  CASE p.kind = "range" /\ r.gen \in Numbers -> Clamped(c.kind, r, p)
        [] p.kind = "choice" /\ r.gen = "choice" -> _clamp_choices(r, p)
        [] p.kind = "length_range" /\ r.gen \in {"string", "text"} -> _clamp_length(r, p)
        [] OTHER -> r

----------------------------------------------------------------------------
(* ColumnMapper.                                                           *)

\* What the rules say of the names of the model, and which kind of rule it is.
EXACT_MATCH_RULES(name) ==
  CASE name = "age" -> Between("integer", <<2>>, <<4>>)
    [] name = "level" -> Choice({1, 2, 3})
    [] name = "gender" -> Choice({1, 3})
    [] name = "phone" -> Plain("phone")
    [] name = "bio" -> Between("text", <<3>>, <<5>>)
    [] OTHER -> Error
PATTERN_MATCH_RULES(name) ==
  CASE name = "x_count" -> Between("integer", <<1>>, <<5>>)
    [] name \in {"x_code", "xCode"} -> [Between("string", <<2>>, <<4>>) EXCEPT !.letters = "wide"]
    [] OTHER -> Error
Named(name) ==
  CASE EXACT_MATCH_RULES(name) # Error -> <<"exact", EXACT_MATCH_RULES(name)>>
    [] PATTERN_MATCH_RULES(name) # Error -> <<IF name = "xCode" THEN "snake" ELSE "pattern", PATTERN_MATCH_RULES(name)>>
    [] OTHER -> <<"none", Error>>
_match(name, kinds) == Named(name)[1] \in kinds

TYPE_FALLBACK_RULES(kind) ==
  CASE kind = "int" -> Between("integer", <<0>>, <<DefaultMax>>)
    [] kind = "real" -> Between("float", <<0>>, <<DefaultMax>>)
    [] OTHER -> Between("string", <<2>>, <<5>>)
_type_faithful_fallback(c) ==
  IF c.kind = "text" /\ Has(c.len) THEN Between("string", <<1>>, c.len) ELSE TYPE_FALLBACK_RULES(c.kind)

_map_from_default(c, force) ==
  IF force THEN _type_faithful_fallback(c) ELSE IF c.enrich # "off" THEN Plain("__enrich__") ELSE Plain("skip")

_map_fallback(c, force) ==
  CASE c.pk = "rowid" -> Plain("skip")
    [] c.pk = "int" -> _type_faithful_fallback(c)
    [] _match(c.name, {"exact"}) -> Named(c.name)[2]
    [] c.default -> _map_from_default(c, force)
    [] _match(c.name, {"pattern", "snake"}) -> Named(c.name)[2]
    [] c.nullable -> _map_from_default(c, force)
    [] OTHER -> _type_faithful_fallback(c)

\* Params of the name's rule complete the user's, if the generator is the same.
_inherit_rule_params(name, r) ==
  LET rule == Named(name)[2]
      same == rule.gen = r.gen
      both == [r EXCEPT !.lo = IF Has(@) THEN @ ELSE rule.lo, !.hi = IF Has(@) THEN @ ELSE rule.hi,
                 !.of = IF @ = {} /\ same THEN rule.of ELSE @,
                 !.letters = IF @ = "" /\ same THEN rule.letters ELSE @]
  IN  IF Named(name)[1] \notin {"exact", "pattern"} \/ ~(same \/ {rule.gen, r.gen} = {"string", "text"}) THEN r
      ELSE IF r.gen \in {"string", "text"} /\ Has(both.lo) /\ Has(both.hi) /\ both.lo[1] > both.hi[1] /\ ~Has(r.hi)
      THEN [both EXCEPT !.hi = <<>>]
      ELSE both

map_column(c, force) ==
  IF c.pk \in {"auto", "computed"} THEN Plain("skip")
  ELSE IF Has(c.user) /\ ~force /\ c.user[1].gen # ""
  THEN LET r == _adapt_column(c, c.user[1]) IN IF r = Error THEN Error ELSE _inherit_rule_params(c.name, r)
  ELSE IF Has(c.user) /\ ~force /\ c.user[1].null # "none" THEN [_map_fallback(c, force) EXCEPT !.null = c.user[1].null]
  ELSE _map_fallback(c, force)

----------------------------------------------------------------------------
(* EnrichmentEngine: c.enrich is "off", "empty" (no rows, or only NULLs), "few" (the values     *)
(* c.old make an enumeration) or "many".                                                        *)

_build_enriched_spec(c) ==
  CASE c.enrich = "empty" -> Plain("skip")
    [] c.enrich = "few" /\ ~c.unique -> [Choice(c.old) EXCEPT !.null = IF c.nullable THEN "some" ELSE "none"]
    [] OTHER -> map_column(c, TRUE)
apply(c, r) == IF r.gen = "__enrich__" THEN _build_enriched_spec(c) ELSE r

----------------------------------------------------------------------------
(* _enhance_fallback_specs and SchemaFallbackGenerator.                    *)

\* _check_exact_length: a whole CHECK that is LENGTH(c) = n, with or without a test for NULL.
_check_exact_length(c) ==
  LET whole == SelectSeq(c.checks, LAMBDA k : Len(k) = 1 /\ k[1].op = "leneq")
  IN  IF whole = <<>> THEN <<>> ELSE <<whole[1][1].n>>

_fallback_from_type(c) ==
  CASE c.kind = "int" -> Plain("integer")
    [] c.kind = "real" -> Plain("float")
    [] c.unique -> LET max == Or(c.len, UniqueLength) IN Between("string", <<Smaller(max, 4)>>, <<max>>)
    [] OTHER -> Between("string", <<>>, c.len)
_fallback_from_check(c) ==
  LET p == parse_all(c)
  IN  CASE p.kind = "choice" -> Choice(p.of[1])
        [] p.kind = "range" -> Clamped(c.kind, Plain(IF c.kind = "real" THEN "float" ELSE "integer"), p)
        [] p.kind = "length_range" ->
             [Between("string", p.min, IF Has(p.max) THEN Lowest(p.max, c.len) ELSE p.max) EXCEPT !.letters = "wide"]
        [] OTHER -> _fallback_from_type(c)
fallback_for_column(c, r) ==
  IF c.pk \in {"auto", "computed"} \/ c.default THEN r ELSE _fallback_from_check(c)

_enhance_fallback_specs(c, r) ==
  LET p == parse_all(c)
      n == _check_exact_length(c)
  IN  IF Has(c.user) \/ r = Error THEN r
      ELSE IF r.gen # "skip" /\ p.kind = "choice" THEN [Choice(p.of[1]) EXCEPT !.null = r.null]
      ELSE IF Has(n) /\ (r.gen = "phone" \/ (r.gen = "string" /\ r.letters = ""))
      THEN [Between("pattern", n, n) EXCEPT !.null = r.null]
      ELSE IF r.gen \in {"string", "integer", "float", "boolean", "choice"} THEN fallback_for_column(c, r)
      ELSE r

----------------------------------------------------------------------------
(* UniqueAdjuster.                                                         *)

\* Bounds of CHECKs of one kind, each CHECK read on its own.
Bounds(c, kind) ==
  LET each == {q \in {parse(c.kind, c.checks[i]) : i \in DOMAIN c.checks} : q.kind = kind}
      low(q) == IF kind = "length_range" THEN q.min
                ELSE IF Has(q.lower) THEN <<_align_numeric_bound("int", q.lower[1][1], q.lower[1][2], TRUE)>> ELSE <<>>
      high(q) == IF kind = "length_range" THEN q.max
                 ELSE IF Has(q.upper) THEN <<_align_numeric_bound("int", q.upper[1][1], q.upper[1][2], FALSE)>> ELSE <<>>
      declared == IF kind = "length_range" THEN c.len ELSE <<>>
  IN  [lo |-> FoldLeft(LAMBDA o, q : Highest(o, low(q)), <<>>, SetToSeq(each)),
       hi |-> FoldLeft(LAMBDA o, q : Lowest(o, high(q)), declared, SetToSeq(each))]

_check_range_bounds(c) == Bounds(c, "range")
_string_length_bounds(c) == Bounds(c, "length_range")

RECURSIVE Strings(_, _, _)
Strings(size, lo, hi) == IF lo > hi THEN 0 ELSE size ^ hi + Strings(size, lo, hi - 1)
Needed(size, count) == CHOOSE n \in 0 .. 10 : size ^ n >= count * count /\ (n = 0 \/ size ^ (n - 1) < count * count)

\* _constrain_string_lengths, _fit_bounded_strings and what is left of _adjust_string.
_adjust_string(c, r) ==
  LET b == _string_length_bounds(c)
      lo == Highest(<<Or(r.lo, 1)>>, b.lo)[1]
      hi == Lowest(<<Or(r.hi, UniqueLength)>>, b.hi)[1]
      size == Letters[IF r.letters = "" THEN "wide" ELSE r.letters]
      short(capacity) == r.null = "none" /\ c.count > capacity
      needed == Needed(size, c.count)
      set(min, max) == [r EXCEPT !.lo = <<min>>, !.hi = <<max>>]
      bounded == Has(b.lo) \/ Has(b.hi)
  IN  CASE bounded /\ lo > hi -> Error
        [] size = 1 -> IF short(hi - lo + 1) THEN Error ELSE set(lo, hi)
        [] Has(b.hi) /\ c.count <= size ^ hi -> set(Smaller(hi, Bigger(lo, needed)), hi)
        [] Has(b.hi) -> IF short(Strings(size, lo, hi)) THEN Error ELSE set(lo, hi)
        [] OTHER -> set(Bigger(lo, needed), Bigger(hi, Bigger(lo, needed)))

_adjust_integer(c, r) ==
  LET b == _check_range_bounds(c)
      lo == Or(r.lo, 0)
      hi == Or(r.hi, DefaultMax)
      low == Or(Highest(<<lo>>, b.lo), 0)
      high == Or(Lowest(<<hi>>, b.hi), 0)
  IN  IF ~Has(b.lo) /\ ~Has(b.hi) THEN Between(r.gen, <<lo>>, <<Bigger(hi, lo + Room(c.count))>>)
      ELSE IF r.null = "none" /\ c.count > high - low + 1 THEN Error
      ELSE [r EXCEPT !.lo = <<low>>, !.hi = <<high>>]

_bound_integer_fallback(c, r) ==
  LET b == _check_range_bounds(c)
  IN  IF r.gen # "integer" \/ (~Has(b.lo) /\ ~Has(b.hi)) THEN r
      ELSE Between("integer",
             <<IF Has(b.lo) THEN b.lo[1] ELSE Smaller(Or(r.lo, 0), b.hi[1] - Room(c.count))>>,
             <<IF Has(b.hi) THEN b.hi[1] ELSE Bigger(Or(r.hi, DefaultMax), b.lo[1] + Room(c.count))>>)

AdjustNumbers(c, r) ==
  CASE r.gen = "string" -> _adjust_string(c, r)
    [] r.gen = "integer" -> _adjust_integer(c, r)
    [] OTHER -> r
\* _adjust_skip_unique and _adjust_choice start again from the type of the column.
FromType(c) == _bound_integer_fallback(c, map_column(c, TRUE))
\* The rule that is adjusted: one from the type replaces a skipped column and too short a list.
Replaced(c, r, f) ==
  CASE r.gen = "skip" /\ c.pk = "none" /\ ~c.default /\ c.nullable /\ f.gen # "skip" -> f
    [] r.gen = "choice" /\ Cardinality(r.of) < c.count /\ f.gen \notin {"skip", "choice"} ->
         [f EXCEPT !.null = r.null]
    [] OTHER -> r
adjust(c, r) ==
  IF c.count = 0 \/ ~c.unique \/ r = Error THEN r ELSE AdjustNumbers(c, Replaced(c, r, FromType(c)))

Resolved(c) == adjust(c, _enhance_fallback_specs(c, apply(c, map_column(c, FALSE))))

----------------------------------------------------------------------------
(* The columns of the model.                                               *)

VARIABLE case    (* a column: [kind, len, name, pk, nullable, default, unique, enrich, old, checks, user, count] *)

Is(op, n, strict) == [op |-> op, of |-> {}, n |-> n, strict |-> strict]
In(S) == [op |-> "in", of |-> S, n |-> 0, strict |-> FALSE]
Other == Is("other", 0, FALSE)
Conjuncts(kind) ==
  IF kind = "text" THEN {In({2, 3}), In({3, 5}), In({4}), Is("lenge", 3, TRUE), Is("lenle", 5, FALSE),
                         Is("lenge", 2, FALSE), Is("leneq", 4, FALSE), Other}
  ELSE {In({1, 3}), In({3, 4}), Is("ge", 1, FALSE), Is("ge", 3, TRUE), Is("le", 5, TRUE), Is("le", 7, FALSE),
        Is("le", 3, FALSE), Other}
Checks(kind) == {<<>>} \cup {<<<<a>>>> : a \in Conjuncts(kind)}
                \cup {<<<<a>>, <<b>>>> : a, b \in Conjuncts(kind)} \cup {<<<<a, b>>>> : a, b \in Conjuncts(kind)}

Column(kind, name) ==
  [kind |-> kind, len |-> <<>>, name |-> name, pk |-> "none", nullable |-> FALSE, default |-> FALSE, unique |-> FALSE,
   enrich |-> "off", old |-> {}, checks |-> <<>>, user |-> <<>>, count |-> 3]
NamesOf(kind) ==
  CASE kind = "int" -> {"none", "age", "level", "x_count"}
    [] kind = "real" -> {"none"}
    [] OTHER -> {"none", "gender", "phone", "bio", "x_code", "xCode"}
Users(kind) ==
  {<<>>, <<[Plain("") EXCEPT !.null = "some"]>>, <<Choice({1, 3, 4})>>} \cup
  IF kind = "text" THEN {<<Plain("string")>>, <<Between("string", <<2>>, <<6>>)>>, <<Between("string", <<4>>, <<>>)>>,
                         <<[Between("string", <<1>>, <<4>>) EXCEPT !.letters = "one"]>>, <<Plain("phone")>>}
  ELSE LET gen == IF kind = "real" THEN "float" ELSE "integer"
       IN  {<<Plain(gen)>>, <<Between(gen, <<2>>, <<6>>)>>, <<Between(gen, <<>>, <<4>>)>>}

Mapped ==
  \E k \in {"int", "real", "text"}, pk \in {"none", "rowid", "int", "auto", "computed"}, nu, d, u \in BOOLEAN,
     e \in {"off", "empty", "few", "many"} :
    \E n \in NamesOf(k) :
      case = [Column(k, n) EXCEPT !.pk = pk, !.nullable = nu, !.default = d, !.unique = u, !.enrich = e, !.old = {2, 5}]
Checked ==
  \E kind \in {"int", "real", "text"}, nu, u \in BOOLEAN :
    \E n \in NamesOf(kind), k \in Checks(kind), r \in Users(kind), l \in IF kind = "text" THEN {<<>>, <<3>>, <<8>>} ELSE {<<>>} :
      case = [Column(kind, n) EXCEPT !.checks = k, !.nullable = nu, !.unique = u, !.user = r, !.len = l]
Found ==
  \E kind \in {"int", "real", "text"}, d, u \in BOOLEAN, e \in {"off", "empty", "few", "many"} :
    \E k \in Checks(kind) :
      case = [Column(kind, "none") EXCEPT !.checks = k, !.nullable = TRUE, !.default = d, !.unique = u, !.enrich = e, !.old = {3}]

----------------------------------------------------------------------------
(* What the table accepts, and what a generator draws.                     *)

\* A CHECK accepts the value (the length) v.
Holds(a, v) ==
  CASE a.op = "in" -> v \in a.of
    [] a.op \in {"ge", "lenge"} -> v > a.n \/ (v = a.n /\ ~a.strict)
    [] a.op \in {"le", "lenle"} -> v < a.n \/ (v = a.n /\ ~a.strict)
    [] a.op = "leneq" -> v = a.n
    [] OTHER -> TRUE
Accepts(c, v) == \A i \in DOMAIN c.checks : \A j \in DOMAIN c.checks[i] : Holds(c.checks[i][j], v)
\* The generators that can be held to CHECKs of a kind.
Compatible(kind) ==
  CASE kind = "choice" -> {"choice"}
    [] kind = "range" -> Numbers
    [] kind = "length_range" -> {"string", "text", "pattern"}
    [] OTHER -> {}
\* The numbers or lengths a spec draws.
Drawn(c, r) ==
  CASE r.gen = "choice" -> r.of
    [] r.gen = "integer" -> Or(r.lo, 0) .. Or(r.hi, DefaultMax)
    [] r.gen = "float" -> {v \in Or(r.lo, 0) .. Or(r.hi, DefaultMax) : v % 2 = 0}
    [] r.gen \in {"string", "text", "pattern"} -> Or(r.lo, 1) .. Or(r.hi, DefaultLength)
    [] OTHER -> {PhoneLength}
\* How many different values it draws.
Capacity(r, values) ==
  CASE r.gen = "string" -> IF values = {} THEN 0
                           ELSE Strings(Letters[IF r.letters = "one" THEN "one" ELSE "wide"], Min(values), Max(values))
    [] r.gen \in {"phone", "pattern", "text", "float"} -> 99
    [] OTHER -> Cardinality(values)

\* Columns the rules do not handle: a width without an upper CHECK, a name whose rule is a text
\* or too short a list, a rule of the user without generator, a unique REAL that may be NULL, values found under a default.
Unhandled(c) ==
  LET p == parse_all(c)
  IN  \/ p.kind = "length_range" /\ ~Has(p.max) /\ Has(c.len) /\ c.user = <<>>
      \/ c.name = "bio" /\ p.kind = "length_range"
      \/ Has(c.user) /\ c.user[1].gen = ""
      \/ c.name \in {"gender", "level"} /\ c.unique
      \/ c.default /\ c.enrich \in {"few", "many"} /\ p.kind # "none"
      \/ c.kind = "real" /\ c.nullable /\ c.unique

Init == (Mapped \/ Checked \/ Found) /\ (Odd \/ ~Unhandled(case))
Next == UNCHANGED case
Spec == Init /\ [][Next]_case

\* r draws values of c, enough of them, and only what its CHECKs and length accept.
Fits(c, r) ==
  LET values == Drawn(c, r)
      wanted == IF Has(c.user) /\ c.user[1].gen # "" THEN Drawn(c, _inherit_rule_params(c.name, c.user[1])) ELSE -20 .. 40
      left == {v \in wanted : Accepts(c, v) /\ (Has(c.len) => v <= c.len[1])}
      sound == \E v \in 0 .. 40 : Accepts(c, v) /\ (Has(c.len) => v <= c.len[1])
  IN  ~sound \/ IF r = Error THEN left = {} \/ (c.unique /\ Cardinality(left) < c.count)
      ELSE r.gen \notin {"skip", "__enrich__"} =>
             /\ values # {}
             /\ r.gen \in Compatible(parse_all(c).kind) => \A v \in values : Accepts(c, v)
             /\ r.gen = "string" /\ c.user = <<>> /\ Named(c.name)[1] = "none" /\ Has(c.len) => \A v \in values : v <= c.len[1]
             /\ c.unique /\ r.null = "none" => Capacity(r, values) >= c.count

\* The generator a column ends with draws only values its CHECKs accept, wherever it is of
\* their kind, no text longer than the declared width where it comes from the type, and enough
\* values where they must be unique; and generation is refused only when the rule of the user
\* and the CHECKs leave no value, or too few (_resolve_specs).
SpecsFitTheSchema == Fits(case, Resolved(case))

\* A column that only its name says something about keeps the rule for its name
\* (_resolve_specs, of _enhance_fallback_specs: business hints win).
BusinessHintsWin ==
  Named(case.name)[1] \in {"exact", "pattern"} /\ case.user = <<>> /\ case.checks = <<>> /\ ~case.default /\ ~case.unique
    /\ case.pk = "none" => Resolved(case) = Named(case.name)[2]
=============================================================================
