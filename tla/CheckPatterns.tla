--------------------------- MODULE CheckPatterns ---------------------------
(***************************************************************************)
(* How the healer of the AI plugin turns the CHECK constraints of a table  *)
(* into rules for one column: the parser of single-column checks and the   *)
(* matchers of cross-column checks, with the order in which they are       *)
(* tried.                                                                  *)
(*                                                                         *)
(* A check is a record: its SHAPE (what the regular expression of one      *)
(* matcher recognises), a comparison, two literals and a category.  The    *)
(* column is x; y, z and w are numeric columns of the row, t a text        *)
(* column.  The expression a matcher builds is modelled by the set of      *)
(* values it may produce for a row; the empty set means that evaluating it *)
(* raises.  Against it stands Holds, the meaning SQL gives the check.      *)
(*                                                                         *)
(* Numbers are tenths: whole numbers are multiples of Unit, and one tenth  *)
(* stands for the step 0.01 of the code.  A value is <<n>>, NULL is <<>>.  *)
(***************************************************************************)
EXTENDS Integers, Sequences, FiniteSets

CONSTANT Odd  \* whether the tables and rows the rules are known to fail on are given too

Unit == 10
Far == 100 * Unit
NULL == <<>>
Some(S) == {<<n>> : n \in S}

\* The categories of the text columns, as numbers.
A == 1
B == 2
C == 3
Categories == {A, B, C}
Abs(n) == IF n < 0 THEN -n ELSE n
Least(a, b) == IF a < b THEN a ELSE b
Most(a, b) == IF a < b THEN b ELSE a
Times(a, b) == (a * b) \div Unit
Compare(op, a, b) ==
    CASE op = ">=" -> a >= b [] op = ">" -> a > b [] op = "<=" -> a <= b [] OTHER -> a < b

\* SQL: a comparison with NULL is unknown, and a CHECK fails only when it is false.
Cmp(op, a, b) == a = NULL \/ b = NULL \/ Compare(op, a[1], b[1])

-----------------------------------------------------------------------------
(* The functions of the expression engine.  Every rule is monotone in what *)
(* they draw, so the values next to the ends stand for the whole range.    *)

Whole(n) == IF n < 0 THEN -((-n \div Unit) * Unit) ELSE (n \div Unit) * Unit
\* The day of a moment, which a DATE column keeps of what is stored in it.
Day(n) == (n \div Unit) * Unit
random_int(lo, hi) ==
    LET a == Whole(lo)
        b == Whole(hi)
    IN  {n \in {a, a + Unit, b - Unit, b} : a <= n /\ n <= b}
\* The ends of a continuous range have probability zero.
random_float(lo, hi) ==
    LET a == Least(lo, hi)
        b == Most(lo, hi)
    IN  IF b - a < 2 THEN {a, b} ELSE {a + 1, (a + b) \div 2, b - 1}
\* value * random_float(lo, hi), the factors in hundredths.
Scaled(y, lo, hi) == {(y * f) \div 100 : f \in random_float(lo, hi)}

-----------------------------------------------------------------------------
(* Single-column checks: their bounds, merged.                             *)

Shape(ctx, s) == {ctx[i] : i \in {j \in DOMAIN ctx : ctx[j].shape = s}}
\* What one parsed check says of the smallest and of the largest value.
\* != 0 is read as positive.
_parse_check_nonzero(c) == {IF c.kind = "int" THEN Unit ELSE 1}
Lows(c) == CASE c.shape = "low" -> {c.k}
             [] c.shape = "above" -> {c.k + (IF c.kind = "int" THEN Unit ELSE 1)}
             [] c.shape \in {"range", "nullRange"} -> {c.k}
             [] c.shape = "nonzero" -> _parse_check_nonzero(c)
             [] OTHER -> {}
Highs(c) == CASE c.shape = "high" -> {c.k}
              [] c.shape = "below" -> {c.k - (IF c.kind = "int" THEN Unit ELSE 1)}
              [] c.shape \in {"range", "nullRange"} -> {c.l}
              [] OTHER -> {}
Largest(S) == CHOOSE n \in S : \A m \in S : m <= n
Smallest(S) == CHOOSE n \in S : \A m \in S : n <= m

AllLows(ctx) == UNION {Lows(ctx[i]) : i \in DOMAIN ctx}
AllHighs(ctx) == UNION {Highs(ctx[i]) : i \in DOMAIN ctx}
MinValue(ctx) == IF AllLows(ctx) = {} THEN {} ELSE {Largest(AllLows(ctx))}
MaxValue(ctx) == IF AllHighs(ctx) = {} THEN {} ELSE {Smallest(AllHighs(ctx))}
\* What the merged bounds admit, in the neighbourhood of the bound when the other one is absent.
_infer_from_check_constraints(ctx, kind) ==
    LET lo == IF MinValue(ctx) # {} THEN Smallest(MinValue(ctx)) ELSE Smallest(MaxValue(ctx)) - Far
        hi == IF MaxValue(ctx) # {} THEN Smallest(MaxValue(ctx)) ELSE lo + Far
    IN  IF lo > hi THEN {} ELSE IF kind = "int" THEN random_int(lo, hi) ELSE random_float(lo, hi) \cup {lo, hi}

-----------------------------------------------------------------------------
(* Orderings of two columns.                                               *)

_numeric_comparison_expression(op, kind, y) ==
    LET step == IF op \in {">", "<"} THEN (IF kind = "float" THEN 1 ELSE Unit) ELSE 0
        sign == IF op \in {">", ">="} THEN 1 ELSE -1
        far == IF kind = "float" THEN random_float(step, Far) ELSE random_int(step, Far)
    IN  {y + sign * d : d \in far}
\* A date is moved by whole days; the units of a day are those of a whole number.
DateShift(op, y) ==
    IF op \in {">", ">="} THEN {y + d : d \in random_int(Unit, 365 * Unit)}
    ELSE {y - d : d \in random_int(IF op = "<=" THEN 0 ELSE Unit, 365 * Unit)}

_match_inclusive_lower(kind, y) ==
    IF kind = "float" THEN {y + d : d \in random_float(Unit, Far)}
    ELSE {y + d : d \in random_int(Unit, IF kind = "date" THEN 30 * Unit ELSE Far)}
_match_exclusive_lower(kind, y) ==
    IF kind = "float" THEN Scaled(y, 110, 200)
    ELSE {y + d : d \in random_int(Unit, IF kind = "date" THEN 30 * Unit ELSE Far)}
_match_inclusive_upper(kind, y) ==
    CASE kind = "float" -> Scaled(y, 50, 100)
      [] kind = "int" -> random_int(0, y)
      [] OTHER -> DateShift("<=", y)
_match_exclusive_upper(kind, y) ==
    CASE kind = "float" -> Scaled(y, 10, 90)
      [] kind = "int" -> {y - d : d \in random_int(Unit, Far)}
      [] OTHER -> DateShift("<", y)
Ordering(op, kind, y) ==
    CASE op = ">=" -> _match_inclusive_lower(kind, y)
      [] op = ">" -> _match_exclusive_lower(kind, y)
      [] op = "<=" -> _match_inclusive_upper(kind, y)
      [] OTHER -> _match_exclusive_upper(kind, y)
\* The right side is DATE(y): a date keeps a minimum number of days from a sibling check, and one
\* more if the column is a DATE and the source has a time of day, which storing cuts off.
_minimum_date_comparison_days(ctx, kind) ==
    Largest({Unit} \cup {IF d.op = ">" THEN d.k + Unit ELSE d.k : d \in Shape(ctx, "daysApart")})
    + (IF kind = "day" THEN Unit ELSE 0)
_build_date_right_ordering(op, ctx, kind, y) ==
    LET moved == IF op \in {">", ">="}
                 THEN {y + d : d \in random_int(_minimum_date_comparison_days(ctx, kind), 365 * Unit)}
                 ELSE DateShift(op, y)
    IN  IF kind = "day" THEN {Day(n) : n \in moved} ELSE moved

\* The first check of the table that has one of the shapes, or none.
FirstOf(ctx, shapes) ==
    LET of == {i \in DOMAIN ctx : ctx[i].shape \in shapes}
    IN  {ctx[i] : i \in {j \in of : \A m \in of : j <= m}}
LastOf(ctx, shapes) ==
    LET of == {i \in DOMAIN ctx : ctx[i].shape \in shapes}
    IN  {ctx[i] : i \in {j \in of : \A m \in of : m <= j}}

\* x IS NULL OR x op y.  The first range check of the column is wrapped around the result.
_find_nullable_ordering_bounds(ctx) == FirstOf(ctx, {"range", "nullRange"})
_wrap_nullable_ordering_bounds(ctx, n) ==
    IF _find_nullable_ordering_bounds(ctx) = {} THEN n
    ELSE LET b == CHOOSE c \in _find_nullable_ordering_bounds(ctx) : TRUE
         IN  Most(b.k, Least(b.l, n))
_build_nullable_ordering(ctx, op, kind, y) ==
    IF y = NULL THEN {}
    ELSE IF kind = "date" THEN Some(DateShift(op, y[1]))
    ELSE {<<_wrap_nullable_ordering_bounds(ctx, n)>> : n \in _numeric_comparison_expression(op, kind, y[1])}

\* x IS NULL OR y IS NULL OR x op y, with the sibling bounds of the column: a lower column w, a
\* lower literal, an upper literal.
First(S, i) == i \in S /\ \A j \in S : i <= j
_find_nullable_literal_bounds(ctx, ops) ==
    {ctx[i].k : i \in {j \in DOMAIN ctx :
                          First({m \in DOMAIN ctx : ctx[m].shape = "nullLit" /\ ctx[m].op \in ops}, j)}}
_find_nullable_lower_column(ctx) == \E d \in Shape(ctx, "nullLowerCol") : d.op \in {">=", ">"}
\* A mistake: the column that bounds it from below is not looked for.
NoLowerColumn(ctx, r, n) == n
AboveLowerColumn(ctx, r, n) == IF _find_nullable_lower_column(ctx) THEN Most(n, r.w[1]) ELSE n
AboveLiteral(ctx, n) == Largest({n} \cup _find_nullable_literal_bounds(ctx, {">=", ">"}))
BelowLiteral(ctx, n) == Smallest({n} \cup _find_nullable_literal_bounds(ctx, {"<=", "<"}))
\* Only the float branch for > answers NULL when the source has reached the cap.
CapReached(ctx, op, kind, y) ==
    /\ op = ">" /\ kind = "float"
    /\ \E h \in _find_nullable_literal_bounds(ctx, {"<=", "<"}) : y[1] >= h
_bounded_nullable(ctx, op, kind, r) ==
    CASE r.y = NULL \/ CapReached(ctx, op, kind, r.y) -> {NULL}
      [] r.w = NULL /\ _find_nullable_lower_column(ctx) /\ op \in {"<=", "<"} -> {}
      [] kind = "date" /\ op \in {">=", ">"} -> Some(DateShift(op, r.y[1]))
      [] kind = "date" -> {<<AboveLowerColumn(ctx, r, n)>> : n \in DateShift(op, r.y[1])}
      [] op \in {">=", ">"} ->
            {<<BelowLiteral(ctx, n)>> : n \in _numeric_comparison_expression(op, kind, r.y[1])}
      [] OTHER -> {<<AboveLiteral(ctx, AboveLowerColumn(ctx, r, n))>> :
                      n \in _numeric_comparison_expression(op, kind, r.y[1])}

-----------------------------------------------------------------------------
(* Windows between a literal and a column.                                 *)

_match_inclusive_windows(c, kind, y) ==
    LET lo == IF c.shape = "litCol" THEN c.k ELSE y
        hi == IF c.shape = "litCol" THEN y ELSE c.k
    IN  IF kind = "float" THEN random_float(lo, hi) ELSE random_int(lo, hi)
_match_exclusive_windows(c, kind, y) ==
    LET lo == IF c.shape = "litColOpen" THEN c.k ELSE y
        hi == IF c.shape = "litColOpen" THEN y ELSE c.k
    IN  IF kind = "float" THEN random_float(lo, hi) ELSE random_int(lo + Unit, hi - Unit)
_match_half_open_window(c, kind, y) ==
    IF kind = "int" THEN random_int(c.k, y - Unit)
    ELSE IF c.k = 0 THEN Scaled(y, 0, 99) ELSE {Most(c.k, n) : n \in Scaled(y, 0, 99)}
_match_bounded_multiplier(c, y) ==
    IF c.k <= 0 THEN Scaled(y, 0, 10 * c.l) ELSE {Most(c.k, n) : n \in Scaled(y, 0, 10 * c.l)}

-----------------------------------------------------------------------------
(* Equalities and bounds by arithmetic on the row.                         *)

\* The expression evaluates the right side of the check; an average is cut to a whole number
\* for an integer column, as SQL divides integers.
_match_average(kind, r, n) ==
    LET q == (r.y[1] + r.z[1]) \div n IN IF kind = "int" THEN Whole(q) ELSE q
Evaluated(form, r) ==
    LET y == r.y[1]
        z == r.z[1]
        w == r.w[1]
    IN  CASE form = "y-z" -> y - z
          [] form = "y+z+w" -> y + z + w
          [] form = "abs(y-z)" -> Abs(y - z)
          [] form = "y+y*z*w" -> y + Times(Times(y, z), w)
          [] form = "y*z*w/2" -> Times(Times(y, z), w) \div 2
_match_product(r) == Times(r.y[1], r.z[1])
_match_multiplier_lower(c, y) == Times(y, c.k)
_match_sums_of_products(form, r) ==
    IF form = "y*z-w" THEN Times(r.y[1], r.z[1]) - r.w[1] ELSE Times(r.y[1] + r.z[1], Unit - r.w[1])
_match_absolute(form, r) ==
    LET y == Abs(r.y[1])
        z == r.z[1]
    IN  CASE form = "abs(y)-z" -> y - z
          [] form = "y-abs(z)" -> r.y[1] - Abs(z)
          [] form = "abs(y)*abs(z)" -> Times(y, Abs(z))
          [] form = "y+z-w" -> r.y[1] + z - r.w[1]
          [] OTHER -> y
AbsForms == {"abs(y)-z", "y-abs(z)", "abs(y)*abs(z)", "y+z-w", "abs(y)"}
SumForms == {"y*z-w", "(y+z)*(1-w)"}
Forms == {"y*z", "avg", "y-z", "y+z+w", "abs(y-z)", "y+y*z*w"} \cup SumForms \cup AbsForms
Arithmetic(form, kind, r) ==
    CASE form = "y*z" -> _match_product(r)
      [] form = "avg" -> _match_average(kind, r, 2)
      [] form \in SumForms -> _match_sums_of_products(form, r)
      [] form \in AbsForms -> _match_absolute(form, r)
      [] OTHER -> Evaluated(form, r)
\* x IS NULL OR x = y * z keeps a share of NULL; any other equality leaves the column NULL.
_match_nullable_computed(c, r) == {NULL} \cup (IF c.shape = "nullProduct" THEN {<<_match_product(r)>>} ELSE {})
_match_sum_upper(r) == Scaled(r.y[1] + r.z[1], 0, 100)
_match_nullable_sum_upper(r) == IF r.y = NULL THEN {NULL} ELSE Some(_match_sum_upper(r))
_match_affine_upper(c, y) == {Times(y, c.k) + d : d \in random_float(0, c.l)}
_match_multiplier_upper(c, y) == Scaled(y, 0, 10 * c.k)

\* z + x = y.  The earlier of the two addends takes a whole part of the total, the later one the
\* rest, so that neither is negative.
EarlierAddend(y) == random_int(0, Most(0, Whole(y)))
_match_reverse_sum(c, r) ==
    CASE c.op = "later" -> {r.y[1] - r.z[1]}
      [] c.op = "minus" -> {r.z[1] - r.y[1]}
      [] OTHER -> EarlierAddend(r.y[1])

-----------------------------------------------------------------------------
(* Inequality, indicators, and alternatives with a literal.                *)

_match_column_inequality(y) == IF y > Unit THEN y - Unit ELSE y + Unit
\* The members of an enumeration, each mapped to the next and the last to the first.
Enumeration == <<A, B, C>>
_build_inequality_enum_rotation(s) ==
    IF \E i \in 1 .. 2 : Enumeration[i] = s
    THEN Enumeration[1 + CHOOSE i \in 1 .. 2 : Enumeration[i] = s] ELSE Enumeration[1]
Opposite(k) == IF k \in {0, Unit} THEN Unit - k ELSE 0
_match_conditional_integer_equality(c, y) == IF y = c.l THEN c.k ELSE Opposite(c.k)
_match_range_indicator(c, r) ==
    IF r.z[1] <= r.y[1] /\ r.y[1] <= r.w[1] THEN c.k ELSE Opposite(c.k)
_match_threshold_indicator(c, r) ==
    IF r.y[1] < c.l \/ r.z[1] < c.l THEN Opposite(c.k) ELSE c.k
_match_disjunction_indicator(c, y) ==
    IF (c.op = "<" /\ y >= c.l) \/ (c.op = "<=" /\ y > c.l) THEN {c.k} ELSE random_int(0, c.k)
_match_literal_or_comparison(c, kind, y) == {c.k} \cup _numeric_comparison_expression(c.op, kind, y)
_match_literal_or_threshold(c, kind, y) ==
    IF ~Compare(c.op, y, c.l) THEN {c.k}
    ELSE IF kind = "float" THEN random_float(0, Far) ELSE random_int(0, Far)
_match_literal_or_enum(c, kind, t) ==
    IF t \notin c.cats THEN {c.k}
    ELSE IF kind = "float" THEN random_float(1, Far) ELSE {Opposite(c.k)}

-----------------------------------------------------------------------------
(* Rules that depend on a category.                                        *)

\* t # cat OR x op y: a sibling x <= y makes equality the only answer.
_match_conditional_comparison(c, ctx, kind, r) ==
    LET capped == \E d \in Shape(ctx, "order") : d.op \in {"<=", "<"}
        with == IF capped /\ c.op \in {">=", ">"} THEN {r.y[1]}
                ELSE _numeric_comparison_expression(c.op, kind, r.y[1])
    IN  IF r.t = c.cat THEN with ELSE with \cup {0}
_range_expr_for_op(op, k) ==
    CASE op = "<=" -> random_float(1, k)
      [] op = "<" -> random_float(1, Most(k - 1, 2))
      [] op = ">=" -> random_float(k, k + Far)
      [] OTHER -> random_float(k + 1, k + Far)
Clamped(ctx, n) ==
    LET below == {Least(n, m) : m \in MaxValue(ctx)}
        top == IF below = {} THEN n ELSE Smallest(below)
    IN  IF MinValue(ctx) = {} THEN top ELSE Most(top, Smallest(MinValue(ctx)))
\* (t = a AND x >= k) OR (t = b AND x <= l): a range for every category, the last one by default.
_build_conditional_priority_range(c, ctx, r) ==
    {Clamped(ctx, n) : n \in IF r.t = A THEN _range_expr_for_op(">=", c.k) ELSE _range_expr_for_op("<=", c.l)}
\* (t = a AND x >= k AND x < l) OR (t = b AND x > k AND x <= l).
_match_conditional_dual_ranges(c, kind, r) ==
    LET step == IF kind = "float" THEN 1 ELSE Unit
        lo == IF r.t = A THEN c.k ELSE c.k + step
        hi == IF r.t = A THEN c.l - step ELSE c.l
    IN  IF kind = "float" THEN random_float(lo, hi) ELSE random_int(lo, hi)
\* The checks t # cat OR x op k of the table, in their order: one branch for each category.
_conditional_numeric_branch(d, kind) ==
    LET step == IF d.op \in {">", "<"} THEN (IF kind = "float" THEN 1 ELSE Unit) ELSE 0
        lo == IF d.op \in {">", ">="} THEN d.k + step ELSE d.k - Far
        hi == IF d.op \in {">", ">="} THEN d.k + Far ELSE d.k - step
    IN  IF kind = "float" THEN random_float(lo, hi) ELSE random_int(lo, hi)
Branches(ctx, s, t) == {i \in DOMAIN ctx : ctx[i].shape = s /\ ctx[i].cat = t}
FirstBranch(ctx, s, t) == ctx[CHOOSE i \in Branches(ctx, s, t) : \A j \in Branches(ctx, s, t) : i <= j]
_match_conditional_numeric_mapping(ctx, kind, t) ==
    IF Branches(ctx, "cond", t) # {} THEN _conditional_numeric_branch(FirstBranch(ctx, "cond", t), kind)
    ELSE IF kind = "float" THEN random_float(-Far, Far) ELSE random_int(-Far, Far)
_match_conditional_string_mapping(ctx, t) ==
    IF Branches(ctx, "condText", t) # {} THEN FirstBranch(ctx, "condText", t).text
    ELSE ctx[CHOOSE i \in DOMAIN ctx : ctx[i].shape = "condText"].text
_match_conditional_positive(c, ctx, r) ==
    LET positive == random_float(c.k + 1, c.k + Far)
        capped == \E d \in Shape(ctx, "order") : d.op \in {"<=", "<"}
    IN  IF r.t # c.cat THEN {0}
        ELSE {IF capped THEN Least(n, r.y[1]) ELSE n : n \in positive}
\* The rule does not look at the category: a plain range with the smallest value of the siblings.
_match_conditional_upper(c, ctx, kind) ==
    LET step == IF c.op = "<" THEN (IF kind = "float" THEN 1 ELSE Unit) ELSE 0
        lo == IF MinValue(ctx) = {} THEN 0 ELSE Smallest(MinValue(ctx))
    IN  IF kind = "float" THEN random_float(lo, c.k - step) ELSE random_int(lo, c.k - step)
\* The bounds x >= k and x <= l of the column: those of the first range, or else the last of each.
\* Strict ones are not looked for.
_find_equality_fallback_bounds(ctx) ==
    IF Shape(ctx, "range") # {}
    THEN LET b == CHOOSE c \in FirstOf(ctx, {"range"}) : TRUE IN <<{b.k}, {b.l}>>
    ELSE <<{c.k : c \in LastOf(ctx, {"low"})}, {c.k : c \in LastOf(ctx, {"high"})}>>
\* They are cut to what lies between the step and 100; if nothing does, the ends change places.
_equality_random_expression(kind, bounds) ==
    LET step == IF kind = "float" THEN 1 ELSE Unit
        lo == Largest({step} \cup bounds[1])
        hi == Smallest({Far} \cup bounds[2])
    IN  IF kind = "float" THEN random_float(lo, hi) ELSE random_int(Least(lo, hi), Most(lo, hi))
_match_conditional_numeric_equality(c, ctx, t) ==
    IF t = c.cat THEN {c.k} ELSE _equality_random_expression(c.kind, _find_equality_fallback_bounds(ctx))
_match_conditional_enum(c, t) == IF t = c.cat THEN c.cats ELSE {Smallest(c.cats)}
\* A foreign key must not receive a literal: NULL where that is allowed, the first row elsewhere.
_conditional_fallback_literal(fk, forKey) == IF fk THEN forKey ELSE <<0>>
_match_conditional_null_value(c, fk, t) == IF t = c.cat THEN NULL ELSE _conditional_fallback_literal(fk, NULL)
_match_conditional_nonnull(c, fk, t) == IF t = c.cat THEN NULL ELSE _conditional_fallback_literal(fk, <<Unit>>)
\* t # cat OR x IS NULL, beside x IS NULL OR x > y: both at once, from the column y.  A date
\* without that sibling is always NULL, since no literal is a date.
HasOrderingSibling(ctx) == \E d \in Shape(ctx, "nullOrder") : d.op \in {">=", ">"}
_infer_conditional_null_with_sibling(c, ctx, kind, r) ==
    IF ~HasOrderingSibling(ctx) \/ r.t = c.cat \/ r.y = NULL THEN {NULL}
    ELSE Some({r.y[1] + d : d \in IF kind = "float" THEN random_float(0, Far)
                                  ELSE random_int(IF kind = "date" THEN Unit ELSE 0, Far)})
_match_conditional_not_in_nonnull(c, fk, kind, t) ==
    CASE t \notin c.cats -> {NULL}
      [] fk -> {<<Unit>>}
      [] kind = "float" -> Some(random_float(1, 10 * Far))
      [] OTHER -> Some(random_int(Unit, 10 * Far))
_match_conditional_positive_or_null(c, t) ==
    IF t # c.cat /\ t \in c.cats THEN {NULL} ELSE Some(random_float(c.k + 1, c.k + 100 * Far))
_match_conditional_arithmetic(c, r) == IF r.t \in c.cats THEN r.y[1] + r.z[1] ELSE r.y[1] - r.z[1]
_match_enum_or_null(c, t) == IF t \in c.cats THEN <<0>> ELSE NULL

-----------------------------------------------------------------------------
(* Which check decides.                                                    *)

Single == {"low", "above", "high", "below", "range", "nullRange", "nonzero", "nullLit", "daysApart"}
WithEnumeration == {"litOrEnum", "condEnum", "notInNonNull", "enumOrNull", "posOrNull", "condArith"}
WithAlternative == WithEnumeration \cup
    {"litOrSelf", "dateLeft", "nullOrder", "threeWay", "nullLowerCol", "nullSumUp", "nullProduct", "nullEqual",
     "intEq", "rangeInd", "thresholdInd", "disjInd", "litOrCmp", "litOrThreshold", "condCmp", "dualRanges", "ranges",
     "cond", "condText", "condNumEq", "condNull", "condNonNull"}
_cross_constraint_sort_key(c) ==
    IF c.shape \in WithEnumeration THEN 0 ELSE IF c.shape \in WithAlternative THEN 1 ELSE 2
\* A lone branch of a mapping is a rule of its own only for some comparisons.
Matched(ctx, i) ==
    CASE ctx[i].shape \in Single -> FALSE
      [] ctx[i].shape = "condText" -> Cardinality({j \in DOMAIN ctx : ctx[j].shape = "condText"}) > 1
      [] ctx[i].shape = "cond" ->
            Cardinality({j \in DOMAIN ctx : ctx[j].shape = "cond"}) > 1 \/ ctx[i].op # ">="
      [] OTHER -> TRUE
\* Five patterns that read the whole list of checks come before the loop over single ones.
_infer_dual_multiplier_bounds(ctx) ==
    {<<lo, hi>> \in Shape(ctx, "multLow") \X Shape(ctx, "multUp") : lo.k <= hi.k}
ScannedFirst(ctx, kind) ==
    LET of(s) == {i \in DOMAIN ctx : ctx[i].shape = s}
    IN  IF of("litOrSelf") # {} THEN of("litOrSelf")
        ELSE IF of("threeWay") # {} THEN of("threeWay")
        ELSE IF of("condNull") # {} /\ (HasOrderingSibling(ctx) \/ kind = "date") THEN of("condNull")
        ELSE of("ranges")
Deciding(ctx, kind) ==
    LET matched == {i \in DOMAIN ctx : Matched(ctx, i)}
        first(S) == CHOOSE i \in S : \A j \in S : i <= j
        key(i) == _cross_constraint_sort_key(ctx[i])
    IN  CASE ScannedFirst(ctx, kind) # {} -> {first(ScannedFirst(ctx, kind))}
          [] matched = {} -> {}
          [] OTHER -> {first({i \in matched : \A j \in matched : key(i) <= key(j)})}

\* x = k OR s IS NOT NULL: the self-reference s is NULL in the first rows, so x is always k.
_match_self_reference_literal(c) == <<c.k>>
\* The values the rule of check c may give row r.
_infer_cross_column_check(c, ctx, kind, fk, r) ==
    LET y == r.y[1]
    IN  CASE c.shape = "litOrSelf" -> {_match_self_reference_literal(c)}
          [] c.shape = "nullOrder" -> _build_nullable_ordering(ctx, c.op, kind, r.y)
          [] c.shape = "threeWay" -> _bounded_nullable(ctx, c.op, kind, r)
          [] c.shape = "condNull" /\ c \in {ctx[i] : i \in ScannedFirst(ctx, kind)} ->
                _infer_conditional_null_with_sibling(c, ctx, kind, r)
          [] c.shape = "nullSumUp" -> _match_nullable_sum_upper(r)
          [] r.y = NULL -> {}
          [] c.shape \in {"nullProduct", "nullEqual"} -> _match_nullable_computed(c, r)
          [] c.shape = "order" -> Some(Ordering(c.op, kind, y))
          [] c.shape = "dateLeft" -> Some(DateShift(c.op, y))
          [] c.shape = "dateOrder" -> Some(_build_date_right_ordering(c.op, ctx, kind, y))
          [] c.shape \in {"litCol", "colLit"} -> Some(_match_inclusive_windows(c, kind, y))
          [] c.shape \in {"litColOpen", "colLitOpen"} -> Some(_match_exclusive_windows(c, kind, y))
          [] c.shape = "litColHalf" -> Some(_match_half_open_window(c, kind, y))
          [] c.shape = "boundMult" -> Some(_match_bounded_multiplier(c, y))
          [] c.shape = "prodLow" -> {<<_match_product(r)>>}
          [] c.shape = "arith" -> {<<Arithmetic(c.form, kind, r)>>}
          [] c.shape = "multLow" -> {<<_match_multiplier_lower(c, y)>>}
          [] c.shape = "multUp" -> Some(_match_multiplier_upper(c, y))
          [] c.shape = "affine" -> Some(_match_affine_upper(c, y))
          [] c.shape = "sumUp" -> Some(_match_sum_upper(r))
          [] c.shape = "reverse" -> Some(_match_reverse_sum(c, r))
          [] c.shape = "differs" -> {<<_match_column_inequality(y)>>}
          [] c.shape = "differsText" -> {<<_build_inequality_enum_rotation(r.t)>>}
          [] c.shape = "intEq" -> {<<_match_conditional_integer_equality(c, y)>>}
          [] c.shape = "rangeInd" -> {<<_match_range_indicator(c, r)>>}
          [] c.shape = "thresholdInd" -> {<<_match_threshold_indicator(c, r)>>}
          [] c.shape = "disjInd" -> Some(_match_disjunction_indicator(c, y))
          [] c.shape = "litOrCmp" -> Some(_match_literal_or_comparison(c, kind, y))
          [] c.shape = "litOrThreshold" -> Some(_match_literal_or_threshold(c, kind, y))
          [] c.shape = "litOrEnum" -> Some(_match_literal_or_enum(c, kind, r.t))
          [] c.shape = "condCmp" -> Some(_match_conditional_comparison(c, ctx, kind, r))
          [] c.shape = "ranges" -> Some(_build_conditional_priority_range(c, ctx, r))
          [] c.shape = "dualRanges" -> Some(_match_conditional_dual_ranges(c, kind, r))
          [] c.shape = "condText" -> {<<_match_conditional_string_mapping(ctx, r.t)>>}
          [] c.shape = "cond" /\ Cardinality({i \in DOMAIN ctx : ctx[i].shape = "cond"}) > 1 ->
                Some(_match_conditional_numeric_mapping(ctx, kind, r.t))
          [] c.shape = "cond" /\ c.op = ">" -> Some(_match_conditional_positive(c, ctx, r))
          [] c.shape = "cond" -> Some(_match_conditional_upper(c, ctx, kind))
          [] c.shape = "condEnum" -> Some(_match_conditional_enum(c, r.t))
          [] c.shape = "condNumEq" -> Some(_match_conditional_numeric_equality(c, ctx, r.t))
          [] c.shape = "condNull" -> {_match_conditional_null_value(c, fk, r.t)}
          [] c.shape = "condNonNull" -> {_match_conditional_nonnull(c, fk, r.t)}
          [] c.shape = "notInNonNull" -> _match_conditional_not_in_nonnull(c, fk, kind, r.t)
          [] c.shape = "posOrNull" -> _match_conditional_positive_or_null(c, r.t)
          [] c.shape = "condArith" -> {<<_match_conditional_arithmetic(c, r)>>}
          [] c.shape = "enumOrNull" -> {_match_enum_or_null(c, r.t)}
_infer_cross_column_config(ctx, kind, fk, r) ==
    IF _infer_dual_multiplier_bounds(ctx) # {} /\ r.y # NULL
    THEN LET b == CHOOSE p \in _infer_dual_multiplier_bounds(ctx) : TRUE
         IN  Some(Scaled(r.y[1], 10 * b[1].k, 10 * b[2].k))
    ELSE IF Deciding(ctx, kind) = {} THEN Some(_infer_from_check_constraints(ctx, kind))
    ELSE _infer_cross_column_check(ctx[CHOOSE i \in Deciding(ctx, kind) : TRUE], ctx, kind, fk, r)

-----------------------------------------------------------------------------
(***************************************************************************)
(* What SQL asks of a value v of the column, given the row.                *)
(***************************************************************************)
\* An equality, as the relation it states; SQL divides integers to a whole number.
Equation(c, v, r) ==
    LET y == r.y[1]
        z == r.z[1]
        w == r.w[1]
        n == v[1]
    IN  CASE c.form \in {"y*z", "abs(y)*abs(z)"} -> Abs(n) * Unit = Abs(y * z) /\ (c.form = "y*z" \/ n >= 0)
          [] c.form \in {"y-z", "y-abs(z)"} -> n + Abs(z) = y
          [] c.form = "y+z+w" -> n - y = z + w
          [] c.form = "abs(y-z)" -> n >= 0 /\ n \in {y - z, z - y}
          [] c.form = "y+y*z*w" -> n * Unit * Unit = y * (Unit * Unit + z * w)
          [] c.form = "y*z*w/2" -> n * 2 * Unit * Unit = y * z * w
          [] c.form = "y+z-w" -> n + w = y + z
          [] c.form = "y*z-w" -> (n + w) * Unit = y * z
          [] c.form = "(y+z)*(1-w)" -> n * Unit = (y + z) * (Unit - w)
          [] c.form = "avg" -> IF c.kind = "int"
                               THEN n = Whole(n) /\ Abs(2 * n) <= Abs(y + z) /\ Abs(y + z) < Abs(2 * n) + 2 * Unit
                               ELSE 2 * n = y + z
          [] c.form = "abs(y)-z" -> n + z \in {y, -y} /\ n + z >= 0
          [] OTHER -> n \in {y, -y} /\ n >= 0
Holds(c, v, r) ==
    LET is(n) == v = NULL \/ v = <<n>>
    IN  CASE c.shape = "low" -> Cmp(">=", v, <<c.k>>)
          [] c.shape = "above" -> Cmp(">", v, <<c.k>>)
          [] c.shape = "high" -> Cmp("<=", v, <<c.k>>)
          [] c.shape = "below" -> Cmp("<", v, <<c.k>>)
          [] c.shape \in {"range", "nullRange"} -> Cmp(">=", v, <<c.k>>) /\ Cmp("<=", v, <<c.l>>)
          [] c.shape = "nonzero" -> v # <<0>>
          [] c.shape = "nullLit" -> Cmp(c.op, v, <<c.k>>)
          [] c.shape = "daysApart" -> v = NULL \/ r.y = NULL \/ Compare(c.op, v[1] - r.y[1], c.k)
          [] c.shape = "nullLowerCol" -> Cmp(c.op, v, r.w)
          [] c.shape = "dateOrder" -> v = NULL \/ r.y = NULL \/ Compare(c.op, v[1], Day(r.y[1]))
          [] c.shape = "dateLeft" -> v = NULL \/ r.y = NULL \/ Compare(c.op, Day(v[1]), r.y[1])
          [] c.shape \in {"order", "nullOrder", "threeWay"} -> Cmp(c.op, v, r.y)
          [] c.shape = "litCol" -> Cmp(">=", v, <<c.k>>) /\ Cmp("<=", v, r.y)
          [] c.shape = "colLit" -> Cmp(">=", v, r.y) /\ Cmp("<=", v, <<c.k>>)
          [] c.shape = "litColOpen" -> Cmp(">", v, <<c.k>>) /\ Cmp("<", v, r.y)
          [] c.shape = "colLitOpen" -> Cmp(">", v, r.y) /\ Cmp("<", v, <<c.k>>)
          [] c.shape = "litColHalf" -> Cmp(">=", v, <<c.k>>) /\ Cmp("<", v, r.y)
          [] c.shape = "boundMult" -> Cmp(">=", v, <<c.k>>) /\ Cmp("<=", v, <<Times(r.y[1], c.l)>>)
          [] c.shape = "prodLow" -> Cmp(">=", v, <<Times(r.y[1], r.z[1])>>)
          [] c.shape = "nullProduct" -> is(Times(r.y[1], r.z[1]))
          [] c.shape = "nullEqual" -> v = NULL
          [] c.shape = "multLow" -> Cmp(">=", v, <<Times(r.y[1], c.k)>>)
          [] c.shape = "multUp" -> Cmp("<=", v, <<Times(r.y[1], c.k)>>)
          [] c.shape = "affine" -> Cmp("<=", v, <<Times(r.y[1], c.k) + c.l>>)
          [] c.shape \in {"sumUp", "nullSumUp"} -> r.y = NULL \/ Cmp("<=", v, <<r.y[1] + r.z[1]>>)
          \* The two addends make the total and neither is negative.
          [] c.shape = "reverse" ->
                CASE c.op = "later" -> v[1] + r.z[1] = r.y[1]
                  [] c.op = "minus" -> r.z[1] - v[1] = r.y[1]
                  [] OTHER -> 0 <= v[1] /\ v[1] <= r.y[1]
          [] c.shape = "differs" -> v # r.y
          [] c.shape = "differsText" -> v # <<r.t>>
          [] c.shape = "intEq" -> v # <<c.k>> \/ r.y = <<c.l>>
          [] c.shape = "rangeInd" -> v = <<c.k>> \/ ~(r.z[1] <= r.y[1] /\ r.y[1] <= r.w[1])
          [] c.shape = "thresholdInd" -> v = <<c.k>> \/ r.y[1] < c.l \/ r.z[1] < c.l
          [] c.shape = "disjInd" -> v = <<c.k>> \/ Compare(c.op, r.y[1], c.l)
          [] c.shape = "litOrCmp" -> v = <<c.k>> \/ Cmp(c.op, v, r.y)
          [] c.shape = "litOrThreshold" -> v = <<c.k>> \/ Compare(c.op, r.y[1], c.l)
          [] c.shape = "litOrSelf" -> v = <<c.k>> \/ r.w # NULL
          [] c.shape = "condEnum" -> r.t # c.cat \/ v \in Some(c.cats)
          [] c.shape = "litOrEnum" -> v = <<c.k>> \/ r.t \in c.cats
          [] c.shape = "condCmp" -> r.t # c.cat \/ Cmp(c.op, v, r.y)
          [] c.shape = "ranges" -> (r.t = A /\ Cmp(">=", v, <<c.k>>)) \/ (r.t = B /\ Cmp("<=", v, <<c.l>>))
          [] c.shape = "dualRanges" -> \/ r.t = A /\ Cmp(">=", v, <<c.k>>) /\ Cmp("<", v, <<c.l>>)
                                       \/ r.t = B /\ Cmp(">", v, <<c.k>>) /\ Cmp("<=", v, <<c.l>>)
          [] c.shape = "cond" -> r.t # c.cat \/ Cmp(c.op, v, <<c.k>>)
          [] c.shape = "condText" -> r.t # c.cat \/ v = <<c.text>>
          [] c.shape = "condNumEq" -> r.t # c.cat \/ is(c.k)
          [] c.shape = "condNull" -> r.t # c.cat \/ v = NULL
          [] c.shape = "condNonNull" -> r.t = c.cat \/ v # NULL
          [] c.shape = "notInNonNull" -> r.t \notin c.cats \/ v # NULL
          [] c.shape = "posOrNull" -> (r.t = c.cat /\ Cmp(">", v, <<c.k>>)) \/ (r.t \in c.cats /\ v = NULL)
          [] c.shape = "condArith" -> v = <<IF r.t \in c.cats THEN r.y[1] + r.z[1] ELSE r.y[1] - r.z[1]>>
          [] c.shape = "enumOrNull" -> r.t \in c.cats \/ v = NULL
          [] c.shape = "arith" -> Equation(c, v, r)
-----------------------------------------------------------------------------
(* The tables the patterns were written for: one check, two checks of the  *)
(* column alone, and every pair of which one matcher looks for the other.  *)

Ops == {">=", ">", "<=", "<"}
Kinds == {"int", "float"}
Lits == {0, 2 * Unit}
\* The ends of x >= k AND x <= l: inside [step, 100], across one of its ends, and outside it.
Ends == {<<0, 2 * Unit>>, <<2 * Unit, 3 * Unit>>, <<50 * Unit, 200 * Unit>>,
         <<200 * Unit, 500 * Unit>>, <<-5 * Unit, 0>>}
Check(shape, op, k, l, kind) ==
    [shape |-> shape, op |-> op, k |-> k, l |-> l, kind |-> kind, form |-> "", text |-> 0,
     cat |-> A, cats |-> {A, B}]
Both(c, d) == {<<c, d>>, <<d, c>>}
Alone(kind) ==
    {Check(s, op, 0, 0, kind) : s \in {"order", "nullOrder", "threeWay", "condCmp"}, op \in Ops}
    \cup {Check("litOrCmp", op, k, 0, kind) : op \in Ops, k \in Lits}
    \cup {Check("litOrThreshold", op, k, 2 * Unit, kind) : op \in Ops, k \in Lits}
    \cup {Check(s, "", 0, 0, kind) : s \in {"litCol", "litColOpen", "litColHalf", "prodLow", "sumUp", "nullSumUp",
                                          "nullProduct", "nullEqual", "condNull", "condNonNull", "notInNonNull",
                                          "condArith", "condEnum", "enumOrNull"}}
    \cup {Check("litOrSelf", "", k, 0, kind) : k \in Lits}
    \cup {Check(s, "", 3 * Unit, 0, kind) : s \in {"colLit", "colLitOpen"}}
    \cup {Check(s, "", 2 * Unit, 4 * Unit, kind) : s \in {"boundMult", "affine", "multLow", "multUp"}}
    \cup {[Check("arith", "", 0, 0, kind) EXCEPT !.form = f] : f \in Forms}
    \cup (IF kind = "float" THEN {[Check("arith", "", 0, 0, kind) EXCEPT !.form = "y*z*w/2"]} ELSE {})
    \cup {Check("reverse", op, 0, 0, kind) : op \in {"later", "minus", "earlier"}}
    \cup {Check(s, "", k, 2 * Unit, kind) : s \in {"intEq", "rangeInd", "thresholdInd", "litOrEnum"},
                                          k \in {0, Unit, 3 * Unit}}
    \cup {Check("disjInd", op, k, 2 * Unit, kind) : op \in {"<", "<="}, k \in {0, Unit}}
    \cup {Check(s, "", k, 5 * Unit, kind) : s \in {"ranges", "dualRanges"}, k \in Lits}
    \cup {Check("cond", op, k, 0, kind) : op \in {">", "<", "<="}, k \in {Unit, 2 * Unit}}
    \cup {Check(s, "", k, 0, kind) : s \in {"condNumEq", "posOrNull"}, k \in Lits}
    \cup (IF kind = "int" THEN {Check("differs", "", 0, 0, kind), Check("differsText", "", 0, 0, kind)} ELSE {})
Dates == {Check(s, op, 0, 0, "date") : s \in {"order", "nullOrder", "threeWay", "dateOrder", "dateLeft"}, op \in Ops}
         \cup {Check("dateOrder", op, 0, 0, "day") : op \in Ops} \cup {Check("condNull", "", 0, 0, "date")}
BoundChecks(kind) ==
    {Check(s, "", k, 0, kind) : s \in {"low", "above", "high", "below"}, k \in Lits \cup {200 * Unit}}
    \cup {Check("range", "", e[1], e[2], kind) : e \in Ends} \cup {Check("nonzero", "", 0, 0, kind)}
\* Checks that only bound what another one decides.
OnlyBeside(kind) ==
    {Check("nullLowerCol", op, 0, 0, kind) : op \in Ops}
    \cup (IF kind \in Kinds
          THEN {Check("nullLit", op, k, 0, kind) : op \in Ops, k \in Lits}
               \cup {Check("nullRange", "", e[1], e[2], kind) : e \in Ends}
               \cup {[Check("cond", op, 2 * Unit, 0, kind) EXCEPT !.cat = B] : op \in Ops}
               \cup {Check("cond", ">=", Unit, 0, kind)}
               \cup {[Check("condText", "", 0, 0, kind) EXCEPT !.text = p[1], !.cat = p[2]] : p \in {<<A, A>>, <<B, B>>}}
          ELSE {Check("daysApart", op, k, 0, kind) : op \in {">=", ">"}, k \in Lits \cup {400 * Unit}})
Upper == {"<=", "<"}
\* The matcher of c looks for d among the checks of the table.
LooksFor(c, d) ==
    CASE c.shape = "threeWay" -> \/ d.shape = "nullLowerCol" /\ c.op \in Upper /\ d.op \notin Upper
                                 \/ d.shape = "nullLit" /\ (c.op \in Upper) # (d.op \in Upper)
      [] c.shape = "nullOrder" -> d.shape \in {"range", "nullRange"}
      [] c.shape = "condNull" -> d.shape = "nullOrder" /\ d.op \notin Upper
      [] c.shape = "ranges" -> d.shape \in {"low", "above", "high", "below", "range", "nonzero"}
      [] c.shape = "condCmp" -> d.shape = "order" /\ d.op \in Upper
      [] c.shape = "condNumEq" -> d.shape \in {"low", "high", "range"}
      [] c.shape = "condText" -> d.shape = "condText" /\ d.cat # c.cat
      [] c.shape = "cond" -> \/ d.shape = "cond" /\ d.cat # c.cat
                             \/ c.op = ">" /\ d.shape \in {"order", "nullOrder"} /\ d.op \in Upper
                             \/ c.op \in Upper /\ Lows(d) # {}
      [] c.shape = "multLow" -> d.shape = "multUp"
      [] c.shape = "dateOrder" -> d.shape = "daysApart" /\ c.op \notin Upper
      [] OTHER -> FALSE
AllChecks(kind) ==
    (IF kind \in Kinds THEN Alone(kind) \cup BoundChecks(kind) ELSE {c \in Dates : c.kind = kind}) \cup OnlyBeside(kind)
Siblings(kind) ==
    {<<c, d>> \in AllChecks(kind) \X AllChecks(kind) : LooksFor(c, d) \/ LooksFor(d, c)}
    \cup {<<Check("high", "", 2 * Unit, 0, kind)>> \o pair :
              pair \in Both(Check("ranges", "", 2 * Unit, Unit, kind), Check("condNumEq", "", 2 * Unit, 0, kind))}
    \cup {<<c, d>> : c \in BoundChecks(kind), d \in BoundChecks(kind)}
Cases ==
    {[ctx |-> <<c>>, kind |-> c.kind, fk |-> fk] :
        c \in UNION {Alone(kind) \cup BoundChecks(kind) : kind \in Kinds} \cup Dates, fk \in BOOLEAN}
    \cup {[ctx |-> ctx, kind |-> ctx[1].kind, fk |-> FALSE] :
        ctx \in UNION {Siblings(kind) : kind \in Kinds \cup {"date", "day"}}}

\* The rules multiply what the comment of the code calls typical sources: positive ones.
AnySign == {"arith", "threeWay", "nullOrder", "nullLit", "nullLowerCol", "dateOrder", "cond", "condText"}
Sources(ctx) ==
    {Unit, 2 * Unit, 3 * Unit}
    \cup (IF \A i \in DOMAIN ctx : ctx[i].shape \in AnySign THEN {-Unit} ELSE {})
    \cup (IF ctx[1].kind = "day" THEN {Unit + 7} ELSE {})
Names(ctx, shapes) == \E i \in DOMAIN ctx : ctx[i].shape \in shapes
\* Tables whose rule expects a source that is NULL.  Elsewhere its expression raises.
NamesNullSource(ctx) ==
    \/ Names(ctx, {"threeWay", "nullSumUp"})
    \/ Names(ctx, {"condNull"}) /\ HasOrderingSibling(ctx)
    \/ Odd /\ \A i \in DOMAIN ctx : ctx[i].shape \in {"order", "nullOrder"}
AllRows(ctx) ==
    [y : Some(Sources(ctx)) \cup (IF NamesNullSource(ctx) THEN {NULL} ELSE {}),
     z : Some({Unit, 3 * Unit}),
     w : Some({Unit, 3 * Unit})
         \cup (IF Names(ctx, {"litOrSelf"}) \/ (Odd /\ Names(ctx, {"nullLowerCol"})) THEN {NULL} ELSE {}),
     t : Categories]
\* What the matcher of c makes of the sibling d breaks d or c itself: the value is moved to a bound
\* that lies on the wrong side of the source, where only NULL would do, or to a strict bound; the
\* source or its offset 0 is taken under a strict one; a positive number is asked of a column the
\* other matcher bounds; the bounds of the equality lie outside [step, 100]; the upper bound of one
\* category is given to all, past a bound of the column; the days apart are more than 365.
Breaks(c, d, kind, r) ==
    LET past(b) == r.y # NULL /\ ~Compare(c.op, b, r.y[1])
        step == IF kind = "float" THEN 1 ELSE Unit
        limit == IF c.op = "<" THEN c.k - step ELSE c.k
    IN  CASE c.shape = "threeWay" /\ d.shape = "nullLowerCol" ->
                r.y # NULL /\ (d.op = ">" \/ (r.w # NULL /\ past(r.w[1])))
          [] c.shape = "threeWay" ->
                r.y # NULL /\ (d.op \in {">", "<"} \/ (past(d.k) /\ ~(c.op = ">" /\ kind = "float")))
          [] c.shape = "nullOrder" -> past(IF c.op \in Upper THEN d.k ELSE d.l)
          [] c.shape = "condCmp" -> d.op = "<" /\ c.op # "<"
          [] c.shape = "condNull" -> d.op = ">" /\ kind = "int" /\ r.t # c.cat
          [] c.shape = "condNumEq" -> r.t # c.cat /\ ((\E n \in Lows(d) : n > Far) \/ (\E n \in Highs(d) : n < step))
          [] c.shape = "cond" /\ c.op = ">" /\ d.shape # "cond" ->
                d.shape = "nullOrder" \/ (d.op = "<" /\ r.t = c.cat)
          [] c.shape = "cond" /\ d.shape # "cond" -> (\E n \in Lows(d) : n > limit) \/ (\E n \in Highs(d) : n < limit)
          [] c.shape = "dateOrder" -> d.k > 365 * Unit
          [] OTHER -> FALSE
Rows(ctx) ==
    {r \in AllRows(ctx) : Odd \/ \A i, j \in DOMAIN ctx :
                              LooksFor(ctx[i], ctx[j]) => ~Breaks(ctx[i], ctx[j], ctx[1].kind, r)}
\* NULL where a check names it, and the values next to every number of the rows and of the checks.
NamesNull == {"nullOrder", "threeWay", "nullLowerCol", "nullLit", "nullRange", "dateLeft", "nullSumUp", "nullProduct",
              "nullEqual", "condNull", "posOrNull", "enumOrNull"}
Candidates(ctx) ==
    (IF Names(ctx, {"condText", "condEnum"}) THEN Some(Categories) ELSE {})
    \cup (IF Names(ctx, NamesNull) THEN {NULL} ELSE {})
    \cup Some({n + d : n \in {Unit * m : m \in -3 .. 9} \cup UNION {{ctx[i].k, ctx[i].l} : i \in DOMAIN ctx},
                       d \in IF ctx[1].kind = "int" THEN {-Unit, 0, Unit} ELSE {-1, 0, 1, Unit}})

VARIABLE case
Init == case \in Cases
Next == UNCHANGED case

PassesAll(ctx, v, r) == \A i \in DOMAIN ctx : Holds(ctx[i], v, r)
Drawn(r) == _infer_cross_column_config(case.ctx, case.kind, case.fk, r)
\* Whenever some value of the column passes the checks of its table for a row, the rule inferred
\* from them draws a value (bounds of the column alone may exclude each other: != 0 is read as
\* positive), and only values that pass, whatever the order of the checks: a rule taken from one
\* check must not break the sibling its matcher looks for, but for what Breaks names.
InferredValuesPass ==
    \A r \in Rows(case.ctx) :
        (\E v \in Candidates(case.ctx) : PassesAll(case.ctx, v, r)) =>
            (Drawn(r) # {} \/ Deciding(case.ctx, case.kind) = {}) /\ \A v \in Drawn(r) : PassesAll(case.ctx, v, r)
=============================================================================
