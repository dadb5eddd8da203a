----------------------------- MODULE PacketFilter -----------------------------
(***************************************************************************)
(* The filter language of the packet table (public/packet-filter.js) and   *)
(* the clauses a right click adds to an expression (public/filter-ux.js).  *)
(* Characters are left out: an expression is its lexemes.                  *)
(***************************************************************************)
EXTENDS OneStep, Integers, Sequences, SequencesExt, FiniteSetsExt

CONSTANT MaxLexemes     \* lexemes of an expression

ASSUME PacketFilterAssumption == MaxLexemes \in Nat

(***************************************************************************)
(* Lexer.  A lexeme is a record of its kind; "neg" is a number with a      *)
(* minus sign, "bad" a number with an unknown unit, a character of no      *)
(* token or a string that never ends.                                      *)
(***************************************************************************)
Field(f) == [type |-> "FIELD", value |-> f]
Op(o) == [type |-> "OP", value |-> o]
Num(n) == [type |-> "NUMBER", value |-> n]
Neg == [type |-> "neg", value |-> 1]
Bad == [type |-> "bad", value |-> 0]
Punct(t) == [type |-> t, value |-> t]
NoTokens == [ok |-> FALSE, tokens |-> <<>>]
\* A minus sign begins a number at the start and after an operator, a
\* connective, a negation or an opening parenthesis, and is an error elsewhere.
BeforeMinus == {"OP", "AND", "OR", "NOT", "LPAREN"}
lexMinusFirst(input) == IF \E i \in DOMAIN input : input[i].type = "bad" \/ (input[i].type = "neg" /\ i > 1) THEN NoTokens ELSE [ok |-> TRUE, tokens |-> [i \in DOMAIN input |-> IF input[i].type = "neg" THEN Num(-1) ELSE input[i]]]
lex(input) ==
    IF \E i \in DOMAIN input : \/ input[i].type = "bad"
                               \/ input[i].type = "neg" /\ i > 1 /\ input[i - 1].type \notin BeforeMinus
    THEN NoTokens
    ELSE [ok |-> TRUE, tokens |-> [i \in DOMAIN input |-> IF input[i].type = "neg" THEN Num(-1) ELSE input[i]]]

(***************************************************************************)
(* Parser: recursive descent.  Each function answers with the tree and the *)
(* position of the next token, or with a failure, which ends them all.     *)
(***************************************************************************)
At(toks, pos) == IF pos <= Len(toks) THEN toks[pos].type ELSE "end"
Parsed(ast, pos) == [ok |-> TRUE, ast |-> ast, pos |-> pos]
Failed == [ok |-> FALSE, ast |-> <<>>, pos |-> 0]
ValueTypes == {"FIELD", "NUMBER", "STRING", "BOOL", "DURATION"}

\* `field`, `field op value`, `field between a b`, `field in (a, b)`.
RECURSIVE ListEnd(_, _)
ListEnd(toks, pos) ==       \* the ")" of a list whose next value is at pos, 0 if there is none
    CASE At(toks, pos) \notin ValueTypes -> 0
      [] At(toks, pos + 1) = "RPAREN" -> pos + 1
      [] At(toks, pos + 1) = "COMMA" -> ListEnd(toks, pos + 2)
      [] OTHER -> 0
parseComparison(toks, pos) ==
    LET next == At(toks, pos + 1)
        op == toks[pos + 1].value
        compare(values, after) == Parsed([type |-> "comparison", field |-> toks[pos].value, op |-> op, values |-> values], after)
    IN  CASE At(toks, pos) # "FIELD" -> Failed
          [] next \in {"end", "AND", "OR", "RPAREN"} -> Parsed([type |-> "truthy", field |-> toks[pos].value], pos + 1)
          [] next # "OP" -> Failed
          [] op = "between" ->
               IF At(toks, pos + 2) \in ValueTypes /\ At(toks, pos + 3) \in ValueTypes
               THEN compare(<<toks[pos + 2], toks[pos + 3]>>, pos + 4) ELSE Failed
          [] op = "in" ->
               LET end == IF At(toks, pos + 2) = "LPAREN" THEN ListEnd(toks, pos + 3) ELSE 0
               IN  IF end = 0 THEN Failed
                   ELSE compare(SelectSeq(SubSeq(toks, pos + 3, end - 1), LAMBDA t : t.type # "COMMA"), end + 1)
          [] OTHER -> IF At(toks, pos + 2) \in ValueTypes THEN compare(<<toks[pos + 2]>>, pos + 3) ELSE Failed

RECURSIVE parseOr(_, _), parseAnd(_, _), parseNot(_, _), moreOf(_, _, _)
parseNot(toks, pos) ==
    CASE At(toks, pos) = "NOT" ->
           LET r == parseNot(toks, pos + 1) IN IF r.ok THEN Parsed([type |-> "not", expr |-> r.ast], r.pos) ELSE Failed
      [] At(toks, pos) = "LPAREN" ->
           LET r == parseOr(toks, pos + 1) IN IF r.ok /\ At(toks, r.pos) = "RPAREN" THEN Parsed(r.ast, r.pos + 1) ELSE Failed
      [] OTHER -> parseComparison(toks, pos)
\* The loops of parseOr and parseAnd: left-associative.
moreOf(conn, toks, left) ==
    IF ~left.ok \/ At(toks, left.pos) # conn THEN left
    ELSE LET right == IF conn = "OR" THEN parseAnd(toks, left.pos + 1) ELSE parseNot(toks, left.pos + 1)
         IN  IF right.ok
             THEN moreOf(conn, toks, Parsed([type |-> IF conn = "OR" THEN "or" ELSE "and", left |-> left.ast, right |-> right.ast], right.pos))
             ELSE Failed
parseAndOfOr(toks, pos) == moreOf("OR", toks, parseNot(toks, pos))
parseAnd(toks, pos) == moreOf("AND", toks, parseNot(toks, pos))
parseOr(toks, pos) == moreOf("OR", toks, parseAnd(toks, pos))
\* parse: what is left over is an error.
parse(input) ==
    LET l == lex(input)
        r == parseOr(l.tokens, 1)
    IN  IF ~l.ok THEN Failed ELSE IF r.ok /\ r.pos = Len(l.tokens) + 1 THEN r ELSE Failed

(***************************************************************************)
(* Evaluation.  A value is tagged with its type; "null" is a field the     *)
(* packet lacks.  Numbers and their text compare equal; text is compared   *)
(* in one case.                                                            *)
(***************************************************************************)
V(type, value) == [type |-> type, value |-> value]
Null == V("null", 0)
\* No text of the model reads as a number: values are equal within a type.
Same(x, y) == x.type = y.type /\ x.value = y.value
Truthy(x) == x.type # "null" /\ (x.type = "num" => x.value # 0) /\ (x.type = "str" => x.value # "") /\ (x.type = "bool" => x.value)
\* Aliases resolve for `==` and `!=` of the type and of the route only.
Alias(field, x) == IF field = "type" /\ Same(x, V("str", "dm")) THEN V("str", "TXT_MSG") ELSE x
equals(field, x, target) == Same(x, Alias(field, target))
\* A number, 0 by default, or not one.
asNumber(x) == IF x.type \in {"num", "duration"} THEN <<x.value>> ELSE <<>>
less(x, y) == asNumber(x) # <<>> /\ asNumber(y) # <<>> /\ asNumber(x)[1] < asNumber(y)[1]
atMost(x, y) == asNumber(x) # <<>> /\ asNumber(y) # <<>> /\ asNumber(x)[1] <= asNumber(y)[1]
\* Times are numbers here; a duration is no date.
isDate(x) == x.type = "num"
withinOrdered(x, a, b) == isDate(x) /\ isDate(a) /\ isDate(b) /\ x.value >= a.value /\ x.value <= b.value
within(x, a, b) == isDate(x) /\ isDate(a) /\ isDate(b) /\ x.value >= Min({a.value, b.value}) /\ x.value <= Max({a.value, b.value})
compareField(field, x, op, targets) ==
    LET y == targets[1] IN
    /\ x.type # "null"
    /\ CASE op = "in" -> \E i \in DOMAIN targets : Same(targets[i], x)
         [] op = "==" -> equals(field, x, y)
         [] op = "!=" -> ~equals(field, x, y)
         [] op = "<" -> less(x, y)
         [] op = ">" -> less(y, x)
         [] op = "<=" -> atMost(x, y)
         [] op = ">=" -> atMost(y, x)
         [] op = "before" -> isDate(x) /\ isDate(y) /\ x.value < y.value
         [] op = "after" -> isDate(x) /\ isDate(y) /\ x.value > y.value
         [] op = "between" -> within(x, y, targets[2])
\* resolveField: a packet's bytes (-1 without raw hex), hops (-1 for a path
\* that is no JSON), signal, route and its three times, 0 where it has none.
Known(n) == IF n = 0 THEN Null ELSE V("num", n)
stampOf(p) == IF p.timestamp # 0 THEN p.timestamp ELSE IF p.first_seen # 0 THEN p.first_seen ELSE p.latest
packetAgeOfTimestamp(p, now) == IF p.timestamp = 0 THEN Null ELSE V("num", now - p.timestamp)

packetAge(p, now) == IF stampOf(p) = 0 THEN Null ELSE V("num", Max({0, now - stampOf(p)}))
resolveField(p, field, now) ==
    CASE field = "size" -> V("num", Max({0, p.bytes}))
      [] field = "payload_bytes" -> V("num", Max({0, p.bytes - 2}))
      [] field = "hops" -> V("num", Max({0, p.hops}))
      [] field = "snr" -> Known(p.snr)
      [] field = "time" -> Known(stampOf(p))
      [] field = "age" -> packetAge(p, now)
      [] field = "transport" -> V("bool", p.route \in {0, 3})
      [] field = "route" -> V("str", IF p.route \in 0..3 THEN <<"TRANSPORT_FLOOD", "FLOOD", "DIRECT", "TRANSPORT_DIRECT">>[p.route + 1] ELSE "")
Constant(tok) == V(CASE tok.type = "NUMBER" -> "num" [] tok.type = "BOOL" -> "bool" [] tok.type = "DURATION" -> "duration" [] OTHER -> "str", tok.value)
RECURSIVE evaluate(_, _)
evaluate(ast, packet) ==
    CASE ast.type = "and" -> evaluate(ast.left, packet) /\ evaluate(ast.right, packet)
      [] ast.type = "or" -> evaluate(ast.left, packet) \/ evaluate(ast.right, packet)
      [] ast.type = "not" -> ~evaluate(ast.expr, packet)
      [] ast.type = "truthy" -> Truthy(packet[ast.field])
      [] OTHER -> compareField(ast.field, packet[ast.field], ast.op, [i \in DOMAIN ast.values |-> Constant(ast.values[i])])
\* compile: an expression in error, or an empty one, filters nothing out.
compile(input, packet) == input = <<>> \/ ~parse(input).ok \/ evaluate(parse(input).ast, packet)

(***************************************************************************)
(* Clauses of the context menu.  A cell's value that reads as a number or  *)
(* as an upper-case word is left bare, and the clause is joined by &&.     *)
(***************************************************************************)
buildCellFilterClause(field, value, op) == <<Field(field), Op(op), IF value.type = "num" THEN IF value.value < 0 THEN Neg ELSE Num(value.value) ELSE [type |-> "STRING", value |-> value.value]>>
appendClauseToExpr(expr, clause) == IF expr = <<>> THEN clause ELSE expr \o <<Punct("AND")>> \o clause

(***************************************************************************)
(* What the runs enumerate: short expressions over two fields that are     *)
(* there or not; longer ones around one pair of parentheses; comparisons.  *)
(***************************************************************************)
Lexemes == {Field("a"), Field("b"), Punct("AND"), Punct("OR"), Punct("NOT"), Punct("LPAREN"), Punct("RPAREN")}
Comparing == {Field("a"), Op("=="), Op("between"), Op("in"), Num(1), Neg, Punct("LPAREN"), Punct("COMMA"), Punct("RPAREN"), Bad}
Flags == [{"a", "b"} -> {V("bool", TRUE), V("bool", FALSE)}]
Meaning(input) == [ok |-> parse(input).ok, shows |-> {p \in Flags : compile(input, p)}]
filterExpression ==
    \/ \E n \in 1..MaxLexemes : \E e \in [1..n -> Lexemes] : Computes("filter expression", e, Meaning(e))
    \/ \E x, y, z \in {Field("a"), Field("b")}, c, d \in {Punct("AND"), Punct("OR")}, neg \in BOOLEAN :
          \E e \in {<<Punct("LPAREN"), x, c, y, Punct("RPAREN"), d, z>>, <<x, c, Punct("LPAREN"), y, d, z, Punct("RPAREN")>>, <<x, c, y, d, z, c, x>>} :
             LET full == IF neg THEN <<Punct("NOT")>> \o e ELSE e IN Computes("filter expression", full, Meaning(full))
\* The grammar, said without a position: a disjunction of conjunctions of
\* negations of parenthesised expressions or fields.
Piece(e, i, j) == SubSeq(e, i, j)
RECURSIVE Sat(_, _)
Depth(e, i) == Cardinality({k \in 1..i : e[k].type = "LPAREN"}) - Cardinality({k \in 1..i : e[k].type = "RPAREN"})
TopLevel(e, conn) == {i \in DOMAIN e : e[i].type = conn /\ Depth(e, i) = 0}
Sat(e, p) ==    \* 1 selected, 0 not, -1 no expression
    LET split(i, join(_, _)) ==
            LET l == Sat(Piece(e, 1, i - 1), p)
                r == Sat(Piece(e, i + 1, Len(e)), p)
            IN  IF l = -1 \/ r = -1 THEN -1 ELSE join(l, r)
    IN  CASE e = <<>> -> -1
          [] TopLevel(e, "OR") # {} -> split(Min(TopLevel(e, "OR")), LAMBDA l, r : Max({l, r}))
          [] TopLevel(e, "OR") = {} /\ TopLevel(e, "AND") # {} -> split(Min(TopLevel(e, "AND")), LAMBDA l, r : Min({l, r}))
          [] OTHER ->
               CASE e[1].type = "NOT" -> LET r == Sat(Tail(e), p) IN IF r = -1 THEN -1 ELSE 1 - r
                 [] e[1].type = "LPAREN" /\ e[Len(e)].type = "RPAREN" /\ Len(e) > 2 -> Sat(Piece(e, 2, Len(e) - 1), p)
                 [] Len(e) = 1 /\ e[1].type = "FIELD" -> IF Truthy(p[e[1].value]) THEN 1 ELSE 0
                 [] OTHER -> -1
\* The parser accepts exactly the grammar's expressions and the filter shows
\* what the grammar means: negation binds tightest, then &&, then ||; an
\* expression in error hides nothing.
ParserIsGrammar ==
    alg = "filter expression" =>
       \A p \in Flags :
          LET s == Sat(arg, p) IN
          /\ res.ok <=> s # -1
          /\ p \in res.shows <=> s # 0

\* Comparisons in all their forms, of a field of every type.
FieldValues == {Null, V("num", -1), V("num", 0), V("num", 1), V("str", ""), V("str", "TXT_MSG"), V("str", "x"), V("bool", TRUE), V("bool", FALSE)}
Targets == {Num(-1), Num(0), Num(1), [type |-> "DURATION", value |-> 1], [type |-> "STRING", value |-> "x"], Field("TXT_MSG"), Field("dm"), [type |-> "BOOL", value |-> TRUE]}
compareOps ==
    \E f \in {"type", "other"}, x \in FieldValues, a, b \in Targets :
       LET holds(op, targets) == compareField(f, x, op, [i \in DOMAIN targets |-> Constant(targets[i])])
       IN  Computes("filter compare", [f |-> f, x |-> x, a |-> a, b |-> b],
                    [op \in {"==", "!=", "<", ">", "<=", ">=", "before", "after"} |-> holds(op, <<a>>)]
                    @@ [op \in {"between", "in"} |-> holds(op, <<a, b>>)] @@ ("swapped" :> holds("between", <<b, a>>)))
\* A comparison is never true of a field the packet lacks, not even !=.  Of
\* one it has, != is the opposite of ==, the orders are those of numbers,
\* a list selects what one of its values does (but for an alias), and the
\* ends of a range may come in either order.
ComparisonsConsistent ==
    alg = "filter compare" =>
       /\ arg.x.type = "null" => \A op \in DOMAIN res : ~res[op]
       /\ arg.x.type # "null" => (res["!="] <=> ~res["=="])
       /\ arg.x.type = "num" /\ arg.a.type \in {"NUMBER", "DURATION"} =>
             /\ res["<="] <=> ~res[">"]
             /\ res[">="] <=> ~res["<"]
             /\ arg.a.type = "NUMBER" => (res["=="] <=> res["<="] /\ res[">="])
       /\ res["=="] /\ arg.a # Field("dm") => res["in"]
       /\ res["between"] <=> res["swapped"]
       /\ res["between"] => ~(res["before"] /\ arg.b.value > arg.a.value)

\* A clause of a right click after what the user had typed.
addClause ==
    \E e \in {<<>>} \union UNION {[1..n -> Comparing] : n \in {1, 3, 4, 5}} \union [1..3 -> Lexemes] :
       /\ e = <<>> \/ parse(e).ok
       /\ \E v \in {-1, 1}, x \in {-1, 0, 1}, op \in {"==", "!="} :
          LET whole == appendClauseToExpr(e, buildCellFilterClause("cell", V("num", v), op))
              packet == [a |-> V("num", 1), b |-> V("num", 0), cell |-> V("num", x)]
          IN  Computes("filter clause", [e |-> e, v |-> v, x |-> x, op |-> op], [ok |-> parse(whole).ok, shows |-> compile(whole, packet), before |-> compile(e, packet)])
\* The clause never breaks an expression, and one without || then shows
\* what it showed before and the clause selects.
ClauseNarrows ==
    alg = "filter clause" =>
       /\ res.ok
       /\ ~(\E i \in DOMAIN arg.e : arg.e[i].type = "OR") => (res.shows <=> res.before /\ (arg.x = arg.v) = (arg.op = "=="))

\* suggest: what the word at the cursor, not begun yet, may be, from the
\* text before it.  `in` is no operator to it but a word like a field.
Recognised(t) == t.type \in {"AND", "OR", "LPAREN", "NOT"} \/ (t.type = "OP" /\ t.value # "in")
IsWord(t) == t.type \in {"FIELD", "BOOL"} \/ (t.type = "OP" /\ t.value = "in")
suggestAfterAnyWord(before) == IF before # <<>> /\ before[Len(before)].type \in {"FIELD", "AND", "OR"} THEN "operators" ELSE "fields"
suggest(before) ==
    LET n == Len(before)
        lastTok == n > 0 /\ Recognised(before[n])
        field == IF n > 1 /\ IsWord(before[n - 1]) THEN before[n - 1].value ELSE "none"
    IN  CASE lastTok /\ field \in {"type", "route"} /\ before[n].value \in {"==", "!="} -> field
          [] ~lastTok /\ n > 0 /\ IsWord(before[n]) -> "operators"
          [] OTHER -> "fields"
SuggestLexemes == {Field("type"), Field("b"), Op("=="), Op("<"), Op("in"), Punct("AND"), Punct("NOT"), Punct("LPAREN"), Punct("RPAREN"), Punct("COMMA")}
suggestAfter == \E n \in 0..4 : \E e \in [1..n -> SuggestLexemes] : Computes("filter suggest", e, suggest(e))
\* Some expression begins with e and then t.
Rests == {<<>>} \union {open \o close : open \in {<<>>, <<Field("b")>>, <<Op("=="), Field("b")>>, <<Punct("LPAREN"), Field("b"), Punct("RPAREN")>>},
                                       close \in {<<>>, <<Punct("RPAREN")>>, <<Punct("RPAREN"), Punct("RPAREN")>>}}
CanFollow(e, t) == \E rest \in Rests : parse(e \o <<t>> \o rest).ok
\* Where a comparison begins, fields are offered; after its field, the
\* operators.
SuggestsWhatFits ==
    alg = "filter suggest" =>
       /\ CanFollow(arg, Field("b")) /\ CanFollow(arg, Punct("NOT")) => res = "fields"
       /\ CanFollow(arg, Op("==")) => res = "operators"

\* Every field of every packet, and two questions about its time.
Packets == [bytes : {-1, 0, 1, 2, 5}, hops : {-1, 0, 2}, snr : {0, -3}, route : {0, 1, 3, 9}, timestamp : {0, 5}, first_seen : {0, 4}, latest : {0, 7}]
packetFields ==
    \E p \in Packets, now \in {5, 8}, d \in 0..4 :
       LET ask(f, op, v) == compareField(f, resolveField(p, f, now), op, <<V("num", v)>>)
       IN  Computes("filter fields", p, [young |-> ask("age", "<=", d), since |-> ask("time", "after", now - d - 1),
              transport |-> Truthy(resolveField(p, "transport", now)),
              routeIs |-> {r \in {"TRANSPORT_FLOOD", "FLOOD", "DIRECT", "TRANSPORT_DIRECT"} : Same(resolveField(p, "route", now), V("str", r))},
              size |-> resolveField(p, "size", now), payload |-> resolveField(p, "payload_bytes", now), hops |-> resolveField(p, "hops", now)])
\* Young packets are those since then, whichever of its times a packet has;
\* sizes are never negative, and transport packets those of its two routes.
FieldsAgree ==
    alg = "filter fields" =>
       /\ res.young <=> res.since
       /\ res.size.value - res.payload.value \in 0..2 /\ res.payload.value >= 0 /\ res.hops.value >= 0
       /\ res.transport <=> res.routeIs \subseteq {"TRANSPORT_FLOOD", "TRANSPORT_DIRECT"} /\ res.routeIs # {}

PacketFilterNext == packetFields \/ suggestAfter \/ filterExpression \/ compareOps \/ addClause

(* The filter language: parsed by its grammar, evaluated and extended
   consistently. *)
FilterComputes ==
    /\ ParserIsGrammar
    /\ ComparisonsConsistent
    /\ FieldsAgree
    /\ ClauseNarrows
    /\ SuggestsWhatFits
===============================================================================
