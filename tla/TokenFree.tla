----------------------------- MODULE TokenFree -----------------------------
(***************************************************************************)
(* authz/token_free.py: which jq conditions a background execution, which  *)
(* presents no token, can be decided by.  A condition is read from its     *)
(* tokens by a recursive-descent parser with a budget, and accepted when   *)
(* no claim of the token can reach its result.  The reference is what a    *)
(* program evaluates to: Outcome below, jq as far as the accepted          *)
(* constructs go.  The characters of a token are left out.                 *)
(***************************************************************************)
EXTENDS Integers, FiniteSets, Sequences, SequencesExt

CONSTANTS
    MaxNesting,     \* _MAX_NESTING_DEPTH
    MaxTokens,      \* _MAX_TOKENS
    TfGrowth        \* bound: how often a program is extended

VARIABLES tfProgram, tfLeft

tfVars == <<tfProgram, tfLeft>>

Nullary == {"not", "length", "ascii_downcase", "any", "all"}
Unaries == {"startswith", "endswith", "contains", "test", "IN", "map", "any", "all"}
Binaries == {"test", "IN", "any", "all"}
Builtins == [f \in Nullary \cup Unaries |->
                (IF f \in Nullary THEN {0} ELSE {}) \cup (IF f \in Unaries THEN {1} ELSE {}) \cup (IF f \in Binaries THEN {2} ELSE {})]
Literals == {"true", "false", "null"}
OwnerClaim == "owner_user_id"

----------------------------------------------------------------------------
(* The syntax tree.                                                         *)
RootNode == [n |-> "root"]
NoNode == [n |-> "none"]
ConstNode(v) == [n |-> "const", v |-> v]
StringNode(v, parts) == [n |-> "string", v |-> v, parts |-> parts]
VarNode(x) == [n |-> "var", x |-> x]
ProjNode(source, suffixes) == [n |-> "proj", source |-> source, suffixes |-> suffixes]
FieldOf(x) == [s |-> "field", x |-> x]
IndexOf(key) == [s |-> "index", key |-> key]
EachOf == [s |-> "each"]
OptionalOf == [s |-> "optional"]
CallNode(f, args) == [n |-> "call", f |-> f, args |-> args]
BinNode(op, l, r) == [n |-> "bin", op |-> op, l |-> l, r |-> r]
NegNode(operand) == [n |-> "neg", operand |-> operand]
BindNode(source, x, body) == [n |-> "bind", source |-> source, x |-> x, body |-> body]
TryNode(body, handler) == [n |-> "try", body |-> body, handler |-> handler]
ObjectNode(values) == [n |-> "object", values |-> values]
ArrayNode(element) == [n |-> "array", element |-> element]

(* Tokens: an interpolated string carries the tokens of its parts.          *)
Op(x) == [k |-> "op", x |-> x]
Ident(x) == [k |-> "ident", x |-> x]
Tok(k, x) == [k |-> k, x |-> x]
StrTok(x, parts) == [k |-> "string", x |-> x, parts |-> parts]
End == [k |-> "end", x |-> ""]

AtOp(t, ops) == t.k = "op" /\ t.x \in ops
AtWord(t, w) == t.k = "ident" /\ t.x = w

Refused == [ok |-> FALSE, node |-> NoNode, at |-> 0]
Got(node, at) == [ok |-> TRUE, node |-> node, at |-> at]

RECURSIVE Rule(_, _, _, _), Pipe(_, _, _), Alternative(_, _, _), Binary(_, _, _, _), More(_, _, _, _), Unary(_, _, _),
          Postfix(_, _, _), TermSuffixes(_, _, _, _, _), Values(_, _, _, _), Arguments(_, _, _, _), Spent(_), ParsedParts(_, _)

(* One rule of the grammar calls another by its level, the loosest first.    *)
PipeRule == -2
AlternativeRule == -1
Rule(n, ts, i, d) == IF n = PipeRule THEN Pipe(ts, i, d) ELSE IF n = AlternativeRule THEN Alternative(ts, i, d) ELSE Binary(n, ts, i, d)

(* Every cycle of the grammar passes a place that counts the nesting.       *)
Pipe(ts, i, d) ==
    IF d >= MaxNesting THEN Refused
    ELSE LET first == Rule(AlternativeRule, ts, i, d + 1)
             left == IF first.ok THEN More(0, ts, first, d + 1) ELSE first
         IN IF left.ok /\ AtOp(ts[left.at], {"|"})
            THEN LET right == Rule(PipeRule, ts, left.at + 1, d + 1)
                 IN IF right.ok THEN Got(BinNode("|", left.node, right.node), right.at) ELSE Refused
            ELSE left

Alternative(ts, i, d) ==
    IF d >= MaxNesting THEN Refused
    ELSE LET left == Rule(1, ts, i, d + 1)
         IN IF left.ok /\ AtOp(ts[left.at], {"//"})
            THEN LET right == Rule(AlternativeRule, ts, left.at + 1, d + 1)
                 IN IF right.ok THEN Got(BinNode("//", left.node, right.node), right.at) ELSE Refused
            ELSE left

(* The levels between: comma, or, and, comparison, additive, multiplicative; *)
(* comparison does not associate.                                           *)
AtLevel(n, t) ==
    CASE n = 0 -> AtOp(t, {","})
      [] n = 1 -> AtWord(t, "or")
      [] n = 2 -> AtWord(t, "and")
      [] n = 3 -> AtOp(t, {"==", "!=", "<", "<=", ">", ">="})
      [] n = 4 -> AtOp(t, {"+", "-"})
      [] n = 5 -> AtOp(t, {"*", "/", "%"})

Binary(n, ts, i, d) ==
    IF n = 6 THEN Unary(ts, i, d)
    ELSE LET left == Rule(n + 1, ts, i, d) IN IF left.ok THEN More(n, ts, left, d) ELSE left

More(n, ts, left, d) ==
    IF ~AtLevel(n, ts[left.at]) THEN left
    ELSE LET right == Rule(IF n = 0 THEN AlternativeRule ELSE n + 1, ts, left.at + 1, d)
             both == Got(BinNode(ts[left.at].x, left.node, right.node), right.at)
         IN IF ~right.ok THEN Refused ELSE IF n = 3 THEN both ELSE More(n, ts, both, d)

Unary(ts, i, d) ==
    IF d >= MaxNesting THEN Refused
    ELSE IF AtOp(ts[i], {"-"})
    THEN LET r == Unary(ts, i + 1, d + 1) IN IF r.ok THEN Got(NegNode(r.node), r.at) ELSE r
    ELSE IF AtWord(ts[i], "try")
    THEN LET body == Unary(ts, i + 1, d + 1)
         IN IF body.ok /\ AtWord(ts[body.at], "catch")
            THEN LET h == Unary(ts, body.at + 1, d + 1) IN IF h.ok THEN Got(TryNode(body.node, h.node), h.at) ELSE h
            ELSE IF body.ok THEN Got(TryNode(body.node, NoNode), body.at) ELSE body
    ELSE Postfix(ts, i, d + 1)

Closed(ts, r, close, node) == IF r.ok /\ AtOp(ts[r.at], {close}) THEN Got(node, r.at + 1) ELSE Refused

Identifier(ts, i, d) ==
    LET f == ts[i].x
        called == AtOp(ts[i + 1], {"("})
        r == IF called THEN Arguments(ts, i + 2, d, << >>) ELSE Got(<<>>, i + 1) IN
    IF f \in Literals THEN Got(ConstNode(f), i + 1)
    ELSE IF r.ok /\ f \in DOMAIN Builtins /\ Len(r.node) \in Builtins[f] THEN Got(CallNode(f, r.node), r.at) ELSE Refused

Primary(ts, i, d) ==
    LET t == ts[i] IN
    CASE t.k = "field" -> Got(RootNode, i)
      [] t.k = "string" -> LET parts == ParsedParts(t.parts, d) IN IF parts.ok THEN Got(StringNode(t.x, parts.node), i + 1) ELSE Refused
      [] t.k = "number" -> Got(ConstNode(t.x), i + 1)
      [] t.k = "variable" -> IF t.x \in {"ENV", "__loc__"} THEN Refused ELSE Got(VarNode(t.x), i + 1)
      [] t.k = "ident" -> Identifier(ts, i, d)
      [] AtOp(t, {"."}) -> Got(RootNode, i + 1)
      [] AtOp(t, {"("}) -> LET r == Rule(PipeRule, ts, i + 1, d) IN Closed(ts, r, ")", r.node)
      [] AtOp(t, {"["}) -> IF AtOp(ts[i + 1], {"]"}) THEN Got(ArrayNode(NoNode), i + 2)
                           ELSE LET r == Rule(PipeRule, ts, i + 1, d) IN Closed(ts, r, "]", ArrayNode(r.node))
      [] AtOp(t, {"{"}) -> IF AtOp(ts[i + 1], {"}"}) THEN Got(ObjectNode(<< >>), i + 2)
                           ELSE LET r == Values(ts, i + 1, d, << >>) IN Closed(ts, r, "}", ObjectNode(r.node))
      [] OTHER -> Refused

(* _postfix: the suffixes of a term, and the binding that may follow it.     *)
TermSuffixes(ts, source, done, i, d) ==
    LET t == ts[i]
        node == IF done = << >> THEN source ELSE ProjNode(source, done)
        more(s, at) == TermSuffixes(ts, source, Append(done, s), at, d) IN
    IF t.k = "field" THEN more(FieldOf(t.x), i + 1)
    ELSE IF AtOp(t, {"["}) /\ AtOp(ts[i + 1], {"]"}) THEN more(EachOf, i + 2)
    ELSE IF AtOp(t, {"["}) THEN LET key == Rule(PipeRule, ts, i + 1, d)
                                IN IF key.ok /\ AtOp(ts[key.at], {"]"}) THEN more(IndexOf(key.node), key.at + 1) ELSE Refused
    ELSE IF AtOp(t, {"?"}) THEN more(OptionalOf, i + 1)
    ELSE IF ~AtWord(t, "as") THEN Got(node, i)
    ELSE IF ts[i + 1].k = "variable" /\ AtOp(ts[i + 2], {"|"})
    THEN LET body == Rule(PipeRule, ts, i + 3, d)
         IN IF body.ok THEN Got(BindNode(node, ts[i + 1].x, body.node), body.at) ELSE Refused
    ELSE Refused

Postfix(ts, i, d) ==
    LET head == Primary(ts, i, d) IN IF head.ok THEN TermSuffixes(ts, head.node, << >>, head.at, d) ELSE Refused

StaticKey(t) == t.k = "ident" \/ (t.k = "string" /\ t.parts = << >>)

Values(ts, i, d, done) ==
    IF ~(StaticKey(ts[i]) /\ AtOp(ts[i + 1], {":"})) THEN Refused
    ELSE LET v == Rule(AlternativeRule, ts, i + 2, d)
         IN IF ~v.ok THEN Refused
            ELSE IF AtOp(ts[v.at], {","}) THEN Values(ts, v.at + 1, d, Append(done, v.node))
            ELSE Got(Append(done, v.node), v.at)

Arguments(ts, i, d, done) ==
    LET a == Rule(PipeRule, ts, i, d)
    IN IF ~a.ok THEN Refused
       ELSE IF AtOp(ts[a.at], {";"}) THEN Arguments(ts, a.at + 1, d, Append(done, a.node))
       ELSE IF AtOp(ts[a.at], {")"}) THEN Got(Append(done, a.node), a.at + 1) ELSE Refused

Whole(ts, r) == IF r.ok /\ ts[r.at] = End THEN r ELSE Refused

ParsedParts(parts, d) ==
    IF parts = << >> THEN Got(<< >>, 0)
    ELSE LET first == IF d >= MaxNesting THEN Refused ELSE Whole(Head(parts), Rule(PipeRule, Head(parts), 1, d + 1))
             rest == ParsedParts(Tail(parts), d)
         IN IF first.ok /\ rest.ok THEN Got(<<first.node>> \o rest.node, 0) ELSE Refused

(* The tokens a condition spends, those of its interpolations too.          *)
Spent(ts) == Len(ts) + FoldLeft(LAMBDA n, t : n + IF t.k = "string" THEN FoldLeft(LAMBDA m, p : m + Spent(p), 0, t.parts) ELSE 0, 0, ts)

Parsed(ts) == IF Spent(ts) > MaxTokens THEN Refused ELSE Whole(ts, Rule(PipeRule, ts, 1, 0))

----------------------------------------------------------------------------
(* The analysis: a value is the whole auth context, or safe; a context that *)
(* reaches anything but a statically named field is refused.                *)
Safe == "safe"
Context == "context"
Tainted == "refused"

RECURSIVE Taint(_, _, _), SuffixTaint(_, _, _, _, _)

Consumed(taints, result) == IF taints \subseteq {Safe} THEN result ELSE Tainted

StaticName(s) ==
    CASE s.s = "field" -> s.x
      [] s.s = "index" /\ s.key.n = "string" /\ s.key.parts = << >> -> s.key.v
      [] OTHER -> "no static name"

\* A plausible mistake: one safe side makes the join safe.
MutantJoined(l, r) == IF Tainted \in {l, r} THEN Tainted ELSE IF Safe \in {l, r} THEN Safe ELSE Context

Joined(l, r) == IF Tainted \in {l, r} THEN Tainted ELSE IF {l, r} = {Safe} THEN Safe ELSE Context

(* _projection: into the context by a static name; the identity only as     *)
(* its owner claim, with nothing after it.                                 *)
SuffixTaint(taint, suffixes, subject, vars, k) ==
    LET s == suffixes[k]
        name == StaticName(s) IN
    IF taint = Tainted THEN Tainted
    ELSE IF k > Len(suffixes) THEN taint
    ELSE IF taint = Safe
    THEN IF s.s = "index" /\ Taint(s.key, subject, vars) # Safe THEN Tainted ELSE SuffixTaint(Safe, suffixes, subject, vars, k + 1)
    ELSE IF name = "no static name" THEN Tainted
    ELSE IF name = "identity"
    THEN IF Len(suffixes) = k + 1 /\ StaticName(suffixes[k + 1]) = OwnerClaim THEN Safe ELSE Tainted
    ELSE SuffixTaint(Safe, suffixes, subject, vars, k + 1)

BinaryTaint(node, subject, vars) ==
    CASE node.op = "|" -> LET left == Taint(node.l, subject, vars) IN IF left = Tainted THEN Tainted ELSE Taint(node.r, left, vars)
      [] node.op \in {",", "//"} -> Joined(Taint(node.l, subject, vars), Taint(node.r, subject, vars))
      [] OTHER -> Consumed({Taint(node.l, subject, vars), Taint(node.r, subject, vars)}, Safe)

(* A builtin reads its input, and its arguments run on parts of it.          *)
CallTaint(node, subject, vars) == Consumed({subject} \cup {Taint(node.args[i], Safe, vars) : i \in DOMAIN node.args}, Safe)

(* A handler reads the error's message, which may quote anything.            *)
TryTaint(node, subject, vars) ==
    LET body == Taint(node.body, subject, vars)
    IN IF node.handler = NoNode THEN body ELSE Joined(body, Taint(node.handler, Context, vars))

Taint(node, subject, vars) ==
    CASE node.n = "root" -> subject
      [] node.n = "const" -> Safe
      [] node.n = "string" -> Consumed({Taint(node.parts[i], subject, vars) : i \in DOMAIN node.parts}, Safe)
      [] node.n = "var" -> IF node.x \in DOMAIN vars THEN vars[node.x] ELSE Tainted
      [] node.n = "proj" -> SuffixTaint(Taint(node.source, subject, vars), node.suffixes, subject, vars, 1)
      [] node.n = "call" -> CallTaint(node, subject, vars)
      [] node.n = "bin" -> BinaryTaint(node, subject, vars)
      [] node.n = "neg" -> Consumed({Taint(node.operand, subject, vars)}, Safe)
      [] node.n = "bind" -> LET source == Taint(node.source, subject, vars)
                            IN IF source = Tainted THEN Tainted
                               ELSE Taint(node.body, subject, [x \in DOMAIN vars \cup {node.x} |-> IF x = node.x THEN source ELSE vars[x]])
      [] node.n = "try" -> TryTaint(node, subject, vars)
      [] node.n = "object" -> Consumed({Taint(node.values[i], subject, vars) : i \in DOMAIN node.values}, Safe)
      [] node.n = "array" -> IF node.element = NoNode THEN Safe ELSE Consumed({Taint(node.element, subject, vars)}, Safe)

(* assert_token_free_evaluable.                                             *)
TokenFreeEvaluable(ts) == LET r == Parsed(ts) IN r.ok /\ Taint(r.node, Context, << >>) = Safe

----------------------------------------------------------------------------
(* The reference.  Programs as they are written, with parentheses where the *)
(* precedence asks for them,                                               *)
RECURSIVE Written(_, _), WrittenAll(_, _, _)

Strength(node) ==
    CASE node.n = "bin" -> CASE node.op = "|" -> 0 [] node.op = "," -> 1 [] node.op = "//" -> 2 [] node.op = "or" -> 3 [] node.op = "and" -> 4
                             [] node.op \in {"+", "-"} -> 6 [] node.op \in {"*", "/", "%"} -> 7 [] OTHER -> 5
      [] node.n = "bind" -> 0
      [] node.n \in {"neg", "try"} -> 8
      [] node.n = "proj" -> 9
      [] OTHER -> 10

Word(x) == IF x \in {"or", "and"} THEN Ident(x) ELSE Op(x)
WrittenAll(nodes, least, sep) ==
    IF nodes = << >> THEN << >>
    ELSE Written(nodes[1], least) \o IF Len(nodes) = 1 THEN << >> ELSE sep \o WrittenAll(Tail(nodes), least, sep)

WrittenSuffix(s) ==
    CASE s.s = "field" -> <<Tok("field", s.x)>>
      [] s.s = "index" -> <<Op("[")>> \o Written(s.key, 0) \o <<Op("]")>>
      [] s.s = "each" -> <<Op("["), Op("]")>>
      [] s.s = "optional" -> <<Op("?")>>

Plainly(node) ==
    CASE node.n = "root" -> <<Op(".")>>
      [] node.n = "const" -> <<Tok("number", node.v)>>
      [] node.n = "string" -> <<StrTok(node.v, [i \in DOMAIN node.parts |-> Append(Written(node.parts[i], 0), End)])>>
      [] node.n = "var" -> <<Tok("variable", node.x)>>
      [] node.n = "proj" -> (IF node.source = RootNode /\ node.suffixes[1].s = "field" THEN << >> ELSE Written(node.source, 10))
                            \o FlattenSeq([i \in DOMAIN node.suffixes |-> WrittenSuffix(node.suffixes[i])])
      [] node.n = "call" -> <<Ident(node.f)>> \o IF node.args = << >> THEN << >> ELSE <<Op("(")>> \o WrittenAll(node.args, 0, <<Op(";")>>) \o <<Op(")")>>
      [] node.n = "bin" -> LET w == Strength(node)
                           IN Written(node.l, IF w \in {0, 2, 5} THEN w + 1 ELSE w) \o <<Word(node.op)>> \o Written(node.r, IF w \in {0, 2} THEN w ELSE w + 1)
      [] node.n = "neg" -> <<Op("-")>> \o Written(node.operand, 9)
      [] node.n = "bind" -> Written(node.source, 9) \o <<Ident("as"), Tok("variable", node.x), Op("|")>> \o Written(node.body, 0)
      [] node.n = "try" -> <<Ident("try")>> \o Written(node.body, 9) \o IF node.handler = NoNode THEN << >> ELSE <<Ident("catch")>> \o Written(node.handler, 9)
      [] node.n = "object" -> <<Op("{")>> \o (IF node.values = << >> THEN << >> ELSE <<Ident("k"), Op(":")>> \o WrittenAll(node.values, 2, <<Op(","), Ident("k"), Op(":")>>)) \o <<Op("}")>>
      [] node.n = "array" -> <<Op("[")>> \o (IF node.element = NoNode THEN << >> ELSE Written(node.element, 0)) \o <<Op("]")>>

Written(node, least) == IF Strength(node) < least THEN <<Op("(")>> \o Plainly(node) \o <<Op(")")>> ELSE Plainly(node)

(* and what they evaluate to: the values in order and the error, if any,    *)
(* that ends them.  A value that is computed is the term that computes it.   *)
Atom(v) == [t |-> "atom", v |-> v]
Obj(f) == [t |-> "obj", f |-> f]
Arr(q) == [t |-> "arr", q |-> q]
Term(f, q) == [t |-> "term", f |-> f, q |-> q]
Null == Atom("null")
NoError == Atom("no error")
Gives(q) == [out |-> q, err |-> NoError]
Fails(v) == [out |-> << >>, err |-> Term("message", <<v>>)]

RECURSIVE Outcome(_, _, _), Applied(_, _, _, _), Then(_, _)

Then(a, b) == IF a.err # NoError THEN a ELSE [out |-> a.out \o b.out, err |-> b.err]

(* Each value of r in turn, through f, up to the first error.                *)
Through(r, f(_)) ==
    Then(FoldLeft(LAMBDA done, v : IF done.err = NoError THEN Then(done, f(v)) ELSE done, Gives(<< >>), r.out), [out |-> << >>, err |-> r.err])

Read(v, x) == IF v.t = "obj" THEN Gives(<<IF x \in DOMAIN v.f THEN v.f[x] ELSE Null>>) ELSE IF v = Null THEN Gives(<<Null>>) ELSE Fails(v)
Elements(v) == CASE v.t = "obj" -> Gives(SetToSeq({v.f[x] : x \in DOMAIN v.f})) [] v.t = "arr" -> Gives(v.q) [] OTHER -> Fails(v)

Applied(v, s, in, env) ==
    CASE s.s = "field" -> Read(v, s.x)
      [] s.s = "each" -> Elements(v)
      [] s.s = "index" -> Through(Outcome(s.key, in, env), LAMBDA k : IF k.t = "atom" THEN Read(v, k.v) ELSE Fails(k))

ProjectionOf(node, in, env) ==
    FoldLeft(LAMBDA r, s : IF s.s = "optional" THEN Gives(r.out) ELSE Through(r, LAMBDA v : Applied(v, s, in, env)), Outcome(node.source, in, env), node.suffixes)

CallOutcome(f, args, in, env) ==
    CASE f = "map" -> LET r == Through(Elements(in), LAMBDA v : Outcome(args[1], v, env)) IN IF r.err = NoError THEN Gives(<<Arr(r.out)>>) ELSE [r EXCEPT !.out = << >>]
      [] f = "any" /\ Len(args) = 2 -> Through(Outcome(args[1], in, env), LAMBDA v : Outcome(args[2], v, env))
      [] f = "any" /\ Len(args) = 1 -> Through(Elements(in), LAMBDA v : Outcome(args[1], v, env))
      [] Len(args) = 1 -> Through(Outcome(args[1], in, env), LAMBDA v : Gives(<<Term(f, <<in, v>>)>>))
      [] OTHER -> Gives(<<Term(f, <<in>>)>>)

Truthy(v) == v \notin {Null, Atom("false")}

Outcome(node, in, env) ==
    CASE node.n = "root" -> Gives(<<in>>)
      [] node.n = "const" -> Gives(<<Atom(node.v)>>)
      [] node.n = "var" -> Gives(<<env>>)
      [] node.n = "string" -> IF node.parts = << >> THEN Gives(<<Atom(node.v)>>) ELSE Through(Outcome(node.parts[1], in, env), LAMBDA v : Gives(<<Term("text", <<v>>)>>))
      [] node.n = "proj" -> ProjectionOf(node, in, env)
      [] node.n = "call" -> CallOutcome(node.f, node.args, in, env)
      [] node.n = "neg" -> Through(Outcome(node.operand, in, env), LAMBDA v : IF v.t = "atom" THEN Gives(<<Term("-", <<v>>)>>) ELSE Fails(v))
      [] node.n = "bind" -> Through(Outcome(node.source, in, env), LAMBDA v : Outcome(node.body, in, v))
      [] node.n = "try" -> LET r == Outcome(node.body, in, env)
                           IN IF node.handler = NoNode \/ r.err = NoError THEN Gives(r.out) ELSE Then(Gives(r.out), Outcome(node.handler, r.err, env))
      [] node.n = "object" -> Through(Outcome(node.values[1], in, env), LAMBDA v : Gives(<<Term("object", <<v>>)>>))
      [] node.n = "array" -> LET r == Outcome(node.element, in, env) IN IF r.err = NoError THEN Gives(<<Arr(r.out)>>) ELSE [r EXCEPT !.out = << >>]
      [] node.op = "|" -> Through(Outcome(node.l, in, env), LAMBDA v : Outcome(node.r, v, env))
      [] node.op = "," -> Then(Outcome(node.l, in, env), Outcome(node.r, in, env))
      [] node.op = "//" -> LET kept == SelectSeq(Outcome(node.l, in, env).out, Truthy) IN IF kept # << >> THEN Gives(kept) ELSE Outcome(node.r, in, env)
      [] node.op = "==" -> Through(Outcome(node.r, in, env), LAMBDA b : Through(Outcome(node.l, in, env), LAMBDA a : Gives(<<Atom(IF a = b THEN "true" ELSE "false")>>)))
      [] OTHER -> Through(Outcome(node.r, in, env), LAMBDA b : Through(Outcome(node.l, in, env), LAMBDA a : IF a.t = "obj" THEN Fails(a) ELSE Gives(<<Term(node.op, <<a, b>>)>>)))

(* Auth contexts that differ in what a fire cannot present.                 *)
ClaimSets == {[x \in {OwnerClaim} |-> Atom("me")], [x \in {OwnerClaim, "sub"} |-> IF x = "sub" THEN Atom("1") ELSE Atom("me")]}
AuthContext(claims) == Obj([x \in {"identity", "system"} |-> IF x = "identity" THEN Obj(claims) ELSE Obj([y \in {"identity"} |-> Atom("1")])])

----------------------------------------------------------------------------
(* Every program up to a size, one construct at a time.                     *)
Fields(seq) == ProjNode(RootNode, [i \in DOMAIN seq |-> FieldOf(seq[i])])
Leaves == {RootNode, ConstNode("1"), VarNode("x"), CallNode("length", << >>), Fields(<<"identity">>), Fields(<<"system">>), Fields(<<"identity", OwnerClaim>>)}

TfInit == tfProgram \in Leaves /\ tfLeft = TfGrowth

Grows(programs) == tfLeft > 0 /\ tfLeft' = tfLeft - 1 /\ tfProgram' \in programs
Suffixed(s) == IF tfProgram.n = "proj" THEN ProjNode(tfProgram.source, Append(tfProgram.suffixes, s)) ELSE ProjNode(tfProgram, <<s>>)

GrowBinary == \E op \in {"|", ",", "//", "==", "+", "and"} : Grows({BinNode(op, tfProgram, x) : x \in Leaves} \cup {BinNode(op, x, tfProgram) : x \in Leaves})
GrowSuffix == Grows({Suffixed(s) : s \in {FieldOf("identity"), FieldOf(OwnerClaim), EachOf, OptionalOf, IndexOf(StringNode("identity", << >>))}}
                    \cup {ProjNode(x, <<IndexOf(tfProgram)>>) : x \in Leaves} \cup {ProjNode(tfProgram, <<FieldOf("sub")>>)})
GrowCall == Grows({CallNode(f, <<tfProgram>>) : f \in {"contains", "map", "any"}} \cup {CallNode("any", <<tfProgram, x>>) : x \in Leaves})
GrowBind == Grows({BindNode(tfProgram, "x", x) : x \in Leaves} \cup {BindNode(x, "x", tfProgram) : x \in Leaves})
GrowTry == Grows({TryNode(tfProgram, x) : x \in Leaves \cup {NoNode}} \cup {TryNode(x, tfProgram) : x \in Leaves})
GrowTerm == Grows({ObjectNode(<<tfProgram>>), ArrayNode(tfProgram), NegNode(tfProgram), StringNode("s", <<tfProgram>>)})

TfNext == GrowBinary \/ GrowSuffix \/ GrowCall \/ GrowBind \/ GrowTry \/ GrowTerm

TfSpec == TfInit /\ [][TfNext]_tfVars

(* What the scan reads is the program that was written, and a program it    *)
(* accepts comes to the same whatever the token's claims are, so a fire,    *)
(* which has none but the owner's, decides as the owner's request would.    *)
TokenFreeSound ==
    LET tokens == Append(Written(tfProgram, 0), End)
        r == Parsed(tokens)
        evaluated == {Outcome(tfProgram, AuthContext(claims), Null) : claims \in ClaimSets} IN
    /\ r.ok /\ r.node = tfProgram
    /\ TokenFreeEvaluable(tokens) => Cardinality(evaluated) = 1
=============================================================================
