------------------------------ MODULE Machine ------------------------------
(***************************************************************************)
(* The value-semantics machine for complete method bodies                   *)
(* (provium/lean/Provium/Imperative.lean).  Every value lives in a slot; an  *)
(* assignment replaces a place inside a slot's value, and a call runs in a   *)
(* frame of its own.  Code is a tree of records tagged by `op`.              *)
(***************************************************************************)
EXTENDS MethodValues, SequencesExt, Bitwise

Literal(x)           == [op |-> "literal", x |-> x]
Read(s)              == [op |-> "read", slot |-> s]
Field(x, n)          == [op |-> "field", x |-> x, name |-> n]
Index(a, i)          == [op |-> "index", a |-> a, i |-> i]
MkPresent(x)         == [op |-> "present", x |-> x]
MkRecord(n, fs)      == [op |-> "record", name |-> n, fs |-> fs]
MkVariant(n, tag, fs)== [op |-> "variant", name |-> n, tag |-> tag, fs |-> fs]
Binary(o, l, r)      == [op |-> "binary", o |-> o, l |-> l, r |-> r]
Negate(x)            == [op |-> "negate", x |-> x]
Chain(parts)         == [op |-> "sequence", parts |-> parts]
Write(s, x)          == [op |-> "write", slot |-> s, x |-> x]
Assign(s, path, x)   == [op |-> "assign", slot |-> s, path |-> path, x |-> x]
Branch(c, y, n)      == [op |-> "branch", c |-> c, y |-> y, n |-> n]
Choose(x, arms)      == [op |-> "choose", x |-> x, arms |-> arms]
Count(s, lo, hi, b)  == [op |-> "range", slot |-> s, lo |-> lo, hi |-> hi, body |-> b]
Ret(x)               == [op |-> "ret", x |-> x]
Scope(b)             == [op |-> "scope", body |-> b]
Panic(why)           == [op |-> "panic", why |-> why]
Block(label, b)      == [op |-> "block", label |-> label, body |-> b]
Exit(label, x)       == [op |-> "exit", label |-> label, x |-> x]
Loop(b)              == [op |-> "loop", body |-> b]
Length(a)            == [op |-> "length", a |-> a]
External(n, args)    == [op |-> "external", name |-> n, args |-> args]
Convert(k, chk, x)   == [op |-> "convert", kind |-> k, checked |-> chk, x |-> x]
Rotate(a, lo, hi, n) == [op |-> "rotate", args |-> <<a, lo, hi, n>>]
Sort(a, lo, hi)      == [op |-> "sort", args |-> <<a, lo, hi>>]
Replicate(x, n)      == [op |-> "replicate", args |-> <<x, n>>]
NoPlace              == <<>>
Invoke(n, x, wb, as) == [op |-> "invoke", name |-> n, args |-> <<x>> \o as, back |-> wb]

\* Patterns
PAny              == [p |-> "any"]
PBind(s)          == [p |-> "bind", slot |-> s]
PPresent(q)       == [p |-> "present", q |-> q]
PAbsent           == [p |-> "absent"]
PVariant(n, tag, fs) == [p |-> "variant", name |-> n, tag |-> tag, fs |-> fs]
PRecord(n, fs)    == [p |-> "record", name |-> n, fs |-> fs]
Alternatives(qs)  == [p |-> "alternatives", qs |-> qs]

Fault(why)    == [r |-> "fault", why |-> why]
Done(x, env)  == [r |-> "ok", val |-> x, env |-> env]
Do(r, F(_, _)) == IF r.r = "ok" THEN F(r.val, r.env) ELSE r
Misshapen     == Fault("representation")

-----------------------------------------------------------------------------
(* arithmetic, equality, places *)

Comparison(o, a, b) ==
    CASE o = "==" -> a = b [] o = "!=" -> a # b [] o = "<" -> a < b
      [] o = "<=" -> a <= b [] o = ">" -> a > b [] o = ">=" -> a >= b

Arithmetic(checked, o, k, a, b) ==
    LET size == Size(k)
        ok(n) == [r |-> "ok", val |-> Number(k, n)]
        word(n) == IF n \in 0..size - 1 THEN ok(n) ELSE Fault("overflow")
        fits(n) == IF checked THEN word(n) ELSE ok(n % size)
        option(n) == [r |-> "ok", val |-> IF n \in 0..size - 1 THEN Present(Number(k, n)) ELSE Absent]
        shift == IF checked THEN b ELSE b % Width[k]
    IN  CASE o = "+" -> fits(a + b) [] o = "-" -> fits(a - b) [] o = "*" -> fits(a * b)
          [] o \in {"/", "%"} /\ b = 0 -> Fault("division")
          [] o = "/" -> ok(a \div b) [] o = "%" -> ok(a % b)
          [] o = "wrapping_add" -> ok((a + b) % size)
          [] o = "wrapping_sub" -> ok((a + size - b) % size)
          [] o = "wrapping_mul" -> ok((a * b) % size)
          [] o = "^" -> ok(a ^^ b) [] o = "&" -> ok(a & b) [] o = "|" -> ok(a | b)
          [] o \in {"<<", ">>"} /\ shift >= Width[k] -> Fault("overflow")
          [] o = ">>" -> ok(a \div 2^shift) [] o = "<<" -> ok((a * 2^shift) % size)
          [] o = "checked_add" -> option(a + b) [] o = "checked_sub" -> option(a - b)
          [] o = "saturating_add" -> ok(IF a + b < size THEN a + b ELSE size - 1)
          [] o = "saturating_sub" -> ok(IF a < b THEN 0 ELSE a - b)
          [] o = "min" -> ok(IF a < b THEN a ELSE b) [] o = "max" -> ok(IF a < b THEN b ELSE a)
          [] o \in {"==", "!=", "<", "<=", ">", ">="} ->
                [r |-> "ok", val |-> Boolean(Comparison(o, a, b))]
          [] OTHER -> Misshapen

\* Arrays have no equality; neither have values of different types.
RECURSIVE Comparable(_, _)
Comparable(x, y) ==
    LET optional == {"present", "absent"} IN
    /\ x.v # "array"
    /\ x.v = y.v \/ {x.v, y.v} \subseteq optional
    /\ x.v = "number" => x.kind = y.kind
    /\ x.v = "present" /\ y.v = "present" => Comparable(x.x, y.x)
    /\ x.v \in {"record", "variant"} =>
          /\ x.name = y.name
          /\ (x.v = "record" \/ x.tag = y.tag) =>
                /\ DOMAIN x.f = DOMAIN y.f
                /\ \A n \in DOMAIN x.f : Comparable(x.f[n], y.f[n])

BinaryValue(checked, o, x, y) ==
    CASE x.v = "number" /\ y.v = "number" ->
            IF x.kind = y.kind /\ x.kind \in Kinds /\ {x.n, y.n} \subseteq 0..Size(x.kind) - 1
            THEN Arithmetic(checked, o, x.kind, x.n, y.n) ELSE Misshapen
      [] x.v = "boolean" /\ y.v = "boolean" /\ o \in {"^", "&", "|"} ->
            [r |-> "ok", val |-> Boolean(CASE o = "^" -> x.b # y.b
                                           [] o = "&" -> x.b /\ y.b [] o = "|" -> x.b \/ y.b)]
      [] o \in {"==", "!="} /\ Comparable(x, y) ->
            [r |-> "ok", val |-> Boolean((x = y) = (o = "=="))]
      [] OTHER -> Misshapen

\* Replace the place at path inside x; index positions are read from slots.
RECURSIVE Update(_, _, _, _)
Update(env, path, x, new) ==
    IF path = <<>> THEN [r |-> "ok", val |-> new]
    ELSE LET kind == Head(path)[1]
             at   == Head(path)[2]
             in(old, Wrap(_)) ==
                 LET u == Update(env, Tail(path), old, new)
                 IN IF u.r = "ok" THEN [r |-> "ok", val |-> Wrap(u.val)] ELSE u
         IN CASE kind = "field" /\ x.v \in {"record", "variant"} /\ at \in DOMAIN x.f ->
                    in(x.f[at], LAMBDA y : [x EXCEPT !.f = Put(x.f, at, y)])
              [] kind = "index" /\ x.v = "array" /\ env[at].v = "number" ->
                    IF env[at].n < Len(x.s)
                    THEN in(x.s[env[at].n + 1], LAMBDA y : Array(ReplaceAt(x.s, env[at].n + 1, y)))
                    ELSE Fault("bounds")
              [] OTHER -> Misshapen

-----------------------------------------------------------------------------
(* patterns *)

\* A match extends the environment; a mismatch and a fault are told apart.
RECURSIVE Match(_, _, _), MatchFields(_, _, _)
Match(pat, x, env) ==
    LET hit(e)  == [r |-> "hit", env |-> e]
        miss    == [r |-> "miss"]
    IN CASE pat.p = "any" -> hit(env)
         [] pat.p = "bind" -> hit(Put(env, pat.slot, x))
         [] pat.p = "present" -> IF x.v = "present" THEN Match(pat.q, x.x, env) ELSE miss
         [] pat.p = "absent" -> IF x.v = "absent" THEN hit(env) ELSE miss
         [] pat.p = "variant" ->
                IF x.v # "variant" THEN miss
                ELSE IF x.name # pat.name \/ x.tag # pat.tag THEN miss
                ELSE MatchFields(pat.fs, x, env)
         [] pat.p = "record" ->
                IF x.v # "record" THEN miss
                ELSE IF x.name # pat.name THEN miss ELSE MatchFields(pat.fs, x, env)
         [] pat.p = "alternatives" ->
                FoldLeft(LAMBDA found, q : IF found.r = "miss" THEN Match(q, x, env) ELSE found,
                         miss, pat.qs)
MatchFields(fs, x, env) ==
    IF \E i \in DOMAIN fs : fs[i][1] \notin DOMAIN x.f THEN Misshapen
    ELSE FoldLeft(LAMBDA found, f : IF found.r = "hit" THEN Match(f[2], x.f[f[1]], found.env) ELSE found,
                  [r |-> "hit", env |-> env], fs)

\* The first arm that matches; a fault in an arm tried before is kept.
Select(arms, x, env) ==
    FoldLeft(LAMBDA found, arm :
                IF found.r # "miss" THEN found
                ELSE LET m == Match(arm[1], x, env)
                     IN IF m.r = "hit" THEN [r |-> "hit", body |-> arm[2], env |-> m.env] ELSE m,
             [r |-> "miss"], arms)

-----------------------------------------------------------------------------
Slice(op, s, lo, hi, n) ==
    LET part == SubSeq(s, lo + 1, hi)
        new  == IF op = "sort" THEN SortSeq(part, LAMBDA a, b : a.n < b.n)
                ELSE SubSeq(part, n + 1, Len(part)) \o SubSeq(part, 1, n)
    IN CASE hi < lo \/ Len(s) < hi -> Fault("bounds")
         [] op = "rotate" /\ hi - lo < n -> Fault("panic")
         [] OTHER -> [r |-> "ok", val |-> Array(SubSeq(s, 1, lo) \o new \o SubSeq(s, hi + 1, Len(s)))]

\* m: [checked, functions, oracle]
RECURSIVE Eval(_, _, _, _), EvalAll(_, _, _, _), Repeat(_, _, _, _, _, _)

\* Subexpressions from left to right; the value is the sequence of values.
EvalAll(m, fuel, es, env) ==
    FoldLeft(LAMBDA acc, e : Do(acc, LAMBDA vs, en : Do(Eval(m, fuel, e, en),
                                  LAMBDA x, en2 : Done(Append(vs, x), en2))),
             Done(<<>>, env), es)

Repeat(m, fuel, e, i, last, env) ==
    IF i >= last.n THEN Done(Unit, env)
    ELSE Do(Eval(m, fuel, e.body, Put(env, e.slot, Number(last.kind, i))),
            LAMBDA x, en : Repeat(m, fuel, e, i + 1, last, en))

Fields(fs, vals) == [n \in {fs[i][1] : i \in DOMAIN fs} |-> vals[CHOOSE i \in DOMAIN fs : fs[i][1] = n]]
Lift(r, env) == IF r.r = "ok" THEN Done(r.val, env) ELSE r

\* A call runs in a new frame; a mutable receiver is written back to its place.
EvalInvoke(m, fuel, e, env) ==
    Do(EvalAll(m, fuel, e.args, env), LAMBDA vals, en :
        IF e.name \notin DOMAIN m.functions THEN Misshapen
        ELSE LET out == Eval(m, fuel, m.functions[e.name], [s \in 0..Len(vals) - 1 |-> vals[s + 1]])
             IN CASE out.r = "fault" -> out
                  [] out.r = "exit" -> Misshapen
                  [] OTHER ->
                        IF e.back = NoPlace THEN Done(out.val, en)
                        ELSE LET u == Update(en, e.back[2], en[e.back[1]], out.env[0])
                             IN IF u.r = "ok" THEN Done(out.val, Put(en, e.back[1], u.val)) ELSE u)

Eval(m, fuel, e, env) ==
    LET E(x, en) == Eval(m, fuel - 1, x, en)
        Then(x, F(_, _)) == Do(E(x, env), F)
    IN
    CASE fuel = 0 -> Fault("exhausted")
      [] e.op = "literal" -> Done(e.x, env)
      [] e.op = "read" -> IF e.slot \in DOMAIN env THEN Done(env[e.slot], env) ELSE Misshapen
      [] e.op = "field" -> Then(e.x, LAMBDA x, en :
            IF x.v \in {"record", "variant"} /\ e.name \in DOMAIN x.f THEN Done(x.f[e.name], en)
            ELSE Misshapen)
      [] e.op = "index" -> Then(e.a, LAMBDA a, en : Do(E(e.i, en), LAMBDA i, en2 :
            CASE a.v # "array" \/ i.v # "number" -> Misshapen
              [] i.n < Len(a.s) -> Done(a.s[i.n + 1], en2)
              [] OTHER -> Fault("bounds")))
      [] e.op = "present" -> Then(e.x, LAMBDA x, en : Done(Present(x), en))
      [] e.op = "record" -> Do(EvalAll(m, fuel - 1, [i \in DOMAIN e.fs |-> e.fs[i][2]], env),
            LAMBDA vals, en : Done(Record(e.name, Fields(e.fs, vals)), en))
      [] e.op = "variant" -> Do(EvalAll(m, fuel - 1, [i \in DOMAIN e.fs |-> e.fs[i][2]], env),
            LAMBDA vals, en : Done(Variant(e.name, e.tag, Fields(e.fs, vals)), en))
      [] e.op = "negate" -> Then(e.x, LAMBDA x, en :
            IF x.v = "boolean" THEN Done(Boolean(~x.b), en) ELSE Misshapen)
      [] e.op = "binary" -> Then(e.l, LAMBDA x, en :
            IF e.o \notin {"&&", "||"}
            THEN Do(E(e.r, en), LAMBDA y, en2 : Lift(BinaryValue(m.checked, e.o, x, y), en2))
            ELSE IF x.v # "boolean" THEN Misshapen
            ELSE IF x.b = (e.o = "||") THEN Done(x, en) ELSE E(e.r, en))
      [] e.op = "sequence" ->
            FoldLeft(LAMBDA acc, x : Do(acc, LAMBDA y, en : E(x, en)), Done(Unit, env), e.parts)
      [] e.op = "write" -> Then(e.x, LAMBDA x, en : Done(Unit, Put(en, e.slot, x)))
      [] e.op = "assign" -> Then(e.x, LAMBDA x, en :
            IF e.slot \notin DOMAIN en THEN Misshapen
            ELSE LET u == Update(en, e.path, en[e.slot], x)
                 IN IF u.r = "ok" THEN Done(Unit, Put(en, e.slot, u.val)) ELSE u)
      [] e.op = "branch" -> Then(e.c, LAMBDA c, en :
            IF c.v # "boolean" THEN Misshapen ELSE E(IF c.b THEN e.y ELSE e.n, en))
      [] e.op = "choose" -> Then(e.x, LAMBDA x, en :
            LET s == Select(e.arms, x, en) IN IF s.r = "hit" THEN E(s.body, s.env) ELSE Misshapen)
      [] e.op = "range" -> Then(e.lo, LAMBDA lo, en : Do(E(e.hi, en), LAMBDA hi, en2 :
            Repeat(m, fuel - 1, e, lo.n, hi, en2)))
      [] e.op = "ret" -> Then(e.x, LAMBDA x, en : [r |-> "returned", val |-> x, env |-> en])
      [] e.op = "scope" -> LET r == E(e.body, env)
                           IN IF r.r = "returned" THEN Done(r.val, r.env) ELSE r
      [] e.op = "panic" -> Fault("panic")
      [] e.op = "block" -> LET r == E(e.body, env)
                           IN IF r.r = "exit" /\ r.label = e.label THEN Done(r.val, r.env) ELSE r
      [] e.op = "exit" -> Then(e.x, LAMBDA x, en :
            [r |-> "exit", label |-> e.label, val |-> x, env |-> en])
      [] e.op = "loop" -> Then(e.body, LAMBDA x, en : E(e, en))
      [] e.op = "length" -> Then(e.a, LAMBDA a, en :
            IF a.v = "array" THEN Done(Number("usize", Len(a.s)), en) ELSE Misshapen)
      [] e.op = "external" -> Do(EvalAll(m, fuel - 1, e.args, env), LAMBDA vals, en :
            Done(m.oracle[e.name][vals[1]], en))
      [] e.op = "convert" -> Then(e.x, LAMBDA x, en :
            IF x.v # "number" THEN Misshapen
            ELSE IF e.checked
            THEN Done(IF x.n < Size(e.kind) THEN Present(Number(e.kind, x.n)) ELSE Absent, en)
            ELSE Done(Number(e.kind, x.n % Size(e.kind)), en))
      [] e.op \in {"rotate", "sort"} -> Do(EvalAll(m, fuel - 1, e.args, env), LAMBDA vals, en :
            Lift(Slice(e.op, vals[1].s, vals[2].n, vals[3].n, IF e.op = "rotate" THEN vals[4].n ELSE 0), en))
      [] e.op = "replicate" -> Do(EvalAll(m, fuel - 1, e.args, env), LAMBDA vals, en :
            Done(Array([i \in 1..vals[2].n |-> vals[1]]), en))
      [] e.op = "invoke" -> EvalInvoke(m, fuel - 1, e, env)

\* The receiver is in slot 0 and the arguments follow.  A fault has no state.
RunBody(m, fuel, body, args) ==
    LET out == Eval(m, fuel, body, [s \in 0..Len(args) - 1 |-> args[s + 1]])
    IN CASE out.r = "fault" -> out
         [] out.r = "exit" -> Misshapen
         [] OTHER -> [r |-> "ok", val |-> out.val, self |-> out.env[0]]
=============================================================================
