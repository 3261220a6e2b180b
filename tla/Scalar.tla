------------------------------- MODULE Scalar -------------------------------
(***************************************************************************)
(* The scalar backend of Provium: the typed IR and its evaluator (ir.rs),   *)
(* the frontend that compiles closed Rust functions into it (frontend.rs)   *)
(* and the executable Lean text generated from the IR (lean.rs).            *)
(*                                                                         *)
(* Syntax trees are records tagged by `k`.  Integer types keep a width, but *)
(* the widths are scaled down (Width) so that every value can be tried.     *)
(* The compiler inlines calls, so a compiled function is one expression     *)
(* over de Bruijn indices: index 0 is the innermost binding.                *)
(***************************************************************************)
EXTENDS Integers, Sequences, FiniteSets, SequencesExt, Bitwise

CONSTANTS
    Width,      \* [unsigned type name -> bits]
    MaxNodes,   \* the cap on the size of an expanded program
    MaxCalls    \* the cap on the depth of the call chain being expanded

IntTy == DOMAIN Width
NoTy  == "none"

\* Results of an evaluation: a value or a fault.
Bool(b)    == [k |-> "bool", b |-> b]
UInt(w, n) == [k |-> "uint", w |-> w, n |-> n]
Fault(f)   == [k |-> "fault", f |-> f]
Failed(v)  == v.k = "fault"

-----------------------------------------------------------------------------
(* ir.rs: arithmetic and the evaluator *)

Bits(ty) == IF ty = "bool" THEN 0 ELSE Width[ty]

Word(w, n) ==
    CASE w \notin {Width[t] : t \in IntTy} -> Fault("type")
      [] w \in {Width[t] : t \in IntTy} /\ n >= 2^w -> Fault("overflow")
      [] OTHER -> UInt(w, n)

Comparisons == {"eq", "ne", "lt", "le", "gt", "ge"}

Compare(op, a, b) ==
    CASE op = "eq" -> a = b   [] op = "ne" -> a # b
      [] op = "lt" -> a < b   [] op = "le" -> a <= b
      [] op = "gt" -> a > b   [] op = "ge" -> a >= b

UintOp(op, w, a, b) ==
    LET bound == 2^w IN
    CASE op \in Comparisons -> Bool(Compare(op, a, b))
      [] op = "add" -> Word(w, a + b)
      [] op = "mul" -> Word(w, a * b)
      [] op = "sub" -> IF a < b THEN Fault("overflow") ELSE Word(w, a - b)
      [] op \in {"div", "rem"} /\ b = 0 -> Fault("division")
      [] op = "div" /\ b # 0 -> Word(w, a \div b)
      [] op = "rem" /\ b # 0 -> Word(w, a % b)
      [] op = "min" -> Word(w, IF a < b THEN a ELSE b)
      [] op = "max" -> Word(w, IF a < b THEN b ELSE a)
      [] op = "saturating_add" -> Word(w, IF a + b < bound THEN a + b ELSE bound - 1)
      [] op = "saturating_sub" -> Word(w, IF a < b THEN 0 ELSE a - b)
      [] op = "wrapping_add" -> Word(w, (a + b) % bound)
      [] op = "wrapping_sub" -> Word(w, (a + bound - b) % bound)
      [] op = "wrapping_mul" -> Word(w, (a * b) % bound)
      [] op = "bitand" -> Word(w, a & b)
      [] op = "bitor"  -> Word(w, a | b)
      [] op = "bitxor" -> Word(w, a ^^ b)
      [] op \in {"shl", "shr"} /\ b >= w -> Fault("overflow")
      [] op = "shl" /\ b < w -> Word(w, (a * 2^b) % bound)
      [] op = "shr" /\ b < w -> Word(w, a \div 2^b)

Binary(op, x, y) ==
    CASE x.k = "bool" /\ y.k = "bool" ->
            (CASE op = "eq" -> Bool(x.b = y.b)
               [] op = "ne" -> Bool(x.b # y.b)
               [] OTHER -> Fault("type"))
      [] x.k = "uint" /\ y.k = "uint" ->
            (IF x.w # y.w THEN Fault("type") ELSE UintOp(op, x.w, x.n, y.n))
      [] OTHER -> Fault("type")

Negate(x) == IF x.k = "bool" THEN Bool(~x.b) ELSE Fault("type")

RECURSIVE Evaluate(_, _)
Evaluate(e, env) ==
    CASE e.k = "lit"  -> Bool(e.b)
      [] e.k = "uint" -> Word(e.w, e.n)
      [] e.k = "var"  -> IF e.i < Len(env) THEN env[e.i + 1] ELSE Fault("input")
      [] e.k = "not"  -> LET x == Evaluate(e.x, env)
                         IN IF Failed(x) THEN x ELSE Negate(x)
      [] e.k = "bin"  ->
            LET x == Evaluate(e.l, env)
                y == Evaluate(e.r, env)
            IN IF Failed(x) THEN x ELSE IF Failed(y) THEN y ELSE Binary(e.op, x, y)
      [] e.k = "ite"  ->
            LET c == Evaluate(e.c, env)
            IN CASE Failed(c) -> c
                 [] c.k = "bool" -> Evaluate(IF c.b THEN e.yes ELSE e.no, env)
                 [] OTHER -> Fault("type")
      [] e.k = "let"  -> LET x == Evaluate(e.v, env)
                         IN IF Failed(x) THEN x ELSE Evaluate(e.body, <<x>> \o env)
      [] e.k = "guard" ->
            LET c == Evaluate(e.c, env)
            IN CASE Failed(c) -> c
                 [] c.k = "bool" -> IF c.b THEN Evaluate(e.body, env)
                                           ELSE Fault("assertion")
                 [] OTHER -> Fault("type")

\* ir::run: the arguments must match the declared parameter types.
ValidArg(p, arg) ==
    IF p.ty = "bool" THEN arg.k = "bool"
    ELSE arg.k = "uint" /\ arg.w = Bits(p.ty) /\ arg.n < 2^(arg.w)

Run(f, args) ==
    IF Len(args) # Len(f.params) \/ \E i \in DOMAIN args : ~ValidArg(f.params[i], args[i])
    THEN Fault("input")
    ELSE Evaluate(f.body, args)

RECURSIVE Size(_)
Size(e) ==
    CASE e.k = "not" -> 1 + Size(e.x)
      [] e.k = "bin" -> 1 + Size(e.l) + Size(e.r)
      [] e.k = "ite" -> 1 + Size(e.c) + Size(e.yes) + Size(e.no)
      [] e.k = "let" -> 1 + Size(e.v) + Size(e.body)
      [] e.k = "guard" -> 1 + Size(e.c) + Size(e.body)
      [] OTHER -> 1

\* Expr::map_free renames the variables that are free at binding depth d by
\* the function f on indices.
RECURSIVE MapFree(_, _, _)
MapFree(e, d, f) ==
    CASE e.k = "var" -> IF e.i >= d THEN [e EXCEPT !.i = f[e.i - d] + d] ELSE e
      [] e.k = "not" -> [e EXCEPT !.x = MapFree(@, d, f)]
      [] e.k = "bin" -> [e EXCEPT !.l = MapFree(@, d, f), !.r = MapFree(@, d, f)]
      [] e.k = "ite" -> [e EXCEPT !.c = MapFree(@, d, f), !.yes = MapFree(@, d, f),
                                  !.no = MapFree(@, d, f)]
      [] e.k = "let" -> [e EXCEPT !.v = MapFree(@, d, f), !.body = MapFree(@, d + 1, f)]
      [] e.k = "guard" -> [e EXCEPT !.c = MapFree(@, d, f), !.body = MapFree(@, d, f)]
      [] OTHER -> e

-----------------------------------------------------------------------------
(* frontend.rs.  A Rust function is [params, result, body]; a body is a       *)
(* sequence of statements that ends in a tail expression.  The IR nodes carry *)
(* their type; Reject stands for any of the frontend's errors.                *)

Reject == [k |-> "reject"]
Bad(e) == e.k = "reject"

Lit(b)             == [k |-> "lit", ty |-> "bool", b |-> b]
Var(ty, i)         == [k |-> "var", ty |-> ty, i |-> i]
Bin(ty, op, l, r)  == [k |-> "bin", ty |-> ty, op |-> op, l |-> l, r |-> r]
Ite(ty, c, y, n)   == [k |-> "ite", ty |-> ty, c |-> c, yes |-> y, no |-> n]
Let(ty, v, body)   == [k |-> "let", ty |-> ty, v |-> v, body |-> body]
Guard(ty, c, body) == [k |-> "guard", ty |-> ty, c |-> c, body |-> body]

\* lookup: the newest binding of a name, and its distance from the end.
Bound(env, name) == \E j \in DOMAIN env : env[j].name = name
Newest(env, name) ==
    CHOOSE j \in DOMAIN env : env[j].name = name /\ \A m \in DOMAIN env :
                                                  env[m].name = name => m <= j
OrTy(ty, other) == IF ty # NoTy THEN ty ELSE other

\* Compiler::hint: the type an operand's own syntax fixes, if any.
RECURSIVE Hint(_, _, _)
Hint(e, env, fns) ==
    CASE e.k = "path" -> IF Bound(env, e.name) THEN env[Newest(env, e.name)].ty ELSE NoTy
      [] e.k = "boollit" -> "bool"
      [] e.k = "int" -> IF e.suffix \in IntTy THEN e.suffix ELSE NoTy
      [] e.k = "method" -> Hint(e.recv, env, fns)
      [] e.k = "call" -> IF e.fn \in DOMAIN fns THEN fns[e.fn].result ELSE NoTy
      [] e.k = "binary" ->
            (CASE e.op \in Comparisons \cup {"and", "or"} -> "bool"
               [] e.op \in {"shl", "shr"} -> Hint(e.left, env, fns)
               [] OTHER -> OrTy(Hint(e.left, env, fns), Hint(e.right, env, fns)))
      [] OTHER -> NoTy

RECURSIVE Expr(_, _, _, _, _), Stmts(_, _, _, _, _, _), Function(_, _, _)

\* The literal, path and operator cases of Compiler::expr.
IntLit(e, expected) ==
    LET ty == OrTy(e.suffix, expected)
    IN IF ty \notin IntTy \/ e.n >= 2^Bits(ty) THEN Reject
       ELSE [k |-> "uint", ty |-> ty, w |-> Bits(ty), n |-> e.n]

LazyBool(e, env, fns, active) ==
    LET l == Expr(e.left, env, "bool", fns, active)
        r == Expr(e.right, env, "bool", fns, active)
    IN CASE Bad(l) \/ Bad(r) -> Reject
         [] e.op = "and" -> Ite("bool", l, r, Lit(FALSE))
         [] e.op = "or"  -> Ite("bool", l, Lit(TRUE), r)

AnyCount(op, l, r) == l = "bool" => op \in {"eq", "ne"}
OperandsFit(op, l, r) ==
    /\ op \in {"shl", "shr"} => r = l
    /\ l = "bool" => op \in {"eq", "ne"}

BinaryExpr(e, env, expected, fns, active) ==
    LET shift   == e.op \in {"shl", "shr"}
        own     == Hint(e.left, env, fns)
        operand == IF shift THEN OrTy(own, expected)
                   ELSE OrTy(OrTy(own, Hint(e.right, env, fns)),
                           IF e.op \in Comparisons THEN NoTy ELSE expected)
        l == Expr(e.left, env, operand, fns, active)
        r == IF Bad(l) THEN Reject
             ELSE Expr(e.right, env,
                       IF shift THEN OrTy(Hint(e.right, env, fns), l.ty) ELSE l.ty,
                       fns, active)
    IN IF Bad(r) \/ ~OperandsFit(e.op, l.ty, r.ty) THEN Reject
       ELSE Bin(IF e.op \in Comparisons THEN "bool" ELSE l.ty, e.op, l, r)

MethodExpr(e, env, expected, fns, active) ==
    LET l == Expr(e.recv, env, OrTy(Hint(e.recv, env, fns), expected), fns, active)
        r == IF Bad(l) THEN Reject ELSE Expr(e.arg, env, l.ty, fns, active)
    IN IF Bad(r) \/ l.ty = "bool" THEN Reject ELSE Bin(l.ty, e.op, l, r)

IfExpr(e, env, expected, fns, active) ==
    LET c == Expr(e.cond, env, "bool", fns, active)
        y == Stmts(e.then, env, expected, FALSE, fns, active)
        n == Expr(e.else, env, expected, fns, active)
    IN IF expected = NoTy \/ Bad(c) \/ Bad(y) \/ Bad(n) THEN Reject
       ELSE Ite(expected, c, y, n)

\* An argument is evaluated under the bindings of the k arguments before it.
Unlifted(e, env, k) == e
Lift(e, env, k) == MapFree(e, 0, [v \in 0..(Len(env) - 1) |-> v + k])

\* A call is inlined: one Let per argument, evaluated left to right, around the
\* callee's body, whose parameter i becomes index count - 1 - i.
CallExpr(e, env, fns, active) ==
    IF Bound(env, e.fn) THEN Reject ELSE
    LET f == Function(e.fn, fns, active) IN
    IF Bad(f) \/ Len(e.args) # Len(f.params) THEN Reject ELSE
    LET count == Len(e.args)
        args  == [i \in 1..count |-> Expr(e.args[i], env, f.params[i].ty, fns, active)]
        body  == MapFree(f.body, 0, [i \in 0..(count - 1) |-> count - 1 - i])
        wrapped[i \in 1..(count + 1)] ==
            IF i > count THEN body
            ELSE Let(f.result, Lift(args[i], env, i - 1), wrapped[i + 1])
    IN IF \E i \in 1..count : Bad(args[i]) THEN Reject ELSE wrapped[1]

Expr(e, env, expected, fns, active) ==
    LET out ==
        CASE e.k = "path" ->
                IF ~Bound(env, e.name) THEN Reject
                ELSE LET j == Newest(env, e.name) IN Var(env[j].ty, Len(env) - j)
          [] e.k = "boollit" -> Lit(e.b)
          [] e.k = "int" -> IntLit(e, expected)
          [] e.k = "block" -> IF expected = NoTy THEN Reject
                              ELSE Stmts(e.body, env, expected, FALSE, fns, active)
          [] e.k = "unary" ->
                LET x == Expr(e.arg, env, "bool", fns, active)
                IN IF Bad(x) THEN Reject ELSE [k |-> "not", ty |-> "bool", x |-> x]
          [] e.k = "binary" -> IF e.op \in {"and", "or"} THEN LazyBool(e, env, fns, active)
                               ELSE BinaryExpr(e, env, expected, fns, active)
          [] e.k = "if" -> IfExpr(e, env, expected, fns, active)
          [] e.k = "method" -> MethodExpr(e, env, expected, fns, active)
          [] e.k = "call" -> CallExpr(e, env, fns, active)
    IN IF ~Bad(out) /\ expected # NoTy /\ out.ty # expected THEN Reject ELSE out

\* Compiler::stmts.  An assignment is a new binding of the same name, which is
\* why it is refused inside a nested block (assignments = FALSE there).
Binding(name, ty, mut) == [name |-> name, ty |-> ty, mut |-> mut]

Stmts(ss, env, result, assignments, fns, active) ==
    IF ss = <<>> THEN Reject ELSE
    LET s == Head(ss)
        Bind(v, mut) ==
            IF Bad(v) THEN Reject
            ELSE LET body == Stmts(Tail(ss), Append(env, Binding(s.name, v.ty, mut)),
                                   result, assignments, fns, active)
                 IN IF Bad(body) THEN Reject ELSE Let(result, v, body)
    IN CASE s.k = "let" -> Bind(Expr(s.init, env, s.ann, fns, active), s.mut)
         [] s.k = "xor" ->
               Stmts(<<[k |-> "assign", name |-> s.name,
                        value |-> [k |-> "binary", op |-> "bitxor",
                                   left |-> [k |-> "path", name |-> s.name],
                                   right |-> s.value]]>> \o Tail(ss),
                     env, result, assignments, fns, active)
         [] s.k = "assign" ->
               IF ~assignments \/ ~Bound(env, s.name) THEN Reject
               ELSE LET b == env[Newest(env, s.name)]
                    IN IF ~b.mut THEN Reject
                       ELSE Bind(Expr(s.value, env, b.ty, fns, active), TRUE)
         [] s.k = "assert" ->
               LET c == Expr(s.cond, env, "bool", fns, active)
                   body == Stmts(Tail(ss), env, result, assignments, fns, active)
               IN IF Bad(c) \/ Bad(body) THEN Reject ELSE Guard(result, c, body)
         [] s.k = "tail" -> IF Len(ss) = 1 THEN Expr(s.e, env, result, fns, active)
                            ELSE Reject

\* Compiler::function: the call graph reached from a function must be acyclic.
\* Environments grow at the end, so the parameters are entered in reverse.
Function(name, fns, active) ==
    IF name \notin DOMAIN fns \/ name \in active \/ Cardinality(active) >= MaxCalls THEN Reject ELSE
    LET item == fns[name]
        env  == Reverse(item.params)
        body == Stmts(item.body, env, item.result, TRUE, fns, active \cup {name})
        unique == \A i, j \in DOMAIN item.params :
                    item.params[i].name = item.params[j].name => i = j
    IN IF ~unique \/ Bad(body) THEN Reject
       ELSE IF Size(body) > MaxNodes THEN Reject
       ELSE [k |-> "fn", params |-> item.params, result |-> item.result, body |-> body]

\* Compiler::compile: every function of the file, or none.
Compile(fns) == [name \in DOMAIN fns |-> Function(name, fns, {})]
Accepted(fns) == \A name \in DOMAIN fns : ~Bad(Function(name, fns, {}))

-----------------------------------------------------------------------------
(* lean.rs: `code` prints one Lean term per node.  The binders it prints are  *)
(* numbered (the node's number n), and the environment of a node is the       *)
(* printed list x_n :: ... :: env.  A printed term is run with Lean's scoping:*)
(* a name means the innermost binder of that name.                            *)

SameNumber(fresh) == fresh
NextNumber(fresh) == fresh + 1

RECURSIVE Code(_, _, _)
Code(e, env, fresh) ==
    LET n == NextNumber(fresh) IN
    CASE e.k = "lit"  -> [t |-> [k |-> "ok", b |-> e.b], fresh |-> n]
      [] e.k = "uint" -> [t |-> [k |-> "word", w |-> e.w, n |-> e.n], fresh |-> n]
      [] e.k = "var"  -> [t |-> [k |-> "get", env |-> env, i |-> e.i], fresh |-> n]
      [] e.k = "not"  -> LET x == Code(e.x, env, n)
                         IN [t |-> [k |-> "negate", x |-> x.t], fresh |-> x.fresh]
      [] e.k = "bin"  ->
            LET l == Code(e.l, env, n)
                r == Code(e.r, env, l.fresh)
            IN [t |-> [k |-> "binary", id |-> n, op |-> e.op, l |-> l.t, r |-> r.t],
                fresh |-> r.fresh]
      [] e.k = "ite"  ->
            LET c == Code(e.c, env, n)
                y == Code(e.yes, env, c.fresh)
                o == Code(e.no, env, y.fresh)
            IN [t |-> [k |-> "branch", id |-> n, c |-> c.t, yes |-> y.t, no |-> o.t],
                fresh |-> o.fresh]
      [] e.k = "let"  ->
            LET v == Code(e.v, env, n)
                b == Code(e.body, <<<<"x", n>>>> \o env, v.fresh)
            IN [t |-> [k |-> "bind", id |-> n, v |-> v.t, body |-> b.t],
                fresh |-> b.fresh]
      [] e.k = "guard" ->
            LET c == Code(e.c, env, n)
                b == Code(e.body, env, c.fresh)
            IN [t |-> [k |-> "guard", id |-> n, c |-> c.t, body |-> b.t],
                fresh |-> b.fresh]

\* What the printed term computes: Provium.bind, get, negate, branch and guard
\* of Semantics.lean over a scope that maps binder names to values.
RECURSIVE LeanRun(_, _, _)
LeanRun(t, scope, args) ==
    LET Named(name, v) == [x \in DOMAIN scope \cup {name} |-> IF x = name THEN v ELSE scope[x]]
    IN
    CASE t.k = "ok"   -> Bool(t.b)
      [] t.k = "word" -> Word(t.w, t.n)
      [] t.k = "get"  ->
            LET env == [i \in 1..Len(t.env) |-> scope[t.env[i]]] \o args
            IN IF t.i < Len(env) THEN env[t.i + 1] ELSE Fault("input")
      [] t.k = "negate" -> LET x == LeanRun(t.x, scope, args)
                           IN IF Failed(x) THEN x ELSE Negate(x)
      [] t.k = "binary" ->
            LET a  == LeanRun(t.l, scope, args)
                sa == Named(<<"a", t.id>>, a)
                b  == LeanRun(t.r, sa, args)
            IN IF Failed(a) THEN a ELSE IF Failed(b) THEN b
               ELSE Binary(t.op, sa[<<"a", t.id>>], b)
      [] t.k = "branch" ->
            LET c == LeanRun(t.c, scope, args)
            IN CASE Failed(c) -> c
                 [] c.k = "bool" ->
                      LeanRun(IF c.b THEN t.yes ELSE t.no, Named(<<"c", t.id>>, c), args)
                 [] OTHER -> Fault("type")
      [] t.k = "bind" -> LET v == LeanRun(t.v, scope, args)
                         IN IF Failed(v) THEN v
                            ELSE LeanRun(t.body, Named(<<"x", t.id>>, v), args)
      [] t.k = "guard" ->
            LET c == LeanRun(t.c, scope, args)
            IN CASE Failed(c) -> c
                 [] c.k = "bool" -> IF c.b THEN LeanRun(t.body, Named(<<"c", t.id>>, c), args)
                                           ELSE Fault("assertion")
                 [] OTHER -> Fault("type")

\* The generated definition checks its arguments before it runs the term.
LeanFunction(f, args) ==
    IF Len(args) # Len(f.params) \/ \E i \in DOMAIN args : ~ValidArg(f.params[i], args[i])
    THEN Fault("input")
    ELSE LeanRun(Code(f.body, <<>>, 0).t, <<>>, args)
=============================================================================
