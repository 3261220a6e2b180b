----------------------------- MODULE RustScalar -----------------------------
(***************************************************************************)
(* What the scalar subset means in Rust, written independently of the       *)
(* frontend: variables are mutable cells in nested scopes, and an integer    *)
(* literal without a suffix takes the type its context fixes, or i32 when    *)
(* nothing does.  The specification compiles a program of Programs, runs the *)
(* compiled function on some arguments and keeps the three results: the IR's,*)
(* the generated Lean term's and Rust's own.                                *)
(***************************************************************************)
EXTENDS Scalar

CONSTANTS Programs,    \* sources: [function name -> [params, result, body]], with a main "f"
          Observed(_)  \* what is made of one: Observation, which instances pass

VARIABLES program, outcome
vars == <<program, outcome>>

Ints == IntTy \cup {"i32"}

\* The set of types an expression may have: a singleton unless only literals
\* without a suffix determine it, and {} when rustc rejects the expression.
RECURSIVE Types(_, _, _), BlockTypes(_, _, _)
Resolve(types) == IF "i32" \in types THEN "i32" ELSE CHOOSE t \in types : TRUE

Types(e, env, fns) ==
    CASE e.k = "path" -> IF Bound(env, e.name) THEN {env[Newest(env, e.name)].ty} ELSE {}
      [] e.k = "boollit" -> {"bool"}
      [] e.k = "int" -> IF e.suffix # NoTy THEN {e.suffix} ELSE Ints
      [] e.k = "unary" -> Types(e.arg, env, fns) \cap {"bool"}
      [] e.k = "block" -> BlockTypes(e.body, env, fns)
      [] e.k = "if" -> IF "bool" \in Types(e.cond, env, fns)
                       THEN BlockTypes(e.then, env, fns) \cap Types(e.else, env, fns)
                       ELSE {}
      [] e.k = "binary" ->
            LET l == Types(e.left, env, fns)
                r == Types(e.right, env, fns)
            IN CASE e.op \in {"and", "or"} -> l \cap r \cap {"bool"}
                 [] e.op \in {"eq", "ne"} -> IF l \cap r = {} THEN {} ELSE {"bool"}
                 [] e.op \in Comparisons \ {"eq", "ne"} ->
                        IF l \cap r \cap Ints = {} THEN {} ELSE {"bool"}
                 [] e.op \in {"shl", "shr"} -> IF r \cap Ints = {} THEN {} ELSE l \cap Ints
                 [] OTHER -> l \cap r \cap Ints
      [] e.k = "method" ->
            LET recv == Types(e.recv, env, fns)
            IN IF Cardinality(recv) = 1 THEN recv \cap Types(e.arg, env, fns) \cap Ints ELSE {}
      [] e.k = "call" ->
            IF /\ e.fn \in DOMAIN fns /\ ~Bound(env, e.fn)
               /\ Len(e.args) = Len(fns[e.fn].params)
               /\ \A i \in DOMAIN e.args : fns[e.fn].params[i].ty \in Types(e.args[i], env, fns)
            THEN {fns[e.fn].result} ELSE {}

BlockTypes(ss, env, fns) ==
    LET s == Head(ss)
        More(ty, mut) == BlockTypes(Tail(ss), Append(env, Binding(s.name, ty, mut)), fns)
        Assigned ==
            IF Bound(env, s.name) /\ env[Newest(env, s.name)].mut
               /\ env[Newest(env, s.name)].ty \in Types(s.value, env, fns)
            THEN BlockTypes(Tail(ss), env, fns) ELSE {}
    IN CASE ss = <<>> -> {}
         [] ss # <<>> /\ s.k = "let" ->
               LET init == Types(s.init, env, fns)
               IN CASE init = {} -> {}
                    [] s.ann # NoTy -> IF s.ann \in init THEN More(s.ann, s.mut) ELSE {}
                    [] OTHER -> More(Resolve(init), s.mut)
         [] ss # <<>> /\ s.k \in {"assign", "xor"} -> Assigned
         [] ss # <<>> /\ s.k = "assert" ->
               IF "bool" \in Types(s.cond, env, fns) THEN BlockTypes(Tail(ss), env, fns) ELSE {}
         [] ss # <<>> /\ s.k = "tail" -> IF Len(ss) = 1 THEN Types(s.e, env, fns) ELSE {}

WellTyped(fns) ==
    \A f \in DOMAIN fns : fns[f].result \in BlockTypes(fns[f].body, fns[f].params, fns)

-----------------------------------------------------------------------------
\* Checked arithmetic at a type.
Checked(ty, n) ==
    IF ty = "i32" THEN UInt(32, n)
    ELSE IF n < 0 \/ n >= 2^Bits(ty) THEN Fault("overflow") ELSE UInt(Bits(ty), n)
Clamp(ty, n) == IF n < 0 THEN 0 ELSE IF n >= 2^Bits(ty) THEN 2^Bits(ty) - 1 ELSE n

Arith(op, ty, a, b) ==
    CASE op = "add" -> Checked(ty, a + b) [] op = "sub" -> Checked(ty, a - b)
      [] op = "mul" -> Checked(ty, a * b)
      [] op = "div" -> IF b = 0 THEN Fault("division") ELSE Checked(ty, a \div b)
      [] op = "rem" -> IF b = 0 THEN Fault("division") ELSE Checked(ty, a % b)
      [] op = "min" -> Checked(ty, IF a <= b THEN a ELSE b)
      [] op = "max" -> Checked(ty, IF a <= b THEN b ELSE a)
      [] op = "saturating_add" -> Checked(ty, Clamp(ty, a + b))
      [] op = "saturating_sub" -> Checked(ty, Clamp(ty, a - b))
      [] op = "wrapping_add" -> Checked(ty, (a + b) % 2^Bits(ty))
      [] op = "wrapping_sub" -> Checked(ty, (a - b) % 2^Bits(ty))
      [] op = "wrapping_mul" -> Checked(ty, (a * b) % 2^Bits(ty))
      [] op = "bitand" -> Checked(ty, a & b)
      [] op = "bitor"  -> Checked(ty, a | b)
      [] op = "bitxor" -> Checked(ty, a ^^ b)
      [] op \in {"shl", "shr"} ->
            IF b \notin 0..(Bits(ty) - 1) THEN Fault("overflow")
            ELSE Checked(ty, IF op = "shl" THEN (a * 2^b) % 2^Bits(ty) ELSE a \div 2^b)

\* Execution threads the store: a sequence of cells, innermost last.
RECURSIVE Eval(_, _, _, _), Exec(_, _, _, _)
At(v, st) == [v |-> v, st |-> st]
Cell(b, v) == [name |-> b.name, mut |-> b.mut, ty |-> b.ty, v |-> v]
Cells(params, args) == <<>> \o [i \in DOMAIN params |-> Cell(params[i], args[i])]

Operands(l, r, tl, tr, st, fns) ==   \* both operands, left to right
    LET x == Eval(l, st, tl, fns)
        y == Eval(r, x.st, tr, fns)
    IN IF Failed(x.v) THEN [fail |-> TRUE, at |-> x]
       ELSE IF Failed(y.v) THEN [fail |-> TRUE, at |-> y]
       ELSE [fail |-> FALSE, x |-> x.v, y |-> y.v, st |-> y.st]

EvalBinary(e, st, ty, fns) ==
    LET shift == e.op \in {"shl", "shr"}
        right == Types(e.right, st, fns)
        tl == IF e.op \in Comparisons THEN Resolve(Types(e.left, st, fns) \cap right) ELSE ty
        tr == IF shift THEN Resolve(right \cap Ints) ELSE tl
        o  == Operands(e.left, e.right, tl, tr, st, fns)
    IN CASE o.fail -> o.at
         [] ~o.fail /\ e.op \in Comparisons /\ tl = "bool" ->
               At(Bool(IF e.op = "eq" THEN o.x.b = o.y.b ELSE o.x.b # o.y.b), o.st)
         [] ~o.fail /\ e.op \in Comparisons /\ tl # "bool" ->
               At(Bool(Compare(e.op, o.x.n, o.y.n)), o.st)
         [] OTHER -> At(Arith(e.op, ty, o.x.n, o.y.n), o.st)

Eval(e, st, ty, fns) ==
    CASE e.k = "path" -> At(st[Newest(st, e.name)].v, st)
      [] e.k = "boollit" -> At(Bool(e.b), st)
      [] e.k = "int" -> At(Checked(ty, e.n), st)
      [] e.k = "unary" -> LET x == Eval(e.arg, st, "bool", fns)
                          IN IF Failed(x.v) THEN x ELSE At(Bool(~x.v.b), x.st)
      [] e.k = "block" -> Exec(e.body, st, ty, fns)
      [] e.k = "if" ->
            LET c == Eval(e.cond, st, "bool", fns)
            IN IF Failed(c.v) THEN c
               ELSE IF c.v.b THEN Exec(e.then, c.st, ty, fns) ELSE Eval(e.else, c.st, ty, fns)
      [] e.k = "binary" ->
            IF e.op \notin {"and", "or"} THEN EvalBinary(e, st, ty, fns)
            ELSE LET l == Eval(e.left, st, "bool", fns)
                 IN IF Failed(l.v) \/ l.v.b = (e.op = "or") THEN l
                    ELSE Eval(e.right, l.st, "bool", fns)
      [] e.k = "method" ->
            LET o == Operands(e.recv, e.arg, ty, ty, st, fns)
            IN IF o.fail THEN o.at ELSE At(Arith(e.op, ty, o.x.n, o.y.n), o.st)
      [] e.k = "call" ->
            LET f == fns[e.fn]
                arg[i \in 0..Len(e.args)] ==
                    IF i = 0 THEN At(Bool(TRUE), st)
                    ELSE IF Failed(arg[i - 1].v) THEN arg[i - 1]
                    ELSE Eval(e.args[i], arg[i - 1].st, f.params[i].ty, fns)
                last == arg[Len(e.args)]
                cells == Cells(f.params, [i \in DOMAIN e.args |-> arg[i].v])
            IN IF Failed(last.v) THEN last
               ELSE At(Exec(f.body, cells, f.result, fns).v, last.st)

\* A block's own cells end with it; what it wrote to outer cells stays.
Close(r, depth) == At(r.v, SubSeq(r.st, 1, depth))
Store(st, name, n) == [st EXCEPT ![Newest(st, name)].v = n]

Exec(ss, st, ty, fns) ==
    LET s == Head(ss)
    IN CASE s.k = "let" ->
               LET t == IF s.ann # NoTy THEN s.ann ELSE Resolve(Types(s.init, st, fns))
                   r == Eval(s.init, st, t, fns)
               IN IF Failed(r.v) THEN r
                  ELSE Close(Exec(Tail(ss), Append(r.st, Cell(Binding(s.name, t, s.mut), r.v)), ty, fns),
                             Len(st))
         [] s.k \in {"assign", "xor"} ->
               LET t == st[Newest(st, s.name)].ty
                   r == Eval(s.value, st, t, fns)
                   n == IF s.k = "assign" \/ Failed(r.v) THEN r.v
                        ELSE Arith("bitxor", t, r.st[Newest(r.st, s.name)].v.n, r.v.n)
               IN IF Failed(r.v) THEN r ELSE Exec(Tail(ss), Store(r.st, s.name, n), ty, fns)
         [] s.k = "assert" ->
               LET c == Eval(s.cond, st, "bool", fns)
               IN IF Failed(c.v) THEN c
                  ELSE IF c.v.b THEN Exec(Tail(ss), c.st, ty, fns)
                  ELSE At(Fault("assertion"), c.st)
         [] s.k = "tail" -> Eval(s.e, st, ty, fns)

RustRun(fns, name, args) ==
    LET f == fns[name]
    IN Exec(f.body, Cells(f.params, args), f.result, fns).v

-----------------------------------------------------------------------------
ArgsOf(f) ==
    {a \in [DOMAIN f.params -> {Bool(b) : b \in BOOLEAN}
                \cup UNION {{UInt(Width[t], n) : n \in 0..(2^Width[t] - 1)} : t \in IntTy}] :
        \A i \in DOMAIN a : ValidArg(f.params[i], a[i])}

\* What both compilers and the three ways to run it make of a file.
Observation(p) ==
    LET main == Function("f", p, {})
    IN [accepted |-> Accepted(p) /\ WellTyped(p),
        runs     |-> [args \in ArgsOf(p["f"]) |->
                        [k |-> "ran", ir |-> Run(main, args), lean |-> LeanFunction(main, args),
                         rust |-> RustRun(p, "f", args)]]]

Init ==
    /\ program \in Programs
    /\ outcome = [k |-> "pending"]

\* Both compilers accept the file; its main function is run once.
CompileAndRun ==
    /\ outcome.k = "pending"
    /\ LET o == Observed(program)
       IN o.accepted /\ \E args \in DOMAIN o.runs : outcome' = o.runs[args]
    /\ UNCHANGED program

\* One of the two compilers rejects the file: nothing is generated from it.
Refuse ==
    /\ outcome.k = "pending"
    /\ ~Observed(program).accepted
    /\ outcome' = [k |-> "refused"]
    /\ UNCHANGED program

Next == Refuse \/ CompileAndRun

Spec == Init /\ [][Next]_vars

-----------------------------------------------------------------------------
\* The inlined, de Bruijn indexed expression computes what the Rust function
\* computes on every input: the same value, or the same kind of panic when an
\* operation, an assertion or an argument faults first (frontend.rs).
Preserved == outcome.k = "ran" => outcome.ir = outcome.rust

\* The Lean term printed by `code` computes what the IR computes, so the binder
\* numbers it prints never capture each other (lean.rs).
LeanAgrees == outcome.k = "ran" => outcome.lean = outcome.ir

\* The frontend infers operand types from hints, before rustc sees the file; an
\* accepted function nevertheless never reaches the evaluator's type or input
\* fault and returns a value of its declared type.
NoTypeFault ==
    outcome.k = "ran" =>
        CASE Failed(outcome.ir) -> outcome.ir.f \notin {"type", "input"}
          [] OTHER -> LET ty == program["f"].result
                      IN IF ty = "bool" THEN outcome.ir.k = "bool"
                         ELSE outcome.ir.k = "uint" /\ outcome.ir.w = Bits(ty)

\* A function that is accepted computes what Rust computes and nothing that
\* Rust could not (frontend.rs: compile; ir.rs: run).  The programs shift by a
\* literal or a variable: a computed count is typed differently from Rust
\* (frontend.rs:408), and outside what this says.
Faithful == Preserved /\ NoTypeFault
=============================================================================
