------------------------------ MODULE MCScalar ------------------------------
(* Families of small source files for RustScalar.  Every file has a main      *)
(* function f over two unsigned parameters x, y of the same type.             *)
EXTENDS Scalar

N(n)          == [k |-> "int", n |-> n, suffix |-> NoTy]
S(n, ty)      == [k |-> "int", n |-> n, suffix |-> ty]
P(v)          == [k |-> "path", name |-> v]
B(op, l, r)   == [k |-> "binary", op |-> op, left |-> l, right |-> r]
M(op, l, r)   == [k |-> "method", op |-> op, recv |-> l, arg |-> r]
If(c, y, n)   == [k |-> "if", cond |-> c, then |-> <<[k |-> "tail", e |-> y]>>, else |-> n]
Block(ss, e)  == [k |-> "block", body |-> Append(ss, [k |-> "tail", e |-> e])]
Call(f, args) == [k |-> "call", fn |-> f, args |-> args]
Dec(v, e)     == [k |-> "let", name |-> v, ann |-> NoTy, mut |-> TRUE, init |-> e]
Set(v, e)     == [k |-> "assign", name |-> v, value |-> e]
XorSet(v, e)     == [k |-> "xor", name |-> v, value |-> e]
AssertS(c)     == [k |-> "assert", cond |-> c]

XY == <<Binding("x", "u8", FALSE), Binding("y", "u8", TRUE)>>
Fn(result, ss, e) == [params |-> XY, result |-> result, body |-> Append(ss, [k |-> "tail", e |-> e])]
File(result, ss, e) == [f |-> Fn(result, ss, e)]

Shifts  == {"shl", "shr"}
Arithmetic == {"add", "sub", "mul", "div", "rem", "bitand", "bitor", "bitxor"}
Methods == {"min", "max", "saturating_add", "saturating_sub",
            "wrapping_add", "wrapping_sub", "wrapping_mul"}
Leaves  == {P("x"), P("y"), N(1), N(3), S(1, "u16")}
Simple  == Leaves \cup {B(op, l, r) : op \in {"add", "div"}, l, r \in {P("x"), P("y"), N(1)}}
                  \cup {If(B("lt", P("x"), P("y")), P("y"), N(2))}

\* Every operator over small operands, and the two lazy connectives over
\* comparisons that may fault.
Expressions ==
    {File("u8", <<>>, B(op, l, r)) : op \in Arithmetic, l, r \in Simple}
    \cup {File("u8", <<>>, B(op, l, r)) : op \in Shifts, l \in Simple, r \in Leaves}
    \cup {File("u8", <<>>, M(op, l, r)) : op \in Methods, l \in Simple, r \in Leaves}
    \cup {File("bool", <<>>, B(c, B(d, l, r), B("eq", P("y"), B("div", P("x"), P("y"))))) :
             c \in {"and", "or", "ne"}, d \in Comparisons, l, r \in Leaves}
    \cup {File("u8", <<>>, If(B("eq", l, r), l, r)) : l, r \in Simple}

\* Two statements over shadowed and assigned variables, the second perhaps an
\* assignment inside a nested block, and a tail that reads all of them.
Inits == {N(1), P("y"), B("add", P("x"), P("y")), Block(<<Dec("x", P("y"))>>, P("x")),
          Block(<<Set("y", P("x"))>>, P("x"))}
Statements ==
    {Dec(v, e) : v \in {"x", "y", "z"}, e \in Inits}
    \cup {Set(v, e) : v \in {"x", "y", "z"}, e \in Inits}
    \cup {XorSet("y", e) : e \in Inits} \cup {AssertS(B("le", P("x"), P("y")))}
Scopes ==
    {File("u8", <<s, t>>, e) : s, t \in Statements,
        e \in {M("wrapping_sub", P("x"), P("y")), If(B("lt", P("z"), P("x")), P("z"), P("y"))}}

\* A helper with a local of its own, called with nested calls, blocks and
\* faulting arguments; a call cycle; a local that hides the helper.
Args == {P("x"), P("y"), N(1), B("sub", P("x"), P("y")), Call("g", <<P("y"), P("x")>>),
         Block(<<Dec("y", N(2))>>, P("y"))}
Bodies ==
    {Fn("u8", <<Dec("z", M("wrapping_sub", P("y"), P("x")))>>, B("div", P("z"), P("x"))),
     Fn("u8", <<AssertS(B("ne", P("x"), P("y")))>>, B("sub", P("y"), P("x"))),
     Fn("u8", <<>>, Call("f", <<P("x"), P("y")>>)),
     Fn("bool", <<>>, B("lt", P("x"), P("y")))}
Calls ==
    {[f |-> Fn("u8", ss, B("sub", Call("g", <<a, b>>), c)), g |-> body] :
        a, b \in Args, c \in {P("x"), N(1)}, body \in Bodies,
        ss \in {<<>>, <<Dec("x", M("wrapping_add", P("x"), N(1)))>>, <<Dec("g", N(1))>>}}

MCPrograms == Expressions \cup Scopes \cup Calls
=============================================================================
