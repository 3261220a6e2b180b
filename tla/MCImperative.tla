---------------------------- MODULE MCImperative ----------------------------
(***************************************************************************)
(* Method bodies compiled by Imperative and run on the machine, next to what *)
(* Rust does with them.  The compiler takes the roots in turn and merges the *)
(* functions they use into one table; then every accepted root is run on     *)
(* every receiver and argument, with and without overflow checks.           *)
(***************************************************************************)
EXTENDS Imperative

CONSTANTS
    Fuel,           \* bound on the machine's steps along one path
    Lowered(_),     \* a root as it is compiled: LowerImperative, which instances pass
    Ends(_, _, _)   \* how a run ends: Observation, which instances pass

-----------------------------------------------------------------------------
(* short forms of the syntax *)

Lit(n, k)         == [e |-> "lit", n |-> n, kind |-> k, written |-> FALSE]
U8(n)             == [e |-> "lit", n |-> n, kind |-> "u8", written |-> TRUE]
Us(n)             == [e |-> "lit", n |-> n, kind |-> "usize", written |-> TRUE]
Yes               == [e |-> "bool", b |-> TRUE]
Nope              == [e |-> "bool", b |-> FALSE]
Me                == Var("self")
Dot(x, n)         == [e |-> "dot", of |-> x, name |-> n]
My(n)             == Dot(Me, n)
At(x, i)          == [e |-> "at", of |-> x, i |-> i]
From(x, lo, hi)   == [e |-> "slice", of |-> x, lo |-> lo, hi |-> hi]
To(lo, hi)        == [e |-> "range", lo |-> lo, hi |-> hi]
Isnt(x)           == [e |-> "not", of |-> x]
Star(x)           == [e |-> "deref", of |-> x]
MutRef(x)         == [e |-> "refmut", of |-> x]
Op(o, l, r)       == [e |-> "bin", op |-> o, l |-> l, r |-> r]
OpSet(o, l, r)    == [e |-> "opassign", op |-> o, l |-> l, r |-> r]
SetTo(l, r)       == [e |-> "assign", l |-> l, r |-> r]
Blk(ss)           == [e |-> "block", stmts |-> ss]
IfElse(c, y, n)   == [e |-> "if", c |-> c, yes |-> Blk(y), no |-> n]
If(c, y)          == IfElse(c, y, NoExpr)
IfLet(q, x, y, n) == [e |-> "iflet", pat |-> q, of |-> x, yes |-> Blk(y), no |-> n]
MatchOn(x, arms)  == [e |-> "match", of |-> x, arms |-> arms]
Arm(q, b)         == [pat |-> q, guard |-> NoExpr, body |-> b]
ArmIf(q, g, b)    == [pat |-> q, guard |-> g, body |-> b]
Let(q, x)         == [s |-> "let", pat |-> q, ty |-> <<>>, init |-> x]
LetTy(q, t, x)    == [s |-> "let", pat |-> q, ty |-> t, init |-> x]
LetOr(q, x, n)    == [s |-> "letelse", pat |-> q, init |-> x, no |-> Blk(n)]
Do_(x)            == [s |-> "semi", of |-> x]
End(x)            == [s |-> "tail", of |-> x]
Back(x)           == [e |-> "return", of |-> x]
Try(x)            == [e |-> "try", of |-> x]
For(l, q, x, b)   == [e |-> "for", label |-> l, pat |-> q, of |-> x, body |-> Blk(b)]
ForEach(q, x, b)  == For(NoLabel, q, x, b)
While(c, b)       == [e |-> "while", label |-> NoLabel, c |-> c, body |-> Blk(b)]
Forever(l, b)     == [e |-> "loop", label |-> l, body |-> Blk(b)]
Break(l)          == [e |-> "break", label |-> l, of |-> NoExpr]
BreakWith(x)      == [e |-> "break", label |-> NoLabel, of |-> x]
Continue(l)       == [e |-> "continue", label |-> l]
Fn(ps, b)         == [e |-> "closure", params |-> ps, body |-> b, move |-> FALSE]
Fn1(x, b)         == Fn(<<Ident(x)>>, b)
CallFn(g, as)     == [e |-> "call", f |-> g, args |-> as]
Assoc(o, g, as)   == [e |-> "assoc", owner |-> o, f |-> g, args |-> as, via |-> o]
SelfFn(g, as)     == [e |-> "assoc", owner |-> "S", f |-> g, args |-> as, via |-> "Self"]
Call(x, m, as)    == [e |-> "method", of |-> x, m |-> m, args |-> as]
Call0(x, m)       == Call(x, m, <<>>)
Nothing           == [e |-> "none"]
SomeOf(x)         == [e |-> "some", of |-> x]
OkOf(x)           == [e |-> "ok", of |-> x]
ErrOf(x)          == [e |-> "err", of |-> x]
Pair(x, y)        == [e |-> "tuple", es |-> <<x, y>>]
Cast(k, x)        == [e |-> "cast", kind |-> k, of |-> x]
TryInto(k, x)     == [e |-> "tryfrom", kind |-> k, of |-> x]
New(o, fs)        == [e |-> "struct", owner |-> o, tag |-> NoLabel, fs |-> fs, via |-> o]
MakeV(tag, es)    == [e |-> "variant", owner |-> "E", tag |-> tag, es |-> es, via |-> "E"]
Panics_           == [e |-> "panic"]
Check(x)          == [e |-> "assert", of |-> x]
Fits(x, q)        == [e |-> "matches", of |-> x, pat |-> q]
RepeatOf(x, n)    == [e |-> "repeat", of |-> x, len |-> n]
Mut(x)            == [q |-> "ident", x |-> x, mut |-> TRUE]
QNone             == [q |-> "none"]
QSome(p)          == [q |-> "some", sub |-> p]
QPair(a, b)       == [q |-> "tuple", subs |-> <<a, b>>]
QOr(ps)           == [q |-> "or", cases |-> ps]
QV(tag, ps)       == [q |-> "variant", owner |-> "E", tag |-> tag, subs |-> ps, via |-> "E"]
QNamed(x)         == [q |-> "struct", owner |-> "E", tag |-> "Named", fs |-> <<<<"x", Ident(x)>>>>, rest |-> FALSE,
                      via |-> "E"]
QInner(x)         == [q |-> "struct", owner |-> "Inner", tag |-> NoLabel, fs |-> <<<<"b", Ident(x)>>>>, rest |-> TRUE,
                      via |-> "Inner"]

-----------------------------------------------------------------------------
(* the crate *)

TU8    == Num("u8")
N      == <<"param", "N">>
MCStructs ==
    [S |-> [fields |-> <<<<"xs", Arr(TU8, N)>>, <<"n", Usize>>, <<"opt", Opt(TU8)>>, <<"flag", Bool>>,
                         <<"inner", Named("Inner", <<>>)>>, <<"slots", Arr(Opt(TU8), N)>>>>,
            consts |-> <<"N">>, derives |-> {"Clone"}, drop |-> FALSE],
     Inner |-> [fields |-> <<<<"a", TU8>>, <<"b", TU8>>>>, consts |-> <<>>,
                derives |-> {"Copy", "Clone", "PartialEq", "Default"}, drop |-> FALSE],
     Guard |-> [fields |-> <<<<"a", TU8>>>>, consts |-> <<>>, derives |-> {}, drop |-> TRUE],
     Held |-> [fields |-> <<<<"p", Named("Payload", <<>>)>>, <<"k", TU8>>>>, consts |-> <<>>, derives |-> {"Clone"},
               drop |-> FALSE]]
MCEnums ==
    [E |-> [tags |-> [Zero |-> <<>>, One |-> <<<<"0", TU8>>>>, Two |-> <<<<"0", TU8>>, <<"1", TU8>>>>,
                      Named |-> <<<<"x", TU8>>>>], derives |-> {"Copy", "Clone", "PartialEq"}]]
TInner == Named("Inner", <<>>)

Param(x, t) == [pat |-> Ident(x), ty |-> t]
Def(owner, name, recv, params, out, ss) ==
    [owner |-> owner, name |-> name, recv |-> recv, params |-> params,
     consts |-> IF owner = "S" THEN <<"N">> ELSE <<>>, out |-> out, body |-> Blk(ss)]
\* Roots: a method of S that takes a number, one that takes nothing, one of E.
F1(name, recv, out, ss) == Def("S", name, recv, <<Param("x", TU8)>>, out, ss)
F0(name, recv, out, ss) == Def("S", name, recv, <<>>, out, ss)
FE(name, out, ss)       == Def("E", name, "ref", <<>>, out, ss)

-----------------------------------------------------------------------------
(* places: what is read and written, and in which order *)

PlaceRoots == <<
  \* the value is evaluated before the index
  F0("store_order", "mut", UnitT, <<Do_(SetTo(At(My("xs"), My("n")), Blk(<<Do_(SetTo(My("n"), Lit(0, "usize"))), End(U8(1))>>)))>>),
  F1("bump", "mut", TU8, <<Do_(OpSet("+", At(My("xs"), My("n")), Var("x"))), Do_(OpSet("-", Dot(My("inner"), "a"), Lit(1, "u8"))),
                           End(At(My("xs"), Us(0)))>>),
  F0("scopes", "mut", TU8, <<Let(Mut("y"), U8(1)),
      Do_(Blk(<<Let(Mut("y"), U8(2)), Do_(SetTo(Dot(My("inner"), "b"), Var("y")))>>)),
      Do_(SetTo(Var("y"), Op("+", Var("y"), Dot(My("inner"), "b")))),
      Do_(If(My("flag"), <<Let(Mut("y"), U8(0)), Do_(SetTo(Dot(My("inner"), "a"), Var("y")))>>)), End(Var("y"))>>),
  F0("shadow", "ref", TU8, <<Let(Ident("y"), Dot(My("inner"), "a")), Let(Ident("y"), Op("^", Var("y"), U8(1))),
      Let(Ident("z"), Blk(<<Let(Ident("y"), Op("&", Var("y"), U8(2))), End(Var("y"))>>)), End(Op("|", Var("y"), Var("z")))>>),
  F1("swap", "mut", UnitT, <<Let(Ident("t"), At(My("xs"), Us(0))), Do_(SetTo(At(My("xs"), Us(0)), At(My("xs"), My("n")))),
                             Do_(SetTo(At(My("xs"), My("n")), Var("t")))>>),
  F0("copied", "mut", Bool, <<Let(Mut("c"), My("inner")), Do_(SetTo(Dot(Var("c"), "a"), U8(3))),
                              Do_(SetTo(Dot(My("inner"), "b"), Dot(Var("c"), "a"))), End(Op("==", Var("c"), My("inner")))>>),
  F1("pairs", "ref", Bool, <<Let(QPair(Mut("a"), Ident("b")), Pair(Cast("u8", My("n")), Dot(My("inner"), "a"))),
                             Do_(OpSet("+", Var("a"), Var("x"))), End(Op("<", Pair(Var("a"), Var("b")), Pair(Lit(1, "u8"), Lit(2, "u8"))))>>),
  F0("struct_order", "mut", TInner, <<End(New("Inner", <<<<"b", Blk(<<Do_(SetTo(My("n"), Lit(0, "usize"))), End(U8(1))>>)>>,
                                                         <<"a", At(My("xs"), My("n"))>>>>))>>),
  F0("reset", "mut", UnitT, <<Let(Mut("ys"), RepeatOf(U8(0), N)), Do_(SetTo(At(Var("ys"), My("n")), U8(2))), Do_(SetTo(My("xs"), Var("ys")))>>),
  F1("literal", "mut", UnitT, <<LetTy(Ident("ys"), Arr(TU8, <<"value", 3>>), [e |-> "array", es |-> <<Dot(My("inner"), "a"), Lit(1, "u8"), Var("x")>>]),
                                Do_(SetTo(At(My("xs"), Us(1)), At(Var("ys"), My("n"))))>>),
  F0("clone_self", "ref", Bool, <<Let(Mut("c"), Call0(Me, "clone")), Do_(SetTo(At(Dot(Var("c"), "xs"), Us(0)), U8(2))),
                                  End(Op("==", At(Dot(Var("c"), "xs"), Us(0)), At(My("xs"), Us(0))))>>),
  F0("late_type", "ref", Opt(TU8), <<Let(Mut("best"), Nothing), Do_(If(My("flag"), <<Do_(SetTo(Var("best"), SomeOf(Dot(My("inner"), "a"))))>>)),
                                     End(Var("best"))>>),
  F0("shifts", "ref", TU8, <<End(Op("<<", Dot(My("inner"), "a"), Dot(My("inner"), "b")))>>),
  F0("halve", "ref", TU8, <<End(Op(">>", [e |-> "max", kind |-> "u8"], Cast("u8", My("n"))))>>),
  F1("divide", "ref", TU8, <<End(Op("+", Op("/", Dot(My("inner"), "a"), Var("x")), Op("%", Lit(3, "u8"), Dot(My("inner"), "b"))))>>),
  F0("take_opt", "mut", TU8, <<End(Call(Call0(My("opt"), "take"), "unwrap_or", <<U8(3)>>))>>),
  F1("fill_all", "mut", UnitT, <<Do_(Call(My("xs"), "fill", <<Op("*", Var("x"), Dot(My("inner"), "a"))>>))>>),
  F0("sort_tail", "mut", UnitT, <<Do_(Call0(From(My("xs"), My("n"), NoExpr), "sort_unstable"))>>),
  F0("rotate", "mut", UnitT, <<Do_(Call(From(My("xs"), Us(1), NoExpr), "rotate_left", <<My("n")>>))>>),
  F1("slice_has", "ref", Bool, <<End(Call(From(My("xs"), Us(1), My("n")), "contains", <<Var("x")>>))>>),
  F1("has", "ref", Bool, <<End(Op("&&", Call(My("xs"), "contains", <<Var("x")>>), Op("==", Call0(From(My("xs"), NoExpr, Us(2)), "len"), Us(2))))>>),
  F0("reversed", "mut", UnitT, <<Do_(SetTo(My("xs"), [e |-> "fromfn", len |-> N,
        f |-> Fn1("i", At(My("xs"), Op("-", Op("-", Var("N"), Us(1)), Var("i"))))]))>>),
  F1("numbers", "ref", TU8, <<End(Call(Call(Call(Var("x"), "wrapping_add", <<Dot(My("inner"), "a")>>), "saturating_sub", <<U8(1)>>), "max", <<Dot(My("inner"), "b")>>))>>),
  F1("clamped", "ref", TU8, <<End(Call(Var("x"), "clamp", <<Dot(My("inner"), "b"), Dot(My("inner"), "a")>>))>>),
  F1("checked", "ref", Opt(TU8), <<End(Call(Var("x"), "checked_add", <<Dot(My("inner"), "a")>>))>>),
  F0("narrow", "ref", TU8, <<End(Call(TryInto("u8", My("n")), "unwrap_or", <<Lit(2, "u8")>>))>>),
  \* refused: arrays have no equality in the machine, and destructors would run
  F0("same_array", "ref", Bool, <<End(Op("==", My("xs"), My("xs")))>>),
  F0("guarded", "ref", TU8, <<Let(Ident("g"), New("Guard", <<<<"a", U8(1)>>>>)), End(U8(1))>>)>>

-----------------------------------------------------------------------------
(* control: loops, early exits, matches and the types they give *)

Even(x) == Op("==", Op("&", x, U8(1)), Lit(0, "u8"))
ControlRoots == <<
  F0("outer", "mut", UnitT, <<Do_(For("outer", Ident("i"), To(Lit(0, "usize"), My("n")), <<
        Do_(For("inner", Ident("j"), To(Lit(0, "usize"), Var("N")), <<
            Do_(SetTo(Dot(My("inner"), "a"), Call(Dot(My("inner"), "a"), "wrapping_add", <<U8(1)>>))),
            Do_(If(Op("==", At(My("xs"), Var("j")), Lit(2, "u8")), <<Do_(Break("outer"))>>)),
            Do_(If(Op(">", Var("j"), Var("i")), <<Do_(Continue("outer"))>>))>>))>>))>>),
  F0("loop_value", "ref", TU8, <<Let(Mut("i"), Us(0)), LetTy(Ident("v"), TU8, Forever(NoLabel, <<
        Do_(If(Op("==", Var("i"), My("n")), <<Do_(BreakWith(Dot(My("inner"), "b")))>>)), Do_(OpSet("+", Var("i"), Lit(1, "usize"))),
        Do_(If(Op("==", At(My("xs"), Var("i")), U8(2)), <<Do_(BreakWith(Lit(3, "u8")))>>))>>)), End(Op("^", Var("v"), U8(1)))>>),
  F0("count_down", "mut", UnitT, <<Do_(While(Op("&&", Op(">", My("n"), Lit(0, "usize")), Op("!=", At(My("xs"), Op("-", My("n"), Us(1))), U8(0))), <<
        Do_(OpSet("-", My("n"), Us(1))), Do_(If(My("flag"), <<Do_(Continue(NoLabel))>>)), Do_(OpSet("|", Dot(My("inner"), "b"), Lit(1, "u8")))>>))>>),
  F1("search", "mut", Bool, <<Do_(ForEach(Ident("y"), Call0(My("xs"), "iter"), <<
        Do_(If(Op("==", Star(Var("y")), Var("x")), <<Do_(Back(Yes))>>)), Do_(OpSet("+", My("n"), Us(1)))>>)), End(Nope)>>),
  F0("let_else", "mut", TU8, <<LetOr(QSome(Ident("v")), My("opt"), <<Do_(SetTo(My("n"), Us(0))), Do_(Back(U8(0)))>>), End(Op("+", Var("v"), U8(1)))>>),
  F0("question", "mut", Opt(TU8), <<Let(Ident("v"), Try(My("opt"))), Do_(SetTo(My("n"), Us(1))), End(SomeOf(Op("+", Var("v"), Dot(My("inner"), "a"))))>>),
  F1("question_ok", "mut", Res(TU8, Bool), <<Let(Ident("v"), Try(Call(My("opt"), "ok_or", <<My("flag")>>))), Do_(SetTo(My("n"), Us(1))),
        Do_(If(Op("<", Var("v"), Var("x")), <<Do_(Back(ErrOf(Nope)))>>)), End(OkOf(Var("v")))>>),
  F0("guards", "mut", TU8, <<End(MatchOn(My("opt"), <<
        ArmIf(QSome(Ident("v")), Op(">", Var("v"), Dot(My("inner"), "a")), Var("v")),
        ArmIf(QSome(Ident("v")), Blk(<<Do_(SetTo(My("n"), Us(0))), End(Op("==", Var("v"), Lit(0, "u8")))>>), U8(1)),
        Arm(QSome(Wild), U8(2)), Arm(QNone, Back(Dot(My("inner"), "b")))>>))>>),
  F0("dead_arm", "mut", TU8, <<Let(Ident("v"), MatchOn(My("opt"), <<Arm(QNone, Blk(<<Do_(SetTo(My("n"), Us(2))), Do_(Back(U8(2)))>>)), Arm(QSome(Ident("w")), Var("w"))>>)),
        End(Op("-", Var("v"), U8(1)))>>),
  F0("either_side", "ref", TU8, <<End(MatchOn(Pair(My("opt"), My("flag")), <<
        Arm(QOr(<<QPair(QSome(Ident("v")), Wild)>>), Var("v")), Arm(QPair(QNone, Ident("c")), IfElse(Var("c"), <<End(U8(1))>>, Blk(<<End(U8(2))>>)))>>))>>),
  F0("if_let", "mut", TU8, <<End(IfLet(QSome(Ident("v")), My("opt"), <<Do_(SetTo(Dot(My("inner"), "a"), Var("v"))), End(Var("v"))>>,
        Blk(<<Do_(If(My("flag"), <<Do_(Back(U8(3)))>>)), End(U8(1))>>)))>>),
  F0("infer", "ref", Usize, <<Let(Mut("c"), Lit(0, "usize")), Do_(ForEach(Ident("y"), Call0(My("xs"), "iter"), <<
        Do_(If(Op(">", Star(Var("y")), Lit(1, "u8")), <<Do_(OpSet("+", Var("c"), Lit(1, "usize")))>>))>>)), End(Var("c"))>>),
  F0("infer_byte", "ref", TU8, <<Let(Mut("c"), Lit(3, "u8")), Let(Ident("k"), Lit(0, "usize")), Do_(ForEach(Wild, To(Var("k"), My("n")), <<
        Do_(OpSet("+", Var("c"), Lit(1, "u8")))>>)), End(Var("c"))>>),
  F0("asserts", "ref", UnitT, <<Do_(Check(Op("<", My("n"), Lit(3, "usize")))), Do_(If(Fits(My("opt"), QSome(Wild)), <<Do_(Panics_)>>))>>),
  F0("backwards", "mut", UnitT, <<Do_(ForEach(Ident("i"), Call0(To(Us(1), Var("N")), "rev"), <<
        Do_(SetTo(At(My("xs"), Var("i")), At(My("xs"), Op("-", Var("i"), Us(1)))))>>))>>),
  F0("bare_pattern", "ref", TU8, <<Let(Ident("i"), My("inner")), End(MatchOn(Var("i"), <<Arm(QInner("b"), Op("*", Var("b"), Dot(Var("i"), "a")))>>))>>),
  F0("in_closure", "mut", Bool, <<Let(Mut("k"), U8(0)), Let(Ident("r"), Call(My("opt"), "is_some_and", <<Fn1("v", Blk(<<
        Do_(If(Op("==", Var("v"), U8(0)), <<Do_(SetTo(Var("k"), U8(1))), Do_(Back(Yes))>>)), End(My("flag"))>>))>>)),
        Do_(SetTo(Dot(My("inner"), "b"), Var("k"))), End(Var("r"))>>),
  FE("arity", TU8, <<End(MatchOn(Me, <<Arm(QV("Zero", <<>>), U8(0)), Arm(QOr(<<QV("One", <<Ident("v")>>), QV("Two", <<Wild, Ident("v")>>), QNamed("v")>>), Var("v"))>>))>>),
  FE("or_guard", TU8, <<End(MatchOn(Me, <<ArmIf(QOr(<<QV("Two", <<Ident("v"), Wild>>), QV("Two", <<Wild, Ident("v")>>)>>), Op(">", Var("v"), U8(1)), Var("v")),
        ArmIf(QV("One", <<Ident("v")>>), Even(Var("v")), Op("+", Var("v"), U8(1))), Arm(Wild, U8(3))>>))>>),
  FE("rebuilt", Bool, <<Let(Ident("t"), IfElse(Fits(Me, QV("Zero", <<>>)), <<End(MakeV("Zero", <<>>))>>, Blk(<<End(MakeV("One", <<U8(2)>>))>>))),
        End(Op("==", Var("t"), Star(Me)))>>),
  \* refused: the two arms have different types
  F0("mixed", "ref", TU8, <<End(MatchOn(My("opt"), <<Arm(QNone, Us(1)), Arm(QSome(Ident("v")), Var("v"))>>))>>)>>

-----------------------------------------------------------------------------
(* iterators and closures *)

Xs          == Call0(My("xs"), "iter")
Over(k, x)  == Fn1("v", Op(">", Star(Var("v")), x))
Ending(x)   == <<End(x)>>
IteratorRoots == <<
  F1("any_over", "ref", Bool, Ending(Call(Xs, "any", <<Over(0, Var("x"))>>))),
  F1("all_over", "ref", Bool, Ending(Call(Xs, "all", <<Over(0, Var("x"))>>))),
  F1("place_of", "ref", Opt(Usize), Ending(Call(Xs, "position", <<Fn1("v", Op("==", Star(Var("v")), Var("x")))>>))),
  F1("find_last", "ref", Opt(TU8), Ending(Call0(Call(Call0(Xs, "rev"), "find", <<Over(0, Var("x"))>>), "copied"))),
  F1("biggest", "ref", Opt(TU8), Ending(Call0(Call(Call0(Xs, "copied"), "filter", <<Fn1("v", Op("<=", Star(Var("v")), Var("x")))>>), "max"))),
  F0("smallest", "ref", Opt(TU8), Ending(Call0(Call0(Call0(My("slots"), "iter"), "flatten"), "min"))),
  F0("how_many", "ref", Usize, Ending(Call0(Call(Call0(My("slots"), "iter"), "filter_map", <<Fn1("s",
        Call(Star(Var("s")), "filter", <<Fn1("v", Op(">", Star(Var("v")), U8(0)))>>))>>), "count"))),
  F1("up_to", "ref", Usize, Ending(Call0(Call(Xs, "take_while", <<Fn1("v", Op("<", Star(Var("v")), Var("x")))>>), "count"))),
  F0("ends", "ref", Bool, Ending(Op("==", Call0(Xs, "next"), Call0(Xs, "next_back")))),
  F0("last_shifted", "ref", Opt(TU8), Ending(Call0(Call(From(My("xs"), My("n"), NoExpr), "iter", <<>>), "last"))),
  F0("weighted", "ref", Usize, <<Let(Mut("t"), Us(0)), Do_(ForEach(QPair(Ident("i"), Ident("v")), Call0(Xs, "enumerate"), <<
        Do_(If(Op(">", Star(Var("v")), U8(1)), <<Do_(OpSet("+", Var("t"), Var("i")))>>))>>)), End(Var("t"))>>),
  F0("numbered_back", "ref", Usize, <<Let(Mut("t"), Us(0)), Do_(ForEach(QPair(Ident("i"), Ident("v")), Call0(Call0(Xs, "rev"), "enumerate"), <<
        Do_(If(Op(">", Star(Var("v")), U8(1)), <<Do_(SetTo(Var("t"), Var("i")))>>))>>)), End(Var("t"))>>),
  F0("each", "mut", UnitT, <<Do_(ForEach(Ident("v"), MutRef(My("xs")), <<
        Do_(SetTo(Star(Var("v")), Call(Var("v"), "wrapping_add", <<Dot(My("inner"), "a")>>)))>>))>>),
  F0("each_from", "mut", UnitT, <<Do_(ForEach(Ident("v"), MutRef(From(My("xs"), My("n"), Us(2))), <<
        Do_(If(Even(Star(Var("v"))), <<Do_(Continue(NoLabel))>>)), Do_(OpSet("-", Star(Var("v")), U8(1)))>>))>>),
  F1("witness", "mut", Bool, <<Let(Mut("k"), U8(0)), Let(Ident("r"), Call(Xs, "any", <<Fn1("v", Blk(<<
        Do_(OpSet("+", Var("k"), Lit(1, "u8"))), End(Op("==", Star(Var("v")), Var("x")))>>))>>)),
        Do_(SetTo(Dot(My("inner"), "a"), Var("k"))), End(Var("r"))>>),
  F1("mapped", "ref", Usize, <<Let(Ident("base"), Dot(My("inner"), "a")), End(Call0(Call(Call(Call0(Xs, "copied"), "map", <<Fn1("v",
        Op("+", Var("v"), Var("base")))>>), "filter", <<Over(0, Var("x"))>>), "count"))>>),
  F0("ranged", "ref", Opt(Usize), Ending(Call0(Call(To(Lit(0, "usize"), My("n")), "map", <<Fn1("i", Cast("usize", At(My("xs"), Var("i"))))>>), "max"))),
  F1("kept", "ref", TU8, <<Let(Ident("add"), Fn1("v", Op("+", Var("v"), Dot(My("inner"), "a")))), Let(Ident("x"), Op("^", Var("x"), U8(1))),
        End(Op("^", CallFn("add", <<Var("x")>>), CallFn("add", <<U8(0)>>)))>>),
  F1("stored", "ref", Usize, <<Let(Ident("it"), Call(Xs, "filter", <<Over(0, Var("x"))>>)), End(Op("+", Call0(Call0(Var("it"), "clone"), "count"),
        Call0(Var("it"), "count")))>>),
  F1("through", "ref", Usize, Ending(Op("+", Call0(Call0(Me, "evens"), "count"), Us(1)))),
  F1("option_chain", "ref", Opt(TU8), Ending(Call(Call(My("opt"), "map", <<Fn1("v", Op("+", Var("v"), Var("x")))>>), "or_else", <<Fn(<<>>, Call(My("flag"), "then_some", <<Var("x")>>))>>))),
  F1("option_then", "ref", Opt(TU8), Ending(Call(My("opt"), "and_then", <<Fn1("v", Call(Var("v"), "checked_sub", <<Var("x")>>))>>))),
  F1("option_or", "ref", TU8, Ending(Call(My("opt"), "map_or", <<Op("/", U8(3), Var("x")), Fn1("v", Op("*", Var("v"), Var("x")))>>))),
  F0("option_wrap", "ref", Opt(TU8), Ending(Call(Call(My("opt"), "filter", <<[e |-> "closure", params |-> <<Wild>>, body |-> My("flag"), move |-> FALSE]>>), "map", <<Fn1("v", Var("v"))>>))),
  F0("unwraps", "ref", TU8, Ending(Op("+", Call0(My("opt"), "unwrap"), Call0(Call(My("xs"), "get", <<My("n")>>), "unwrap")))),
  F0("array_map", "mut", UnitT, <<Do_(SetTo(My("xs"), Call(My("xs"), "map", <<Fn1("v", Op("-", Dot(My("inner"), "a"), Var("v")))>>)))>>),
  \* refused: these read from the back what was numbered from the front
  F0("rev_numbered", "ref", Opt(Usize), Ending(Call(Call0(Call0(Call0(Xs, "enumerate"), "rev"), "next"), "map", <<Fn1("p", Dot(Var("p"), "0"))>>))),
  F0("back_numbered", "ref", Opt(Usize), Ending(Call(Call0(Call0(Xs, "enumerate"), "next_back"), "map", <<Fn1("p", Dot(Var("p"), "0"))>>)))>>

-----------------------------------------------------------------------------
(* calls: the function table, inlining, instances of the impl's constants *)

CallRoots == <<
  F1("push", "mut", TU8, <<Do_(Call(My("inner"), "add", <<Var("x")>>)), End(Dot(My("inner"), "a"))>>),
  F1("push_twice", "mut", TU8, <<Let(Ident("r"), Call(My("inner"), "add", <<Var("x")>>)), Do_(Call(Me, "shift", <<Var("r")>>)), End(At(My("xs"), Us(0)))>>),
  F1("local_parts", "mut", TU8, <<Let(Mut("ps"), RepeatOf(My("inner"), <<"value", 2>>)), Do_(Call(At(Var("ps"), My("n")), "add", <<Var("x")>>)),
        End(Op("^", Dot(At(Var("ps"), Us(0)), "a"), Dot(My("inner"), "a")))>>),
  F1("owned", "ref", TU8, Ending(Call(Call0(My("inner"), "twice"), "wrapping_add", <<Var("x")>>))),
  F1("built", "mut", UnitT, <<Do_(SetTo(My("inner"), Assoc("Inner", "new", <<Var("x"), U8(1)>>))), Do_(If(My("flag"), <<Do_(SetTo(My("inner"), Assoc("Inner", "default", <<>>)))>>))>>),
  F0("width", "ref", Usize, Ending(Op("-", SelfFn("size", <<>>), Call0(My("xs"), "len")))),
  F1("last_of", "mut", TU8, <<Do_(Call(Me, "shift", <<Var("x")>>)), End(Call0(Me, "tail"))>>),
  F1("edit", "mut", TU8, <<Do_(Call(My("inner"), "update", <<Fn1("v", Op("+", Var("v"), Var("x")))>>)), End(Dot(My("inner"), "a"))>>),
  F1("edit_at", "mut", TU8, <<Let(Mut("ps"), RepeatOf(My("inner"), <<"value", 2>>)), Do_(Call(At(Var("ps"), My("n")), "update", <<Fn1("v", Op("^", Var("v"), Var("x")))>>)),
        End(Dot(At(Var("ps"), Us(1)), "a"))>>),
  F1("edit_self", "mut", UnitT, <<Do_(Call(Me, "visit", <<Fn1("v", Call(Var("v"), "wrapping_add", <<Var("x")>>))>>))>>),
  F0("used_as", "ref", TU8, <<Let(Ident("ys"), [e |-> "fromfn", len |-> N, f |-> Fn1("i", Op("/", At(My("xs"), Var("i")), U8(2)))]), End(SelfFn("total", <<Var("ys")>>))>>),
  F1("failing", "mut", Res(TU8, Bool), <<Let(Ident("v"), Try(Call(Me, "guard", <<Var("x")>>))), Do_(SetTo(My("n"), Us(0))), End(OkOf(Op("+", Var("v"), U8(1))))>>),
  F0("passed_on", "ref", Bool, <<Let(Ident("keep"), Fn1("v", Op(">", Var("v"), Dot(My("inner"), "a")))), End(Call(Me, "exists", <<Var("keep")>>))>>),
  F1("nested", "mut", TU8, <<Let(Ident("a"), Call(Me, "push", <<Var("x")>>)), Let(Ident("b"), Call(Me, "push_twice", <<U8(1)>>)), End(Op("|", Var("a"), Var("b")))>>),
  F1("after_loop", "mut", UnitT, <<Do_(ForEach(Wild, To(Us(0), My("n")), <<Do_(SetTo(My("flag"), Isnt(My("flag"))))>>)), Do_(Call(Me, "shift", <<Var("x")>>))>>),
  Def("Held", "dup", "ref", <<>>, <<"self">>, Ending(Call0(Me, "clone"))),
  \* refused: a function that calls itself, and a receiver that is not mutable
  F1("looping", "ref", TU8, Ending(IfElse(Op("==", Var("x"), U8(0)), <<End(U8(0))>>, Blk(Ending(Call(Me, "looping", <<U8(0)>>)))))) >>

Helpers == <<
  Def("Inner", "add", "mut", <<Param("by", TU8)>>, TU8, <<Let(Ident("old"), My("a")), Do_(OpSet("+", My("a"), Var("by"))), End(Var("old"))>>),
  Def("Inner", "twice", "owned", <<>>, TU8, Ending(Op("|", My("a"), My("b")))),
  Def("Inner", "new", "none", <<Param("a", TU8), Param("b", TU8)>>, <<"self">>,
      Ending([e |-> "struct", owner |-> "Inner", tag |-> NoLabel, fs |-> <<<<"a", Var("a")>>, <<"b", Op("+", Var("b"), Var("a"))>>>>, via |-> "Self"])),
  Def("Inner", "update", "mut", <<Param("g", <<"callable">>)>>, UnitT,
      <<Let(Ident("x"), My("b")), Do_(SetTo(My("a"), CallFn("g", <<My("a")>>))), Do_(SetTo(My("b"), Var("x")))>>),
  F0("evens", "ref", <<"iterator">>, Ending(Call(Xs, "filter", <<Fn1("v", Even(Star(Star(Var("v")))))>>))),
  F1("shift", "mut", UnitT, <<Do_(ForEach(Ident("i"), Call0(To(Us(1), Var("N")), "rev"), <<
      Do_(SetTo(At(My("xs"), Var("i")), At(My("xs"), Op("-", Var("i"), Us(1)))))>>)), Do_(SetTo(At(My("xs"), Us(0)), Var("x")))>>),
  F0("tail", "ref", TU8, Ending(At(My("xs"), Op("-", Var("N"), Us(1))))),
  Def("S", "size", "none", <<>>, Usize, Ending(Var("N"))),
  Def("S", "total", "none", <<Param("ys", Arr(TU8, N))>>, TU8, <<Let(Mut("t"), U8(0)), Do_(ForEach(Ident("y"), Call0(Var("ys"), "iter"), <<
      Do_(OpSet("+", Var("t"), Star(Var("y"))))>>)), End(Var("t"))>>),
  F1("guard", "mut", Res(TU8, Bool), <<Do_(OpSet("+", My("n"), Us(1))), Do_(If(Op(">", Var("x"), Dot(My("inner"), "a")), <<Do_(Back(ErrOf(My("flag"))))>>)), End(OkOf(Var("x")))>>),
  Def("S", "visit", "mut", <<Param("g", <<"callable">>)>>, UnitT, <<Do_(ForEach(Ident("i"), To(Us(0), Var("N")), <<
      Let(Ident("x"), At(My("xs"), Var("i"))), Do_(SetTo(At(My("xs"), Var("i")), CallFn("g", <<Var("x")>>)))>>))>>),
  Def("S", "exists", "ref", <<Param("test", <<"callable">>)>>, Bool, Ending(Call(Xs, "any", <<Fn1("v", CallFn("test", <<Star(Var("v"))>>))>>)))>>

-----------------------------------------------------------------------------
Families == <<PlaceRoots, ControlRoots, IteratorRoots, CallRoots>>
Roots    == FlattenSeq(Families)
Refused == {"same_array", "guarded", "mixed", "rev_numbered", "back_numbered", "looping"}

MCMethods == LET all == ToSet(Roots \o Helpers)
             IN [k \in {Key(d) : d \in all} |-> CHOOSE d \in all : Key(d) = k]
MCWidth == [u8 |-> 2, usize |-> 3, i32 |-> 3]
MCConstValue == [S |-> [N |-> 3], E |-> <<>>, Inner |-> <<>>, Held |-> <<>>]
Rust == INSTANCE RustMethod WITH ConstValue <- MCConstValue

B(n) == Number("u8", n)
Selves(owner) ==
    CASE owner = "S" ->
            {Record("S", [xs |-> Array([i \in 1..3 |-> B(xs[i])]), n |-> Number("usize", n), opt |-> opt,
                          flag |-> Boolean(fl), slots |-> Array(<<opt, Absent, Present(B(2))>>),
                          inner |-> Record("Inner", [a |-> B(IF fl THEN 3 ELSE 1), b |-> B(b)])]) :
                xs \in {<<0, 1, 2>>, <<3, 1, 3>>, <<2, 2, 0>>}, n \in {0, 1, 2, 4}, opt \in {Absent, Present(B(0)), Present(B(3))},
                fl \in BOOLEAN, b \in {0, 2}}
      [] owner = "E" -> {Variant("E", "Zero", <<>>), Variant("E", "Two", Tuple(<<B(1), B(2)>>).f), Variant("E", "Two", Tuple(<<B(0), B(3)>>).f),
                         Variant("E", "Named", ("x" :> B(2)))} \cup {Variant("E", "One", ("0" :> B(n))) : n \in 0..3}
      [] owner = "Held" -> {Record("Held", [p |-> Record("Payload", <<>>), k |-> B(n)]) : n \in 0..3}
Inputs(d) == IF d.params = <<>> THEN {<<>>} ELSE {<<B(n)>> : n \in {0, 1, 3}}
Oracle == [clone |-> [x \in {Record("Payload", <<>>)} |-> x]]

\* The compiler takes every body here but those it must refuse.
ASSUME Accepted == {d.name : d \in {e \in ToSet(Roots) : ~LowerImperative(Key(e)).ok}} \subseteq Refused

VARIABLES
    todo,       \* the roots still to be compiled
    bodies,     \* [root -> code] of the roots that were accepted
    table,      \* the functions they use
    conflict,   \* two bodies for one function were met
    run,        \* the root that is about to run
    outcome     \* what Rust and the machine did
vars == <<todo, bodies, table, conflict, run, outcome>>

Init ==
    /\ \E f \in DOMAIN Families : todo = [i \in DOMAIN Families[f] |-> Key(Families[f][i])]
    /\ bodies = <<>> /\ table = <<>> /\ conflict = FALSE
    /\ run = <<>> /\ outcome = <<>>

\* One root through the compiler; its functions join the table.
Compile ==
    /\ todo # <<>>
    /\ todo' = Tail(todo)
    /\ LET r == Lowered(Head(todo))
           joined == Table(table, r.cx.fns)
       IN IF r.ok
          THEN /\ bodies' = Put(bodies, Head(todo), r.code)
               /\ table' = joined.functions
               /\ conflict' = (conflict \/ joined.conflict)
          ELSE UNCHANGED <<bodies, table, conflict>>
    /\ UNCHANGED <<run, outcome>>

Pick ==
    /\ todo = <<>> /\ run = <<>>
    /\ \E k \in DOMAIN bodies, checked \in BOOLEAN : \E self \in Selves(Head(k)) :
          run' = [root |-> k, checked |-> checked, self |-> self]
    /\ UNCHANGED <<todo, bodies, table, conflict, outcome>>

Frame(d, self, args) == <<self>> \o args \o [i \in DOMAIN d.consts |-> Number("usize", MCConstValue[d.owner][d.consts[i]])]

\* What Rust and the machine with that table make of a run with body code.
Observation(functions, code, r) ==
    LET d == Methods[r.root]
        world == [checked |-> r.checked, functions |-> functions, oracle |-> Oracle]
    IN {[args |-> args, rust |-> Rust!RunMethod(r.checked, d, r.self, args),
         machine |-> RunBody(world, Fuel, code, Frame(d, r.self, args))] : args \in Inputs(d)}

Execute ==
    /\ run # <<>> /\ outcome = <<>>
    /\ outcome' \in Ends(table, bodies[run.root], run)
    /\ UNCHANGED <<todo, bodies, table, conflict, run>>

Next == Compile \/ Pick \/ Execute
Spec == Init /\ [][Next]_vars

-----------------------------------------------------------------------------
Ran == outcome # <<>>
Panic_ == {"overflow", "bounds", "division", "panic"}

\* A body returns in the machine what it returns in Rust (imperative.rs: the
\* value of every expression, in the order Rust evaluates them).
SameResult == Ran /\ outcome.rust.r = "ok" /\ outcome.machine.r = "ok" => outcome.machine.val = outcome.rust.val

\* It leaves the receiver as Rust does (imperative.rs: places, write-back).
SameReceiver ==
    Ran /\ outcome.rust.r = "ok" /\ outcome.machine.r = "ok" /\ Methods[run.root].recv = "mut" =>
        outcome.machine.self = outcome.rust.self

\* It faults in the machine exactly when Rust panics.
PanicsAgree == Ran => ((outcome.rust.r = "panic") <=> (outcome.machine.r = "fault" /\ outcome.machine.why \in Panic_))

\* An accepted body never asks the machine for a value it does not have.
NeverStuck == Ran /\ outcome.machine.r = "fault" => outcome.machine.why \in Panic_

\* A body that is accepted does in the machine what it does in Rust: it returns
\* the same, leaves the same receiver, panics when Rust does and never gets stuck
\* (lower_imperative and the machine's run).  Three kinds of bodies where the code
\* departs from Rust are not among the roots: a range bound before what it reads
\* is written (imperative.rs:1069), a loop over lo..hi with lo > hi (:2176), and a
\* place whose index has effects and is compiled twice (:3938).
LikeRust == SameResult /\ SameReceiver /\ PanicsAgree /\ NeverStuck

\* Two roots that use one function compiled it to the same body.
TableAgrees == ~conflict
=============================================================================
