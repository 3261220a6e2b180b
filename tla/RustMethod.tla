----------------------------- MODULE RustMethod -----------------------------
(***************************************************************************)
(* Reference meaning of the Rust method bodies that Imperative translates.   *)
(* Locals live in memory cells, `self` and `&mut` loop variables are places  *)
(* in them, closures capture cells and iterators are pulled item by item:    *)
(* nothing is copied in and out, which is what the machine's slots do.       *)
(*                                                                         *)
(* Expressions are records tagged by `e`, patterns by `q`, statements by `s`.*)
(* An integer literal carries its Rust type whether or not it is written.    *)
(***************************************************************************)
EXTENDS MethodValues, SequencesExt, Bitwise

CONSTANTS
    Structs,     \* [name -> [fields: seq of <<name, type>>, consts: seq of names, derives: set]]
    Enums,       \* [name -> [tags: [tag -> seq of types], derives: set]]
    Methods,     \* [<<owner, name>> -> definition]
    ConstValue   \* [owner -> [const parameter -> value]], the instance that runs

Val(x, mem)     == [r |-> "val", val |-> x, mem |-> mem]
Panics          == [r |-> "panic"]
Bind(o, F(_, _)) == IF o.r = "val" THEN F(o.val, o.mem) ELSE o
WithPlace(o, F(_)) == IF o.r = "place" THEN F(o) ELSE o

\* The first cell tells whether the build checks overflow.
Checked(mem) == mem[1].b
Alloc(mem, x) == Append(mem, x)

RECURSIVE Get(_, _), Set(_, _, _)
Get(x, path) ==
    IF path = <<>> THEN x
    ELSE Get(IF Head(path)[1] = "field" THEN x.f[Head(path)[2]] ELSE x.s[Head(path)[2]], Tail(path))
Set(x, path, new) ==
    IF path = <<>> THEN new
    ELSE IF Head(path)[1] = "field"
    THEN [x EXCEPT !.f = Put(x.f, Head(path)[2], Set(x.f[Head(path)[2]], Tail(path), new))]
    ELSE Array(ReplaceAt(x.s, Head(path)[2], Set(x.s[Head(path)[2]], Tail(path), new)))
Fetch(mem, p) == Get(mem[p.loc], p.path)
Store(mem, p, x) == ReplaceAt(mem, p.loc, Set(mem[p.loc], p.path, x))

Operate(checked, o, x, y) ==
    LET k == x.kind  a == x.n  b == y.n
        num(n) == [r |-> "val", val |-> Number(k, n)]
        exact(n) == IF n \in 0..Size(k) - 1 THEN num(n)
                    ELSE IF checked \/ k = "i32" THEN Panics ELSE num(n % Size(k))
    IN CASE x.v # "number" -> [r |-> "val", val |-> Boolean(
                CASE o = "==" -> x = y [] o = "!=" -> x # y [] o = "^" -> x.b # y.b
                  [] o = "&" -> x.b /\ y.b [] o = "|" -> x.b \/ y.b
                  [] o = "<" -> \/ x.f["0"].n < y.f["0"].n
                                \/ x.f["0"].n = y.f["0"].n /\ x.f["1"].n < y.f["1"].n
                  [] o = ">=" -> ~(\/ x.f["0"].n < y.f["0"].n
                                   \/ x.f["0"].n = y.f["0"].n /\ x.f["1"].n < y.f["1"].n))]
         [] o = "+" -> exact(a + b) [] o = "-" -> exact(a - b) [] o = "*" -> exact(a * b)
         [] o \in {"/", "%"} -> IF b = 0 THEN Panics ELSE num(IF o = "/" THEN a \div b ELSE a % b)
         [] o = "^" -> num(a ^^ b) [] o = "&" -> num(a & b) [] o = "|" -> num(a | b)
         [] o \in {"<<", ">>"} ->
                LET n == b % Width[k]
                IN IF checked /\ b >= Width[k] THEN Panics
                   ELSE num(IF o = "<<" THEN (a * 2^n) % Size(k) ELSE a \div 2^n)
         [] OTHER -> [r |-> "val", val |-> Boolean(
                CASE o = "==" -> a = b [] o = "!=" -> a # b [] o = "<" -> a < b
                  [] o = "<=" -> a <= b [] o = ">" -> a > b [] o = ">=" -> a >= b)]

-----------------------------------------------------------------------------
(* patterns bind names to values *)

NoMatch == [ok |-> FALSE, b |-> <<>>]
RECURSIVE Matches(_, _), MatchAll(_, _)
Matches(pat, x) ==
    CASE pat.q = "wild" -> [ok |-> TRUE, b |-> <<>>]
      [] pat.q = "ident" -> [ok |-> TRUE, b |-> (pat.x :> x)]
      [] pat.q = "none" -> [ok |-> x = Absent, b |-> <<>>]
      [] pat.q = "some" -> IF x = Absent THEN NoMatch ELSE Matches(pat.sub, x.x)
      [] pat.q \in {"ok", "err"} ->
            IF (x.tag = "Ok") = (pat.q = "ok") THEN Matches(pat.sub, x.f["0"]) ELSE NoMatch
      [] pat.q = "variant" ->
            IF x.tag # pat.tag THEN NoMatch
            ELSE MatchAll(pat.subs, [i \in DOMAIN pat.subs |-> x.f[ToString(i - 1)]])
      [] pat.q = "tuple" -> MatchAll(pat.subs, [i \in DOMAIN pat.subs |-> x.f[ToString(i - 1)]])
      [] pat.q = "struct" ->
            IF pat.tag # NoLabel /\ x.tag # pat.tag THEN NoMatch
            ELSE MatchAll([i \in DOMAIN pat.fs |-> pat.fs[i][2]], [i \in DOMAIN pat.fs |-> x.f[pat.fs[i][1]]])
      [] pat.q = "or" -> FoldLeft(LAMBDA m, c : IF m.ok THEN m ELSE Matches(c, x), NoMatch, pat.cases)
MatchAll(pats, xs) ==
    FoldLeft(LAMBDA m, i : LET n == Matches(pats[i], xs[i])
                           IN IF m.ok /\ n.ok THEN [ok |-> TRUE, b |-> n.b @@ m.b] ELSE NoMatch,
             [ok |-> TRUE, b |-> <<>>], [i \in DOMAIN pats |-> i])

\* New cells for the bindings; a place stays the place it is.
Bindings(env, mem, b) ==
    FoldSet(LAMBDA x, s :
                IF b[x].v = "ref" THEN [s EXCEPT !.env = Put(s.env, x, b[x])]
                ELSE [env |-> Put(s.env, x, [loc |-> Len(s.mem) + 1, path |-> <<>>]),
                      mem |-> Alloc(s.mem, b[x])],
             [env |-> env, mem |-> mem], DOMAIN b)

\* What #[derive(Default)] makes of a type.
RECURSIVE Default(_)
Default(t) ==
    CASE t[1] = "bool" -> Boolean(FALSE)
      [] t[1] = "number" -> Number(t[2], 0)
      [] t[1] = "option" -> Absent
      [] t[1] = "named" ->
            LET fs == Structs[t[2]].fields
            IN Record(t[2], [n \in {fs[i][1] : i \in DOMAIN fs} |->
                               Default(fs[CHOOSE i \in DOMAIN fs : fs[i][1] = n][2])])

-----------------------------------------------------------------------------
Adapters == {"rev", "map", "filter", "filter_map", "take_while", "enumerate", "flatten",
             "copied", "cloned", "iter", "into_iter", "clone"}
Iter(items) == [v |-> "iter", items |-> items, stages |-> <<>>]
Ref(loc, path) == [v |-> "ref", loc |-> loc, path |-> path]
OwnerOf(x) == IF x.v \in {"record", "variant"} THEN x.name ELSE "builtin"

RECURSIVE Ev(_, _, _), EvAll(_, _, _), PlaceOf(_, _, _), Stmts(_, _, _, _), Iterate(_, _, _, _),
          Again(_, _, _), Apply(_, _, _), Stage(_, _, _, _, _), NextItem(_, _), Walk(_, _, _, _, _), Arms(_, _, _, _, _)

\* Operands from left to right.
EvAll(env, mem, es) ==
    FoldLeft(LAMBDA acc, x : Bind(acc, LAMBDA vs, m : Bind(Ev(env, m, x), LAMBDA y, m2 :
                 Val(Append(vs, y), m2))), Val(<<>>, mem), es)

\* A place expression denotes its cell and path; each index is evaluated once.
PlaceOf(env, mem, e) ==
    CASE e.e = "var" -> [r |-> "place", loc |-> env[e.x].loc, path |-> env[e.x].path, mem |-> mem]
      [] e.e = "deref" -> PlaceOf(env, mem, e.of)
      [] e.e = "dot" -> WithPlace(PlaceOf(env, mem, e.of), LAMBDA p :
            [p EXCEPT !.path = Append(p.path, <<"field", e.name>>)])
      [] e.e = "at" -> WithPlace(PlaceOf(env, mem, e.of), LAMBDA p :
            Bind(Ev(env, p.mem, e.i), LAMBDA i, m :
                IF i.n < Len(Fetch(m, p).s)
                THEN [p EXCEPT !.path = Append(p.path, <<"index", i.n + 1>>), !.mem = m] ELSE Panics))
      [] OTHER -> Bind(Ev(env, mem, e), LAMBDA x, m :
            [r |-> "place", loc |-> Len(m) + 1, path |-> <<>>, mem |-> Alloc(m, x)])

\* lo..hi of a slice, checked against the array s.
Bounds(env, mem, e, s) ==
    LET at(x, m, default) == IF x = NoExpr THEN Val(Number("usize", default), m) ELSE Ev(env, m, x)
    IN Bind(at(e.lo, mem, 0), LAMBDA lo, m : Bind(at(e.hi, m, Len(s)), LAMBDA hi, m2 :
         IF lo.n <= hi.n /\ hi.n <= Len(s) THEN Val(<<lo.n, hi.n>>, m2) ELSE Panics))

\* A closure call; `return` leaves the closure only.
Apply(c, args, mem) ==
    LET s == Bindings(c.env, mem, MatchAll(c.params, args).b)
        o == Ev(s.env, s.mem, c.body)
    IN IF o.r = "ret" THEN Val(o.val, o.mem) ELSE o

-----------------------------------------------------------------------------
(* iterators *)

\* An item through the stages from n on: item, skipped or the end.
Stage(it, n, x, mem, dummy) ==
    IF n > Len(it.stages) THEN [r |-> "item", item |-> x, it |-> it, mem |-> mem]
    ELSE LET s == it.stages[n]
             skip(m) == [r |-> "skip", it |-> it, mem |-> m]
             next(y, m) == Stage(it, n + 1, y, m, dummy)
         IN CASE s.m \in {"copied", "cloned"} -> next(x, mem)
              [] s.m = "flatten" -> IF x = Absent THEN skip(mem) ELSE next(x.x, mem)
              [] s.m = "enumerate" ->
                    Stage([it EXCEPT !.stages = ReplaceAt(@, n, [s EXCEPT !.n = @ + s.step])], n + 1,
                          Tuple(<<Number("usize", s.n), x>>), mem, dummy)
              [] OTHER ->
                    LET o == Apply(s.f, <<x>>, mem)
                    IN IF o.r # "val" THEN o
                       ELSE CASE s.m = "map" -> next(o.val, o.mem)
                              [] s.m = "filter" -> IF o.val.b THEN next(x, o.mem) ELSE skip(o.mem)
                              [] s.m = "take_while" ->
                                    IF o.val.b THEN next(x, o.mem)
                                    ELSE [r |-> "end", it |-> [it EXCEPT !.items = <<>>], mem |-> o.mem]
                              [] s.m = "filter_map" ->
                                    IF o.val = Absent THEN skip(o.mem) ELSE next(o.val.x, o.mem)

NextItem(it, mem) ==
    IF it.items = <<>> THEN [r |-> "end", it |-> it, mem |-> mem]
    ELSE LET s == Stage([it EXCEPT !.items = Tail(@)], 1, Head(it.items), mem, 0)
         IN IF s.r = "skip" THEN NextItem(s.it, s.mem) ELSE s

\* Consumers: acc is the result so far.
Walk(m, it, f, acc, mem) ==
    LET s == NextItem(it, mem)
        more(a, mm) == Walk(m, s.it, f, a, mm)
        stop(a, mm) == [r |-> "val", val |-> a, mem |-> mm, it |-> s.it]
        x == s.item
        better == \/ acc = Absent
                  \/ IF m = "max" THEN x.n >= acc.x.n ELSE x.n < acc.x.n
    IN CASE s.r = "end" -> stop(IF m = "position" THEN Absent ELSE acc, s.mem)
         [] s.r = "panic" -> s
         [] m \in {"next", "next_back"} -> stop(Present(x), s.mem)
         [] m = "last" -> more(Present(x), s.mem)
         [] m = "count" -> more(Number("usize", acc.n + 1), s.mem)
         [] m \in {"max", "min"} -> more(IF better THEN Present(x) ELSE acc, s.mem)
         [] OTHER -> LET t == Apply(f, <<x>>, s.mem)
                     IN CASE t.r # "val" -> t
                          [] m = "any" /\ t.val.b -> stop(Boolean(TRUE), t.mem)
                          [] m = "all" /\ ~t.val.b -> stop(Boolean(FALSE), t.mem)
                          [] m = "find" /\ t.val.b -> stop(Present(x), t.mem)
                          [] m = "position" /\ t.val.b -> stop(Present(acc), t.mem)
                          [] m = "position" -> more(Number("usize", acc.n + 1), t.mem)
                          [] OTHER -> more(acc, t.mem)
Start(m) == CASE m \in {"count", "position"} -> Number("usize", 0) [] m = "any" -> Boolean(FALSE)
              [] m = "all" -> Boolean(TRUE) [] OTHER -> Absent

\* Read from the back, enumerate counts down from the last position.
Reversed(it) ==
    [it EXCEPT !.items = Reverse(it.items),
               !.stages = [i \in DOMAIN it.stages |->
                             [it.stages[i] EXCEPT !.n = @ + it.stages[i].step * (Len(it.items) - 1), !.step = -@]]]

IterMethod(p, it, m, args, mem) ==
    IF m \in Adapters
    THEN Val(CASE m = "rev" -> Reversed(it)
               [] m \in {"iter", "into_iter", "clone"} -> it
               [] OTHER -> [it EXCEPT !.stages = Append(@, [m |-> m, n |-> 0, step |-> 1,
                               f |-> IF args = <<>> THEN Unit ELSE args[1]])], mem)
    ELSE LET back == m = "next_back"
             w == Walk(m, IF back THEN Reversed(it) ELSE it, IF args = <<>> THEN Unit ELSE args[1],
                       Start(m), mem)
         IN IF w.r # "val" THEN w
            ELSE Val(w.val, Store(w.mem, p, IF back THEN Reversed(w.it) ELSE w.it))

-----------------------------------------------------------------------------
(* methods of the standard library *)

NumberMethod(x, m, args) ==
    LET a == x.n  b == args[1].n  size == Size(x.kind)
        option(n) == IF n \in 0..size - 1 THEN Present(Number(x.kind, n)) ELSE Absent
    IN CASE m = "wrapping_add" -> Number(x.kind, (a + b) % size)
         [] m = "wrapping_sub" -> Number(x.kind, (a - b) % size)
         [] m = "wrapping_mul" -> Number(x.kind, (a * b) % size)
         [] m = "saturating_add" -> Number(x.kind, IF a + b >= size THEN size - 1 ELSE a + b)
         [] m = "saturating_sub" -> Number(x.kind, IF a < b THEN 0 ELSE a - b)
         [] m = "checked_add" -> option(a + b) [] m = "checked_sub" -> option(a - b)
         [] m = "min" -> Number(x.kind, IF a < b THEN a ELSE b)
         [] m = "max" -> Number(x.kind, IF a < b THEN b ELSE a)
         [] m = "clamp" -> Number(x.kind, IF a < b THEN b ELSE IF a > args[2].n THEN args[2].n ELSE a)

OptionMethod(p, x, m, args, mem) ==
    LET some == x # Absent IN
    CASE m = "is_some" -> Val(Boolean(some), mem) [] m = "is_none" -> Val(Boolean(~some), mem)
      [] m \in {"as_ref", "copied", "cloned"} -> Val(x, mem)
      [] m \in {"is_some_and", "is_none_or"} ->
            IF some THEN Apply(args[1], <<x.x>>, mem) ELSE Val(Boolean(m = "is_none_or"), mem)
      [] m = "map" -> IF some THEN Bind(Apply(args[1], <<x.x>>, mem), LAMBDA y, n : Val(Present(y), n))
                      ELSE Val(x, mem)
      [] m = "and_then" -> IF some THEN Apply(args[1], <<x.x>>, mem) ELSE Val(x, mem)
      [] m = "filter" -> IF some THEN Bind(Apply(args[1], <<x.x>>, mem), LAMBDA y, n :
                                          Val(IF y.b THEN x ELSE Absent, n)) ELSE Val(x, mem)
      [] m = "map_or" -> IF some THEN Apply(args[2], <<x.x>>, mem) ELSE Val(args[1], mem)
      [] m = "or_else" -> IF some THEN Val(x, mem) ELSE Apply(args[1], <<>>, mem)
      [] m = "ok_or" -> Val(IF some THEN OkValue(x.x) ELSE ErrValue(args[1]), mem)
      [] m = "unwrap_or" -> Val(IF some THEN x.x ELSE args[1], mem)
      [] m \in {"unwrap", "expect"} -> IF some THEN Val(x.x, mem) ELSE Panics
      [] m = "take" -> Val(x, Store(mem, p, Absent))

ArrayMethod(p, x, m, args, mem) ==
    CASE m = "iter" -> Val(Iter(x.s), mem)
      [] m = "len" -> Val(Number("usize", Len(x.s)), mem)
      [] m = "is_empty" -> Val(Boolean(x.s = <<>>), mem)
      [] m = "get" -> Val(IF args[1].n < Len(x.s) THEN Present(x.s[args[1].n + 1]) ELSE Absent, mem)
      [] m = "contains" -> Val(Boolean(\E i \in DOMAIN x.s : x.s[i] = args[1]), mem)
      [] m = "fill" -> Val(Unit, Store(mem, p, Array([i \in DOMAIN x.s |-> args[1]])))
      [] m = "map" -> Bind(FoldLeft(LAMBDA acc, y : Bind(acc, LAMBDA ys, n :
                            Bind(Apply(args[1], <<y>>, n), LAMBDA z, n2 : Val(Append(ys, z), n2))),
                            Val(<<>>, mem), x.s), LAMBDA ys, n : Val(Array(ys), n))

Builtin(p, x, m, args, mem) ==
    CASE m = "clone" -> Val(x, mem)
      [] m = "clamp" /\ args[1].n > args[2].n -> Panics
      [] x.v = "number" -> Val(NumberMethod(x, m, args), mem)
      [] x.v \in {"present", "absent"} -> OptionMethod(p, x, m, args, mem)
      [] x.v = "array" -> ArrayMethod(p, x, m, args, mem)
      [] m = "then_some" -> Val(IF x.b THEN Present(args[1]) ELSE Absent, mem)
      [] m \in {"is_ok", "is_err"} -> Val(Boolean((x.tag = "Ok") = (m = "is_ok")), mem)
      [] m = "ok" -> Val(IF x.tag = "Ok" THEN Present(x.f["0"]) ELSE Absent, mem)
      [] m = "unwrap_or" -> Val(IF x.tag = "Ok" THEN x.f["0"] ELSE args[1], mem)

SliceMethod(env, mem, e) ==
    WithPlace(PlaceOf(env, mem, e.of.of), LAMBDA p :
        LET s == Fetch(p.mem, p).s IN
        Bind(Bounds(env, p.mem, e.of, s), LAMBDA b, m : Bind(EvAll(env, m, e.args), LAMBDA args, m2 :
            LET part == SubSeq(s, b[1] + 1, b[2])
                with(t) == Val(Unit, Store(m2, p, Array(SubSeq(s, 1, b[1]) \o t \o SubSeq(s, b[2] + 1, Len(s)))))
            IN CASE e.m = "len" -> Val(Number("usize", Len(part)), m2)
                 [] e.m = "contains" -> Val(Boolean(\E i \in DOMAIN part : part[i] = args[1]), m2)
                 [] e.m = "iter" -> Val(Iter(part), m2)
                 [] e.m = "sort_unstable" -> with(SortSeq(part, LAMBDA a, c : a.n < c.n))
                 [] e.m = "rotate_left" ->
                        IF args[1].n > Len(part) THEN Panics
                        ELSE with(SubSeq(part, args[1].n + 1, Len(part)) \o SubSeq(part, 1, args[1].n)))))

\* A call of a crate function: `self` is the caller's place unless it is owned.
CallMethod(d, p, args, mem) ==
    LET cells == IF d.recv = "owned" THEN Alloc(mem, Fetch(mem, p)) ELSE mem
        self == CASE d.recv = "none" -> <<>>
                  [] d.recv = "owned" -> ("self" :> [loc |-> Len(cells), path |-> <<>>])
                  [] OTHER -> ("self" :> [loc |-> p.loc, path |-> p.path])
        consts == [x \in ToSet(d.consts) |-> Number("usize", ConstValue[d.owner][x])]
        s == Bindings(self, cells, MatchAll([i \in DOMAIN d.params |-> d.params[i].pat], args).b @@ consts)
        o == Ev(s.env, s.mem, d.body)
    IN IF o.r = "ret" THEN Val(o.val, o.mem) ELSE o

MethodCall(env, mem, e) ==
    IF e.of.e = "slice" THEN SliceMethod(env, mem, e)
    ELSE WithPlace(PlaceOf(env, mem, e.of), LAMBDA p :
        LET x == Fetch(p.mem, p) IN
        Bind(EvAll(env, p.mem, e.args), LAMBDA args, m :
            CASE x.v = "iter" -> IterMethod(p, x, e.m, args, m)
              [] <<OwnerOf(x), e.m>> \in DOMAIN Methods ->
                    CallMethod(Methods[<<OwnerOf(x), e.m>>], p, args, m)
              [] OTHER -> Builtin(p, x, e.m, args, m)))

-----------------------------------------------------------------------------
(* statements and control *)

Stmts(env, mem, ss, i) ==
    IF i > Len(ss) THEN Val(Unit, mem)
    ELSE LET s == ss[i]
             more(en, m) == Stmts(en, m, ss, i + 1)
             bound(en, m, b) == LET n == Bindings(en, m, b) IN more(n.env, n.mem)
         IN CASE s.s = "tail" -> Ev(env, mem, s.of)
              [] s.s = "semi" -> Bind(Ev(env, mem, s.of), LAMBDA x, m : more(env, m))
              [] s.s = "let" -> Bind(Ev(env, mem, s.init), LAMBDA x, m : bound(env, m, Matches(s.pat, x).b))
              [] s.s = "letelse" -> Bind(Ev(env, mem, s.init), LAMBDA x, m :
                    IF Matches(s.pat, x).ok THEN bound(env, m, Matches(s.pat, x).b) ELSE Ev(env, m, s.no))

\* A guard is tried for every case of an or-pattern.
Cases(arm) == IF arm.pat.q = "or" THEN [i \in DOMAIN arm.pat.cases |-> [arm EXCEPT !.pat = arm.pat.cases[i]]] ELSE <<arm>>
Arms(env, mem, x, arms, i) ==
    LET a == arms[i]
        t == Matches(a.pat, x)
        s == Bindings(env, mem, t.b)
        skip(m) == Arms(env, m, x, arms, i + 1)
    IN CASE ~t.ok -> skip(mem)
         [] a.guard = NoExpr -> Ev(s.env, s.mem, a.body)
         [] OTHER -> Bind(Ev(s.env, s.mem, a.guard), LAMBDA g, m :
                        IF g.b THEN Ev(s.env, m, a.body) ELSE skip(m))

\* What a loop does with the outcome of one round.
Round(o, label, More(_)) ==
    CASE o.r = "val" -> More(o.mem)
      [] o.r = "continue" /\ o.label \in {NoLabel, label} -> More(o.mem)
      [] o.r = "break" /\ o.label \in {NoLabel, label} -> Val(o.val, o.mem)
      [] OTHER -> o

Again(env, mem, e) ==
    IF e.e = "loop" THEN Round(Ev(env, mem, e.body), e.label, LAMBDA m : Again(env, m, e))
    ELSE Bind(Ev(env, mem, e.c), LAMBDA c, m :
            IF c.b THEN Round(Ev(env, m, e.body), e.label, LAMBDA m2 : Again(env, m2, e))
            ELSE Val(Unit, m))

Iterate(env, mem, e, it) ==
    LET s == NextItem(it, mem)
        b == Bindings(env, s.mem, Matches(e.pat, s.item).b)
    IN CASE s.r = "end" -> Val(Unit, s.mem)
         [] s.r = "panic" -> s
         [] OTHER -> Round(Ev(b.env, b.mem, e.body), e.label, LAMBDA m : Iterate(env, m, e, s.it))

Callback(body) == [params |-> <<[q |-> "ident", x |-> "x", mut |-> FALSE]>>, body |-> body, move |-> FALSE]

\* A `move` closure owns copies of the cells it can see.
CloseOver(env, mem, e) ==
    LET cells == FoldSet(LAMBDA x, s : Append(s, x), <<>>, DOMAIN env \ {"self"})
        copies == [x \in ToSet(cells) |->
                     [loc |-> Len(mem) + (CHOOSE i \in DOMAIN cells : cells[i] = x), path |-> <<>>]]
        closed(en) == [v |-> "closure", params |-> e.params, body |-> e.body, env |-> en]
    IN IF e.move THEN Val(closed(copies @@ env), mem \o [i \in DOMAIN cells |-> Fetch(mem, env[cells[i]])])
       ELSE Val(closed(env), mem)

\* A length is a value or the impl's constant.
Count(env, mem, len) == IF len[1] = "value" THEN len[2] ELSE Fetch(mem, env[len[2]]).n

Ev(env, mem, e) ==
    CASE e.e = "lit" -> Val(Number(e.kind, e.n), mem)
      [] e.e = "bool" -> Val(Boolean(e.b), mem)
      [] e.e = "max" -> Val(Number(e.kind, Size(e.kind) - 1), mem)
      [] e.e \in {"var", "dot", "at", "deref"} ->
            WithPlace(PlaceOf(env, mem, e), LAMBDA p : Val(Fetch(p.mem, p), p.mem))
      [] e.e = "slice" -> WithPlace(PlaceOf(env, mem, e.of), LAMBDA p :
            LET s == Fetch(p.mem, p).s IN
            Bind(Bounds(env, p.mem, e, s), LAMBDA b, m : Val(Array(SubSeq(s, b[1] + 1, b[2])), m)))
      [] e.e = "refmut" ->
            LET whole == [lo |-> NoExpr, hi |-> NoExpr]
                part  == IF e.of.e = "slice" THEN e.of ELSE whole
            IN WithPlace(PlaceOf(env, mem, IF e.of.e = "slice" THEN e.of.of ELSE e.of), LAMBDA p :
                Bind(Bounds(env, p.mem, part, Fetch(p.mem, p).s), LAMBDA b, m :
                    Val(Iter([i \in 1..b[2] - b[1] |-> Ref(p.loc, Append(p.path, <<"index", b[1] + i>>))]), m)))
      [] e.e = "range" -> Bind(EvAll(env, mem, <<e.lo, e.hi>>), LAMBDA b, m :
            Val(Iter([i \in 1..(b[2].n - b[1].n) |-> Number(b[1].kind, b[1].n + i - 1)]), m))
      [] e.e = "not" -> Bind(Ev(env, mem, e.of), LAMBDA x, m : Val(Boolean(~x.b), m))
      [] e.e = "bin" -> Bind(Ev(env, mem, e.l), LAMBDA x, m :
            IF e.op \in {"&&", "||"} /\ x.b = (e.op = "||") THEN Val(x, m)
            ELSE Bind(Ev(env, m, e.r), LAMBDA y, m2 :
                IF e.op \in {"&&", "||"} THEN Val(y, m2)
                ELSE LET o == Operate(Checked(m2), e.op, x, y)
                     IN IF o.r = "val" THEN Val(o.val, m2) ELSE o))
      [] e.e = "assign" -> Bind(Ev(env, mem, e.r), LAMBDA x, m :
            WithPlace(PlaceOf(env, m, e.l), LAMBDA p : Val(Unit, Store(p.mem, p, x))))
      [] e.e = "opassign" -> Bind(Ev(env, mem, e.r), LAMBDA y, m :
            WithPlace(PlaceOf(env, m, e.l), LAMBDA p :
                LET o == Operate(Checked(p.mem), e.op, Fetch(p.mem, p), y)
                IN IF o.r = "val" THEN Val(Unit, Store(p.mem, p, o.val)) ELSE o))
      [] e.e = "if" -> Bind(Ev(env, mem, e.c), LAMBDA c, m :
            IF c.b THEN Ev(env, m, e.yes) ELSE IF e.no = NoExpr THEN Val(Unit, m) ELSE Ev(env, m, e.no))
      [] e.e = "iflet" -> Bind(Ev(env, mem, e.of), LAMBDA x, m :
            LET t == Matches(e.pat, x)  s == Bindings(env, m, t.b)
            IN IF t.ok THEN Ev(s.env, s.mem, e.yes)
               ELSE IF e.no = NoExpr THEN Val(Unit, m) ELSE Ev(env, m, e.no))
      [] e.e = "match" -> Bind(Ev(env, mem, e.of), LAMBDA x, m : Arms(env, m, x, FlattenSeq([i \in DOMAIN e.arms |-> Cases(e.arms[i])]), 1))
      [] e.e = "block" -> Stmts(env, mem, e.stmts, 1)
      [] e.e = "return" -> Bind(Ev(env, mem, e.of), LAMBDA x, m : [r |-> "ret", val |-> x, mem |-> m])
      [] e.e = "try" -> Bind(Ev(env, mem, e.of), LAMBDA x, m :
            CASE x.v = "present" -> Val(x.x, m)
              [] x.v = "variant" /\ x.tag = "Ok" -> Val(x.f["0"], m)
              [] OTHER -> [r |-> "ret", val |-> x, mem |-> m])
      [] e.e \in {"loop", "while"} -> Again(env, mem, e)
      [] e.e = "for" -> Bind(Ev(env, mem, e.of), LAMBDA x, m :
            Iterate(env, m, e, IF x.v = "array" THEN Iter(x.s) ELSE x))
      [] e.e = "break" -> Bind(IF e.of = NoExpr THEN Val(Unit, mem) ELSE Ev(env, mem, e.of), LAMBDA x, m :
            [r |-> "break", label |-> e.label, val |-> x, mem |-> m])
      [] e.e = "continue" -> [r |-> "continue", label |-> e.label, mem |-> mem]
      [] e.e = "closure" -> CloseOver(env, mem, e)
      [] e.e = "somefn" -> CloseOver(env, mem, Callback([e |-> "some", of |-> [e |-> "var", x |-> "x"]]))
      [] e.e = "methodfn" -> CloseOver(env, mem,
            Callback([e |-> "method", of |-> [e |-> "var", x |-> "x"], m |-> e.m, args |-> <<>>]))
      [] e.e = "call" -> Bind(EvAll(env, mem, e.args), LAMBDA args, m : Apply(Fetch(m, env[e.f]), args, m))
      [] e.e = "assoc" /\ <<e.owner, e.f>> \notin DOMAIN Methods -> Val(Default(<<"named", e.owner, <<>>>>), mem)
      [] e.e = "assoc" -> Bind(EvAll(env, mem, e.args), LAMBDA args, m :
            CallMethod(Methods[<<e.owner, e.f>>], <<>>, args, m))
      [] e.e = "method" -> MethodCall(env, mem, e)
      [] e.e = "fromfn" -> Bind(Ev(env, mem, e.f), LAMBDA f, m :
            ArrayMethod(<<>>, Array([i \in 1..Count(env, m, e.len) |-> Number("usize", i - 1)]), "map", <<f>>, m))
      [] e.e = "none" -> Val(Absent, mem)
      [] e.e = "some" -> Bind(Ev(env, mem, e.of), LAMBDA x, m : Val(Present(x), m))
      [] e.e = "ok" -> Bind(Ev(env, mem, e.of), LAMBDA x, m : Val(OkValue(x), m))
      [] e.e = "err" -> Bind(Ev(env, mem, e.of), LAMBDA x, m : Val(ErrValue(x), m))
      [] e.e = "tuple" -> Bind(EvAll(env, mem, e.es), LAMBDA xs, m : Val(IF xs = <<>> THEN Unit ELSE Tuple(xs), m))
      [] e.e = "array" -> Bind(EvAll(env, mem, e.es), LAMBDA xs, m : Val(Array(xs), m))
      [] e.e = "repeat" -> Bind(Ev(env, mem, e.of), LAMBDA x, m : Val(Array([i \in 1..Count(env, m, e.len) |-> x]), m))
      [] e.e = "struct" -> Bind(EvAll(env, mem, [i \in DOMAIN e.fs |-> e.fs[i][2]]), LAMBDA xs, m :
            LET f == [n \in {e.fs[i][1] : i \in DOMAIN e.fs} |-> xs[CHOOSE i \in DOMAIN e.fs : e.fs[i][1] = n]]
            IN Val(IF e.tag = NoLabel THEN Record(e.owner, f) ELSE Variant(e.owner, e.tag, f), m))
      [] e.e = "variant" -> Bind(EvAll(env, mem, e.es), LAMBDA xs, m :
            Val(Variant(e.owner, e.tag, IF xs = <<>> THEN <<>> ELSE Tuple(xs).f), m))
      [] e.e = "cast" -> Bind(Ev(env, mem, e.of), LAMBDA x, m : Val(Number(e.kind, x.n % Size(e.kind)), m))
      [] e.e = "tryfrom" -> Bind(Ev(env, mem, e.of), LAMBDA x, m :
            Val(IF x.n < Size(e.kind) THEN OkValue(Number(e.kind, x.n)) ELSE ErrValue(Unit), m))
      [] e.e = "panic" -> Panics
      [] e.e = "assert" -> Bind(Ev(env, mem, e.of), LAMBDA c, m : IF c.b THEN Val(Unit, m) ELSE Panics)
      [] e.e = "matches" -> Bind(Ev(env, mem, e.of), LAMBDA x, m : Val(Boolean(Matches(e.pat, x).ok), m))

\* A run of method d: the result and the final receiver, or a panic.
RunMethod(checked, d, self, args) ==
    LET o == CallMethod(d, [loc |-> 2, path |-> <<>>], args, <<Boolean(checked), self>>)
    IN IF o.r = "val" THEN [r |-> "ok", val |-> o.val, self |-> o.mem[2]] ELSE Panics
=============================================================================
