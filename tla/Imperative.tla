----------------------------- MODULE Imperative -----------------------------
(***************************************************************************)
(* Complete method bodies lowered to the machine (methods/imperative.rs).    *)
(*                                                                         *)
(* cx is the compiler's state: the names in scope (env, clos, iters), the    *)
(* slots of an or-pattern's first case (rebind), the next slot and label,    *)
(* the functions being compiled (stack), the functions used (inlined) and    *)
(* the function table (fns).  f is the frame: the definition, its constants, *)
(* self, the result type and the loops around.  want is the expected type or *)
(* None.  Every result carries the state the compiler is left in, a refusal  *)
(* too: some callers try again after one.                                   *)
(***************************************************************************)
EXTENDS MethodTypes

CONSTANT Methods    \* [<<owner, name>> -> [owner, name, recv, params, consts, out, body]]

Got(cx, code, ty) == [ok |-> TRUE, cx |-> cx, code |-> code, ty |-> ty]
No(cx)            == [ok |-> FALSE, cx |-> cx]
Then(r, F(_))     == IF r.ok THEN F(r) ELSE r
Require(r, ty)    == IF r.ok /\ ~TyEq(r.ty, ty) THEN No(r.cx) ELSE r
Unless(bad, r, F(_)) == IF bad THEN No(r.cx) ELSE F(r)
InScope(r, cx)    == [r EXCEPT !.cx = [@ EXCEPT !.env = cx.env, !.clos = cx.clos, !.iters = cx.iters]]
InEnv(r, cx)      == [r EXCEPT !.cx = [@ EXCEPT !.env = cx.env]]

\* n new slots, the first of them cx.next.
Fresh(cx, n)  == [cx EXCEPT !.next = @ + n]
Labels(cx, n) == [cx EXCEPT !.labels = @ + n]
BindName(cx, x, ty, mut) ==
    [cx EXCEPT !.next = @ + 1,
               !.env = Put(@, x, [slot |-> cx.next, ty |-> ty, mut |-> mut, alias |-> None])]

RECURSIVE Lower(_, _, _, _), LowerBlock(_, _, _, _), Statements(_, _, _, _, _, _), PlaceIn(_, _, _),
          Pattern(_, _, _, _), Pipeline(_, _, _), ApplyInputs(_, _, _, _), FunctionOf(_, _), IsIterator(_, _, _)

\* An expression whose type must be ty.
Typed(cx, f, e, ty) == Require(Lower(cx, f, e, ty), ty)

FrameSelf(f) ==
    IF f.recv # None THEN f.recv.ty
    ELSE Named(f.def.owner, [i \in DOMAIN f.def.consts |-> Konst(<<"param", f.def.consts[i]>>, f.consts)])
TyOf(f, t) == TyIn(t, f.consts, FrameSelf(f))

-----------------------------------------------------------------------------
(* syntax *)

Untyped(e) == e.e = "lit" /\ ~e.written

RECURSIVE Diverges(_)
BlockDiverges(ss) == \E i \in DOMAIN ss : ss[i].s \in {"semi", "tail"} /\ Diverges(ss[i].of)
Diverges(e) ==
    \/ e.e \in {"return", "break", "continue", "panic"}
    \/ e.e = "block" /\ BlockDiverges(e.stmts)

-----------------------------------------------------------------------------
(* places *)

APlace(cx, slot, path, ty, setup, mut) ==
    [ok |-> TRUE, cx |-> cx, slot |-> slot, path |-> path, ty |-> ty, setup |-> setup, mut |-> mut]

ThroughMutRef(t, n) ==
    IsStruct(t) /\ \E i \in DOMAIN Structs[t[2]].fields :
        Structs[t[2]].fields[i][1] = n /\ Structs[t[2]].fields[i][2][1] = "mutref"

PlaceIn(cx, f, e) ==
    CASE e.e = "deref" -> PlaceIn(cx, f, e.of)
      [] e.e = "var" /\ e.x = "self" ->
            IF f.recv = None THEN No(cx) ELSE APlace(cx, f.recv.slot, <<>>, f.recv.ty, <<>>, f.recv.mut)
      [] e.e = "var" ->
            IF e.x \notin DOMAIN cx.env THEN No(cx)
            ELSE LET b == cx.env[e.x]
                 IN IF b.alias # None THEN APlace(cx, b.alias[1], b.alias[2], b.ty, <<>>, TRUE)
                    ELSE APlace(cx, b.slot, <<>>, b.ty, <<>>, b.mut)
      [] e.e = "dot" -> Then(PlaceIn(cx, f, e.of), LAMBDA p :
            Unless(FieldType(p.ty, e.name) = None, p, LAMBDA q :
                APlace(q.cx, q.slot, Append(q.path, <<"field", e.name>>), FieldType(q.ty, e.name),
                       q.setup, q.mut \/ ThroughMutRef(q.ty, e.name))))
      [] e.e = "at" -> Then(PlaceIn(cx, f, e.of), LAMBDA p :
            Unless(~Is(p.ty, "array"), p, LAMBDA q :
                Then(Typed(q.cx, f, e.i, Usize), LAMBDA i :
                    APlace(Fresh(i.cx, 1), q.slot, Append(q.path, <<"index", i.cx.next>>), q.ty[2],
                           Append(q.setup, Write(i.cx.next, i.code)), q.mut))))
      [] OTHER -> No(cx)

PlaceRead(p) == FoldLeft(LAMBDA code, step : IF step[1] = "field" THEN Field(code, step[2])
                                             ELSE Index(code, Read(step[2])), Read(p.slot), p.path)
PlaceWrite(p, code) == IF p.path = <<>> THEN Write(p.slot, code) ELSE Assign(p.slot, p.path, code)

\* The value is evaluated before the place's indices.
LowerStore(cx, f, target, code, ty) ==
    Then(PlaceIn(cx, f, target), LAMBDA p :
        Unless(~p.mut \/ ~TyEq(ty, p.ty), p, LAMBDA q :
            Got(Fresh(q.cx, 1),
                Chain(<<Write(q.cx.next, code)>> \o q.setup \o <<PlaceWrite(q, Read(q.cx.next))>>), UnitT)))

-----------------------------------------------------------------------------
(* irrefutable patterns: bind the value in slot *)

Parts(cx, parts) == [ok |-> TRUE, cx |-> cx, parts |-> parts]

RECURSIVE Destructure(_, _, _, _)
Destructure(cx, pat, slot, ty) ==
    CASE pat.q = "ident" ->
            IF ~Droppable(ty) THEN No(cx)
            ELSE Parts(BindName(cx, pat.x, ty, pat.mut), <<Write(cx.next, Read(slot))>>)
      [] pat.q = "wild" -> Parts(cx, <<>>)
      [] pat.q = "tuple" ->
            IF ~Is(ty, "tuple") \/ Len(ty[2]) # Len(pat.subs) THEN No(cx)
            ELSE FoldLeft(LAMBDA acc, i : Then(acc, LAMBDA a :
                    Then(Destructure(Fresh(a.cx, 1), pat.subs[i], a.cx.next, ty[2][i]), LAMBDA sub :
                        Parts(sub.cx, a.parts \o <<Write(a.cx.next, Field(Read(slot), ToString(i - 1)))>>
                                      \o sub.parts))),
                    Parts(cx, <<>>), [i \in DOMAIN pat.subs |-> i])
      [] OTHER -> No(cx)

-----------------------------------------------------------------------------
(* refutable patterns *)

Shape(cx, pat) == [ok |-> TRUE, cx |-> cx, pat |-> pat]

\* Sub-patterns against their types, from left to right; pairs <<name, pattern>>.
SubPatterns(cx, f, names, pats, types) ==
    FoldLeft(LAMBDA acc, i : Then(acc, LAMBDA a : Then(Pattern(a.cx, f, pats[i], types[i]), LAMBDA p :
                 Shape(p.cx, Append(a.pat, <<names[i], p.pat>>)))),
             Shape(cx, <<>>), [i \in DOMAIN pats |-> i])

\* Fault: every case has slots of its own.
SeparateSlots(cx, f, cases, ty) ==
    Then(FoldLeft(LAMBDA acc, case : Then(acc, LAMBDA a : Then(Pattern(a.cx, f, case, ty), LAMBDA r :
             Shape(r.cx, Append(a.pat, r.pat)))), Shape(cx, <<>>), cases),
         LAMBDA all : Shape(all.cx, Alternatives(all.pat)))

\* Every case binds the names of the first one, to the same slots.
OrPattern(cx, f, cases, ty) ==
    Then(Pattern(cx, f, Head(cases), ty), LAMBDA first :
        LET bound == {x \in DOMAIN first.cx.env :
                        x \notin DOMAIN cx.env \/ cx.env[x].slot # first.cx.env[x].slot}
            again == [x \in bound |-> first.cx.env[x]]
        IN Then(FoldLeft(LAMBDA acc, case : Then(acc, LAMBDA a :
                    LET p == Pattern([a.cx EXCEPT !.rebind = again], f, case, ty)
                        q == [p EXCEPT !.cx = [@ EXCEPT !.rebind = a.cx.rebind]]
                    IN Then(q, LAMBDA r : Shape(r.cx, Append(a.pat, r.pat)))),
                Shape(first.cx, <<first.pat>>), Tail(cases)),
             LAMBDA all : Shape(all.cx, Alternatives(all.pat))))

\* The enum a variant path names, taken from the matched type when it agrees.
VariantOwner(f, p, ty) ==
    IF p.via = "Self" THEN FrameSelf(f)
    ELSE IF Is(ty, "named") /\ ty[2] = p.owner THEN ty ELSE FreshInstance(p.owner)

StructPattern(cx, f, p, ty) ==
    LET variant == p.tag # NoLabel
        owner   == IF variant THEN VariantOwner(f, p, ty) ELSE ty
        shaped  == IF variant THEN IsEnum(owner) /\ p.tag \in DOMAIN Enums[owner[2]].tags ELSE IsStruct(owner)
        members == IF variant THEN VariantMembers(owner, p.tag) ELSE RecordMembers(owner)
        names   == [i \in DOMAIN p.fs |-> p.fs[i][1]]
        types   == [i \in DOMAIN p.fs |-> MemberType(members, names[i])]
    IN IF ~shaped THEN No(cx)
       ELSE IF None \in ToSet(types) \/ (~p.rest /\ Len(p.fs) # Len(members)) THEN No(cx)
       ELSE Then(SubPatterns(cx, f, names, [i \in DOMAIN p.fs |-> p.fs[i][2]], types), LAMBDA s :
                Shape(s.cx, IF variant THEN PVariant(owner[2], p.tag, s.pat) ELSE PRecord(owner[2], s.pat)))

VariantPattern(cx, f, p, ty) ==
    LET owner == VariantOwner(f, p, ty) IN
    IF ~IsEnum(owner) THEN No(cx)
    ELSE IF p.tag \notin DOMAIN Enums[owner[2]].tags THEN No(cx)
    ELSE LET members == VariantMembers(owner, p.tag)
         IN IF Len(members) # Len(p.subs) THEN No(cx)
            ELSE Then(SubPatterns(cx, f, [i \in DOMAIN members |-> members[i][1]], p.subs,
                                  [i \in DOMAIN members |-> members[i][2]]), LAMBDA s :
                     Shape(s.cx, PVariant(owner[2], p.tag, s.pat)))

Pattern(cx, f, p, ty) ==
    LET inside(sub, t, Wrap(_)) == Then(Pattern(cx, f, sub, t), LAMBDA s : Shape(s.cx, Wrap(s.pat))) IN
    CASE p.q = "wild" -> Shape(cx, PAny)
      [] p.q = "or" -> OrPattern(cx, f, p.cases, ty)
      [] p.q = "none" -> IF Is(ty, "option") THEN Shape(cx, PAbsent) ELSE No(cx)
      [] p.q = "ident" ->
            IF cx.rebind = None THEN Shape(BindName(cx, p.x, ty, p.mut), PBind(cx.next))
            ELSE IF p.x \in DOMAIN cx.rebind
            THEN (IF TyEq(cx.rebind[p.x].ty, ty) THEN Shape(cx, PBind(cx.rebind[p.x].slot)) ELSE No(cx))
            ELSE No(cx)
      [] p.q = "some" ->
            IF Is(ty, "option") THEN inside(p.sub, ty[2], LAMBDA s : PPresent(s)) ELSE No(cx)
      [] p.q = "ok" ->
            IF Is(ty, "result") THEN inside(p.sub, ty[2], LAMBDA s : PVariant("Result", "Ok", <<<<"0", s>>>>))
            ELSE No(cx)
      [] p.q = "err" ->
            IF Is(ty, "result") THEN inside(p.sub, ty[3], LAMBDA s : PVariant("Result", "Err", <<<<"0", s>>>>))
            ELSE No(cx)
      [] p.q = "variant" -> VariantPattern(cx, f, p, ty)
      [] p.q = "struct" -> StructPattern(cx, f, p, ty)
      [] p.q = "tuple" ->
            IF ~Is(ty, "tuple") \/ Len(ty[2]) # Len(p.subs) THEN No(cx)
            ELSE Then(SubPatterns(cx, f, [i \in DOMAIN p.subs |-> ToString(i - 1)], p.subs, ty[2]), LAMBDA s :
                     Shape(s.cx, PRecord("()", s.pat)))

-----------------------------------------------------------------------------
(* match *)

\* The arms of a match; the first arm that completes gives the type.
LowerArms(cx, f, code, ty, arms, want) ==
    LET arm(a, n) ==
            Then(Pattern(a.cx, f, arms[n].pat, ty), LAMBDA p :
                Then(Lower(p.cx, f, arms[n].body, a.ty), LAMBDA b :
                    LET dead == Diverges(arms[n].body)
                        checked == a.ty # None /\ ((~dead /\ ~TyEq(b.ty, UnitT)) \/ a.ty = UnitT)
                        all == Append(a.code, <<p.pat, b.code>>)
                    IN CASE checked /\ ~dead /\ ~TyEq(b.ty, a.ty) -> No(b.cx)
                         [] a.ty = None /\ ~dead -> InEnv(Got(b.cx, all, b.ty), a.cx)
                         [] OTHER -> InEnv(Got(b.cx, all, a.ty), a.cx)))
    IN Then(FoldLeft(LAMBDA acc, n : Then(acc, LAMBDA a : arm(a, n)), Got(cx, <<>>, want),
                     [n \in DOMAIN arms |-> n]),
            LAMBDA r : Got(r.cx, Choose(code, r.code), IF r.ty = None THEN UnitT ELSE r.ty))

\* A failed guard falls through to the next arm.
GuardCode(condition, taken) == Branch(condition, taken, NoValue)

\* With guards every case is tried in turn and leaves the match when taken.
GuardedArms(cx, f, code, ty, arms, want) ==
    LET done  == cx.labels + 1
        value == cx.next
        cases(a) == IF a.pat.q = "or" THEN a.pat.cases ELSE <<a.pat>>
        tried == FlattenSeq([n \in DOMAIN arms |->
                    [i \in DOMAIN cases(arms[n]) |-> [pat |-> cases(arms[n])[i], arm |-> arms[n]]]])
        guard(c, a, taken) ==
            IF a.guard = NoExpr THEN Got(c, taken, Bool)
            ELSE Then(Typed(c, f, a.guard, Bool), LAMBDA g : Got(g.cx, GuardCode(g.code, taken), Bool))
        one(acc, t) ==
            Then(Pattern(acc.cx, f, t.pat, ty), LAMBDA p :
            Then(Lower(p.cx, f, t.arm.body, acc.ty), LAMBDA b :
            Then(guard(b.cx, t.arm, Exit(done, b.code)), LAMBDA g :
                LET dead == Diverges(t.arm.body)
                    all == Append(acc.code, Choose(Read(value), <<<<p.pat, g.code>>, <<PAny, NoValue>>>>))
                IN CASE ~dead /\ acc.ty # None /\ ~TyEq(b.ty, acc.ty) -> No(g.cx)
                     [] ~dead /\ acc.ty = None -> InEnv(Got(g.cx, all, b.ty), acc.cx)
                     [] OTHER -> InEnv(Got(g.cx, all, acc.ty), acc.cx))))
    IN Then(FoldLeft(LAMBDA acc, t : Then(acc, LAMBDA a : one(a, t)),
                     Got(Fresh(Labels(cx, 1), 1), <<Write(value, code)>>, want), tried),
            LAMBDA r : Got(r.cx, Block(done, Chain(Append(r.code, Panic("no match arm")))),
                           IF r.ty = None THEN UnitT ELSE r.ty))
-----------------------------------------------------------------------------
(* closures: inlined where they are applied *)

Ident(x) == [q |-> "ident", x |-> x, mut |-> FALSE]
Var(x)   == [e |-> "var", x |-> x]

\* The closure an argument denotes, with everything in scope where it is written.
ClosureSyntax(cx, f, e) ==
    LET here(params, body) == [params |-> params, body |-> body, env |-> cx.env, clos |-> cx.clos, f |-> f]
    IN CASE e.e = "closure" -> here(e.params, e.body)
         [] e.e = "somefn" -> here(<<Ident("x")>>, [e |-> "some", of |-> Var("x")])
         [] e.e = "methodfn" -> here(<<Ident("x")>>, [e |-> "method", of |-> Var("x"), m |-> e.m, args |-> <<>>])
         [] e.e = "var" /\ e.x \in DOMAIN cx.clos -> cx.clos[e.x]
         [] OTHER -> None

ClosureArgument(cx, e) == e.e = "closure" \/ (e.e = "var" /\ e.x \in DOMAIN cx.clos)

ByValue(ty)  == [by |-> "value", ty |-> ty]
ByClosure(c) == [by |-> "closure", c |-> c]

\* Fault: the body sees the names of its caller.
CallerScope(cx, c) == cx

ClosureScope(cx, c) == [cx EXCEPT !.env = c.env, !.clos = c.clos]

\* The body is compiled in the scope where the closure was written; `return` leaves it only.
ApplyInputs(cx, c, inputs, want) ==
    LET start == Parts(ClosureScope(cx, c), <<>>)
        input(a, i) ==
            IF inputs[i].by = "closure"
            THEN [a EXCEPT !.cx = [@ EXCEPT !.clos = Put(@, c.params[i].x, inputs[i].c)]]
            ELSE Then(Destructure(Fresh(a.cx, 1), c.params[i], a.cx.next, inputs[i].ty), LAMBDA d :
                    [d EXCEPT !.parts = a.parts \o @] @@ [slots |-> Append(a.slots, a.cx.next)])
        bound == FoldLeft(LAMBDA acc, i : Then(acc, LAMBDA a : input(a, i)), start @@ [slots |-> <<>>],
                          [i \in DOMAIN inputs |-> i])
        body  == Then(bound, LAMBDA b :
                    Lower(b.cx, [c.f EXCEPT !.out = want, !.loops = <<>>], c.body, want))
        back(r) == [r EXCEPT !.cx = [@ EXCEPT !.env = cx.env, !.clos = cx.clos]]
    IN CASE c = None -> No(cx)
         [] Len(c.params) # Len(inputs) -> No(cx)
         [] OTHER -> back(Then(body, LAMBDA b :
                Got(b.cx, Chain(Append(bound.parts, Scope(b.code))), b.ty) @@ [slots |-> bound.slots]))
ApplyTo(cx, c, types, want) == ApplyInputs(cx, c, [i \in DOMAIN types |-> ByValue(types[i])], want)

CallApplied(a, args) == Chain([i \in DOMAIN args |-> Write(a.slots[i], args[i])] \o <<a.code>>)

-----------------------------------------------------------------------------
(* iterators *)

Numbers(cx, setup, kind, lo, hi, item) ==
    [ok |-> TRUE, cx |-> cx, setup |-> setup, source |-> "numbers", kind |-> kind, array |-> 0, lo |-> lo, hi |-> hi,
     places |-> None, rev |-> FALSE, stages |-> <<>>, item |-> item]
Walker(cx, setup, array, lo, hi, places, item) ==
    [ok |-> TRUE, cx |-> cx, setup |-> setup, source |-> "elements", kind |-> "usize", array |-> array, lo |-> lo,
     hi |-> hi, places |-> places, rev |-> FALSE, stages |-> <<>>, item |-> item]
OrderDependent(p) == \E i \in DOMAIN p.stages : p.stages[i].s \in {"enumerate", "take_while"}
Staged(p, cx, stage, item) == [p EXCEPT !.cx = cx, !.stages = Append(@, stage), !.item = item]

\* Fault: a slice is not checked against its array.
UncheckedBounds(cx, f, range, array) ==
    LET at(c, e, default) == IF e = NoExpr THEN Got(c, default, Usize) ELSE Typed(c, f, e, Usize) IN
    Then(at(cx, range.lo, Counter(0)), LAMBDA lo : Then(at(lo.cx, range.hi, Length(Read(array))), LAMBDA hi :
        Parts(hi.cx, <<Write(array + 1, lo.code), Write(array + 2, hi.code)>>)))

\* lo..hi, the whole array where a bound is left out; a slice outside it panics.
SliceBounds(cx, f, range, array) ==
    LET at(c, e, default) == IF e = NoExpr THEN Got(c, default, Usize) ELSE Typed(c, f, e, Usize) IN
    Then(at(cx, range.lo, Counter(0)), LAMBDA lo : Then(at(lo.cx, range.hi, Length(Read(array))), LAMBDA hi :
        Parts(hi.cx, <<Write(array + 1, lo.code), Write(array + 2, hi.code),
            Branch(Binary("&&", Binary("<=", Read(array + 1), Read(array + 2)),
                                Binary("<=", Read(array + 2), Length(Read(array)))),
                   NoValue, Panic("slice index"))>>)))
WholeRange == [lo |-> NoExpr, hi |-> NoExpr]

\* The elements of an array or of a slice of one, by value or by place.
Elements(cx, f, e, mutable) ==
    LET base  == IF e.e = "slice" THEN e.of ELSE e
        array == cx.next
        c     == Fresh(cx, 3)
        first == IF mutable
                 THEN Then(PlaceIn(c, f, base), LAMBDA p :
                        Unless(~p.mut, p, LAMBDA q : Got(q.cx, PlaceRead(q), q.ty)
                               @@ [setup |-> q.setup, places |-> <<q.slot, q.path>>]))
                 ELSE Then(Lower(c, f, base, None), LAMBDA r : r @@ [setup |-> <<>>, places |-> None])
    IN Then(first, LAMBDA a : Unless(~Is(a.ty, "array"), a, LAMBDA b :
         Then(SliceBounds(b.cx, f, IF e.e = "slice" THEN e ELSE WholeRange, array), LAMBDA s :
            Walker(s.cx, b.setup \o <<Write(array, b.code)>> \o s.parts, array, array + 1, array + 2,
                   b.places, b.ty[2]))))

RangePipeline(cx, f, e) ==
    Then(Lower(cx, f, e.hi, None), LAMBDA hi : Then(Typed(hi.cx, f, e.lo, hi.ty), LAMBDA lo :
        Unless(~Is(lo.ty, "number"), lo, LAMBDA l :
            Numbers(Fresh(l.cx, 2), <<Write(l.cx.next, l.code), Write(l.cx.next + 1, hi.code)>>,
                  l.ty[2], l.cx.next, l.cx.next + 1, l.ty))))

\* map, filter, take_while and filter_map
CallbackStage(cx, f, e) ==
    Then(Pipeline(cx, f, e.of), LAMBDA p :
        LET test == e.m \in {"filter", "take_while"}
            a == ApplyTo(p.cx, ClosureSyntax(p.cx, f, e.args[1]), <<p.item>>, IF test THEN Bool ELSE None)
        IN Then(a, LAMBDA b :
            CASE test /\ ~TyEq(b.ty, Bool) -> No(b.cx)
              [] e.m = "filter_map" /\ ~Is(b.ty, "option") -> No(b.cx)
              [] OTHER -> Staged(p, b.cx, [s |-> e.m, f |-> b],
                                 IF test THEN p.item ELSE IF e.m = "map" THEN b.ty ELSE b.ty[2])))

\* flatten, copied, cloned, enumerate and rev
PlainStage(cx, f, e) ==
    Then(Pipeline(cx, f, e.of), LAMBDA p :
        CASE e.m = "rev" -> IF OrderDependent(p) THEN No(p.cx) ELSE [p EXCEPT !.rev = ~@]
          [] e.m = "flatten" ->
                IF Is(p.item, "option") THEN Staged(p, p.cx, [s |-> "flatten"], p.item[2]) ELSE No(p.cx)
          [] e.m = "copied" -> IF IsCopy(p.item) THEN p ELSE No(p.cx)
          [] e.m = "cloned" -> Staged(p, p.cx, [s |-> "clone", ty |-> p.item], p.item)
          [] e.m = "enumerate" ->
                [Staged(p, Fresh(p.cx, 1), [s |-> "enumerate", count |-> p.cx.next], Tup(<<Usize, p.item>>))
                    EXCEPT !.setup = Append(@, Write(p.cx.next, Counter(0)))])

Enter(cx, key) ==
    IF key \in ToSet(cx.stack) \/ Len(cx.stack) > 48 THEN No(cx)
    ELSE Parts([cx EXCEPT !.stack = Append(@, key), !.inlined = @ \cup {key}], <<>>)
Leave(r) == [r EXCEPT !.cx = [@ EXCEPT !.stack = Front(@)]]

MethodDefinition(ty, m) ==
    IF ~Is(ty, "named") THEN None
    ELSE IF <<ty[2], m>> \in DOMAIN Methods THEN Methods[<<ty[2], m>>] ELSE None
Key(def) == <<def.owner, def.name>>

\* A method call's receiver: its value and, when it is one, its place.
Receiver(cx, f, e) ==
    LET p == PlaceIn(cx, f, e) IN
    IF p.ok THEN Got(p.cx, Chain(Append(p.setup, PlaceRead(p))), p.ty) @@ [place |-> p]
    ELSE LET c == [p.cx EXCEPT !.next = cx.next]
         IN Then(Lower(c, f, e, None), LAMBDA r : r @@ [place |-> None])

\* A method that returns an iterator is replaced by its one expression.
IteratorMethod(cx, f, e) ==
    Then(Receiver(cx, f, e.of), LAMBDA r :
        LET def  == MethodDefinition(r.ty, e.m)
            c    == Fresh(r.cx, 1)
            slot == r.cx.next
        IN IF def = None \/ e.args # <<>> THEN No(r.cx)
           ELSE IF def.out # <<"iterator">> \/ Len(def.body.stmts) # 1 THEN No(r.cx)
           ELSE IF def.body.stmts[1].s # "tail" THEN No(r.cx)
           ELSE Then(Enter(c, Key(def)), LAMBDA n :
                LET inner == [def |-> def, consts |-> Instance(def.consts, r.ty),
                              recv |-> [slot |-> slot, ty |-> r.ty, mut |-> FALSE], out |-> None, loops |-> <<>>]
                    p == Pipeline([n.cx EXCEPT !.env = <<>>], inner, def.body.stmts[1].of)
                IN Then(Leave(InEnv(p, c)), LAMBDA q : [q EXCEPT !.setup = <<Write(slot, r.code)>> \o @])))

\* An iterator-valued local is compiled anew at each use, in the scope that wrote it.
LazyPipeline(cx, lazy) ==
    LET p == Pipeline([cx EXCEPT !.env = lazy.env, !.clos = lazy.clos], lazy.f, lazy.of)
    IN [p EXCEPT !.cx = [@ EXCEPT !.env = cx.env, !.clos = cx.clos]]

Pipeline(cx, f, e) ==
    CASE e.e = "range" -> RangePipeline(cx, f, e)
      [] e.e = "refmut" -> Elements(cx, f, e.of, TRUE)
      [] e.e = "method" ->
            CASE e.m = "iter" /\ e.args = <<>> -> Elements(cx, f, e.of, FALSE)
              [] e.m = "into_iter" \/ (e.m = "clone" /\ IsIterator(cx, f, e.of)) -> Pipeline(cx, f, e.of)
              [] e.m \in {"rev", "flatten", "copied", "cloned", "enumerate"} -> PlainStage(cx, f, e)
              [] e.m \in {"map", "filter", "filter_map", "take_while"} -> CallbackStage(cx, f, e)
              [] OTHER -> IteratorMethod(cx, f, e)
      [] e.e = "var" /\ e.x \in DOMAIN cx.iters -> LazyPipeline(cx, cx.iters[e.x])
      [] OTHER -> Elements(cx, f, e, FALSE)

\* Whether a method of self, or of a field of self, returns an iterator.
ReturnsIterator(f, e) ==
    LET self(x) == x.e = "var" /\ x.x = "self"
        ty == CASE f.recv = None -> None
                [] self(e.of) -> f.recv.ty
                [] e.of.e = "dot" -> IF self(e.of.of) THEN FieldType(f.recv.ty, e.of.name) ELSE None
                [] OTHER -> None
        def == MethodDefinition(ty, e.m)
    IN def # None /\ def.out = <<"iterator">>

IsIterator(cx, f, e) ==
    CASE e.e = "method" ->
            \/ e.m \in {"iter", "into_iter", "rev", "flatten", "enumerate", "filter_map", "take_while"}
            \/ e.m \in {"map", "filter", "cloned", "copied", "clone"} /\ IsIterator(cx, f, e.of)
            \/ ReturnsIterator(f, e)
      [] e.e = "range" -> TRUE
      [] e.e = "var" -> e.x \in DOMAIN cx.iters
      [] OTHER -> FALSE

-----------------------------------------------------------------------------
(* Clone: Copy types are shared, opaque payloads go to the oracle. *)

RECURSIVE CloneValue(_, _, _)
CloneValue(cx, code, ty) ==
    CASE IsCopy(ty) -> Got(cx, code, ty)
      [] Is(ty, "opaque") -> Got(cx, External("clone", <<code>>), ty)
      [] Is(ty, "option") ->
            Then(CloneValue(Fresh(cx, 1), Read(cx.next), ty[2]), LAMBDA x :
                Got(x.cx, Choose(code, <<<<PPresent(PBind(cx.next)), MkPresent(x.code)>>, <<PAny, Missing>>>>), ty))
      [] IsStruct(ty) ->
            IF "Clone" \notin Structs[ty[2]].derives THEN No(cx)
            ELSE Then(FoldLeft(LAMBDA acc, m : Then(acc, LAMBDA a :
                            Then(CloneValue(a.cx, Field(Read(cx.next), m[1]), m[2]), LAMBDA x :
                                Parts(x.cx, Append(a.parts, <<m[1], x.code>>)))),
                        Parts(Fresh(cx, 1), <<>>), RecordMembers(ty)),
                      LAMBDA all : Got(all.cx, Chain(<<Write(cx.next, code), MkRecord(ty[2], all.parts)>>), ty))
      [] OTHER -> No(cx)

-----------------------------------------------------------------------------
(* loops over a pipeline *)

\* What a stage does to the item in its slot; next and exit are the loop's labels.
StageCode(cx, stage, item, exit, next) ==
    LET call == CallApplied(stage.f, <<Read(item)>>)
        skip == Exit(next, NoValue)
    IN CASE stage.s = "flatten" ->
                Parts(cx, <<Choose(Read(item), <<<<PPresent(PBind(item)), NoValue>>, <<PAny, skip>>>>)>>)
         [] stage.s = "map" -> Parts(cx, <<Write(item, call)>>)
         [] stage.s = "filter" -> Parts(cx, <<Branch(call, NoValue, skip)>>)
         [] stage.s = "take_while" -> Parts(cx, <<Branch(call, NoValue, Exit(exit, NoValue))>>)
         [] stage.s = "filter_map" ->
                Parts(cx, <<Choose(call, <<<<PPresent(PBind(item)), NoValue>>, <<PAny, skip>>>>)>>)
         [] stage.s = "enumerate" ->
                Parts(cx, <<Write(item, MkRecord("()", <<<<"0", Read(stage.count)>>, <<"1", Read(item)>>>>)),
                            Write(stage.count, Binary("+", Read(stage.count), Counter(1)))>>)
         [] stage.s = "clone" -> Then(CloneValue(cx, Read(item), stage.ty), LAMBDA x :
                Parts(x.cx, <<Write(item, x.code)>>))

\* Fault: the place is that of the loop's cursor.
CursorPlace(p, position) == IF p.places = None THEN None
                            ELSE <<p.places[1], Append(p.places[2], <<"index", position - 1>>)>>

\* The item's place when iterating by place: its index is kept in a slot.
ItemPlace(p, position) == IF p.places = None THEN None
                          ELSE <<p.places[1], Append(p.places[2], <<"index", position>>)>>

\* One step of the cursor: the item it passes is fetched, backwards after the step.
Advance(p, item, cursor) ==
    LET one   == Literal(Number(p.kind, 1))
        fetch == IF p.source = "elements" THEN Index(Read(p.array), Read(cursor)) ELSE Read(cursor)
    IN IF p.rev
       THEN <<Write(cursor, Binary("-", Read(cursor), one)), Write(item, fetch)>>
       ELSE <<Write(item, fetch), Write(cursor, Binary("+", Read(cursor), one))>>

\* The index of the item that the cursor has just passed, for writes through it.
Mark(p, cursor) ==
    IF p.places = None THEN <<>>
    ELSE <<Write(cursor + 1, IF p.rev THEN Read(cursor)
                             ELSE Binary("-", Read(cursor), Literal(Number(p.kind, 1))))>>

\* The loop: from one end to the other, the code for each item in a block of its own.
LoopCode(p, item, cursor, exit, next, each) ==
    Chain(p.setup \o
        <<Write(cursor, Read(IF p.rev THEN p.hi ELSE p.lo)),
          Block(exit, Loop(Chain(
              <<Branch(Binary("==", Read(cursor), Read(IF p.rev THEN p.lo ELSE p.hi)), Exit(exit, NoValue), NoValue)>>
              \o Advance(p, item, cursor) \o <<Block(next, Chain(each))>>)))>>)

\* Body(cx, item, exit, next, place) is the code for one item after its stages.
Iterate(p, Body(_, _, _, _, _)) ==
    LET exit   == p.cx.labels + 1
        next   == exit + 1
        item   == p.cx.next
        cursor == item + 1
        stages == FoldLeft(LAMBDA acc, s : Then(acc, LAMBDA a : Then(StageCode(a.cx, s, item, exit, next), LAMBDA x :
                                Parts(x.cx, a.parts \o x.parts))),
                           Parts(Fresh(Labels(p.cx, 2), IF p.places = None THEN 2 ELSE 3), Mark(p, cursor)), p.stages)
    IN Then(stages, LAMBDA st : Then(Body(st.cx, item, exit, next, ItemPlace(p, cursor + 1)), LAMBDA b :
        Got(b.cx, LoopCode(p, item, cursor, exit, next, Append(st.parts, b.code)), UnitT)))

\* A walk that leaves its answer in a slot.
Answer(r, slot, first, ty) ==
    Then(r, LAMBDA w : Got(w.cx, Chain(<<Write(slot, first), w.code, Read(slot)>>), ty))

\* next, next_back, last, count, max and min
ConsumeAll(p, m) ==
    LET result == p.cx.next
        q == [p EXCEPT !.cx = Fresh(@, 1), !.rev = IF m = "next_back" THEN ~@ ELSE @]
        keep(item) == Write(result, MkPresent(Read(item)))
        pick == IF m = "max" THEN ">=" ELSE "<"
    IN CASE m = "next_back" /\ OrderDependent(p) -> No(p.cx)
         [] m \in {"next", "next_back"} ->
                Answer(Iterate(q, LAMBDA c, item, exit, next, at :
                                    Got(c, Chain(<<keep(item), Exit(exit, NoValue)>>), UnitT)),
                       result, Missing, Opt(p.item))
         [] m = "last" ->
                Answer(Iterate(q, LAMBDA c, item, exit, next, at : Got(c, keep(item), UnitT)),
                       result, Missing, Opt(p.item))
         [] m = "count" ->
                Answer(Iterate(q, LAMBDA c, item, exit, next, at :
                                    Got(c, Write(result, Binary("+", Read(result), Counter(1))), UnitT)),
                       result, Counter(0), Usize)
         [] OTHER ->
                IF ~Is(p.item, "number") THEN No(p.cx)
                ELSE Answer(Iterate(q, LAMBDA c, item, exit, next, at :
                        Got(c, Choose(Read(result),
                            <<<<PPresent(PBind(result)),
                                Branch(Binary(pick, Read(item), Read(result)), keep(item), keep(result))>>,
                              <<PAny, keep(item)>>>>), UnitT)),
                       result, Missing, Opt(p.item))

\* any, all, position and find
ConsumeTest(p, m, c) ==
    LET result == p.cx.next
        done(exit, x) == Chain(<<Write(result, x), Exit(exit, NoValue)>>)
    IN Then(Require(ApplyTo(Fresh(p.cx, 1), c, <<p.item>>, Bool), Bool), LAMBDA a :
        LET index == a.cx.next
            body(cx, item, exit) ==
                LET test == CallApplied(a, <<Read(item)>>) IN
                CASE m = "any" -> Branch(test, done(exit, Truth(TRUE)), NoValue)
                  [] m = "all" -> Branch(test, NoValue, done(exit, Truth(FALSE)))
                  [] m = "find" -> Branch(test, done(exit, MkPresent(Read(item))), NoValue)
                  [] m = "position" -> Branch(test, done(exit, MkPresent(Read(index))),
                                              Write(index, Binary("+", Read(index), Counter(1))))
            first == IF m \in {"any", "all"} THEN Truth(m = "all") ELSE Missing
            walk  == Iterate([p EXCEPT !.cx = Fresh(a.cx, 1)], LAMBDA cx, item, exit, next, at :
                                Got(cx, body(cx, item, exit), UnitT))
        IN Then(walk, LAMBDA w :
            Got(w.cx, Chain(<<Write(result, first), Write(index, Counter(0)), w.code, Read(result)>>),
                CASE m \in {"any", "all"} -> Bool [] m = "position" -> Opt(Usize) [] OTHER -> Opt(p.item))))

Consumers == {"next", "next_back", "last", "count", "any", "all", "position", "find", "max", "min"}
Consume(f, p, m, args) ==
    IF m \in {"any", "all", "position", "find"}
    THEN (IF Len(args) = 1 THEN ConsumeTest(p, m, ClosureSyntax(p.cx, f, args[1])) ELSE No(p.cx))
    ELSE IF args = <<>> THEN ConsumeAll(p, m) ELSE No(p.cx)

-----------------------------------------------------------------------------
(* calls of the crate's functions *)

\* Arguments against the parameters' types, from left to right.
Arguments(cx, f, args, types) ==
    FoldLeft(LAMBDA acc, i : Then(acc, LAMBDA a : Then(Typed(a.cx, f, args[i], types[i]), LAMBDA v :
                 Parts(v.cx, Append(a.parts, v.code)))),
             Parts(cx, <<>>), [i \in DOMAIN args |-> i])

CalleeSelf(def, recv, consts) ==
    IF recv # None THEN recv.ty
    ELSE Named(def.owner, [i \in DOMAIN def.consts |-> Konst(<<"param", def.consts[i]>>, consts)])

\* Through the function table; the callee is compiled on its first use.
Invocation(cx, f, def, recv, args, consts) ==
    LET self  == CalleeSelf(def, recv, consts)
        types == [i \in DOMAIN def.params |-> TyIn(def.params[i].ty, consts, self)]
        mut   == def.recv = "mut"
        konsts == [i \in DOMAIN def.consts |-> Konst(<<"param", def.consts[i]>>, consts)]
        compiled(c) ==
            IF Key(def) \in DOMAIN c.fns THEN Parts(c, <<>>)
            ELSE Then(Enter(c, Key(def)), LAMBDA n : Then(Leave(FunctionOf(n.cx, def)), LAMBDA fn :
                    Parts([fn.cx EXCEPT !.fns = Put(@, Key(def), fn.code)], <<>>)))
    IN CASE (def.recv = "none") # (recv = None) \/ Len(args) # Len(def.params) -> No(cx)
         [] mut /\ recv.place = None -> No(cx)
         [] OTHER ->
            IF mut /\ ~recv.place.mut THEN No(cx)
            ELSE Then(Arguments(cx, f, args, types), LAMBDA a :
                IF Unknown \in ToSet(konsts) THEN No(a.cx)
                ELSE Then(compiled(a.cx), LAMBDA c :
                    Got(c.cx, Chain((IF mut THEN recv.place.setup ELSE <<>>) \o
                        <<Invoke(Key(def),
                                 CASE recv = None -> NoValue [] mut -> PlaceRead(recv.place) [] OTHER -> recv.code,
                                 IF mut THEN <<recv.place.slot, recv.place.path>> ELSE NoPlace,
                                 a.parts \o [i \in DOMAIN konsts |-> KonstCode(konsts[i])])>>),
                        TyIn(def.out, consts, self))))

\* The receiver's slot in an inlined callee: its own when it is a whole slot.
InlineReceiver(cx, recv, mut) ==
    LET whole == recv.place # None /\ recv.place.path = <<>> IN
    IF mut /\ (recv.place = None \/ ~recv.place.mut) THEN No(cx)
    ELSE IF whole THEN Parts(cx, <<>>) @@ [slot |-> recv.place.slot, back |-> None]
    ELSE Parts(Fresh(cx, 1), <<Write(cx.next, recv.code)>>)
         @@ [slot |-> cx.next, back |-> IF mut THEN recv.place ELSE None]

\* Arguments of an inlined call: values go to slots, closures to the callee's scope.
InlineArguments(cx, f, def, args, types) ==
    FoldLeft(LAMBDA acc, i : Then(acc, LAMBDA a :
                IF def.params[i].ty = <<"callable">>
                THEN LET c == ClosureSyntax(a.cx, f, args[i])
                     IN IF c = None THEN No(a.cx)
                        ELSE [a EXCEPT !.clos = Put(@, def.params[i].pat.x, c)]
                ELSE IF def.params[i].ty[1] = "mutref" THEN No(a.cx)
                ELSE Then(Typed(a.cx, f, args[i], types[i]), LAMBDA v :
                        [ok |-> TRUE, cx |-> Fresh(v.cx, 1), clos |-> a.clos,
                         parts |-> Append(a.parts, Write(v.cx.next, v.code)),
                         bound |-> Append(a.bound, <<def.params[i].pat, v.cx.next, types[i]>>)])),
             [ok |-> TRUE, cx |-> cx, parts |-> <<>>, clos |-> <<>>, bound |-> <<>>],
             [i \in DOMAIN args |-> i])

DestructureAll(cx, bound) ==
    FoldLeft(LAMBDA acc, b : Then(acc, LAMBDA a : Then(Destructure(a.cx, b[1], b[2], b[3]), LAMBDA d :
                 Parts(d.cx, a.parts \o d.parts))), Parts(cx, <<>>), bound)

\* A body against the result type; one that never completes may have any.
BodyOf(cx, inner, bound, out) ==
    Then(DestructureAll(cx, bound), LAMBDA d :
    Then(LowerBlock(d.cx, inner, inner.def.body.stmts, out), LAMBDA b :
        IF ~TyEq(b.ty, out) /\ ~(TyEq(b.ty, UnitT) /\ BlockDiverges(inner.def.body.stmts)) THEN No(b.cx)
        ELSE Got(b.cx, Chain(Append(d.parts, b.code)), out)))

\* A callee that takes closures is inlined; a mutable receiver is written back.
Inlined(cx, f, def, recv, args, consts) ==
    LET self  == CalleeSelf(def, recv, consts)
        types == [i \in DOMAIN def.params |-> TyIn(def.params[i].ty, consts, self)]
        out   == TyIn(def.out, consts, self)
        mut   == def.recv = "mut"
        r     == IF recv = None THEN Parts(cx, <<>>) @@ [slot |-> 0, back |-> None]
                 ELSE InlineReceiver(cx, recv, mut)
    IN IF (def.recv = "none") # (recv = None) \/ def.recv = "owned" \/ Len(args) # Len(def.params) THEN No(cx)
       ELSE Then(r, LAMBDA at : Then(InlineArguments(at.cx, f, def, args, types), LAMBDA a :
            Then(Enter(a.cx, Key(def)), LAMBDA n :
                LET inner == [def |-> def, consts |-> consts, out |-> out, loops |-> <<>>,
                              recv |-> IF recv = None THEN None ELSE [slot |-> at.slot, ty |-> recv.ty, mut |-> mut]]
                    body == BodyOf([n.cx EXCEPT !.env = <<>>, !.clos = a.clos, !.iters = <<>>], inner, a.bound, out)
                IN Then(InScope(Leave(body), a.cx), LAMBDA b :
                    Got(Fresh(b.cx, 1),
                        Chain(at.parts \o a.parts \o <<Write(b.cx.next, Scope(b.code))>>
                              \o (IF at.back = None THEN <<>>
                                  ELSE at.back.setup \o <<PlaceWrite(at.back, Read(at.slot))>>)
                              \o <<Read(b.cx.next)>>), out)))))

TakesClosures(def) == \E i \in DOMAIN def.params : def.params[i].ty = <<"callable">>
LowerCall(cx, f, def, recv, args, consts) ==
    IF TakesClosures(def) \/ def.out = <<"iterator">> THEN Inlined(cx, f, def, recv, args, consts)
    ELSE Invocation(cx, f, def, recv, args, consts)

\* Fault: labels go on from the caller's.
CallersLabels(cx, slots) ==
    [cx EXCEPT !.env = <<>>, !.clos = <<>>, !.iters = <<>>, !.rebind = None, !.next = slots]

NewFrame(cx, slots) ==
    [cx EXCEPT !.env = <<>>, !.clos = <<>>, !.iters = <<>>, !.rebind = None, !.next = slots, !.labels = 0]

\* A body compiled for a frame of its own: self in slot 0, then the parameters,
\* then the impl's constants; labels start again.
FunctionOf(cx, def) ==
    LET ordinary == Len(def.params)
        consts == [x \in ToSet(def.consts) |->
                     <<"slot", ordinary + (CHOOSE i \in DOMAIN def.consts : def.consts[i] = x)>>]
        self   == Named(def.owner, [i \in DOMAIN def.consts |-> consts[def.consts[i]]])
        out    == TyIn(def.out, consts, self)
        frame  == [def |-> def, consts |-> consts, out |-> out, loops |-> <<>>,
                   recv |-> IF def.recv = "none" THEN None
                            ELSE [slot |-> 0, ty |-> self, mut |-> def.recv = "mut"]]
        bound  == [i \in DOMAIN def.params |-> <<def.params[i].pat, i, TyIn(def.params[i].ty, consts, self)>>]
        body   == BodyOf(NewFrame(cx, 1 + ordinary + Len(def.consts)), frame, bound, out)
    IN IF \E i \in DOMAIN def.params : def.params[i].ty[1] \in {"mutref", "callable"} THEN No(cx)
       ELSE [InScope(body, cx) EXCEPT !.cx = [@ EXCEPT !.rebind = cx.rebind, !.next = cx.next, !.labels = cx.labels]]

-----------------------------------------------------------------------------
(* methods of the standard library *)

\* The elements between two slots of an array in a slot, compared with a wanted one.
Search(cx, setup, array, lo, hi, wanted, found, item) ==
    Iterate(Walker(cx, setup, array, lo, hi, None, item), LAMBDA c, x, exit, next, at :
        Got(c, Branch(Binary("==", Read(x), Read(wanted)),
                      Chain(<<Write(found, Truth(TRUE)), Exit(exit, NoValue)>>), NoValue), UnitT))

\* array[lo..hi].method(args)
SliceCall(cx, f, e, m, args) ==
    Then(PlaceIn(cx, f, e.of), LAMBDA p : Unless(~Is(p.ty, "array"), p, LAMBDA place :
        LET array == place.cx.next
            lo == Read(array + 1)
            hi == Read(array + 2)
        IN Then(SliceBounds(Fresh(place.cx, 3), f, e, array), LAMBDA b :
            LET parts == place.setup \o <<Write(array, PlaceRead(place))>> \o b.parts
                update(c, code) == IF ~place.mut THEN No(c)
                                   ELSE Got(c, Chain(parts \o <<PlaceWrite(place, code), NoValue>>), UnitT)
            IN CASE m = "len" -> Got(b.cx, Chain(Append(parts, Binary("-", hi, lo))), Usize)
                 [] m = "contains" ->
                        IF ~Derived(place.ty[2], "PartialEq") THEN No(b.cx)
                        ELSE Then(Typed(b.cx, f, args[1], place.ty[2]), LAMBDA x :
                             Then(Search(Fresh(x.cx, 2), <<>>, array, array + 1, array + 2, x.cx.next,
                                         x.cx.next + 1, place.ty[2]), LAMBDA w :
                                Got(w.cx, Chain(parts \o <<Write(x.cx.next, x.code), Write(x.cx.next + 1, Truth(FALSE)),
                                                           w.code, Read(x.cx.next + 1)>>), Bool)))
                 [] m = "sort_unstable" ->
                        IF ~Is(place.ty[2], "number") THEN No(b.cx) ELSE update(b.cx, Sort(Read(array), lo, hi))
                 [] m = "rotate_left" -> Then(Typed(b.cx, f, args[1], Usize), LAMBDA n :
                        update(n.cx, Rotate(Read(array), lo, hi, n.code)))
                 [] OTHER -> No(b.cx))))

OkPattern(x)  == PVariant("Result", "Ok", <<<<"0", x>>>>)
OkCode(x)     == MkVariant("Result", "Ok", <<<<"0", x>>>>)
ErrCode(x)    == MkVariant("Result", "Err", <<<<"0", x>>>>)
Either(x, pat, hit, miss) == Choose(x, <<<<pat, hit>>, <<PAny, miss>>>>)

\* Options: the methods that take a closure.
OptionCallback(cx, f, m, code, ty, c, want) ==
    LET test == m \in {"is_some_and", "is_none_or", "filter"}
        out  == CASE test -> Bool [] m = "and_then" -> want
                  [] OTHER -> IF Is(want, "option") THEN want[2] ELSE None
    IN Then(ApplyTo(cx, c, <<ty[2]>>, out), LAMBDA a :
        LET x == a.cx.next
            call == CallApplied(a, <<Read(x)>>)
            some(hit, miss, t) == Got(Fresh(a.cx, 1), Either(code, PPresent(PBind(x)), hit, miss), t)
        IN CASE test /\ ~TyEq(a.ty, Bool) -> No(a.cx)
             [] m = "filter" -> some(Branch(call, MkPresent(Read(x)), Missing), Missing, ty)
             [] test -> some(call, Truth(m = "is_none_or"), Bool)
             [] m = "map" -> some(MkPresent(call), Missing, Opt(a.ty))
             [] m = "and_then" -> IF Is(a.ty, "option") THEN some(call, Missing, a.ty) ELSE No(a.cx))

MapOrCode(code, stored, x, default, call) ==
    Chain(<<Write(stored, code), Write(x + 1, default),
            Either(Read(stored), PPresent(PBind(x)), call, Read(x + 1))>>)

\* map_or: the callback's type decides when the default has none of its own.
MapOr(cx, f, code, stored, ty, args, want) ==
    LET c == ClosureSyntax(cx, f, args[2])
        first == Lower(cx, f, args[1], want)
        retry == LET probe == ApplyTo(first.cx, c, <<ty[2]>>, None)
                 IN Then(probe, LAMBDA a : Lower([a.cx EXCEPT !.next = first.cx.next], f, args[1], a.ty))
    IN Then(IF first.ok \/ want # None THEN first ELSE retry, LAMBDA d :
       Then(Require(ApplyTo(d.cx, c, <<ty[2]>>, d.ty), d.ty), LAMBDA a :
        LET x == a.cx.next IN
        Got(Fresh(a.cx, 2), MapOrCode(code, stored, x, d.code, CallApplied(a, <<Read(x)>>)), d.ty)))

\* Options and results: one slot x for the payload, one for an argument's value.
OptionMethod(cx, f, m, code, stored, ty, place, args, want) ==
    LET keep == Write(stored, code)
        x == cx.next
        \* the argument in a slot, then a choice on the receiver that reads it
        with(wanted, pat(_), hit(_), miss(_), t(_)) ==
            Then(IF wanted = None THEN Lower(cx, f, args[1], None) ELSE Typed(cx, f, args[1], wanted), LAMBDA a :
                Got(Fresh(a.cx, 2), Chain(<<keep, Write(a.cx.next, a.code),
                    Either(Read(stored), pat(a.cx.next + 1), hit(Read(a.cx.next + 1)), miss(Read(a.cx.next)))>>), t(a)))
        same(y) == y
        typeOf(a) == a.ty
    IN CASE m \in {"is_some", "is_none"} ->
                Got(cx, Either(code, PPresent(PAny), Truth(m = "is_some"), Truth(m = "is_none")), Bool)
         [] m \in {"as_ref", "as_mut", "copied"} -> Got(cx, code, ty)
         [] m = "cloned" -> Then(CloneValue(Fresh(cx, 1), Read(x), ty[2]), LAMBDA c :
                Got(c.cx, Either(code, PPresent(PBind(x)), MkPresent(c.code), Missing), ty))
         [] m \in {"is_some_and", "is_none_or", "map", "and_then", "filter"} ->
                OptionCallback(cx, f, m, code, ty, ClosureSyntax(cx, f, args[1]), want)
         [] m = "map_or" -> MapOr(cx, f, code, stored, ty, args, want)
         [] m = "or_else" ->
                Then(Require(ApplyTo(cx, ClosureSyntax(cx, f, args[1]), <<>>, ty), ty), LAMBDA a :
                    Got(a.cx, Chain(<<keep, Either(Read(stored), PPresent(PAny), Read(stored), CallApplied(a, <<>>))>>), ty))
         [] m = "ok_or" -> with(None, LAMBDA y : PPresent(PBind(y)), OkCode, ErrCode, LAMBDA a : Res(ty[2], a.ty))
         [] m = "unwrap_or" -> with(ty[2], LAMBDA y : PPresent(PBind(y)), same, same, typeOf)
         [] m \in {"unwrap", "expect"} ->
                Got(Fresh(cx, 1), Either(code, PPresent(PBind(x)), Read(x), Panic(m)), ty[2])
         [] m = "take" ->
                IF place = None THEN No(cx) ELSE IF ~place.mut THEN No(cx)
                ELSE Got(cx, Chain(<<keep>> \o place.setup \o <<PlaceWrite(place, Missing), Read(stored)>>), ty)
         [] OTHER -> No(cx)

ResultMethod(cx, f, m, code, stored, ty, args) ==
    LET x == cx.next IN
    CASE m \in {"is_ok", "is_err"} -> Got(cx, Either(code, OkPattern(PAny), Truth(m = "is_ok"), Truth(m = "is_err")), Bool)
      [] m = "ok" -> Got(Fresh(cx, 1), Either(code, OkPattern(PBind(x)), MkPresent(Read(x)), Missing), Opt(ty[2]))
      [] m = "unwrap_or" -> Then(Typed(cx, f, args[1], ty[2]), LAMBDA d :
            Got(Fresh(d.cx, 2), Chain(<<Write(stored, code), Write(d.cx.next, d.code),
                Either(Read(stored), OkPattern(PBind(d.cx.next + 1)), Read(d.cx.next + 1), Read(d.cx.next))>>), d.ty))
      [] OTHER -> No(cx)

NumberMethod(cx, f, m, code, stored, ty, args) ==
    CASE m \in {"wrapping_add", "wrapping_sub", "wrapping_mul", "saturating_add", "saturating_sub",
                "min", "max", "checked_add", "checked_sub"} ->
            Then(Typed(cx, f, args[1], ty), LAMBDA a :
                Got(a.cx, Binary(m, code, a.code), IF m \in {"checked_add", "checked_sub"} THEN Opt(ty) ELSE ty))
      [] m = "clamp" -> Then(Arguments(cx, f, args, <<ty, ty>>), LAMBDA a :
            LET lo == a.cx.next
                at == Read(stored)
            IN Got(Fresh(a.cx, 2), Chain(<<Write(stored, code), Write(lo, a.parts[1]), Write(lo + 1, a.parts[2]),
                Branch(Binary(">", Read(lo), Read(lo + 1)), Panic("clamp"),
                       Branch(Binary("<", at, Read(lo)), Read(lo),
                              Branch(Binary(">", at, Read(lo + 1)), Read(lo + 1), at)))>>), ty))
      [] OTHER -> No(cx)

\* Arrays: map and fill count through the elements in place.
ArrayMethod(cx, f, m, code, stored, ty, place, args) ==
    LET keep == Write(stored, code) IN
    CASE m = "map" -> Then(ApplyTo(cx, ClosureSyntax(cx, f, args[1]), <<ty[2]>>, None), LAMBDA a :
            LET i == a.cx.next
                call == CallApplied(a, <<Index(Read(stored), Read(i))>>)
            IN Got(Fresh(a.cx, 2), Chain(<<keep, Write(i + 1, Read(stored)),
                    Count(i, Counter(0), Length(Read(stored)), Assign(i + 1, <<<<"index", i>>>>, call)),
                    Read(i + 1)>>), Arr(a.ty, ty[3])))
      [] m = "is_empty" -> Got(cx, Binary("==", Length(code), Counter(0)), Bool)
      [] m = "len" -> Got(cx, Length(code), Usize)
      [] m = "get" -> Then(Typed(cx, f, args[1], Usize), LAMBDA i :
            LET at == Read(i.cx.next) IN
            Got(Fresh(i.cx, 1), Chain(<<keep, Write(i.cx.next, i.code),
                Branch(Binary("<", at, Length(Read(stored))), MkPresent(Index(Read(stored), at)), Missing)>>), Opt(ty[2])))
      [] m = "contains" ->
            IF ~Derived(ty[2], "PartialEq") THEN No(cx)
            ELSE Then(Typed(cx, f, args[1], ty[2]), LAMBDA v :
                LET n == v.cx.next
                    setup == <<keep, Write(n, v.code), Write(n + 1, Counter(0)), Write(n + 2, Length(Read(stored)))>>
                IN Then(Search(Fresh(v.cx, 4), setup, stored, n + 1, n + 2, n, n + 3, ty[2]), LAMBDA w :
                        Got(w.cx, Chain(<<Write(n + 3, Truth(FALSE)), w.code, Read(n + 3)>>), Bool)))
      [] m = "fill" ->
            IF place = None THEN No(cx) ELSE IF ~place.mut THEN No(cx)
            ELSE Then(Typed(cx, f, args[1], ty[2]), LAMBDA v : Unless(~IsCopy(ty[2]), v, LAMBDA w :
                LET value == w.cx.next
                    each == Assign(place.slot, Append(place.path, <<"index", value + 1>>), Read(value))
                IN Got(Fresh(w.cx, 2), Chain(<<Write(value, w.code)>> \o place.setup \o
                        <<Count(value + 1, Counter(0), Length(PlaceRead(place)), each), NoValue>>), UnitT)))
      [] OTHER -> No(cx)

BuiltinMethod(cx, f, m, recv, args, want) ==
    LET stored == cx.next
        c == Fresh(cx, 1)
        ty == recv.ty
    IN CASE m = "clone" -> CloneValue(c, recv.code, ty)
         [] Is(ty, "option") -> OptionMethod(c, f, m, recv.code, stored, ty, recv.place, args, want)
         [] Is(ty, "result") -> ResultMethod(c, f, m, recv.code, stored, ty, args)
         [] Is(ty, "number") -> NumberMethod(c, f, m, recv.code, stored, ty, args)
         [] Is(ty, "array") -> ArrayMethod(c, f, m, recv.code, stored, ty, recv.place, args)
         [] m = "then_some" /\ ty = Bool -> Then(Lower(c, f, args[1], None), LAMBDA v :
                Got(Fresh(v.cx, 1), Chain(<<Write(stored, recv.code), Write(v.cx.next, v.code),
                    Branch(Read(stored), MkPresent(Read(v.cx.next)), Missing)>>), Opt(v.ty)))
         [] OTHER -> No(c)

MethodCall(cx, f, e, want) ==
    IF e.m \in Consumers /\ IsIterator(cx, f, e.of)
    THEN Then(Pipeline(cx, f, e.of), LAMBDA p : Consume(f, p, e.m, e.args))
    ELSE IF e.of.e = "slice" THEN SliceCall(cx, f, e.of, e.m, e.args)
    ELSE Then(Receiver(cx, f, e.of), LAMBDA r :
        LET def == MethodDefinition(r.ty, e.m) IN
        CASE def # None -> LowerCall(r.cx, f, def, r, e.args, Instance(def.consts, r.ty))
          [] Is(r.ty, "named") /\ e.m # "clone" -> No(r.cx)
          [] OTHER -> BuiltinMethod(r.cx, f, e.m, r, e.args, want))

-----------------------------------------------------------------------------
(* calls *)

\* A named closure: closure arguments go to its scope, the others to slots.
ClosureCall(cx, f, e, want) ==
    LET one(a, x) ==
            IF ClosureArgument(a.cx, x)
            THEN [a EXCEPT !.inputs = Append(@, ByClosure(ClosureSyntax(a.cx, f, x)))]
            ELSE Then(Lower(a.cx, f, x, None), LAMBDA v :
                    [ok |-> TRUE, cx |-> v.cx, parts |-> Append(a.parts, v.code),
                     inputs |-> Append(a.inputs, ByValue(v.ty))])
        all == FoldLeft(LAMBDA acc, x : Then(acc, LAMBDA a : one(a, x)),
                        [ok |-> TRUE, cx |-> cx, parts |-> <<>>, inputs |-> <<>>], e.args)
    IN IF e.f \notin DOMAIN cx.clos THEN No(cx)
       ELSE Then(all, LAMBDA a : Then(ApplyInputs(a.cx, cx.clos[e.f], a.inputs, want), LAMBDA b :
                Got(b.cx, CallApplied(b, a.parts), b.ty)))

\* core::array::from_fn: the expected type gives the length.
FromFn(cx, f, e, want) ==
    IF ~Is(want, "array") THEN No(cx) ELSE IF want[3] = Unknown THEN No(cx)
    ELSE Then(Require(ApplyTo(cx, ClosureSyntax(cx, f, e.f), <<Usize>>, want[2]), want[2]), LAMBDA a :
        LET len == a.cx.next
            i   == len + 1
            out == len + 2
        IN Got(Fresh(a.cx, 3), Chain(<<Write(len, KonstCode(want[3])), Write(out, Replicate(NoValue, Read(len))),
                Count(i, Counter(0), Read(len), Assign(out, <<<<"index", i>>>>, CallApplied(a, <<Read(i)>>))),
                Read(out)>>), Arr(a.ty, want[3])))

TryFrom(cx, f, e) ==
    Then(Lower(cx, f, e.of, None), LAMBDA v : Unless(~Is(v.ty, "number"), v, LAMBDA w :
        Got(Fresh(w.cx, 1), Either(Convert(e.kind, TRUE, w.code), PPresent(PBind(w.cx.next)),
                                   OkCode(Read(w.cx.next)), ErrCode(NoValue)), Res(Num(e.kind), UnitT))))

\* Some, Ok and Err; a Result must be known from the context.
Constructor(cx, f, e, want) ==
    CASE e.e = "some" -> Then(Lower(cx, f, e.of, IF Is(want, "option") THEN want[2] ELSE None), LAMBDA v :
            Got(v.cx, MkPresent(v.code), Opt(v.ty)))
      [] e.e = "ok" -> Then(Lower(cx, f, e.of, IF Is(want, "result") THEN want[2] ELSE None), LAMBDA v :
            Unless(~Is(want, "result"), v, LAMBDA w : Got(w.cx, OkCode(w.code), Res(w.ty, want[3]))))
      [] e.e = "err" -> Then(Lower(cx, f, e.of, IF Is(want, "result") THEN want[3] ELSE None), LAMBDA v :
            Unless(~Is(want, "result"), v, LAMBDA w : Got(w.cx, ErrCode(w.code), Res(want[2], w.ty))))

\* The type `Owner` in Owner::name names: Self, the expected type or a fresh instance.
PathOwner(f, e, want) ==
    CASE e.via = "Self" -> FrameSelf(f)
      [] Is(want, "named") /\ want[2] = e.owner -> want
      [] want # None /\ want[1] \in {"result", "option"} ->
            IF Is(want[2], "named") /\ want[2][2] = e.owner THEN want[2] ELSE FreshInstance(e.owner)
      [] OTHER -> FreshInstance(e.owner)

VariantCode(cx, f, e, want) ==
    LET owner == IF e.es = <<>> THEN VariantOwner(f, e, want) ELSE PathOwner(f, e, want) IN
    IF ~IsEnum(owner) THEN No(cx)
    ELSE LET members == VariantMembers(owner, e.tag)
         IN IF Len(members) # Len(e.es) THEN No(cx)
            ELSE IF e.es = <<>> THEN Got(cx, Literal(Variant(owner[2], e.tag, <<>>)), owner)
            ELSE Then(Arguments(cx, f, e.es, [i \in DOMAIN members |-> members[i][2]]), LAMBDA a :
                Got(a.cx, MkVariant(owner[2], e.tag, [i \in DOMAIN members |-> <<members[i][1], a.parts[i]>>]), owner))

AssocCall(cx, f, e, want) ==
    LET owner == PathOwner(f, e, want)
        def   == MethodDefinition(owner, e.f)
    IN IF def = None
       THEN (IF e.f = "default" /\ e.args = <<>> /\ HasDefault(owner) THEN Got(cx, DefaultValue(owner), owner)
             ELSE No(cx))
       ELSE LowerCall(cx, f, def, None, e.args, IF e.via = "Self" THEN f.consts ELSE Instance(def.consts, owner))

-----------------------------------------------------------------------------
(* operators and assignment *)

Arithmetics == {"+", "-", "*", "/", "%", "^", "&", "|", "<<", ">>"}
Orders      == {"<", "<=", ">", ">="}

BinaryType(op, ty) ==
    CASE ty = Bool /\ op \in {"&&", "||", "^", "&", "|"} -> Bool
      [] Is(ty, "number") /\ op \in Arithmetics -> ty
      [] Is(ty, "number") /\ op \in Orders -> Bool
      [] op \in {"==", "!="} -> IF Derived(ty, "PartialEq") /\ ~Is(ty, "array") THEN Bool ELSE None
      [] OTHER -> None

\* An unsuffixed literal on the left takes the right operand's type.
Operands(cx, f, op, l, r, want) ==
    LET context == IF op \in Arithmetics THEN want ELSE None
        both(x, y, c, t) == [ok |-> TRUE, cx |-> c, l |-> x.code, r |-> y.code, ty |-> t]
    IN IF context = None /\ Untyped(l)
       THEN Then(Lower(cx, f, r, None), LAMBDA y : Then(Typed(y.cx, f, l, y.ty), LAMBDA x : both(x, y, x.cx, x.ty)))
       ELSE Then(Lower(cx, f, l, context), LAMBDA x : Then(Typed(x.cx, f, r, x.ty), LAMBDA y : both(x, y, y.cx, x.ty)))

\* Lexicographic order of tuples of integers.
TupleCompare(cx, op, left, right, items) ==
    LET l == Read(cx.next)
        r == Read(cx.next + 1)
        at(x, i) == Field(x, ToString(i - 1))
        strict == IF op \in {"<", "<="} THEN "<" ELSE ">"
        code == FoldLeft(LAMBDA rest, i :
                    Binary("||", Binary(strict, at(l, i), at(r, i)),
                                 Binary("&&", Binary("==", at(l, i), at(r, i)), rest)),
                    Truth(op \in {"<=", ">="}), Reverse([i \in DOMAIN items |-> i]))
    IN IF \E i \in DOMAIN items : ~Is(items[i], "number") THEN No(cx)
       ELSE Got(Fresh(cx, 2), Chain(<<Write(cx.next, left), Write(cx.next + 1, right), code>>), Bool)

LowerBinary(cx, f, e, want) ==
    Then(Operands(cx, f, e.op, e.l, e.r, want), LAMBDA o :
        CASE Is(o.ty, "tuple") /\ e.op \in Orders -> TupleCompare(o.cx, e.op, o.l, o.r, o.ty[2])
          [] BinaryType(e.op, o.ty) = None -> No(o.cx)
          [] OTHER -> Got(o.cx, Binary(e.op, o.l, o.r), BinaryType(e.op, o.ty)))

\* The right operand first, then the place is read and written.
LowerOpAssign(cx, f, e) ==
    Then(Operands(cx, f, e.op, e.l, e.r, None), LAMBDA o :
        IF BinaryType(e.op, o.ty) # o.ty THEN No(o.cx)
        ELSE Then(LowerStore(Fresh(o.cx, 1), f, e.l, Binary(e.op, o.l, Read(o.cx.next)), o.ty), LAMBDA s :
                Got(s.cx, Chain(<<Write(o.cx.next, o.r), s.code>>), UnitT)))

\* A local bound to a bare `None` takes the type of its first assignment.
LowerAssign(cx, f, e) ==
    Then(PlaceIn(cx, f, e.l), LAMBDA p :
    Then(Lower([p.cx EXCEPT !.next = cx.next], f, e.r, p.ty), LAMBDA v :
        LET env == v.cx.env
            refine == e.l.e = "var" /\ e.l.x \in DOMAIN env
            c == IF ~refine THEN v.cx
                 ELSE IF ContainsInfer(env[e.l.x].ty) /\ TyEq(env[e.l.x].ty, v.ty)
                 THEN [v.cx EXCEPT !.env = Put(env, e.l.x, [env[e.l.x] EXCEPT !.ty = v.ty])] ELSE v.cx
        IN LowerStore(c, f, e.l, v.code, v.ty)))

-----------------------------------------------------------------------------
(* values *)

LowerLiteral(cx, e, want) ==
    LET kind == IF e.written THEN e.kind ELSE IF Is(want, "number") THEN want[2] ELSE NoLabel
    IN IF kind = NoLabel THEN No(cx) ELSE IF ~FitsType(e.n, kind) THEN No(cx)
       ELSE Got(cx, Literal(Number(kind, e.n)), Num(kind))

LowerName(cx, f, x) ==
    CASE x = "self" -> IF f.recv = None THEN No(cx) ELSE Got(cx, Read(f.recv.slot), f.recv.ty)
      [] x \in DOMAIN cx.env ->
            LET b == cx.env[x]
            IN Got(cx, IF b.alias = None THEN Read(b.slot)
                       ELSE PlaceRead([slot |-> b.alias[1], path |-> b.alias[2]]), b.ty)
      [] x \in DOMAIN f.consts -> IF f.consts[x] = Unknown THEN No(cx) ELSE Got(cx, KonstCode(f.consts[x]), Usize)
      [] OTHER -> No(cx)

LowerTuple(cx, f, e, want) ==
    LET wants == IF Is(want, "tuple") /\ Len(want[2]) = Len(e.es) THEN want[2] ELSE [i \in DOMAIN e.es |-> None]
        all == FoldLeft(LAMBDA acc, i : Then(acc, LAMBDA a : Then(Lower(a.cx, f, e.es[i], wants[i]), LAMBDA v :
                    Got(v.cx, Append(a.code, <<ToString(i - 1), v.code>>), Append(a.ty, v.ty)))),
                Got(cx, <<>>, <<>>), [i \in DOMAIN e.es |-> i])
    IN IF e.es = <<>> THEN Got(cx, NoValue, UnitT)
       ELSE Then(all, LAMBDA a : Got(a.cx, MkRecord("()", a.code), Tup(a.ty)))

\* The elements are assigned one by one; each takes the type of the one before.
LowerArray(cx, f, e, want) ==
    LET out == cx.next
        i   == out + 1
        one(a, n) == Then(IF a.ty = None THEN Lower(a.cx, f, e.es[n], None) ELSE Typed(a.cx, f, e.es[n], a.ty), LAMBDA v :
                        Got(v.cx, a.code \o <<Write(i, Counter(n - 1)), Assign(out, <<<<"index", i>>>>, v.code)>>, v.ty))
        all == FoldLeft(LAMBDA acc, n : Then(acc, LAMBDA a : one(a, n)),
                        Got(Fresh(cx, 2), <<Write(out, Replicate(NoValue, Counter(Len(e.es))))>>,
                            IF Is(want, "array") THEN want[2] ELSE None), [n \in DOMAIN e.es |-> n])
    IN Then(all, LAMBDA a : Unless(a.ty = None, a, LAMBDA b :
            Got(b.cx, Chain(Append(b.code, Read(out))), Arr(b.ty, <<"value", Len(e.es)>>))))

LowerRepeat(cx, f, e, want) ==
    LET length == Konst(e.len, f.consts) IN
    Then(Lower(cx, f, e.of, IF Is(want, "array") THEN want[2] ELSE None), LAMBDA v :
        Unless(~IsCopy(v.ty) \/ length = Unknown, v, LAMBDA w :
            Got(w.cx, Replicate(w.code, KonstCode(length)), Arr(w.ty, length))))

\* Fields are evaluated in source order and stored in declaration order.
LowerStruct(cx, f, e, want) ==
    LET variant == e.tag # NoLabel
        owner   == IF variant THEN VariantOwner(f, e, want)
                   ELSE IF e.via = "Self" THEN FrameSelf(f)
                   ELSE IF Is(want, "named") /\ want[2] = e.owner THEN want ELSE FreshInstance(e.owner)
        members == IF variant THEN VariantMembers(owner, e.tag) ELSE RecordMembers(owner)
        one(a, i) == Then(Typed(a.cx, f, e.fs[i][2], MemberType(members, e.fs[i][1])), LAMBDA v :
                        [ok |-> TRUE, cx |-> Fresh(v.cx, 1), parts |-> Append(a.parts, Write(v.cx.next, v.code)),
                         slots |-> Put(a.slots, e.fs[i][1], v.cx.next)])
        all == FoldLeft(LAMBDA acc, i : Then(acc, LAMBDA a : one(a, i)),
                        Parts(cx, <<>>) @@ [slots |-> <<>>], [i \in DOMAIN e.fs |-> i])
        fields(slots) == [i \in DOMAIN members |-> <<members[i][1], Read(slots[members[i][1]])>>]
    IN IF ~Droppable(owner) \/ Len(members) # Len(e.fs) THEN No(cx)
       ELSE Then(all, LAMBDA a : Got(a.cx, Chain(Append(a.parts,
                IF variant THEN MkVariant(owner[2], e.tag, fields(a.slots)) ELSE MkRecord(owner[2], fields(a.slots)))), owner))

-----------------------------------------------------------------------------
(* control *)

EmptyBlock == [e |-> "block", stmts |-> <<>>]
Wild       == [q |-> "wild"]

LowerIf(cx, f, e, want) ==
    Then(Typed(cx, f, e.c, Bool), LAMBDA c :
    Then(LowerBlock(c.cx, f, e.yes.stmts, want), LAMBDA y :
    Then(IF e.no = NoExpr THEN Got(y.cx, NoValue, UnitT)
         ELSE Lower(y.cx, f, e.no, IF TyEq(y.ty, UnitT) THEN want ELSE y.ty), LAMBDA n :
        LET dead == BlockDiverges(e.yes.stmts) IN
        IF ~dead /\ ~Diverges(e.no) /\ ~TyEq(n.ty, y.ty) THEN No(n.cx)
        ELSE Got(n.cx, Branch(c.code, y.code, n.code), IF dead THEN n.ty ELSE y.ty))))

LowerIfLet(cx, f, e, want) ==
    Then(Lower(cx, f, e.of, None), LAMBDA v :
        LowerArms(v.cx, f, v.code, v.ty,
                  <<[pat |-> e.pat, body |-> e.yes],
                    [pat |-> Wild, body |-> IF e.no = NoExpr THEN EmptyBlock ELSE e.no]>>, want))

LowerMatch(cx, f, e, want) ==
    Then(Lower(cx, f, e.of, None), LAMBDA v :
        IF \E i \in DOMAIN e.arms : e.arms[i].guard # NoExpr
        THEN GuardedArms(v.cx, f, v.code, v.ty, e.arms, want)
        ELSE LowerArms(v.cx, f, v.code, v.ty, e.arms, want))

LowerReturn(cx, f, e) ==
    IF f.out = None THEN No(cx)
    ELSE Then(Typed(cx, f, e.of, f.out), LAMBDA v : Got(v.cx, Ret(v.code), UnitT))

\* `?` leaves the body with the absent value, or with an error of the same type.
LowerTry(cx, f, e, want) ==
    LET wanted == CASE f.out = None \/ want = None -> None
                    [] Is(f.out, "result") -> Res(want, f.out[3])
                    [] Is(f.out, "option") -> Opt(want)
                    [] OTHER -> None
        ErrPattern(x) == PVariant("Result", "Err", <<<<"0", x>>>>)
    IN IF f.out = None THEN No(cx)
       ELSE Then(Lower(cx, f, e.of, wanted), LAMBDA v :
        LET x == v.cx.next
            err == x + 1
        IN CASE Is(v.ty, "option") /\ Is(f.out, "option") ->
                    Got(Fresh(v.cx, 1), Either(v.code, PPresent(PBind(x)), Read(x), Ret(Missing)), v.ty[2])
             [] Is(v.ty, "result") /\ Is(f.out, "result") ->
                    IF ~TyEq(v.ty[3], f.out[3]) THEN No(v.cx)
                    ELSE Got(Fresh(v.cx, 2), Choose(v.code, <<<<OkPattern(PBind(x)), Read(x)>>,
                                <<ErrPattern(PBind(err)), Ret(ErrCode(Read(err)))>>>>), v.ty[2])
             [] OTHER -> No(v.cx))

InLoop(f, label, exit, next, ty) ==
    [f EXCEPT !.loops = Append(@, [label |-> label, exit |-> exit, next |-> next, ty |-> ty])]

\* Iterating by place, a plain name stands for the place itself.
LowerFor(cx, f, e) ==
    Then(Pipeline(cx, f, e.of), LAMBDA p :
        Iterate(p, LAMBDA c, item, exit, next, at :
            LET named == at # None /\ e.pat.q = "ident"
                bound == IF named
                         THEN Parts([c EXCEPT !.env = Put(@, e.pat.x, [slot |-> item, ty |-> p.item, mut |-> FALSE,
                                                                      alias |-> at])], <<>>)
                         ELSE Destructure(c, e.pat, item, p.item)
            IN Then(bound, LAMBDA d :
               Then(Require(LowerBlock(d.cx, InLoop(f, e.label, exit, next, None), e.body.stmts, UnitT), UnitT), LAMBDA b :
                    InEnv(Got(b.cx, Chain(Append(d.parts, b.code)), UnitT), c)))))

LowerWhile(cx, f, e) ==
    LET exit == cx.labels + 1
        next == cx.labels + 2
    IN Then(Typed(Labels(cx, 2), f, e.c, Bool), LAMBDA c :
       Then(Require(LowerBlock(c.cx, InLoop(f, e.label, exit, next, None), e.body.stmts, UnitT), UnitT), LAMBDA b :
            Got(b.cx, Block(exit, Loop(Chain(<<Branch(c.code, NoValue, Exit(exit, NoValue)),
                                               Block(next, b.code)>>))), UnitT)))

LowerLoop(cx, f, e, want) ==
    LET exit == cx.labels + 1
        next == cx.labels + 2
        ty   == IF want = None THEN UnitT ELSE want
    IN Then(LowerBlock(Fresh(Labels(cx, 2), 1), InLoop(f, e.label, exit, next, ty), e.body.stmts, UnitT), LAMBDA b :
            Got(b.cx, Block(exit, Loop(Block(next, b.code))), ty))

\* The innermost loop, or the innermost one of that label.
LoopTarget(f, label) ==
    LET fit == {i \in DOMAIN f.loops : label = NoLabel \/ f.loops[i].label = label}
    IN IF fit = {} THEN None ELSE f.loops[Max(fit)]

LowerJump(cx, f, e) ==
    LET loop == LoopTarget(f, e.label) IN
    CASE loop = None -> No(cx)
      [] e.e = "continue" -> Got(cx, Exit(loop.next, NoValue), UnitT)
      [] e.of = NoExpr -> Got(cx, Exit(loop.exit, NoValue), UnitT)
      [] OTHER -> Then(Lower(cx, f, e.of, loop.ty), LAMBDA v : Got(v.cx, Exit(loop.exit, v.code), UnitT))

\* panic!, assert! and matches!
LowerMacro(cx, f, e) ==
    CASE e.e = "panic" -> Got(cx, Panic("panic"), UnitT)
      [] e.e = "assert" -> Then(Typed(cx, f, e.of, Bool), LAMBDA c :
            Got(c.cx, Branch(c.code, NoValue, Panic("assert")), UnitT))
      [] e.e = "matches" -> Then(Lower(cx, f, e.of, None), LAMBDA v :
            LowerArms(v.cx, f, v.code, v.ty, <<[pat |-> e.pat, body |-> [e |-> "bool", b |-> TRUE]],
                                               [pat |-> Wild, body |-> [e |-> "bool", b |-> FALSE]]>>, Bool))

-----------------------------------------------------------------------------
(* blocks *)

\* The one integer type the rest of the block allows; without a constraint, i32.
InferLocal(cx, f, pat, rest, want, array) ==
    LET Make(k) == IF array THEN Arr(Num(k), Unknown) ELSE Num(k)
        trial(c, k) ==
            Then(Destructure(Fresh(c, 1), pat, c.next, Make(k)), LAMBDA d :
            Then(LowerBlock(d.cx, f, rest, want), LAMBDA b :
                IF want # None /\ ~BlockDiverges(rest) THEN Require(b, want) ELSE b))
        all == FoldLeft(LAMBDA acc, k : LET t == trial(acc.cx, k)
                                        IN [cx |-> [acc.cx EXCEPT !.fns = t.cx.fns],
                                            found |-> IF t.ok THEN acc.found \cup {k} ELSE acc.found],
                        [cx |-> cx, found |-> {}], NUMBERS)
        kind == CASE all.found = {} -> NoLabel
                  [] Cardinality(all.found) = 1 -> CHOOSE k \in all.found : TRUE
                  [] OTHER -> "i32"
    IN [ok |-> kind # NoLabel, cx |-> all.cx, ty |-> Make(kind)]

\* The calls of Self's functions in e that are statements or parts of them, in order.
RECURSIVE SelfCalls(_)
SelfCalls(e) ==
    CASE e.e = "assoc" -> (IF e.via = "Self" THEN <<e>> ELSE <<>>) \o FlattenSeq([i \in DOMAIN e.args |-> SelfCalls(e.args[i])])
      [] e.e \in {"try", "some", "ok", "err", "return", "not", "dot"} -> SelfCalls(e.of)
      [] OTHER -> <<>>
UsageType(f, pat, rest) ==
    LET calls == FlattenSeq([i \in DOMAIN rest |->
                    SelfCalls(IF rest[i].s \in {"let", "letelse"} THEN rest[i].init ELSE rest[i].of)])
        uses(c) == {i \in DOMAIN c.args : c.args[i] = Var(pat.x)}
        first == {n \in DOMAIN calls : uses(calls[n]) # {} /\ \A m \in 1..n - 1 : uses(calls[m]) = {}}
    IN IF pat.q # "ident" THEN None ELSE IF first = {} THEN None
       ELSE LET c == calls[CHOOSE n \in first : TRUE]
                def == MethodDefinition(FrameSelf(f), c.f)
            IN IF def = None THEN None ELSE TyOf(f, def.params[Min(uses(c))].ty)

LetValue(cx, f, s, rest, want) ==
    LET annotated ==
            CASE s.ty # None -> [ok |-> TRUE, cx |-> cx, ty |-> TyOf(f, s.ty)]
              [] s.init.e = "repeat" -> IF ~Untyped(s.init.of) THEN [ok |-> TRUE, cx |-> cx, ty |-> None]
                    ELSE InferLocal(cx, f, s.pat, rest, want, TRUE)
              [] Untyped(s.init) -> InferLocal(cx, f, s.pat, rest, want, FALSE)
              [] OTHER -> [ok |-> TRUE, cx |-> cx, ty |-> None]
    IN Then(annotated, LAMBDA a :
        LET v == Lower(a.cx, f, s.init, a.ty)
            wanted == UsageType(f, s.pat, rest)
        IN CASE v.ok /\ s.ty # None -> Require(v, a.ty)
             [] v.ok \/ a.ty # None \/ wanted = None -> v
             [] OTHER -> Then(Typed(v.cx, f, s.init, wanted), LAMBDA w : Got(w.cx, w.code, wanted)))

LetElse(cx, f, s) ==
    IF ~Diverges(s.no) THEN No(cx)
    ELSE Then(Lower(cx, f, s.init, None), LAMBDA v : Then(Lower(v.cx, f, s.no, None), LAMBDA n :
         Then(Pattern(n.cx, f, s.pat, v.ty), LAMBDA p :
            Parts(p.cx, <<Choose(v.code, <<<<p.pat, NoValue>>, <<PAny, n.code>>>>)>>))))

Statements(cx, f, ss, i, parts, want) ==
    LET s == ss[i]
        more(c, new) == Statements(c, f, ss, i + 1, parts \o new, want)
        named == s.s = "let" /\ s.pat.q = "ident" /\ s.ty = None
        lazy == [of |-> s.init, env |-> cx.env, clos |-> cx.clos, f |-> f]
    IN CASE i > Len(ss) -> Got(cx, Chain(Append(parts, NoValue)), UnitT)
         [] s.s = "tail" -> Then(Lower(cx, f, s.of, want), LAMBDA v :
                Got(v.cx, Chain(parts \o <<v.code>> \o (IF TyEq(v.ty, UnitT) THEN <<NoValue>> ELSE <<>>)), v.ty))
         [] s.s = "semi" -> Then(Lower(cx, f, s.of, None), LAMBDA v : more(v.cx, <<v.code>>))
         [] s.s = "letelse" -> Then(LetElse(cx, f, s), LAMBDA l : more(l.cx, l.parts))
         [] named /\ s.init.e = "closure" ->
                more([cx EXCEPT !.clos = Put(@, s.pat.x, ClosureSyntax(cx, f, s.init))], <<>>)
         [] named /\ IsIterator(cx, f, s.init) -> more([cx EXCEPT !.iters = Put(@, s.pat.x, lazy)], <<>>)
         [] OTHER -> Then(LetValue(cx, f, s, SubSeq(ss, i + 1, Len(ss)), want), LAMBDA v :
                Then(Destructure(Fresh(v.cx, 1), s.pat, v.cx.next, v.ty), LAMBDA d :
                    more(d.cx, <<Write(v.cx.next, v.code)>> \o d.parts)))

\* A refused block leaves its names in scope.
LowerBlock(cx, f, ss, want) == Then(Statements(cx, f, ss, 1, <<>>, want), LAMBDA r : InScope(r, cx))

-----------------------------------------------------------------------------
Lower(cx, f, e, want) ==
    CASE e.e = "block" -> LowerBlock(cx, f, e.stmts, want)
      [] e.e = "bool" -> Got(cx, Truth(e.b), Bool)
      [] e.e = "lit" -> LowerLiteral(cx, e, want)
      [] e.e = "max" -> Got(cx, Literal(Number(e.kind, Size(e.kind) - 1)), Num(e.kind))
      [] e.e = "tuple" -> LowerTuple(cx, f, e, want)
      [] e.e = "none" -> Got(cx, Missing, IF Is(want, "option") THEN want ELSE Opt(Infer))
      [] e.e = "var" -> LowerName(cx, f, e.x)
      [] e.e = "variant" -> VariantCode(cx, f, e, want)
      [] e.e = "array" -> LowerArray(cx, f, e, want)
      [] e.e = "repeat" -> LowerRepeat(cx, f, e, want)
      [] e.e = "dot" -> Then(Lower(cx, f, e.of, None), LAMBDA v :
            Unless(FieldType(v.ty, e.name) = None, v, LAMBDA w :
                Got(w.cx, Field(w.code, e.name), FieldType(w.ty, e.name))))
      [] e.e = "at" -> Then(Lower(cx, f, e.of, None), LAMBDA a : Unless(~Is(a.ty, "array"), a, LAMBDA b :
            Then(Typed(b.cx, f, e.i, Usize), LAMBDA i : Got(i.cx, Index(b.code, i.code), b.ty[2]))))
      [] e.e = "not" -> Then(Typed(cx, f, e.of, Bool), LAMBDA v : Got(v.cx, Negate(v.code), Bool))
      [] e.e = "deref" -> Lower(cx, f, e.of, want)
      [] e.e = "cast" -> Then(Lower(cx, f, e.of, None), LAMBDA v : Unless(~Is(v.ty, "number"), v, LAMBDA w :
            Got(w.cx, Convert(e.kind, FALSE, w.code), Num(e.kind))))
      [] e.e = "bin" -> LowerBinary(cx, f, e, want)
      [] e.e = "opassign" -> LowerOpAssign(cx, f, e)
      [] e.e = "assign" -> LowerAssign(cx, f, e)
      [] e.e = "if" -> LowerIf(cx, f, e, want)
      [] e.e = "iflet" -> LowerIfLet(cx, f, e, want)
      [] e.e = "match" -> LowerMatch(cx, f, e, want)
      [] e.e = "return" -> LowerReturn(cx, f, e)
      [] e.e = "try" -> LowerTry(cx, f, e, want)
      [] e.e \in {"some", "ok", "err"} -> Constructor(cx, f, e, want)
      [] e.e = "call" -> ClosureCall(cx, f, e, want)
      [] e.e = "fromfn" -> FromFn(cx, f, e, want)
      [] e.e = "tryfrom" -> TryFrom(cx, f, e)
      [] e.e = "assoc" -> AssocCall(cx, f, e, want)
      [] e.e = "method" -> MethodCall(cx, f, e, want)
      [] e.e \in {"panic", "assert", "matches"} -> LowerMacro(cx, f, e)
      [] e.e = "struct" -> LowerStruct(cx, f, e, want)
      [] e.e = "for" -> LowerFor(cx, f, e)
      [] e.e = "while" -> LowerWhile(cx, f, e)
      [] e.e = "loop" -> LowerLoop(cx, f, e, want)
      [] e.e \in {"break", "continue"} -> LowerJump(cx, f, e)
      [] OTHER -> No(cx)

\* A method of the crate as a root: its body and the functions it calls.
LowerImperative(key) ==
    LET start == [env |-> <<>>, clos |-> <<>>, iters |-> <<>>, rebind |-> None, next |-> 1, labels |-> 0,
                  inlined |-> {}, stack |-> <<key>>, fns |-> <<>>]
    IN FunctionOf(start, Methods[key])

\* The functions of one more root join the table; the first body of a name stays,
\* and a second one that differs is a conflict.
Table(functions, more) ==
    [functions |-> functions @@ more,
     conflict  |-> \E n \in DOMAIN functions \cap DOMAIN more : functions[n] # more[n]]
=============================================================================
