----------------------------- MODULE MethodTypes -----------------------------
(***************************************************************************)
(* Types of the method frontend (provium/src/methods/imperative.rs).  A type *)
(* is a tuple headed by its constructor.  A constant argument is a slot that *)
(* holds it at run time, a value, or unknown; a type as written in a         *)
(* declaration may also name a parameter of its impl, or Self.               *)
(***************************************************************************)
EXTENDS Machine

CONSTANTS
    Structs,    \* [name -> [fields: seq of <<name, type>>, consts: seq of names, derives: set, drop: BOOLEAN]]
    Enums       \* [name -> [tags: [tag -> seq of <<name, type>>], derives: set]]

None         == <<>>
Num(k)       == <<"number", k>>
Usize        == Num("usize")
Bool         == <<"bool">>
UnitT        == <<"unit">>
Opt(t)       == <<"option", t>>
Res(t, e)    == <<"result", t, e>>
Arr(t, n)    == <<"array", t, n>>
Named(n, ks) == <<"named", n, ks>>
Tup(ts)      == <<"tuple", ts>>
Infer        == <<"infer">>
Opaque(x)    == <<"opaque", x>>
Unknown      == <<"unknown">>

Is(t, shape)  == t # None /\ t[1] = shape
NUMBERS       == SelectSeq(<<"u8", "u16", "u32", "u64", "usize">>, LAMBDA k : k \in Kinds)

-----------------------------------------------------------------------------
KonstEq(a, b) == Unknown \in {a, b} \/ a = b

\* A type left to inference equals every type.
RECURSIVE TyEq(_, _)
TyEq(a, b) ==
    \/ Infer \in {a, b}
    \/ /\ a[1] = b[1]
       /\ CASE a[1] \in {"number", "opaque"} -> a[2] = b[2]
            [] a[1] = "option" -> TyEq(a[2], b[2])
            [] a[1] = "result" -> TyEq(a[2], b[2]) /\ TyEq(a[3], b[3])
            [] a[1] = "array" -> TyEq(a[2], b[2]) /\ KonstEq(a[3], b[3])
            [] a[1] = "tuple" -> Len(a[2]) = Len(b[2]) /\ \A i \in DOMAIN a[2] : TyEq(a[2][i], b[2][i])
            [] a[1] = "named" ->
                  a[2] = b[2] /\ (Len(a[3]) = Len(b[3]) => \A i \in DOMAIN a[3] : KonstEq(a[3][i], b[3][i]))
            [] OTHER -> TRUE

RECURSIVE ContainsInfer(_)
ContainsInfer(t) ==
    CASE t[1] = "infer" -> TRUE
      [] t[1] \in {"option", "array"} -> ContainsInfer(t[2])
      [] t[1] = "result" -> ContainsInfer(t[2]) \/ ContainsInfer(t[3])
      [] t[1] = "tuple" -> \E i \in DOMAIN t[2] : ContainsInfer(t[2][i])
      [] OTHER -> FALSE

\* The constant argument k under an instance of the impl's parameters.
Konst(k, consts) ==
    IF k[1] # "param" THEN k ELSE IF k[2] \in DOMAIN consts THEN consts[k[2]] ELSE Unknown

ConstParams(name) == IF name \in DOMAIN Structs THEN Structs[name].consts ELSE <<>>

\* The type t as written, where self is Self; an undeclared name is opaque.
RECURSIVE TyIn(_, _, _)
TyIn(t, consts, self) ==
    CASE t[1] = "self" -> self
      [] t[1] = "mutref" -> TyIn(t[2], consts, self)
      [] t[1] = "option" -> Opt(TyIn(t[2], consts, self))
      [] t[1] = "result" -> Res(TyIn(t[2], consts, self), TyIn(t[3], consts, self))
      [] t[1] = "array" -> Arr(TyIn(t[2], consts, self), Konst(t[3], consts))
      [] t[1] = "tuple" -> Tup([i \in DOMAIN t[2] |-> TyIn(t[2][i], consts, self)])
      [] t[1] = "named" ->
            IF t[2] \notin DOMAIN Structs \cup DOMAIN Enums THEN Opaque(t[2])
            ELSE Named(t[2], [i \in DOMAIN ConstParams(t[2]) |->
                                 IF i \in DOMAIN t[3] THEN Konst(t[3][i], consts) ELSE Unknown])
      [] OTHER -> t

\* A crate type written without its arguments.
FreshInstance(name) == Named(name, [i \in DOMAIN ConstParams(name) |-> Unknown])

\* What the parameters params of a declaration are in the instance ty.
Instance(params, ty) ==
    [x \in ToSet(params) |->
        LET i == CHOOSE j \in DOMAIN params : params[j] = x
        IN IF Is(ty, "named") /\ i \in DOMAIN ty[3] THEN ty[3][i] ELSE Unknown]

Resolved(fields, owner) ==
    [i \in DOMAIN fields |-> <<fields[i][1], TyIn(fields[i][2], Instance(ConstParams(owner[2]), owner), owner)>>]
RecordMembers(owner)       == Resolved(Structs[owner[2]].fields, owner)
VariantMembers(owner, tag) == Resolved(Enums[owner[2]].tags[tag], owner)
IsStruct(t) == Is(t, "named") /\ t[2] \in DOMAIN Structs
IsEnum(t)   == Is(t, "named") /\ t[2] \in DOMAIN Enums
MemberType(members, n) ==
    IF \E i \in DOMAIN members : members[i][1] = n
    THEN members[CHOOSE i \in DOMAIN members : members[i][1] = n][2] ELSE None

\* The type of field n of a record or a tuple, if it has it.
FieldType(t, n) ==
    CASE Is(t, "tuple") -> MemberType([i \in DOMAIN t[2] |-> <<ToString(i - 1), t[2][i]>>], n)
      [] IsStruct(t) -> MemberType(RecordMembers(t), n)
      [] OTHER -> None

\* A derived trait holds of the type and of every part it inspects.
RECURSIVE Derived(_, _)
Derived(t, trait) ==
    LET all(members) == \A i \in DOMAIN members : Derived(members[i][2], trait) IN
    CASE t[1] \in {"unit", "bool", "number", "infer"} -> TRUE
      [] t[1] = "option" -> Derived(t[2], trait)
      [] t[1] = "result" -> Derived(t[2], trait) /\ Derived(t[3], trait)
      [] t[1] = "tuple" -> \A i \in DOMAIN t[2] : Derived(t[2][i], trait)
      [] t[1] = "array" -> trait # "PartialOrd" /\ Derived(t[2], trait)
      [] IsStruct(t) -> trait \in Structs[t[2]].derives /\ all(RecordMembers(t))
      [] IsEnum(t) -> trait \in Enums[t[2]].derives
                      /\ \A tag \in DOMAIN Enums[t[2]].tags : all(VariantMembers(t, tag))
      [] OTHER -> FALSE
IsCopy(t) == Derived(t, "Copy")

\* No value of the type runs a destructor of the crate.
RECURSIVE Droppable(_)
Droppable(t) ==
    CASE t[1] = "named" -> t[2] \in DOMAIN Structs => ~Structs[t[2]].drop
      [] t[1] \in {"option", "array"} -> Droppable(t[2])
      [] t[1] = "result" -> Droppable(t[2]) /\ Droppable(t[3])
      [] t[1] = "tuple" -> \A i \in DOMAIN t[2] : Droppable(t[2][i])
      [] OTHER -> TRUE

-----------------------------------------------------------------------------
Truth(b)      == Literal(Boolean(b))
NoValue       == Literal(Unit)
Missing       == Literal(Absent)
Counter(n)    == Literal(Number("usize", n))
KonstCode(k)  == IF k[1] = "slot" THEN Read(k[2]) ELSE Counter(k[2])
FitsType(n, k)== n < Size(k)

RECURSIVE DefaultValue(_), HasDefault(_)
HasDefault(t) ==
    \/ t[1] \in {"bool", "number", "option"}
    \/ /\ IsStruct(t)
       /\ "Default" \in Structs[t[2]].derives
       /\ \A i \in DOMAIN RecordMembers(t) : HasDefault(RecordMembers(t)[i][2])
DefaultValue(t) ==
    CASE t[1] = "bool" -> Truth(FALSE)
      [] t[1] = "number" -> Literal(Number(t[2], 0))
      [] t[1] = "option" -> Missing
      [] t[1] = "named" -> MkRecord(t[2], [i \in DOMAIN RecordMembers(t) |->
                              <<RecordMembers(t)[i][1], DefaultValue(RecordMembers(t)[i][2])>>])
=============================================================================
