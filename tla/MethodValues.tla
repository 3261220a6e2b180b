---------------------------- MODULE MethodValues ----------------------------
(* Values of method bodies: the PureValue type of Provium's Lean library.    *)
(* Integer types keep a width, scaled down so that every value can be tried. *)
EXTENDS Integers, Sequences, FiniteSets, TLC

CONSTANT Width      \* [integer type -> bits]

Kinds == DOMAIN Width
Size(k) == 2^Width[k]

Number(k, n)          == [v |-> "number", kind |-> k, n |-> n]
Boolean(b)            == [v |-> "boolean", b |-> b]
Unit                  == [v |-> "unit"]
Absent                == [v |-> "absent"]
Present(x)            == [v |-> "present", x |-> x]
Record(name, f)       == [v |-> "record", name |-> name, f |-> f]
Variant(name, tag, f) == [v |-> "variant", name |-> name, tag |-> tag, f |-> f]
Array(s)              == [v |-> "array", s |-> s]

Tuple(vals) == Record("()", [i \in {ToString(j - 1) : j \in DOMAIN vals} |->
                               vals[CHOOSE j \in DOMAIN vals : ToString(j - 1) = i]])
OkValue(x)  == Variant("Result", "Ok", ("0" :> x))
ErrValue(x) == Variant("Result", "Err", ("0" :> x))

NoExpr  == [e |-> "no"]
NoLabel == "no label"

Put(f, x, v) == (x :> v) @@ f
=============================================================================
