---------------------------- MODULE Conditional ----------------------------
(***************************************************************************)
(* Conditional compilation as provium reads it (cfg.rs), over crates of     *)
(* declarations.                                                           *)
(*                                                                         *)
(* A configuration is the set of flags and key = "value" pairs that rustc   *)
(* prints; both are names here.  A predicate is                            *)
(*   [k |-> "flag", name], [k |-> "bad"] (a name or a value that cannot be  *)
(*   read), or [k |-> "list", op, of] with op all, any, not or another;     *)
(* an attribute is [k |-> "cfg", p], [k |-> "cfg_attr", p, attrs],          *)
(* [k |-> "path", to] or [k |-> "plain", name].                            *)
(*                                                                         *)
(* A crate maps the paths of its files to [attrs, items].  A declaration    *)
(* has outer attributes attrs, inner ones (#![..]) in inner, and in within   *)
(* those of places inside it that are no declarations.  parts are the        *)
(* members of an impl or trait, the fields of a struct, the variants of an   *)
(* enum, or the items of an inline module.                                 *)
(***************************************************************************)
EXTENDS Common

CONSTANT MaxDepth   \* nesting of predicates and of cfg_attr that is followed

RECURSIVE Evaluate(_, _, _)
RECURSIVE Expand(_, _, _)

Flag(f)     == [k |-> "flag", name |-> f]
Cfg(p)      == [k |-> "cfg", p |-> p]
Is(x)       == IF x THEN "yes" ELSE "no"

(* Mutant: an operand that does not matter is not looked at.               *)
OperatorLazy(op, results) ==
  CASE op = "all" -> IF "no" \in results THEN "no" ELSE IF "error" \in results THEN "error" ELSE "yes"
    [] op = "any" -> IF "yes" \in results THEN "yes" ELSE IF "error" \in results THEN "error" ELSE "no"
    [] OTHER -> "error"

(* The operands have been validated before their values are combined.      *)
Operator(op, results) ==
  CASE "error" \in results -> "error"
    [] op = "all" -> Is("no" \notin results)
    [] op = "any" -> Is("yes" \in results)
    [] OTHER      -> "error"

Evaluate(cfg, p, depth) ==
  CASE depth > MaxDepth \/ p.k = "bad" -> "error"
    [] p.k = "flag" -> Is(p.name \in cfg)
    [] p.k = "list" ->
         LET results == {Evaluate(cfg, p.of[i], depth + 1) : i \in DOMAIN p.of}
         IN  IF p.op = "not" /\ Len(p.of) = 1 /\ "error" \notin results
             THEN Is(results = {"no"})
             ELSE Operator(p.op, results)

(* cfg_attr is replaced by what it stands for.                              *)
Expand(cfg, a, depth) ==
  LET condition == Evaluate(cfg, a.p, 0)
      inside    == {Expand(cfg, b, depth + 1) : b \in a.attrs}
  IN  CASE depth > MaxDepth   -> [err |-> TRUE, attrs |-> {}]
        [] a.k # "cfg_attr"   -> [err |-> FALSE, attrs |-> {a}]
        [] condition = "yes"  -> [err   |-> \E r \in inside : r.err,
                                  attrs |-> UNION {r.attrs : r \in inside}]
        [] OTHER              -> [err |-> condition = "error", attrs |-> {}]

(* What the attributes of a declaration say: whether it is compiled, and    *)
(* which attributes remain.                                                *)
Attributes(cfg, attrs) ==
  LET expanded == {Expand(cfg, a, 0) : a \in attrs}
      all      == UNION {r.attrs : r \in expanded}
      tests    == {Evaluate(cfg, a.p, 0) : a \in {b \in all : b.k = "cfg"}}
  IN  [err     |-> (\E r \in expanded : r.err) \/ "error" \in tests,
       enabled |-> "no" \notin tests,
       rest    |-> {a \in all : a.k # "cfg"}]

TestOnly(attrs) == Cfg(Flag("test")) \in attrs

(* The file of module m declared where child files are looked up in dir:    *)
(* m.rs or m/mod.rs, and exactly one of them.                              *)
Flat(dir, m)   == Append(dir, m)
Nested(dir, m) == dir \o <<m, "mod">>
Located(crate, dir, m) == {Flat(dir, m), Nested(dir, m)} \cap DOMAIN crate

Crossed(r) == [r EXCEPT !.err = TRUE]
=============================================================================
