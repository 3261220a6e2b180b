------------------------------ MODULE MCLoader ------------------------------
(* Crates for Loader: declarations behind conditions, and impls of traits for  *)
(* all kinds of types.                                                        *)
EXTENDS RustCrate

List(op, of) == [k |-> "list", op |-> op, of |-> of]
When(p, attrs) == [k |-> "cfg_attr", p |-> p, attrs |-> attrs]
Word(name) == [k |-> "plain", name |-> name]
Path(to) == [k |-> "path", to |-> to]
X == Flag("x")
NotX == List("not", <<X>>)

Decl(kind, name, attrs) ==
  [kind |-> kind, name |-> name, attrs |-> attrs, inner |-> {}, within |-> {}, parts |-> <<>>,
   inline |-> FALSE, trait |-> "", target |-> Plain(name), generics |-> {}, self |-> "ref",
   form |-> "name", canonical |-> FALSE]

Fn(name, kind) == [Decl("fn", name, {}) EXCEPT !.self = kind]
Struct(name, attrs) == Decl("struct", name, attrs)
Impl(trait, target, generics, parts) ==
  [Decl("impl", target.base, {}) EXCEPT !.trait = trait, !.target = target,
                                       !.generics = generics, !.parts = parts]
Trait(name, parts) == [Decl("trait", name, {}) EXCEPT !.parts = parts]
Lib(items) == [f \in {Root} |-> [attrs |-> {}, items |-> items]]

-----------------------------------------------------------------------------
Conditions ==
  {{}, {Word("doc")}, {Cfg(X)}, {Cfg(NotX)}, {Cfg(Flag("test"))}, {When(Flag("test"), {Word("derive")})},
   {When(X, {Cfg(Flag("y"))})}, {When(X, {When(Flag("y"), {Cfg(NotX)})})},
   {Cfg(List("any", <<X, [k |-> "bad"]>>))}, {Word("inline")}, {Cfg(X), Cfg(NotX)}}
Few == {{}, {Cfg(X)}, {Cfg(Flag("test"))}, {When(X, {When(Flag("y"), {Cfg(NotX)})})}}

Layouts == {{}, {<<"m">>}, {<<"m", "mod">>}, {<<"m">>, <<"m", "mod">>}}

(* Conditions on fields, variants, members, modules, files and inside bodies.   *)
Parts ==
  {Lib(<<[Struct("S", a) EXCEPT !.parts = <<Decl("field", "v", b), Decl("field", "w", {})>>],
         [Decl("enum", "E", c) EXCEPT !.parts =
            <<[Decl("variant", "A", b) EXCEPT !.parts = <<Decl("field", "n", c)>>]>>],
         Impl("", Plain("S"), {}, <<[Fn("a", "ref") EXCEPT !.attrs = b], [Fn("a", "ref") EXCEPT !.attrs = c]>>)>>) :
     a, b \in Conditions, c \in Few}
Inside ==
  {Lib(<<Struct("S", {}),
         [Impl("", Plain("S"), {}, <<[Fn("a", "ref") EXCEPT !.within = a, !.inner = b]>>) EXCEPT !.inner = c],
         [Decl("mod", "m", {}) EXCEPT !.inline = TRUE, !.attrs = b, !.parts = <<[Struct("T", {}) EXCEPT !.attrs = a]>>]>>) :
     a, b, c \in Few}
Modules ==
  {[f \in {Root} \cup layout |->
      IF f = Root THEN [attrs |-> {}, items |-> <<[Decl("mod", "m", a) EXCEPT !.inner = {}], Struct("S", b)>>]
      ELSE [attrs |-> c, items |-> <<Struct(n, {})>>]] :
     layout \in Layouts, a \in Conditions \cup {{Path(<<"m">>)}}, b, c \in Few, n \in {"S", "T"}}

(* Names, imports and item kinds that are refused.                            *)
Kinds == {"mod", "fn", "struct", "enum", "const", "static", "trait", "type", "macro"}
Refused ==
  {Lib(<<Struct("S", {}), d>>) :
     d \in {Decl(kind, n, a) : kind \in Kinds, n \in {"S", "T", "Option", "Some"},
                               a \in {{}, {Cfg(Flag("test"))}}}
           \cup {[Decl("use", n, {}) EXCEPT !.form = f, !.canonical = c] :
                   n \in {"S", "Option"}, f \in {"name", "rename", "glob"}, c \in BOOLEAN}}

(* A trait and an impl of it, or of a foreign trait for other names than the    *)
(* inherent method's, beside the inherent method a and the standard method      *)
(* take.  The impl's parameter G is not the name of a type.                    *)
Targets == {[ref |-> r, base |-> b] : r \in {"", "&", "&mut"}, b \in {"S", "Option", "G"}}
Resolution(traits, names, generics) ==
  {Lib(<<Struct("S", {}), Struct("R", {}), Impl("", Plain("S"), {}, <<Fn(own, s)>>),
         Trait("Local", <<Fn(n, k)>>), Impl(tr, target, generics, <<Fn(n, k)>>)>>) :
     own \in {"a", "clone"}, s \in {"value", "ref", "mut"}, n \in names, k \in {"value", "ref", "mut"},
     tr \in traits, target \in Targets \cup {Plain("R")}}

MCSources == Parts \cup Inside \cup Modules \cup Refused
              \cup Resolution({"Local"}, {"a", "b", "take"}, {"G"})
              \cup Resolution({"Foreign"}, {"b", "take"}, {"G"})
=============================================================================
