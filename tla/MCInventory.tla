---------------------------- MODULE MCInventory ----------------------------
(* Crates for Inventory: a module in a file of its own or inline, a function, *)
(* an impl and a trait behind conditions.                                    *)
EXTENDS Inventory

List(op, of) == [k |-> "list", op |-> op, of |-> of]
When(p, attrs) == [k |-> "cfg_attr", p |-> p, attrs |-> attrs]
Doc == [k |-> "plain", name |-> "doc"]
Bad == [k |-> "bad"]

X == Flag("x")
NotX == List("not", <<X>>)

Decl(kind, name, attrs) ==
  [kind |-> kind, name |-> name, public |-> TRUE, attrs |-> attrs, inner |-> {},
   within |-> {}, parts |-> <<>>, inline |-> FALSE, trait |-> "", body |-> 1]

Conditions ==
  {{}, {Doc}, {Cfg(X)}, {Cfg(NotX)}, {Cfg(Flag("test"))}, {Cfg(X), Cfg(NotX)},
   {Cfg(List("any", <<X, Bad>>))}, {Cfg(List("all", <<Flag("y"), List("any", <<>>)>>))},
   {Cfg(List("not", <<X, X>>))}, {Cfg(List("maybe", <<X>>))},
   {Cfg(List("any", <<X, List("not", <<Flag("test")>>)>>))},
   {Cfg(List("not", <<List("not", <<List("not", <<X>>)>>)>>))},
   {When(X, {Cfg(Flag("y")), Doc})}, {When(X, {When(Flag("y"), {Cfg(List("any", <<>>))})})},
   {When(X, {When(X, {When(X, {Cfg(NotX)})})})}, {When(Bad, {})}}
Few == {{}, {Cfg(X)}, {Cfg(Flag("test"))}, {When(X, {Cfg(Flag("y"))})}, {Cfg(List("any", <<X, Bad>>))}}

F(attrs) == Decl("fn", "f", attrs)
Mod(attrs, inline) ==
  [Decl("mod", "m", attrs) EXCEPT !.inline = inline,
                                  !.parts = IF inline THEN <<F({})>> ELSE <<>>]
Impl(attrs, of) == [Decl("impl", "S", attrs) EXCEPT !.parts = of]
Trait(of) == [Decl("trait", "T", {}) EXCEPT !.parts = of]
Item(kind, attrs) == Decl(kind, "g", attrs)
Struct(attrs) == [Decl("struct", "S", {}) EXCEPT !.parts = <<Decl("field", "v", attrs)>>]

Text(attrs, items) == [attrs |-> attrs, items |-> items]
Layouts == {{}, {<<"m">>}, {<<"m", "mod">>}, {<<"m">>, <<"m", "mod">>}}
Crate(layout, lib, child) == [f \in {Root} \cup layout |-> IF f = Root THEN lib ELSE child]

(* A condition on a module, on the file of the module and on what follows it. *)
WithModules ==
  {Crate(layout, Text({}, <<Mod(a, inline), F(b)>>), Text(c, <<F(d)>>)) :
     layout \in Layouts, inline \in BOOLEAN, a \in Conditions, b \in Few, c \in Few, d \in {{}, {Cfg(X)}}}

(* Conditions on members, and a function that may be declared twice.          *)
WithMembers ==
  {Crate({}, Text({}, <<Struct(a), Impl(b, <<Item("fn", a), Item("const", {Cfg(NotX)})>>),
                        Trait(<<Item("fn", c), Item("type", a)>>), F(b), F(c)>>), Text({}, <<>>)) :
     a \in Conditions, b, c \in Few}

(* A module that an attribute takes to another file.                         *)
WithPaths ==
  {[f \in {Root, <<"m">>, <<"other">>} |->
      IF f = Root THEN Text({}, <<Mod(a, FALSE)>>) ELSE Text({}, <<F({})>>)] :
     a \in {{[k |-> "path", to |-> <<"other">>]}, {When(X, {Doc})}} \cup Few}

AllCrates == WithModules \cup WithMembers \cup WithPaths
MCConfigurations == SUBSET {"x", "y", "test"}

(* Versions of a small crate: a function is renamed, made private, changed,    *)
(* moved into a module, or only tested.                                       *)
MCVersions ==
  {Crate({}, Text({}, <<F({})>>), Text({}, <<>>)),
   Crate({}, Text({}, <<[F({}) EXCEPT !.body = 2]>>), Text({}, <<>>)),
   Crate({}, Text({}, <<Item("fn", {}), [F({Cfg(X)}) EXCEPT !.public = FALSE]>>), Text({}, <<>>)),
   Crate({}, Text({}, <<Item("fn", {Cfg(Flag("test"))})>>), Text({}, <<>>))}
============================================================================
