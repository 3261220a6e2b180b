------------------------------ MODULE Loader -------------------------------
(***************************************************************************)
(* How the method frontend of provium loads a crate (methods.rs): which       *)
(* declarations a configuration selects (configured.rs), which crates it      *)
(* refuses, and the tables from which backends resolve methods by name.       *)
(*                                                                         *)
(* Beyond the fields of Conditional, an impl has a target type, the name of   *)
(* its trait ("" when it is inherent) and its type parameters in generics; a  *)
(* function has its kind of self parameter in self; a use has its form        *)
(* (name, rename or glob), and canonical tells whether a standard name is      *)
(* imported from where the prelude has it.                                   *)
(***************************************************************************)
EXTENDS RustCrate

CONSTANTS Sources,          \* crates
          Configurations,   \* configurations that rustc may print for them
          Reserved,         \* names of primitives, the prelude and standard roots
          Constructors,     \* those that are Option and Result constructors
          Derived,          \* methods of derived and standard traits
          StdMethods,       \* methods of the standard types: [name, self, base]
          Loaded(_, _),     \* a crate as it is loaded: LoadInner, which instances pass
          RustcKeeps(_, _)  \* what rustc compiles of it: Compiled, which instances pass

VARIABLES crate, cfg, result

vars == <<crate, cfg, result>>

RECURSIVE HasCondition(_)
RECURSIVE Everything(_, _, _)
RECURSIVE Select(_, _, _, _)
RECURSIVE LoadFile(_, _, _, _, _, _)

Empty == [err |-> FALSE, kept |-> {}, files |-> {}, types |-> {}, methods |-> {},
          imports |-> {}, targets |-> {}, traitMethods |-> {}]
Rejected == Crossed(Empty)
Merge(rs) == [f \in DOMAIN Empty |-> IF f = "err" THEN \E r \in rs : r.err ELSE UNION {r[f] : r \in rs}]

IsCondition(a) == a.k \in {"cfg", "cfg_attr"}

(* The Remaining visitor of configured.rs.                                  *)
HasCondition(d) ==
  \/ \E a \in d.attrs \cup d.inner \cup d.within : IsCondition(a)
  \/ \E i \in DOMAIN d.parts : HasCondition(d.parts[i])

Everything(d, file, at) ==
  {<<file, at>>} \cup UNION {Everything(d.parts[i], file, Append(at, i)) : i \in DOMAIN d.parts}

(* Mutant: nested conditions are left to the backends.                       *)
UnreadNowhere(d) == FALSE

(* A condition where configured.rs does not select.                         *)
Unread(d) ==
  \/ \E a \in d.inner \cup d.within : IsCondition(a)
  \/ /\ d.kind \notin {"struct", "enum", "variant", "impl", "trait"}
     /\ \E i \in DOMAIN d.parts : HasCondition(d.parts[i])

(* configured::item, declaration and fields: what is left of a declaration.   *)
Select(c, d, file, at) ==
  LET r == Attributes(c, d.attrs)
      below == IF d.kind \in {"struct", "enum", "variant", "impl", "trait"}
               THEN {Select(c, d.parts[i], file, Append(at, i)) : i \in DOMAIN d.parts}
               ELSE {[Empty EXCEPT !.kept = Everything(d, file, at)]}
  IN  CASE r.err      -> Rejected
        [] ~r.enabled -> Empty
        [] Unread(d)  -> Rejected
        [] OTHER      -> Merge({[Empty EXCEPT !.kept = {<<file, at>>}]} \cup below)

(* Without a configuration only cfg(test) and cfg_attr(test, ..) are          *)
(* admitted, on items.                                                      *)
TestAttribute(a) == a.k = "cfg_attr" /\ a.p = Flag("test")
Admit(d, file, at) ==
  LET all == d.attrs \cup d.inner
  IN  IF \E a \in all : IsCondition(a) /\ ~TestOnly({a}) /\ ~TestAttribute(a) THEN Rejected
      ELSE IF TestOnly(all) THEN Empty
      ELSE [Empty EXCEPT !.kept = Everything(d, file, at)]

-----------------------------------------------------------------------------
OnlyDoc(attrs) == \A a \in attrs : a.k = "plain" /\ a.name = "doc"
(* Of conditional attributes a struct may have cfg_attr(test, derive(Clone)).   *)
OnStruct(attrs) ==
  LET plain(names) == {[k |-> "plain", name |-> n] : n \in names}
  IN  attrs \subseteq plain({"doc", "must_use", "derive"})
                       \cup {[k |-> "cfg_attr", p |-> Flag("test"), attrs |-> plain({"derive"})]}
OnFile(attrs) == \A a \in attrs : a.k = "plain" /\ a.name \in {"doc", "no_std", "allow"}

Named == {"mod", "fn", "struct", "enum", "const", "static", "trait", "type"}

(* Items that are refused even when only tests have them.                     *)
EvenInTests(d) ==
  \/ d.kind = "macro"
  \/ d.kind = "enum" /\ d.name \in Reserved
  \/ d.kind \in {"fn", "const", "static"} /\ d.name \in Constructors

(* Which parts of an impl or trait are functions that are kept.               *)
Functions(d, at, kept, file) ==
  {j \in DOMAIN d.parts : d.parts[j].kind = "fn" /\ <<file, Append(at, j)>> \in kept}

(* Imports keep their names, and standard names where the prelude has them.    *)
Import(d, at, module) ==
  IF d.form # "name" \/ (d.name \in Reserved /\ ~d.canonical) THEN Rejected
  ELSE [Empty EXCEPT !.imports = {[module |-> module, name |-> d.name, at |-> at]}]

DeclareType(d, attrs, file, at) ==
  IF d.kind = "struct" /\ ~OnStruct(attrs) THEN Rejected
  ELSE [Empty EXCEPT !.types = {[name |-> d.name, file |-> file, at |-> at]}]

(* Test methods are left out when no configuration has decided about them.     *)
Implement(c, d, attrs, at, module, fns) ==
  LET own == {j \in fns : c = None => ~TestOnly(d.parts[j].attrs \cup d.parts[j].inner)}
  IN  CASE d.generics \cap Reserved # {} -> Rejected
        [] d.trait # "" /\ d.target.ref # "" -> Rejected
        [] d.target.ref = "&" \/ ~OnlyDoc(attrs) -> Rejected
        [] d.trait # "" -> [Empty EXCEPT !.targets = {d.target}]
        [] OTHER -> [Empty EXCEPT !.methods =
                       {[module |-> module, receiver |-> d.target.base, name |-> d.parts[j].name,
                         self |-> d.parts[j].self, at |-> Append(at, j)] : j \in own}]

(* Crate::file on an item that is kept: errors and table entries; attrs are    *)
(* those that are left.                                                     *)
Enter(c, d, attrs, file, at, module, kept) ==
  LET fns == Functions(d, at, kept, file)
  IN  CASE d.kind \in Named /\ d.name \in Reserved -> Rejected
        [] d.kind \in {"macro", "type"} -> Rejected
        [] d.kind = "mod" /\ (d.inline \/ ~OnlyDoc(attrs)) -> Rejected
        [] d.kind = "use" -> Import(d, at, module)
        [] d.kind \in {"struct", "enum"} -> DeclareType(d, attrs, file, at)
        [] d.kind = "trait" ->
             [Empty EXCEPT !.traitMethods = {[trait |-> d.name, name |-> d.parts[j].name] : j \in fns}]
        [] d.kind = "impl" -> Implement(c, d, attrs, at, module, fns)
        [] OTHER -> Empty

(* Crate::file *)
LoadFile(p, c, file, module, dir, seen) ==
  LET f == p[file]
      r == IF c = None THEN [err |-> FALSE, enabled |-> TRUE, rest |-> f.attrs]
           ELSE Attributes(c, f.attrs)
      item(i) ==
        LET d == f.items[i]
            s == IF c = None THEN Admit(d, file, <<i>>) ELSE Select(c, d, file, <<i>>)
            attrs == d.inner \cup (IF c = None THEN d.attrs ELSE Attributes(c, d.attrs).rest)
            files == Located(p, dir, d.name)
            child == CHOOSE g \in files : TRUE
        IN  CASE s.err -> s
              [] s.kept = {} -> IF c = None /\ EvenInTests(d) THEN Rejected ELSE Empty
              [] d.kind = "mod" /\ ~d.inline /\ Cardinality(files) # 1 -> Rejected
              [] d.kind = "mod" /\ ~d.inline ->
                   Merge({s, Enter(c, d, attrs, file, <<i>>, module, s.kept),
                          LoadFile(p, c, child, Append(module, d.name), Append(dir, d.name), <<file, i>>)})
              [] OTHER -> Merge({s, Enter(c, d, attrs, file, <<i>>, module, s.kept)})
      read == [Empty EXCEPT !.files = {[path |-> file, by |-> seen]}]
  IN  CASE r.err         -> Rejected
        [] ~r.enabled    -> read
        [] ~OnFile(r.rest) -> Rejected
        [] OTHER         -> Merge({read} \cup {item(i) : i \in DOMAIN f.items})

(* A name, file or import that is there twice.                               *)
Ambiguous(r) ==
  \/ \E x, y \in r.types : x # y /\ x.name = y.name
  \/ \E x, y \in r.files : x # y /\ x.path = y.path
  \/ \E x, y \in r.imports : x # y /\ x.module = y.module /\ x.name = y.name
  \/ \E x, y \in r.methods : x # y /\ <<x.module, x.receiver, x.name>> = <<y.module, y.receiver, y.name>>

(* Mutant: any nominal type may be the target of a trait impl.               *)
TargetsAnywhere(r) == \A t \in r.targets : t.ref = ""

(* Trait impls only for types of the crate.                                 *)
TargetsInCrate(r) == \A t \in r.targets : t.ref = "" /\ \E x \in r.types : x.name = t.base

(* check_method_resolution *)
CheckMethodResolution(r) ==
  /\ TargetsInCrate(r)
  /\ \A m \in r.methods : /\ m.name \notin Derived
                          /\ \A t \in r.traitMethods : t.name # m.name

(* Crate::load_inner *)
LoadInner(p, c) ==
  LET r == LoadFile(p, c, Root, <<>>, <<>>, <<>>)
  IN  IF r.err \/ Ambiguous(r) \/ ~CheckMethodResolution(r) THEN Rejected ELSE r

-----------------------------------------------------------------------------
Init ==
  /\ crate \in Sources
  /\ cfg \in Configurations \cup {None}
  /\ result = [k |-> "pending"]

Load ==
  /\ result.k = "pending"
  /\ result' = LET r == Loaded(crate, cfg)
               IN  IF r.err THEN [k |-> "refused"]
                   ELSE [k |-> "loaded", kept |-> r.kept, methods |-> r.methods]
  /\ UNCHANGED <<crate, cfg>>

Spec == Init /\ [][Load]_vars

-----------------------------------------------------------------------------
(* A crate that is loaded with a configuration holds the declarations, fields, *)
(* variants and members that rustc compiles under it, and beyond them at most   *)
(* the `mod m;` of a module whose own file is switched off; one loaded without  *)
(* a configuration holds the items that every build without tests compiles     *)
(* (configured.rs, Crate::file).                                             *)
LoadsLikeRustc ==
  result.k = "loaded" =>
    IF cfg # None
    THEN /\ RustcKeeps(crate, cfg) \subseteq result.kept
         /\ result.kept \ RustcKeeps(crate, cfg) \subseteq Vacated(crate, cfg)
    ELSE \A c \in {d \in Configurations : "test" \notin d} :
           {p \in result.kept : Len(p[2]) = 1} = {p \in RustcKeeps(crate, c) : Len(p[2]) = 1}

(* The types of receivers in question.                                       *)
Bases == {m.receiver : m \in result.methods} \cup {m.base : m \in StdMethods}
Types == {[ref |-> r, base |-> b] : r \in {"", "&", "&mut"}, b \in Bases}

SelfType(kind, ty) == [ty EXCEPT !.ref = IF kind = "value" THEN ty.ref ELSE References[kind]]

(* The methods called name that an impl of a trait provides.  A parameter of   *)
(* the impl stands for every type.                                            *)
FromTrait(d, name) ==
  LET fns == {d.parts[i] : i \in {j \in DOMAIN d.parts : d.parts[j].name = name}}
      for == IF d.target.ref = "" /\ d.target.base \in d.generics THEN Types ELSE {d.target}
  IN  {[self |-> SelfType(f.self, ty), by |-> "trait"] :
         <<f, ty>> \in {x \in fns \X for : x[1].self = "value" \/ x[2].ref = ""}}

(* All the methods called name of the crate and of the standard types.         *)
Candidates(name) ==
  {[self |-> SelfType(m.self, Plain(m.receiver)), by |-> "inherent"] :
     m \in {n \in result.methods : n.name = name}}
  \cup {[self |-> SelfType(m.self, Plain(m.base)), by |-> "std"] :
          m \in {n \in StdMethods : n.name = name}}
  \cup UNION {FromTrait(d, name) :
          d \in {e \in {crate[Root].items[i] : i \in {p[2][1] : p \in {q \in result.kept : q[1] = Root}}} :
                   e.kind = "impl" /\ e.trait # ""}}

(* Backends take a call on a value of a crate type for its inherent method,     *)
(* and one on a standard type for the standard method, by spelling.  In a       *)
(* crate that is loaded, rustc's probe finds the same, however the receiver is  *)
(* borrowed (check_method_resolution), if no type parameter of an impl has the  *)
(* name of a type of the crate (methods.rs:350 takes it for that type) and no   *)
(* foreign trait has a method called like an inherent one (methods.rs:367 knows *)
(* only the traits of the crate).                                             *)
ResolvesLikeRust ==
  result.k = "loaded" =>
    /\ \A m \in result.methods : \A ty \in {t \in Types : t.base = m.receiver} :
          Probe(Candidates(m.name), ty) \subseteq {"inherent"}
    /\ \A m \in StdMethods : \A ty \in {t \in Types : t.base = m.base} :
          Probe(Candidates(m.name), ty) \subseteq {"std"}
=============================================================================
