----------------------------- MODULE RustCrate -----------------------------
(***************************************************************************)
(* What rustc makes of a crate: which declarations it compiles under a      *)
(* configuration, and which method a call resolves to.  The reference that  *)
(* the inventory and the loader of provium are compared with.              *)
(***************************************************************************)
EXTENDS Conditional

RECURSIVE WellFormed(_)
RECURSIVE Holds(_, _)
RECURSIVE Enabled(_, _)
RECURSIVE Redirects(_, _)
RECURSIVE CompiledItems(_, _, _, _, _, _)

WellFormed(p) ==
  CASE p.k = "flag" -> TRUE
    [] p.k = "bad"  -> FALSE
    [] p.k = "list" -> /\ \A i \in DOMAIN p.of : WellFormed(p.of[i])
                       /\ p.op \in {"all", "any"} \/ (p.op = "not" /\ Len(p.of) = 1)

Holds(cfg, p) ==
  IF p.k = "flag" THEN p.name \in cfg
  ELSE CASE p.op = "all" -> \A i \in DOMAIN p.of : Holds(cfg, p.of[i])
         [] p.op = "any" -> \E i \in DOMAIN p.of : Holds(cfg, p.of[i])
         [] p.op = "not" -> ~Holds(cfg, p.of[1])

Enabled(cfg, a) ==
  CASE a.k = "cfg"      -> WellFormed(a.p) /\ Holds(cfg, a.p)
    [] a.k = "cfg_attr" -> WellFormed(a.p) /\ (Holds(cfg, a.p) => \A b \in a.attrs : Enabled(cfg, b))
    [] OTHER            -> TRUE

Compiles(cfg, attrs) == \A a \in attrs : Enabled(cfg, a)

(* The files that active path attributes name.                             *)
Redirects(cfg, attrs) ==
  {a.to : a \in {b \in attrs : b.k = "path"}} \cup
  UNION {Redirects(cfg, a.attrs) : a \in {b \in attrs : b.k = "cfg_attr" /\ Holds(cfg, b.p)}}

(* The files of a module that is not inline, declared where child files are   *)
(* looked up in dir, and whether an attribute of the file itself (#![cfg(..)]) *)
(* switches the module off.                                                 *)
FilesOf(crate, cfg, d, dir) ==
  LET to == Redirects(cfg, d.attrs \cup d.inner)
  IN  IF d.kind # "mod" \/ d.inline THEN {}
      ELSE IF to # {} THEN to \cap DOMAIN crate ELSE Located(crate, dir, d.name)
OffByFile(crate, cfg, d, dir) ==
  \E f \in FilesOf(crate, cfg, d, dir) : ~Compiles(cfg, crate[f].attrs)

(* The places, <<file, ordinals>>, of the declarations compiled among items, *)
(* which are in file at the ordinals at.  A module without a file of its own *)
(* to compile counts as one without items; such a crate is rejected.  One    *)
(* whose file is switched off is not compiled at all, its declaration        *)
(* included.                                                                *)
CompiledItems(crate, cfg, items, file, at, dir) ==
  LET here(i) == Append(at, i)
      below(d, i) ==
        IF d.kind = "mod" /\ ~d.inline
        THEN UNION {CompiledItems(crate, cfg, crate[f].items, f, <<>>, Append(dir, d.name)) :
                      f \in FilesOf(crate, cfg, d, dir)}
        ELSE CompiledItems(crate, cfg, d.parts, file, here(i), Append(dir, d.name))
  IN  UNION {{<<file, here(i)>>} \cup below(items[i], i) :
               i \in {j \in DOMAIN items : /\ Compiles(cfg, items[j].attrs \cup items[j].inner)
                                          /\ ~OffByFile(crate, cfg, items[j], dir)}}

Root == <<"lib">>

Compiled(crate, cfg) ==
  LET lib == crate[Root]
  IN  IF Compiles(cfg, lib.attrs) THEN CompiledItems(crate, cfg, lib.items, Root, <<>>, <<>>) ELSE {}

(* The modules declared in the root file that their own file switches off.   *)
Vacated(crate, cfg) ==
  LET items == crate[Root].items
  IN  {<<Root, <<i>>>> : i \in {j \in DOMAIN items : OffByFile(crate, cfg, items[j], <<>>)}}

-----------------------------------------------------------------------------
(* The type of an expression or of a method's self parameter: a nominal     *)
(* type behind at most one reference.                                       *)
Plain(base) == [ref |-> "", base |-> base]
References  == [value |-> "", ref |-> "&", mut |-> "&mut"]

(* The candidate methods named m of a program are records [self, by]: the    *)
(* type of self and who provides it.  The probe takes the receiver's type,   *)
(* then what it refers to, each by value, by shared and by unique            *)
(* reference; inherent methods before those of traits.                      *)
Probe(methods, ty) ==
  LET steps == <<ty, [ty EXCEPT !.ref = "&"], [ty EXCEPT !.ref = "&mut"]>>
      tried == IF ty.ref = "" THEN steps
               ELSE <<ty>> \o <<Plain(ty.base), [ty EXCEPT !.ref = "&"], [ty EXCEPT !.ref = "&mut"]>>
      hits(i) == {m.by : m \in {n \in methods : n.self = tried[i]}}
      first == CHOOSE i \in DOMAIN tried : /\ hits(i) # {}
                                           /\ \A j \in 1..(i - 1) : hits(j) = {}
  IN  IF \A i \in DOMAIN tried : hits(i) = {} THEN {}
      ELSE IF hits(first) \cap {"inherent", "std"} # {} THEN hits(first) \cap {"inherent", "std"}
      ELSE hits(first)
=============================================================================
