----------------------------- MODULE Inventory -----------------------------
(***************************************************************************)
(* The source inventory and the consumer's ledger (coverage.rs).  A          *)
(* developer edits the crate, regenerates the inventory of the ledger,       *)
(* classifies items and audits.                                            *)
(*                                                                         *)
(* An item's syntax hash is its declaration; its line and column are its    *)
(* ordinals in the file.  Calls, which follow from the syntax, are left out. *)
(***************************************************************************)
EXTENDS RustCrate, TLC

CONSTANTS Crates,           \* sources of a crate
          Versions,         \* those that a developer moves between
          Configurations,   \* configurations it is compiled under
          Theorems,         \* obligations that a proof project may list
          Inventoried(_, _),  \* the inventory of a crate: Collect, which instances pass
          RustcLists(_, _)    \* what rustc compiles of it: Listed, which instances pass

VARIABLES source,       \* the crate on disk
          obligations,  \* the obligations of the proof project
          ledger,       \* the ledger: the inventory it was written for, its entries
          report        \* what the last audit said, "none" when it is out of date

vars == <<source, obligations, ledger, report>>

RECURSIVE Items(_, _, _, _, _, _, _)

Nothing == [err |-> FALSE, items |-> {}, files |-> {}]
Failure == Crossed(Nothing)
Join(rs) == [err |-> \E r \in rs : r.err, items |-> UNION {r.items : r \in rs},
             files |-> UNION {r.files : r \in rs}]

(* Collector::record *)
Record(id, file, at, d, public) ==
  [Nothing EXCEPT !.items = {[id |-> id, kind |-> d.kind, source |-> file, at |-> at,
                              public |-> public, syntax |-> d]}]

(* cfg.declaration: the outer attributes decide.                            *)
Selected(cfg, d) ==
  IF cfg = None THEN "yes"
  ELSE LET r == Attributes(cfg, d.attrs) IN IF r.err THEN "error" ELSE Is(r.enabled)

Anonymous(module, i) == module \o <<"item", ToString(i)>>

(* Members of an impl; of a trait only its functions.                        *)
Members(cfg, d, owner, file, at) ==
  LET member(j) ==
        LET p == d.parts[j]
        IN  CASE Selected(cfg, p) = "error" -> Failure
              [] Selected(cfg, p) = "no"    -> Nothing
              [] d.kind = "trait" /\ p.kind # "fn" -> Nothing
              [] p.kind \notin {"fn", "const", "type"} -> Failure
              [] OTHER -> Record(Append(owner, p.name), file, Append(at, j), p,
                                 \/ p.public
                                 \/ d.kind = "trait"
                                 \/ d.trait # "" /\ p.kind = "fn")
  IN  Join({member(j) : j \in DOMAIN d.parts})

(* Mutant: a module behind any cfg is taken for a test.                      *)
SkippedCfg(cfg, d) == cfg = None /\ \E a \in d.attrs \cup d.inner : a.k = "cfg"

(* Exact cfg(test) modules are recorded and not followed.                    *)
Skipped(cfg, d) == cfg = None /\ TestOnly(d.attrs \cup d.inner)

(* Whether #[path] takes the module elsewhere.                              *)
HasPath(cfg, d) ==
  LET all == d.attrs \cup d.inner
      r   == Attributes(cfg, all)
  IN  IF cfg = None THEN Is(\E a \in all : a.k = "path")
      ELSE IF r.err THEN "error"
      ELSE Is(r.enabled /\ \E a \in r.rest : a.k = "path")

(* Collector::file *)
File(crate, cfg, file, module, dir) ==
  LET f == crate[file]
      r == Attributes(cfg, f.attrs)
      read == [Nothing EXCEPT !.files = {[path |-> file, by |-> module]}]
  IN  CASE cfg # None /\ r.err      -> Failure
        [] cfg # None /\ ~r.enabled -> read
        [] OTHER -> Join({read, Items(crate, cfg, f.items, module, file, <<>>, dir)})

(* Collector::items, on a module                                            *)
Module(crate, cfg, d, id, file, at, dir) ==
  LET files == Located(crate, dir, d.name)
  IN  CASE Skipped(cfg, d)                     -> Nothing
        [] HasPath(cfg, d) \in {"yes", "error"} -> Failure
        [] d.inline   -> Items(crate, cfg, d.parts, id, file, at, Append(dir, d.name))
        [] Cardinality(files) # 1 -> Failure
        [] OTHER -> File(crate, cfg, CHOOSE f \in files : TRUE, id, Append(dir, d.name))

Items(crate, cfg, items, module, file, at, dir) ==
  LET one(i) ==
        LET d    == items[i]
            here == Append(at, i)
            id   == Append(module, d.name)
        IN  CASE Selected(cfg, d) = "error" -> Failure
              [] Selected(cfg, d) = "no"    -> Nothing
              [] d.kind = "mod" ->
                   Join({Record(id, file, here, d, d.public),
                         Module(crate, cfg, d, id, file, here, dir)})
              [] d.kind = "impl" ->
                   Join({Record(Anonymous(module, i), file, here, d, FALSE),
                         Members(cfg, d, module \o <<"impl", d.name, d.trait>>, file, here)})
              [] d.kind = "trait" ->
                   Join({Record(id, file, here, d, d.public), Members(cfg, d, id, file, here)})
              [] d.kind \in {"fn", "struct", "enum"} -> Record(id, file, here, d, d.public)
              [] OTHER -> Record(Anonymous(module, i), file, here, d, FALSE)
  IN  Join({one(i) : i \in DOMAIN items})

(* collect: no file is read twice, and no identity names two items.         *)
Collect(crate, cfg) ==
  LET all == File(crate, cfg, Root, <<"crate">>, <<>>)
  IN  IF \/ \E f, g \in all.files : f # g /\ f.path = g.path
         \/ \E i, j \in all.items : i # j /\ i.id = j.id
      THEN Crossed(all) ELSE all

Ids(inventory) == {i.id : i \in inventory.items}

-----------------------------------------------------------------------------
Init ==
  /\ source \in Crates \cup Versions
  /\ obligations = Theorems
  /\ ledger = [inventory |-> Nothing, entries |-> <<>>]
  /\ report = "none"

Edit(crate) ==
  /\ source' = crate
  /\ report' = "none"
  /\ UNCHANGED <<obligations, ledger>>

(* The proof project drops or takes back an obligation.                     *)
EditProject(theorem) ==
  /\ obligations' = (obligations \ {theorem}) \cup ({theorem} \ obligations)
  /\ report' = "none"
  /\ UNCHANGED <<source, ledger>>

(* A developer writes the current inventory into the ledger; the entries     *)
(* that are there stay.                                                    *)
Regenerate ==
  /\ ~Inventoried(source, None).err
  /\ ledger' = [ledger EXCEPT !.inventory = Inventoried(source, None)]
  /\ report' = "none"
  /\ UNCHANGED <<source, obligations>>

(* A developer classifies an item: the roots it serves and the theorems that *)
(* speak about it.                                                         *)
Classify(id, roots, contracts) ==
  /\ ledger' = [ledger EXCEPT !.entries =
                  [i \in DOMAIN @ \cup {id} |->
                     IF i = id THEN [roots |-> roots, contracts |-> contracts] ELSE @[i]]]
  /\ report' = "none"
  /\ UNCHANGED <<source, obligations>>

(* A developer removes the entry of an item.                               *)
Withdraw(id) ==
  /\ id \in DOMAIN ledger.entries
  /\ ledger' = [ledger EXCEPT !.entries = [i \in DOMAIN @ \ {id} |-> @[i]]]
  /\ report' = "none"
  /\ UNCHANGED <<source, obligations>>

(* Mutant: the entries are not counted.                                    *)
ClassifiesKnown(inventory, entries) == Ids(inventory) \subseteq DOMAIN entries

(* As many entries as items, and one for every item.                        *)
ClassifiesExactly(inventory, entries) ==
  /\ Cardinality(DOMAIN entries) = Cardinality(inventory.items)
  /\ Ids(inventory) \subseteq DOMAIN entries

(* What audit demands of the ledger.  That notes, contexts and profiles are   *)
(* filled in is left out: it depends on nothing but the entry.              *)
Accepts(inventory) ==
  /\ ~inventory.err
  /\ ledger.inventory = inventory
  /\ ClassifiesExactly(inventory, ledger.entries)
  /\ \A i \in inventory.items :
        /\ ledger.entries[i.id].roots \subseteq Ids(inventory)
        /\ i.public => i.id \in ledger.entries[i.id].roots
        /\ ledger.entries[i.id].contracts \subseteq obligations

Audit ==
  /\ report' = IF Accepts(Inventoried(source, None)) THEN "accepted" ELSE "refused"
  /\ UNCHANGED <<source, obligations, ledger>>

AnyId == UNION {Ids(Inventoried(c, None)) : c \in Versions}

Develop ==
  \/ \E c \in Versions : Edit(c)
  \/ \E t \in Theorems : EditProject(t)
  \/ Regenerate
  \/ \E id \in AnyId, roots \in {{r} : r \in AnyId}, contracts \in SUBSET Theorems :
        Classify(id, roots, contracts)
  \/ \E id \in AnyId : Withdraw(id)

Next == Audit \/ (source \in Versions /\ Develop)

Spec == Init /\ [][Next]_vars

-----------------------------------------------------------------------------
(* The declarations an inventory stands for.                                *)
Places(inventory) == {<<i.source, i.at>> : i \in inventory.items}

(* The declaration at ordinals at.                                          *)
RECURSIVE DeclAt(_, _)
DeclAt(items, at) == IF Len(at) = 1 THEN items[at[1]] ELSE DeclAt(items[at[1]].parts, Tail(at))

(* What rustc compiles, as far as an inventory lists declarations: not the   *)
(* fields and variants, nor the constants and types of a trait.             *)
Listed(crate, cfg) ==
  LET decl(p, n) == DeclAt(crate[p[1]].items, SubSeq(p[2], 1, n))
  IN  {p \in Compiled(crate, cfg) :
         \A n \in 1..(Len(p[2]) - 1) :
            /\ decl(p, n).kind \notin {"struct", "enum"}
            /\ decl(p, n).kind = "trait" => decl(p, n + 1).kind = "fn"}

(* inventory_configured selects declarations "using effective compiler cfg":  *)
(* whenever it succeeds, it lists every declaration that rustc compiles under   *)
(* that configuration, and nothing else but the `mod m;` of a module whose      *)
(* own file is switched off by a false #![cfg(..)], which coverage.rs records   *)
(* before it opens the file.  Inner attributes of inline modules (cfg.rs:125)   *)
(* and a path inside cfg_attr without a configuration (coverage.rs:221), where  *)
(* the code disagrees with rustc, are not among the crates.                    *)
SelectsLikeRustc ==
  \A cfg \in Configurations :
    LET inventory == Inventoried(source, cfg)
        compiled  == RustcLists(source, cfg)
    IN  ~inventory.err => /\ compiled \subseteq Places(inventory)
                          /\ Places(inventory) \ compiled \subseteq Vacated(source, cfg)

(* The inventory without a configuration is conservative: whenever it         *)
(* succeeds, no declaration that some configuration without tests compiles     *)
(* is missing from it.                                                      *)
Conservative ==
  LET inventory == Inventoried(source, None)
  IN  ~inventory.err =>
        \A cfg \in {c \in Configurations : "test" \notin c} :
           RustcLists(source, cfg) \subseteq Places(inventory)

(* What inventories list is what rustc compiles: that and at most the          *)
(* declarations of vacated modules under a configuration, at least that        *)
(* without one (Collector).                                                  *)
ListsLikeRustc == SelectsLikeRustc /\ Conservative

(* An accepted ledger accounts for the crate as it is: every declaration       *)
(* that a build without tests compiles has an entry, and the entries speak only *)
(* of declarations and obligations that exist (audit), whatever was edited,    *)
(* classified and removed before.                                           *)
AccountsForSource ==
  report = "accepted" =>
    LET items == Inventoried(source, None).items
        ids   == {i.id : i \in items}
    IN  /\ \A cfg \in {c \in Configurations : "test" \notin c} :
             \A p \in RustcLists(source, cfg) :
               \E i \in items : <<i.source, i.at>> = p /\ i.id \in DOMAIN ledger.entries
        /\ DOMAIN ledger.entries \subseteq ids
        /\ \A id \in DOMAIN ledger.entries : /\ ledger.entries[id].roots \subseteq ids
                                              /\ ledger.entries[id].contracts \subseteq obligations
=============================================================================
