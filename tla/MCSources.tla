----------------------------- MODULE MCSources ------------------------------
(* The readers of Rust sources for TLC, each on sources of its own: a          *)
(* behaviour is one of the inventory and the ledger, one of the method          *)
(* frontend loading a crate, or one of the scalar frontend compiling a file.   *)
EXTENDS MCInventory

CONSTANTS thm,   \* a theorem
          Loaded(_, _), RustcKeeps(_, _), Observed(_)

VARIABLES crate, cfg, result,   \* of Loader
          program, outcome      \* of RustScalar

Std == {[name |-> "take", self |-> "mut", base |-> "Option"],
        [name |-> "as_ref", self |-> "ref", base |-> "Option"]}

MCWidth == [u8 |-> 2, u16 |-> 3]

Family == INSTANCE MCLoader
Frontend == INSTANCE Loader WITH Sources <- Family!MCSources, Reserved <- {"Option", "Some"},
              Constructors <- {"Some"}, Derived <- {"clone", "default"}, StdMethods <- Std

Functions == INSTANCE MCScalar WITH Width <- MCWidth, MaxNodes <- 60, MaxCalls <- 3
Compiler == INSTANCE RustScalar WITH Width <- MCWidth, MaxNodes <- 60, MaxCalls <- 3,
              Programs <- Functions!MCPrograms

MCLoaded(p, c) == LET r == Frontend!LoadInner(p, c) IN r
MCObserved(p) == LET o == Compiler!Observation(p) IN o

NoCrate == Crate({}, Text({}, <<>>), Text({}, <<>>))
NoInventory == /\ source = NoCrate /\ obligations = {} /\ report = "none"
               /\ ledger = [inventory |-> Nothing, entries |-> <<>>]
NoLoad == crate = NoCrate /\ cfg = None /\ result = [k |-> "idle"]
NoFile == program = <<>> /\ outcome = [k |-> "idle"]

MCInit ==
  \/ Init /\ NoLoad /\ NoFile
  \/ NoInventory /\ Frontend!Init /\ NoFile
  \/ NoInventory /\ NoLoad /\ Compiler!Init

Inventories == source # NoCrate /\ Next /\ UNCHANGED <<crate, cfg, result, program, outcome>>
Loads       == Frontend!Load /\ UNCHANGED <<vars, program, outcome>>
Compilation == Compiler!Next /\ UNCHANGED <<vars, crate, cfg, result>>

MCNext == Inventories \/ Loads \/ Compilation

MCSpec == MCInit /\ [][MCNext]_<<vars, crate, cfg, result, program, outcome>>

-----------------------------------------------------------------------------
(* LoadsLikeRustc of Loader: a crate that is loaded holds what rustc compiles  *)
(* of it (configured.rs, Crate::file).                                       *)
LoadsLikeRustc == Frontend!LoadsLikeRustc

(* ResolvesLikeRust of Loader: in a loaded crate of the family a call resolves *)
(* by spelling as rustc's probe resolves it (check_method_resolution).        *)
ResolvesLikeRust == Frontend!ResolvesLikeRust

(* Faithful of RustScalar: an accepted function computes what Rust computes    *)
(* (frontend.rs, ir.rs).                                                     *)
Faithful == Compiler!Faithful

(* LeanAgrees of RustScalar: the printed Lean term computes what the IR        *)
(* computes (lean.rs).                                                       *)
LeanAgrees == Compiler!LeanAgrees
=============================================================================
