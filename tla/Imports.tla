------------------------------ MODULE Imports -------------------------------
(***************************************************************************)
(* A wirespec project on disk, as resolve.rs of wirespec-driver sees it:   *)
(* where an imported module is found, what may be imported from it, and    *)
(* the import graph this makes.                                            *)
(*                                                                         *)
(* A project fs is a record                                                *)
(*   files            the (canonical) source files                         *)
(*   entry, home      the file to compile and its directory                *)
(*   include          the include directories, in order                    *)
(*   at               <<directory, relative path>> -> file, for the paths  *)
(*                    that exist; a relative path is the sequence of its   *)
(*                    components, as a dotted module name is of its parts  *)
(*   text[f]          "ok", or why f yields no AST                         *)
(*   imports[f]       the import declarations, [module, item]              *)
(*   decls[f]         the named declarations, [name, exported]             *)
(***************************************************************************)
EXTENDS Naturals, FiniteSets, Sequences, SequencesExt

NotFound == "module not found"
NoItem == "no item"      \* import of a module, without an item name

Faults == {"unreadable", "malformed"}

WellFormed(fs) ==
  /\ fs.entry \in fs.files
  /\ NotFound \notin fs.files
  /\ Range(fs.at) \subseteq fs.files
  /\ DOMAIN fs.text = fs.files /\ Range(fs.text) \subseteq {"ok"} \cup Faults
  /\ DOMAIN fs.imports = fs.files
  /\ \A f \in fs.files : fs.imports[f] \in Seq(Range(fs.imports[f]))
  /\ fs.include \in Seq(Range(fs.include))

(* The include directories, then the directory of the entry file.          *)
SearchPaths(fs) ==
  IF fs.home \in Range(fs.include) THEN fs.include ELSE Append(fs.include, fs.home)

Holding(fs, rel) == { i \in DOMAIN SearchPaths(fs) : <<SearchPaths(fs)[i], rel>> \in DOMAIN fs.at }
FirstHit(fs, rel) ==
  fs.at[<<SearchPaths(fs)[CHOOSE i \in Holding(fs, rel) : \A j \in Holding(fs, rel) : i <= j],
          rel>>]

(* find_module: a.b is a/b.wspec in the first directory that has it; a     *)
(* name of one part may also be a/a.wspec.                                 *)
FindModule(fs, name) ==
  IF Holding(fs, name) # {} THEN FirstHit(fs, name)
  ELSE IF Len(name) = 1 /\ Holding(fs, name \o name) # {} THEN FirstHit(fs, name \o name)
  ELSE NotFound

(* get_exportable_names: everything, unless some declaration is exported.  *)
Exportable(fs, f) ==
  LET exported == { d \in fs.decls[f] : d.exported }
  IN  { d.name : d \in IF exported = {} THEN fs.decls[f] ELSE exported }

---------------------------------------------------------------------------
(* The import graph                                                        *)

Dep(fs, f, i) == FindModule(fs, fs.imports[f][i].module)
ItemVisible(fs, f, i) ==
  LET item == fs.imports[f][i].item
  IN  item = NoItem \/ item \in Exportable(fs, Dep(fs, f, i))

Deps(fs, f) == { Dep(fs, f, i) : i \in DOMAIN fs.imports[f] } \ {NotFound}

(* f can be compiled once its imports are.                                 *)
Sound(fs, f) ==
  /\ fs.text[f] = "ok"
  /\ \A i \in DOMAIN fs.imports[f] : Dep(fs, f, i) # NotFound /\ ItemVisible(fs, f, i)

(* In every set that has the entry and is closed under imports.            *)
Reachable(fs, f) ==
  \A S \in SUBSET fs.files :
    fs.entry \in S /\ (\A g \in S : Deps(fs, g) \subseteq S) => f \in S

(* Some reachable files import each other in a circle.                     *)
Cyclic(fs) ==
  \E S \in SUBSET fs.files :
    S # {} /\ \A f \in S : Reachable(fs, f) /\ Deps(fs, f) \cap S # {}
=============================================================================
