----------------------------- MODULE MCCompile ------------------------------
(* Projects of up to three files: every import graph and every way two     *)
(* directories can hold the files (Graphs, Layouts); what a type name can  *)
(* mean (Names); names of modules and options (Outputs); machines that     *)
(* delegate to and packets that hold each other (Machines, Structs).       *)
EXTENDS Cli

UpTo2(S) == UNION { [1 .. k -> S] : k \in 0 .. 2 }
Import(module, item) == [module |-> module, item |-> item]
Decl(name, exported, kind, refs) ==
  [name |-> name, exported |-> exported, kind |-> kind, refs |-> refs]
Packet(name, refs) == Decl(name, FALSE, "packet", refs)
Machine(name, refs) == Decl(name, FALSE, "machine", refs)
Alias(name, to) == Decl(name, FALSE, "alias", {to})

F == {"a", "b", "c"}
InPlace == [p \in {"src"} \X { <<f>> : f \in F } |-> p[2][1]]
NoDecls == [f \in F |-> {}]
OwnNames == [f \in F |-> <<f>>]
Rust == [target |-> "rust", recursive |-> FALSE, fuzz |-> FALSE, full |-> FALSE]
C == [target |-> "c", recursive |-> TRUE, fuzz |-> FALSE, full |-> FALSE]

Project(places, include, text, imports, decls, name, cli) ==
  [files |-> F, entry |-> "a", home |-> "src", include |-> include, at |-> places, text |-> text,
   imports |-> imports, decls |-> decls, name |-> name, cli |-> cli]
Plainly(imports, decls, name, cli) ==
  Project(InPlace, << >>, [f \in F |-> "ok"], imports, decls, name, cli)

Graphs ==
  { Project(InPlace, << >>, [f \in F |-> IF f = "c" THEN t ELSE "ok"], imp, NoDecls, OwnNames, Rust) :
      t \in {"ok", "malformed"}, imp \in [F -> UpTo2({ Import(<<f>>, NoItem) : f \in F })] }

(* Three places b may be found at, two of them the same file.              *)
Places == [p \in { <<"src", <<"b">>>>, <<"inc", <<"b">>>>, <<"src", <<"b", "b">>>> } |->
             IF p[1] = "inc" THEN "c" ELSE "b"]
Layouts ==
  LET Items == { Import(n, x) : n \in { <<"b">>, <<"b", "b">> }, x \in {"X", "Y", NoItem} }
      Y == Packet("Y", {})
  IN  { Project(Restrict(Places, dom), inc, [f \in F |-> "ok"],
                [f \in F |-> IF f = "a" THEN imp ELSE << >>],
                [f \in F |-> CASE f = "a" -> {} [] f = "b" -> {Decl("X", x, "packet", {}), Y}
                               [] f = "c" -> {Y}],
                OwnNames, Rust) :
          inc \in { << >>, <<"inc">>, <<"src", "inc">> }, dom \in SUBSET DOMAIN Places,
          imp \in UpTo2(Items), x \in BOOLEAN }

(* What b and c declare, what a imports of it, and what its own            *)
(* declarations make of it.                                                *)
Names ==
  LET bT == Import(<<"b">>, "T")
      b == Import(<<"b">>, NoItem)
      cT == Import(<<"c">>, "T")
      cU == Import(<<"c">>, "U")
      c == Import(<<"c">>, NoItem)
  IN  { Plainly([f \in F |-> CASE f = "a" -> ia [] f = "b" -> ib [] f = "c" -> << >>],
                [f \in F |-> CASE f = "a" -> da [] f = "b" -> {db} [] f = "c" -> dc],
                OwnNames, C) :
          ia \in { << >>, <<bT>>, <<b>>, <<cU>>, <<c, bT>>, <<cU, bT>>, <<cT, bT>> },
          ib \in { << >>, <<cU>>, <<c>> },
          db \in { Packet("T", {"u8"}), Packet("T", {"U"}), Decl("T", FALSE, "varint", {}),
                   Machine("T", {"U"}), Alias("T", "U") },
          dc \in { {Packet("U", {})}, {Machine("U", {}), Decl("T", FALSE, "const", {})} },
          da \in { {Packet("P", {"T"})}, {Packet("T", {"U"})}, {Machine("M", {"T", "U"})},
                   {Alias("A", "T"), Alias("B", "A"), Packet("P", {"B"}), Machine("M", {"A"})},
                   {Alias("A", "B"), Alias("B", "A"), Packet("P", {"A"})},
                   {Alias("A", "B"), Alias("B", "D"), Alias("D", "u8"), Packet("P", {"A"})},
                   {Packet("src", {})}, {Packet("u8", {}), Packet("P", {"u8", "P"})} } }

Outputs ==
  { Plainly([f \in F |-> CASE f = "a" -> <<Import(<<"b">>, "T"), Import(<<"c">>, "U")>>
                           [] f = "b" -> ib [] f = "c" -> << >>],
            [f \in F |-> CASE f = "a" -> {Machine("M", {"T"})} [] f = "b" -> {Packet("T", {})}
                           [] f = "c" -> {Packet("U", {})}],
            [f \in F |-> CASE f = "a" -> <<"x", s>> \o na [] f = "b" -> nb [] f = "c" -> nc],
            [target |-> t, recursive |-> r, fuzz |-> t = "c" /\ z, full |-> full]) :
      ib \in { << >>, <<Import(<<"c">>, "U")>> }, s \in {".", "_"},
      na \in { <<"y">>, <<"y", "_", "fuzz">> }, nb \in { <<"b">>, <<"x", "_", "y">>, <<"x", ".", "y">> },
      nc \in { <<"c">>, <<"x", "_", "y">> }, t \in {"c", "rust"}, r \in BOOLEAN, z \in BOOLEAN,
      full \in BOOLEAN }

InA(decls) == Plainly([f \in F |-> << >>], [f \in F |-> IF f = "a" THEN decls ELSE {}], OwnNames, C)
Names3 == {"K", "L", "M"}
Machines == { InA({ Machine(n, g[n]) : n \in Names3 }) : g \in [Names3 -> SUBSET Names3] }
Structs3 == { InA({ Packet(n, g[n]) : n \in Names3 }) : g \in [Names3 -> SUBSET Names3] }

AllProjects ==
  Structs3 \cup (Machines \cup (Outputs \cup (Names \cup (Layouts \cup Graphs))))
MCProjects == AllProjects
=============================================================================
