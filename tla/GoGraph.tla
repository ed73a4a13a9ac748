------------------------------- MODULE GoGraph -------------------------------
(***************************************************************************)
(* The import graph of Go packages (src/scripts/socraticode-graph-helper.js):  *)
(* the modules under a root, the package of each file, the package an import   *)
(* names, who depends on whom, and the import cycles found by the depth first  *)
(* search of codebase_graph_circular. A path is a sequence of names; a file is *)
(* its directory and its imports, in the order of the walk.                    *)
(***************************************************************************)
EXTENDS Integers, Sequences, FiniteSets, SequencesExt

Distinct(seq) == {seq[i] : i \in DOMAIN seq}

\* collectModules: the deepest first.
Modules(found) ==
    SortSeq(found, LAMBDA a, b : IF Len(a.root) # Len(b.root) THEN Len(a.root) > Len(b.root) ELSE Len(a.path) > Len(b.path))

\* The rest of a path below a prefix of it.
Below(path, prefix) == SubSeq(path, Len(prefix) + 1, Len(path))

\* findModuleForFile: the modules a directory is inside of; the first one has it.
Around(dir, modules) == SelectSeq(modules, LAMBDA m : IsPrefix(m.root, dir))

PackageId(module, path) == [root |-> module.root, path |-> path]
PackagePath(dir, module) == module.path \o Below(dir, module.root)
PackageOf(dir, modules) == LET m == Head(Around(dir, modules)) IN PackageId(m, PackagePath(dir, m))

\* dirHasGoFiles: a module has a package where there are Go files.
WithFiles(candidates, path, dirs) == SelectSeq(candidates, LAMBDA m : (m.root \o Below(path, m.path)) \in dirs)

\* resolveImportPath: the package of this root an import names, if there is one; the module of
\* the importing file is asked first.
Resolved(path, module, modules, dirs) ==
    LET candidates == SelectSeq(modules, LAMBDA m : IsPrefix(m.path, path))
        ordered == SelectSeq(candidates, LAMBDA m : m.root = module.root) \o
                   SelectSeq(candidates, LAMBDA m : m.root # module.root)
        found == WithFiles(ordered, path, dirs)
    IN  IF found = <<>> THEN {} ELSE {PackageId(Head(found), path)}

\* buildGraph: the files inside a module, the packages they import, and those that import them.
Graph(files, found) ==
    LET modules == Modules(found)
        dirs == {f.dir : f \in Distinct(files)}
        inside == SelectSeq(files, LAMBDA f : Around(f.dir, modules) # <<>>)
        Local(f) == UNION {Resolved(p, Head(Around(f.dir, modules)), modules, dirs) : p \in f.imports}
        infos == FoldLeft(LAMBDA seq, f : Append(seq, [package |-> PackageOf(f.dir, modules), local |-> Local(f), named |-> f.imports]),
                          <<>>, inside)
        packages == {infos[i].package : i \in DOMAIN infos}
        targets == UNION {infos[i].local : i \in DOMAIN infos}
    IN  [infos |-> infos,
         imports |-> [p \in packages \cup targets |-> UNION {infos[i].local : i \in {j \in DOMAIN infos : infos[j].package = p}}],
         dependents |-> [p \in packages \cup targets |-> {i \in DOMAIN infos : p \in infos[i].local}],
         files |-> [p \in packages \cup targets |-> {i \in DOMAIN infos : infos[i].package = p}]]

\* codebase_graph_query: the files that depend on a file, and the files of what it imports.
Dependents(graph, i) == graph.dependents[graph.infos[i].package]
ImportedFiles(graph, i) == UNION {graph.files[p] : p \in graph.infos[i].local}

\* codebase_graph_stats: the files that nothing connects.
Degree(graph, i) == Cardinality(graph.infos[i].local) + Cardinality(Dependents(graph, i))
Orphans(graph) == {i \in DOMAIN graph.infos : Degree(graph, i) = 0}

\* canonicalCycleSignature: the same for every package of a cycle one may start from.
Signature(cycle) ==
    LET n == Len(cycle) - 1 IN {[k \in 1..n |-> cycle[((k + shift) % n) + 1]] : shift \in 0..(n - 1)}

\* A gray neighbor closes a cycle: what is on the stack from there on.
Closed(search, neighbor) ==
    LET start == CHOOSE i \in DOMAIN search.stack : search.stack[i] = neighbor
        cycle == Append(SubSeq(search.stack, start, Len(search.stack)), neighbor)
    IN  IF Signature(cycle) \in search.seen THEN search
        ELSE [search EXCEPT !.seen = @ \cup {Signature(cycle)}, !.cycles = Append(@, cycle)]

\* The package and all it reaches have been searched.
Blackened(search, node) == [search EXCEPT !.stack = Front(@), !.color[node] = "black"]

RECURSIVE Dfs(_, _, _)
Dfs(imports, search, node) ==
    LET entered == [search EXCEPT !.color[node] = "gray", !.stack = Append(@, node)]
        Visit(s, neighbor) ==
            CASE s.color[neighbor] = "white" -> Dfs(imports, s, neighbor)
              [] s.color[neighbor] = "gray" -> Closed(s, neighbor)
              [] OTHER -> s
    IN  Blackened(FoldLeft(Visit, entered, SetToSeq(imports[node])), node)

\* codebase_graph_circular: the cycles reported.
Cycles(graph) ==
    LET start == [color |-> [p \in DOMAIN graph.imports |-> "white"], stack |-> <<>>, seen |-> {}, cycles |-> <<>>]
        From(s, info) == IF s.color[info.package] = "white" THEN Dfs(graph.imports, s, info.package) ELSE s
    IN  FoldLeft(From, start, graph.infos).cycles

-----------------------------------------------------------------------------
(* Properties. *)

\* What a package reaches in one import or more.
Reaches(imports) ==
    LET Further(reach, round) == [p \in DOMAIN reach |-> reach[p] \cup UNION {reach[q] : q \in reach[p]}]
    IN  FoldLeft(Further, imports, SetToSeq(DOMAIN imports))

\* Every cycle reported is one: it comes back to its first package through imports that are
\* there, and passes through no other package twice.
CyclesAreReal(graph, cycles) ==
    \A c \in Distinct(cycles) :
        /\ c[1] = c[Len(c)] /\ IsInjective(Front(c))
        /\ \A k \in 1..(Len(c) - 1) : c[k + 1] \in graph.imports[c[k]]

\* The report names a cycle for every group of packages that import one another, and none twice:
\* "No circular dependencies found" is said only of a graph without one.
CyclesAreFound(graph, cycles) ==
    LET reach == Reaches(graph.imports)
    IN  /\ \A p \in DOMAIN graph.imports : p \in reach[p] =>
              \E c \in Distinct(cycles) : c[1] \in reach[p] /\ p \in reach[c[1]]
        /\ \A a, b \in DOMAIN cycles : Signature(cycles[a]) = Signature(cycles[b]) => a = b

\* The two directions of a query agree: a file is listed as depending on another exactly when
\* that one is among the files its imports resolve to; an orphan is in neither list of any file.
QueriesAgree(graph) ==
    /\ \A i, j \in DOMAIN graph.infos : (j \in Dependents(graph, i)) = (i \in ImportedFiles(graph, j))
    /\ \A i \in Orphans(graph) : \A j \in DOMAIN graph.infos :
          i \notin Dependents(graph, j) /\ i \notin ImportedFiles(graph, j)

\* An import of a path that one package has is an import of that package, whichever module the
\* importing file is in.
ImportsAreResolved(graph) ==
    \A i, j \in DOMAIN graph.infos :
        LET wanted == graph.infos[i].package
        IN  (wanted.path \in graph.infos[j].named
             /\ \A k \in DOMAIN graph.infos : graph.infos[k].package.path = wanted.path => graph.infos[k].package = wanted)
            => j \in Dependents(graph, i)

GraphIsRight(files, found) ==
    \E graph \in {Graph(files, found)} : \E cycles \in {Cycles(graph)} :
        CyclesAreReal(graph, cycles) /\ CyclesAreFound(graph, cycles) /\ QueriesAgree(graph) /\ ImportsAreResolved(graph)
=============================================================================
