---------------------------- MODULE ModuleLoader ----------------------------
(***************************************************************************)
(* How the Salt compiler loads the modules a unit imports                  *)
(* (codegen/module_loader.rs).  load_module is recursive: `frames` is the  *)
(* Rust call stack, and loading_stack is the vector the loader keeps       *)
(* beside it to recognise cycles.  The two are not the same: a module that *)
(* cannot be found or read stays in loading_stack for good.                *)
(*                                                                         *)
(* A namespace is a sequence of segments.  The files under the search      *)
(* roots are one function, `source`, from paths to parsed files: which     *)
(* root has the file, and whether it is m.salt or m/mod.salt, is left out. *)
(* A file that exists but cannot be read, or does not parse, is marked so. *)
(***************************************************************************)
EXTENDS Naturals, Sequences, FiniteSets, SequencesExt

CONSTANTS
    Lower,                \* [segment -> its lower-case form]
    MAX_RECURSION_DEPTH   \* 33 in the code

ASSUME DepthAssumption == MAX_RECURSION_DEPTH \in Nat

VARIABLES
    source,            \* path -> [state, package, imports, fns]
    work,              \* imports of the unit still to load
    ctl,               \* what the loader does next: idle, call or return
    frames,            \* activations of load_module
    loading_stack,     \* the loader's own record of them
    loaded_modules,    \* namespaces that loaded
    dependency_graph,  \* namespace -> the namespaces it imports
    registry,          \* namespace -> path of the file registered for it
    sort               \* what get_compilation_order holds

loaderVars == <<work, ctl, frames, loading_stack, loaded_modules,
                dependency_graph, registry>>

Idle == [op |-> "idle"]
CallOf(ns) == [op |-> "call", ns |-> ns]
ReturnOk == [op |-> "return", ok |-> TRUE]
ReturnErr == [op |-> "return", ok |-> FALSE]

\* resolve_filepath: the namespace as it is written, then in lower case; a
\* std namespace is also tried without its first segment.
Candidates(ns) ==
    LET lower == [i \in DOMAIN ns |-> Lower[ns[i]]]
    IN  IF ns[1] = "std" THEN <<ns, Tail(ns), Tail(lower), lower>>
        ELSE <<ns, lower>>

Resolvable(ns) == \E i \in DOMAIN Candidates(ns) : Candidates(ns)[i] \in DOMAIN source

FilePath(ns) ==
    LET c == Candidates(ns)
    IN  c[SelectInSeq(c, LAMBDA p : p \in DOMAIN source)]

\* get_use_namespaces: one namespace per import; a group import names the
\* module its items come from.
Deps(file) == [i \in DOMAIN file.imports |-> file.imports[i].path]

ParentOf(ns) == Front(ns)

LoaderInit(imports) ==
    /\ work = imports
    /\ ctl = Idle
    /\ frames = <<>>
    /\ loading_stack = <<>>
    /\ loaded_modules = {}
    /\ dependency_graph = <<>>
    /\ registry = <<>>

-----------------------------------------------------------------------------
(* load_module, from its call to its first recursive call or return *)

\* emit_mlir loads the imports of the unit one after the other.
LoadImport ==
    /\ ctl = Idle /\ work # <<>>
    /\ ctl' = CallOf(Head(work))
    /\ work' = Tail(work)
    /\ UNCHANGED <<frames, loading_stack, loaded_modules, dependency_graph, registry>>

AlreadyLoaded ==
    /\ ctl.op = "call" /\ ctl.ns \in loaded_modules
    /\ ctl' = ReturnOk
    /\ UNCHANGED <<work, frames, loading_stack, loaded_modules, dependency_graph, registry>>

\* Mutant of Refused: the depth limit is one too small.
RefusedEarly(ns) ==
    \/ Len(loading_stack) >= MAX_RECURSION_DEPTH
    \/ Contains(loading_stack, ns)

Refused(ns) ==
    \/ Len(loading_stack) > MAX_RECURSION_DEPTH
    \/ Contains(loading_stack, ns)

\* The depth guard and the cycle check.
RecursionGuard ==
    /\ ctl.op = "call" /\ ctl.ns \notin loaded_modules
    /\ Refused(ctl.ns)
    /\ ctl' = ReturnErr
    /\ UNCHANGED <<work, frames, loading_stack, loaded_modules, dependency_graph, registry>>

Accepted == ctl.op = "call" /\ ctl.ns \notin loaded_modules /\ ~Refused(ctl.ns)

\* The namespace is no file, but its parent is: an item import.
ItemImport ==
    /\ Accepted /\ ~Resolvable(ctl.ns)
    /\ Len(ctl.ns) > 1 /\ Resolvable(ParentOf(ctl.ns))
    /\ loading_stack' = Append(loading_stack, ctl.ns)
    /\ frames' = Append(frames, [kind |-> "item", ns |-> ctl.ns, deps |-> <<>>])
    /\ ctl' = CallOf(ParentOf(ctl.ns))
    /\ UNCHANGED <<work, loaded_modules, dependency_graph, registry>>

\* No file, or one that cannot be read: the early returns that leave the
\* namespace in loading_stack.
Unresolved ==
    /\ Accepted
    /\ \/ ~Resolvable(ctl.ns) /\ ~(Len(ctl.ns) > 1 /\ Resolvable(ParentOf(ctl.ns)))
       \/ Resolvable(ctl.ns) /\ source[FilePath(ctl.ns)].state = "unreadable"
    /\ loading_stack' = Append(loading_stack, ctl.ns)
    /\ ctl' = ReturnErr
    /\ UNCHANGED <<work, frames, loaded_modules, dependency_graph, registry>>

ParseError ==
    /\ Accepted /\ Resolvable(ctl.ns)
    /\ source[FilePath(ctl.ns)].state = "malformed"
    /\ ctl' = ReturnErr
    /\ UNCHANGED <<work, frames, loading_stack, loaded_modules, dependency_graph, registry>>

\* The file parses: its dependencies are recorded, then loaded one by one.
EnterModule ==
    /\ Accepted /\ Resolvable(ctl.ns)
    /\ LET file == source[FilePath(ctl.ns)]
           deps == Deps(file)
       IN  /\ file.state = "ok"
           /\ loading_stack' = Append(loading_stack, ctl.ns)
           /\ frames' = Append(frames, [kind |-> "module", ns |-> ctl.ns, deps |-> deps])
           /\ dependency_graph' = [n \in DOMAIN dependency_graph \cup {ctl.ns} |->
                                     IF n = ctl.ns THEN deps ELSE dependency_graph[n]]
    /\ ctl' = ReturnOk
    /\ UNCHANGED <<work, loaded_modules, registry>>

-----------------------------------------------------------------------------
(* load_module, after a recursive call returned *)

Returned == ctl.op = "return" /\ frames # <<>>

\* Vec::pop takes the last entry, whichever namespace it is.
PopFrame ==
    /\ frames' = Front(frames)
    /\ loading_stack' = Front(loading_stack)

NextDependency ==
    /\ Returned /\ ctl.ok /\ Last(frames).deps # <<>>
    /\ ctl' = CallOf(Head(Last(frames).deps))
    /\ frames' = [frames EXCEPT ![Len(frames)].deps = Tail(@)]
    /\ UNCHANGED <<work, loading_stack, loaded_modules, dependency_graph, registry>>

FinishModule ==
    /\ Returned /\ ctl.ok /\ Last(frames).kind = "module" /\ Last(frames).deps = <<>>
    /\ LET ns == Last(frames).ns
       IN  /\ registry' = [n \in DOMAIN registry \cup {ns} |->
                             IF n = ns THEN FilePath(ns) ELSE registry[n]]
           /\ loaded_modules' = loaded_modules \cup {ns}
    /\ PopFrame
    /\ UNCHANGED <<work, ctl, dependency_graph>>

\* The item import takes the result of its parent.
FinishItem ==
    /\ Returned /\ Last(frames).kind = "item"
    /\ loaded_modules' = IF ctl.ok THEN loaded_modules \cup {Last(frames).ns}
                                   ELSE loaded_modules
    /\ PopFrame
    /\ UNCHANGED <<work, ctl, dependency_graph, registry>>

\* Mutant of DependencyFailed: the error of a dependency is swallowed.
DependencyIgnored ==
    /\ Returned /\ ~ctl.ok /\ Last(frames).kind = "module"
    /\ ctl' = ReturnOk
    /\ UNCHANGED <<work, frames, loading_stack, loaded_modules, dependency_graph, registry>>

DependencyFailed ==
    /\ Returned /\ ~ctl.ok /\ Last(frames).kind = "module"
    /\ PopFrame
    /\ UNCHANGED <<work, ctl, loaded_modules, dependency_graph, registry>>

\* emit_mlir prints a warning for a failed import and goes on.
ImportReturned ==
    /\ ctl.op = "return" /\ frames = <<>>
    /\ ctl' = Idle
    /\ UNCHANGED <<work, frames, loading_stack, loaded_modules, dependency_graph, registry>>

LoaderNext ==
    \/ LoadImport \/ AlreadyLoaded \/ RecursionGuard \/ ItemImport \/ Unresolved
    \/ ParseError \/ EnterModule \/ NextDependency \/ FinishModule \/ FinishItem
    \/ DependencyFailed \/ ImportReturned

LoaderDone == ctl = Idle /\ work = <<>>

-----------------------------------------------------------------------------
(* get_compilation_order: `keys` of the graph still to visit, `visits` the    *)
(* activations of topological_visit, whose nodes are the temp_mark, and the   *)
(* `order` so far, whose elements are the visited ones.                       *)

Unsorted == [ok |-> TRUE, keys |-> {}, visits |-> <<>>, order |-> <<>>]

StartSort == sort' = [Unsorted EXCEPT !.keys = DOMAIN dependency_graph]

EdgesOf(node) == IF node \in DOMAIN dependency_graph THEN dependency_graph[node] ELSE <<>>

\* Mutant of Visit: a node is listed before its dependencies.
VisitPre(s, node) ==
    IF \E i \in DOMAIN s.visits : s.visits[i].node = node THEN [s EXCEPT !.ok = FALSE]
    ELSE IF Contains(s.order, node) THEN s
    ELSE [s EXCEPT !.visits = Append(@, [node |-> node, deps |-> EdgesOf(node)]),
                   !.order = Append(@, node)]

\* topological_visit, up to its first recursive call: a marked node is a cycle.
Visit(s, node) ==
    IF \E i \in DOMAIN s.visits : s.visits[i].node = node THEN [s EXCEPT !.ok = FALSE]
    ELSE IF Contains(s.order, node) THEN s
    ELSE [s EXCEPT !.visits = Append(@, [node |-> node, deps |-> EdgesOf(node)])]

\* The keys of a HashMap come in any order.
SortKey ==
    /\ sort.ok /\ sort.visits = <<>>
    /\ \E k \in sort.keys : sort' = Visit([sort EXCEPT !.keys = @ \ {k}], k)

SortEdge ==
    /\ sort.ok /\ sort.visits # <<>> /\ Last(sort.visits).deps # <<>>
    /\ sort' = Visit([sort EXCEPT !.visits[Len(sort.visits)].deps = Tail(@)],
                     Head(Last(sort.visits).deps))

SortReturn ==
    /\ sort.ok /\ sort.visits # <<>> /\ Last(sort.visits).deps = <<>>
    /\ sort' = [sort EXCEPT !.order = Append(@, Last(sort.visits).node), !.visits = Front(@)]

SortNext == SortKey \/ SortEdge \/ SortReturn

SortDone == sort.ok /\ sort.keys = {} /\ sort.visits = <<>>

-----------------------------------------------------------------------------
(* What the loader promises *)

\* The namespaces some file imports, and the files item imports stand for.
Imported == UNION {ToSet(Deps(source[p])) : p \in DOMAIN source}
Namespaces ==
    Imported \cup {ParentOf(ns) : ns \in {n \in Imported : Len(n) > 1 /\ Resolvable(ParentOf(n))}}

Sound(ns) ==
    \/ Resolvable(ns) /\ source[FilePath(ns)].state = "ok"
    \/ ~Resolvable(ns) /\ Len(ns) > 1 /\ Resolvable(ParentOf(ns))

\* What loading ns loads first.
Below(ns) == IF Resolvable(ns) THEN ToSet(Deps(source[FilePath(ns)])) ELSE {ParentOf(ns)}

\* The namespaces with nothing missing, broken or cyclic below them and at
\* most k activations, their own included, from them to the last module.
LoadsWithin[k \in Nat] ==
    IF k = 0 THEN {}
    ELSE LET within == LoadsWithin[k - 1]
         IN  {ns \in Namespaces : Sound(ns) /\ Below(ns) \subseteq within}

\* Namespaces that stayed in loading_stack after their activation ended.
Leaked == Len(loading_stack) - Len(frames)

\* Once the imports of the unit are loaded, one that loaded has no missing,
\* broken or cyclic module below it, and one without any did load: the
\* earlier failures, which emit_mlir only warns about, do not spoil it, as
\* long as the namespaces they left in loading_stack leave room below
\* MAX_RECURSION_DEPTH.
LoadsWhatItCan(imports) ==
    LoaderDone =>
      \A ns \in ToSet(imports) :
        /\ ns \in loaded_modules => ns \in LoadsWithin[Cardinality(loaded_modules)]
        /\ /\ Leaked <= MAX_RECURSION_DEPTH
           /\ ns \in LoadsWithin[MAX_RECURSION_DEPTH + 1 - Leaked]
           => ns \in loaded_modules

\* A registered module never refers to one that is not there: everything it
\* imports is loaded, as a file or as an item of a registered parent.
RegistryClosed ==
    \A ns \in DOMAIN registry : \A d \in ToSet(Deps(source[registry[ns]])) :
        /\ d \in loaded_modules
        /\ d \in DOMAIN registry \/ ParentOf(d) \in DOMAIN registry

\* get_compilation_order lists every registered module once and the modules it
\* imports before it, whatever the order of the HashMap's keys; the parent of
\* an item import is no edge of the graph, and may come later.
ImportsComeFirst ==
    SortDone =>
      /\ DOMAIN registry \subseteq ToSet(sort.order)
      /\ \A i, j \in DOMAIN sort.order : sort.order[i] = sort.order[j] => i = j
      /\ \A i \in DOMAIN sort.order : sort.order[i] \in DOMAIN registry =>
           \A d \in ToSet(Deps(source[registry[sort.order[i]]])) :
             \E j \in 1 .. i - 1 : sort.order[j] = d

=============================================================================
