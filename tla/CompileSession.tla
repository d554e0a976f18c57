--------------------------- MODULE CompileSession ---------------------------
(***************************************************************************)
(* One build with the Salt compiler: for each unit, emit_mlir loads the    *)
(* imports (ModuleLoader), registers what they define, and drive_codegen   *)
(* emits function bodies on demand: the entry points first, then every     *)
(* function some emitted body calls, through one queue of tasks.  The      *)
(* objects are linked at the end.                                          *)
(*                                                                         *)
(* A body is the sequence of its free-function calls, function references  *)
(* and prints.  A name is a sequence of words, so that the specialization  *)
(* of f at i32 and a function called f_i32 have the same name <<f, i32>>,  *)
(* as their mangled strings do; a symbol is a package and a name.          *)
(***************************************************************************)
EXTENDS ModuleLoader

CONSTANT Builds   \* [mode, units, source]: what is compiled, and how

\* A build has units, which are among its files.
ASSUME BuildsAssumption ==
    \A b \in Builds :
      /\ b.units \in Seq(DOMAIN b.source) /\ b.units # <<>>
      /\ \A p \in DOMAIN b.source : b.source[p].imports \in Seq(ToSet(b.source[p].imports))

VARIABLES
    build,               \* [mode |-> "exe" or "lib", units |-> their paths]
    unit,                \* index of the unit being compiled
    phase,               \* "load", "order", "emit", "failed" or "linked"
    generic_impls,       \* symbol -> [fn, imports]
    external_decls,      \* symbols known as external
    pending_func_decls,  \* symbols with a forward declaration
    defined_functions,   \* symbols whose emission has started
    identity_map,        \* symbols that have been queued
    queue,               \* pending_generations
    current,             \* the task whose body is being emitted, and where
    active_hooks,        \* runtime hooks that prints have used
    definitions,         \* the bodies emitted: [sym, fn, ty]
    uses,                \* what each emitted call meant and what it got
    objects              \* the assembled units

sessionVars == <<unit, phase, generic_impls, external_decls, pending_func_decls,
                 defined_functions, identity_map, queue, current, active_hooks,
                 definitions, uses, objects>>
vars == <<source, build, loaderVars, sort, sessionVars>>

None == <<>>
Bare(name) == [ns |-> <<>>, name |-> name]
Sym(ns, name) == [ns |-> ns, name |-> name]

UnitPath == build.units[unit]
Root == source[UnitPath]
Lib == build.mode = "lib"
Insert(f, k, v) == (k :> v) @@ f

-----------------------------------------------------------------------------
(* Functions and files *)

\* A function is identified by its file and its position in it.
FnOf(id) == source[id.file].fns[id.at]
Ids(path) == [i \in DOMAIN source[path].fns |-> [file |-> path, at |-> i]]
NoFn == [file |-> <<>>, at |-> 0]

\* The first function called `name` in the file, extern declarations apart.
Template(path, name) ==
    LET fns == source[path].fns
        i == SelectInSeq(fns, LAMBDA f : f.name = name /\ ~f.extern)
    IN  IF i = 0 THEN NoFn ELSE [file |-> path, at |-> i]

\* The symbol scan_defs_from_file registers a function under.
MangledIn(pkg, f) == IF f.extern \/ f.nomangle THEN Bare(f.name) ELSE Sym(pkg, f.name)

\* Mutant of SelfImports: the private functions get no alias.
SelfImportsPub(pkg, file) ==
    LET fns == SelectSeq(file.fns, LAMBDA f : f.pub)
    IN  [i \in DOMAIN fns |->
           [kind |-> "self", alias |-> fns[i].name, sym |-> MangledIn(pkg, fns[i])]]

\* The alias imports that make a file's own functions visible by name.
SelfImports(pkg, file) ==
    IF pkg = None THEN <<>>
    ELSE [i \in DOMAIN file.fns |->
            [kind |-> "self", alias |-> file.fns[i].name, sym |-> MangledIn(pkg, file.fns[i])]]

-----------------------------------------------------------------------------
(* Registration, before any body is emitted *)

Loaded == {registry[ns] : ns \in DOMAIN registry}

\* register_signatures: an extern is declared once, whichever file has it.
Externs(paths) ==
    { Bare(f.name) : f \in {g \in UNION {ToSet(source[p].fns) : p \in paths} : g.extern} }

\* scan_defs_from_file: later files overwrite earlier ones.
ScanFile(impls, path) ==
    LET file == source[path]
        Add(m, id) ==
          LET f == FnOf(id)
          IN  IF f.extern THEN m
              ELSE Insert(m, MangledIn(file.package, f),
                       [fn |-> id, imports |-> file.imports \o SelfImports(file.package, file)])
    IN  FoldLeft(Add, impls, Ids(path))

ExternImpls(paths) ==
    LET ids == {id \in UNION {ToSet(Ids(p)) : p \in paths} : FnOf(id).extern}
    IN  [s \in {Bare(FnOf(id).name) : id \in ids} |->
           [fn |-> CHOOSE id \in ids : Bare(FnOf(id).name) = s, imports |-> <<>>]]

FilesIn(order) ==
    LET known == SelectSeq(order, LAMBDA ns : ns \in DOMAIN registry)
    IN  [i \in DOMAIN known |-> registry[known[i]]]

-----------------------------------------------------------------------------
(* Tasks *)

TaskOf(sym, fn, ty, imports, pkg) ==
    [sym |-> sym, fn |-> fn, ty |-> ty, imports |-> imports, pkg |-> pkg]

NoTy == "-"

\* The names an executable may start at, in the order drive_codegen tries them.
EntryNames == << <<"main">>, <<"main_salt">>, <<"kmain">> >>

\* create_main_task: `main` and `main_salt` are never mangled.
SeedTask(id) ==
    LET f == FnOf(id)
        sym == IF f.name \in {EntryNames[1], EntryNames[2]} THEN Bare(f.name) ELSE MangledIn(Root.package, f)
    IN  TaskOf(sym, id, NoTy, Root.imports, Root.package)

\* What drive_codegen starts with: every exported function of a library, the
\* first entry name an executable has.
Seeds ==
    LET own == SelectSeq(Ids(UnitPath), LAMBDA id : ~FnOf(id).extern)
        exported == SelectSeq(own, LAMBDA id : FnOf(id).pub \/ FnOf(id).nomangle)
        entries == FlattenSeq([i \in DOMAIN EntryNames |->
                       SelectSeq(own, LAMBDA id : FnOf(id).name = EntryNames[i])])
        ids == CASE Lib -> exported
                 [] ~Lib /\ entries = <<>> -> <<>>
                 [] OTHER -> <<Head(entries)>>
    IN  [i \in DOMAIN ids |-> SeedTask(ids[i])]

\* What hydrate_specialization switches to: a task with a package also gets
\* the alias imports of the unit's file.
Imports(task) == task.imports \o SelfImports(task.pkg, Root)

IdleBody == [task |-> None, at |-> 0]
Emitting == current.task # None

-----------------------------------------------------------------------------
(* Name resolution (expr/resolver.rs, expr/utils.rs) *)

\* An alias, the last segment of the path, or a name of the group.
Matches(imp, call) ==
    LET first == IF call.qual = None THEN call.name ELSE call.qual
    IN  \/ imp.kind = "self" /\ call.qual = None /\ imp.alias = call.name
        \/ imp.kind # "self" /\ <<Last(imp.path)>> = first
        \/ imp.kind = "group" /\ first \in imp.names

Exports(ns, name) == ns \in DOMAIN registry /\ Template(registry[ns], name) # NoFn

ExternIn(ns, name) ==
    /\ ns \in DOMAIN registry
    /\ \E f \in ToSet(source[registry[ns]].fns) : f.extern /\ f.name = name

\* resolve_path with resolve_package_prefix: imports in order, then externs,
\* then the modules imported whole, then the current package.
ResolvePath(call, task) ==
    LET imps == Imports(task)
        hit == SelectInSeq(imps, LAMBDA imp : Matches(imp, call))
        whole == SelectInSeq(imps, LAMBDA imp : imp.kind = "mod" /\ Exports(imp.path, call.name))
    IN  IF hit # 0
        THEN LET imp == imps[hit]
             IN  CASE imp.kind = "self" -> imp.sym
                   [] imp.kind # "self" /\ call.name = <<Last(imp.path)>> /\ call.qual = None ->
                        Sym(Front(imp.path), call.name)
                   [] imp.kind = "group" /\ call.qual = None -> Sym(imp.path, call.name)
                   [] OTHER -> IF ExternIn(imp.path, call.name) THEN Bare(call.name)
                               ELSE Sym(imp.path, call.name)
        ELSE IF call.qual # None THEN Sym(task.pkg \o call.qual, call.name)
        ELSE IF Bare(call.name) \in external_decls THEN Bare(call.name)
        ELSE IF whole # 0 THEN Sym(imps[whole].path, call.name)
        ELSE Sym(task.pkg, call.name)

\* resolve_canonical_name: a bare name equal to the one being emitted is a
\* recursive call.
Canonical(sym, task) ==
    CASE sym.ns = None /\ sym.name = task.sym.name -> task.sym
      [] sym.ns # None \/ sym \in external_decls -> sym
      [] OTHER -> Sym(task.pkg, sym.name)

Target(fn, base, imports) == [fn |-> fn, base |-> base, imports |-> imports]

\* The unit's own items, in order: by symbol, or by plain name whatever
\* package the caller is in.
LocalAt(sym, canonical) ==
    SelectInSeq(Root.fns, LAMBDA f :
      \/ sym = Bare(f.name)
      \/ canonical = IF f.extern THEN Bare(f.name) ELSE Sym(Root.package, f.name))

\* identify_target: a set, since the last resort goes through the registry
\* in the order of a HashMap.
Targets(sym, task) ==
    LET canonical == Canonical(sym, task)
        at == LocalAt(sym, canonical)
        probe == {ns \in DOMAIN registry : Exports(ns, canonical.name)}
    IN  IF at # 0
        THEN {Target([file |-> UnitPath, at |-> at], MangledIn(Root.package, Root.fns[at]),
                     IF Root.fns[at].extern THEN <<>> ELSE Imports(task))}
        ELSE IF canonical \in DOMAIN generic_impls
        THEN {Target(generic_impls[canonical].fn, canonical, generic_impls[canonical].imports)}
        ELSE IF task.pkg # None /\ Exports(task.pkg, canonical.name)
        THEN {Target(Template(registry[task.pkg], canonical.name),
                     Sym(task.pkg, canonical.name), source[registry[task.pkg]].imports)}
        ELSE {Target(Template(registry[ns], canonical.name),
                     Sym(ns, canonical.name), source[registry[ns]].imports) : ns \in probe}

\* Mutant of Specialize: the symbol does not carry the type.
SpecializeBare(target, call, task) ==
    LET ty == IF ~FnOf(target.fn).generic THEN NoTy
              ELSE IF call.ty = "T" THEN task.ty ELSE call.ty
    IN  TaskOf(target.base, target.fn, ty, target.imports, None)

\* unify_generics and mangle_specialization.
Specialize(target, call, task) ==
    LET ty == IF ~FnOf(target.fn).generic THEN NoTy
              ELSE IF call.ty = "T" THEN task.ty ELSE call.ty
        sym == IF ty = NoTy THEN target.base
               ELSE Sym(target.base.ns, Append(target.base.name, ty))
    IN  TaskOf(sym, target.fn, ty, target.imports, None)

\* The module-function intercept: an alias import of a registered module is
\* taken as it is, without generics and without the module's own aliases.
Intercept(call, task) ==
    SelectInSeq(Imports(task), LAMBDA imp :
        /\ imp.kind = "self" /\ call.qual = None /\ imp.alias = call.name
        /\ imp.sym.ns # None /\ Exports(imp.sym.ns, call.name))

\* resolve_call: the tasks the call may stand for.
ResolveCall(call, task) ==
    LET at == Intercept(call, task)
        sym == Imports(task)[at].sym
    IN  IF at # 0
        THEN { TaskOf(sym, Template(registry[sym.ns], call.name), NoTy,
                      source[registry[sym.ns]].imports, None) }
        ELSE {Specialize(t, call, task) : t \in Targets(ResolvePath(call, task), task)}

-----------------------------------------------------------------------------
(* Emission *)

StartUnit(n) ==
    /\ unit' = n
    /\ phase' = "load"
    /\ generic_impls' = <<>> /\ external_decls' = {} /\ pending_func_decls' = {}
    /\ defined_functions' = {} /\ identity_map' = {} /\ queue' = <<>>
    /\ current' = IdleBody /\ active_hooks' = {} /\ definitions' = <<>> /\ uses' = {}
    /\ work' = Deps(source[build.units[n]])
    /\ ctl' = Idle /\ frames' = <<>> /\ loading_stack' = <<>> /\ loaded_modules' = {}
    /\ dependency_graph' = <<>> /\ registry' = <<>>

Init ==
    \E b \in Builds :
      /\ source = b.source
      /\ build = [mode |-> b.mode, units |-> b.units]
      /\ unit = 1
      /\ phase = "load"
      /\ generic_impls = <<>> /\ external_decls = {} /\ pending_func_decls = {}
      /\ defined_functions = {} /\ identity_map = {} /\ queue = <<>>
      /\ current = IdleBody /\ active_hooks = {} /\ definitions = <<>> /\ uses = {}
      /\ objects = <<>>
      /\ LoaderInit(Deps(b.source[b.units[1]]))
      /\ sort = Unsorted

Load ==
    /\ phase = "load"
    /\ LoaderNext
    /\ UNCHANGED <<source, build, sort, sessionVars>>

\* emit_mlir goes on to get_compilation_order.
OrderStart ==
    /\ phase = "load" /\ LoaderDone
    /\ StartSort
    /\ phase' = "order"
    /\ UNCHANGED <<source, build, loaderVars, unit, generic_impls, external_decls,
                   pending_func_decls, defined_functions, identity_map, queue, current,
                   active_hooks, definitions, uses, objects>>

Order ==
    /\ phase = "order"
    /\ SortNext
    /\ UNCHANGED <<source, build, loaderVars, sessionVars>>

Fail ==
    /\ phase' = "failed"
    /\ UNCHANGED <<source, build, loaderVars, sort, unit, generic_impls, external_decls,
                   pending_func_decls, defined_functions, identity_map, queue, current,
                   active_hooks, definitions, uses, objects>>

\* An import cycle below the unit, and an executable without an entry point.
CannotStart ==
    /\ phase = "order"
    /\ ~sort.ok \/ (SortDone /\ ~Lib /\ Seeds = <<>>)
    /\ Fail

\* Registration of the loaded files and the unit, then the entry points.
Register ==
    /\ phase = "order" /\ SortDone
    /\ Lib \/ Seeds # <<>>
    /\ generic_impls' = ScanFile(FoldLeft(ScanFile, ExternImpls(Loaded \cup {UnitPath}),
                                          FilesIn(sort.order)), UnitPath)
    /\ external_decls' = Externs(Loaded \cup {UnitPath})
    /\ pending_func_decls' = Externs(Loaded \cup {UnitPath})
    /\ queue' = Seeds
    /\ phase' = "emit"
    /\ sort' = Unsorted
    /\ UNCHANGED <<source, build, loaderVars, unit, defined_functions, identity_map,
                   current, active_hooks, definitions, uses, objects>>

\* hydrate_specialization's guard against emitting an extern.
ExternGuard(sym) ==
    /\ sym \in external_decls /\ sym \in DOMAIN generic_impls
    /\ FnOf(generic_impls[sym].fn).empty

\* The mangled name has the word T after another one, as that of a template.
TemplateName(sym) ==
    \E i \in DOMAIN sym.name : sym.name[i] = "T" /\ (i > 1 \/ sym.ns # None)

\* emit_fn returns an empty string for these, though they count as defined.
Ghost(task) ==
    LET f == FnOf(task.fn)
    IN  \/ Bare(f.name) \in external_decls /\ f.empty
        \/ TemplateName(task.sym)
        \/ f.generic /\ task.ty = NoTy

\* The specialization is at a type parameter that nothing has resolved.
AtParameter(task) == task.ty = "T"

\* Mutant of Skipped: the test of defined_functions is missing.
SkippedExtern(task) == AtParameter(task) \/ ExternGuard(task.sym)

\* The early returns of hydrate_specialization, which mark nothing.
Skipped(task) == AtParameter(task) \/ task.sym \in defined_functions \/ ExternGuard(task.sym)

\* drive_codegen takes the next task; hydrate_specialization drops it, or
\* marks it defined and starts its body.
Hydrate ==
    /\ phase = "emit" /\ ~Emitting /\ queue # <<>>
    /\ LET task == Head(queue)
       IN  /\ defined_functions' = IF Skipped(task) THEN defined_functions
                                   ELSE defined_functions \cup {task.sym}
           /\ current' = IF Skipped(task) \/ Ghost(task) THEN IdleBody ELSE [task |-> task, at |-> 1]
    /\ queue' = Tail(queue)
    /\ UNCHANGED <<source, build, loaderVars, sort, unit, phase, generic_impls, external_decls,
                   pending_func_decls, identity_map, active_hooks, definitions, uses, objects>>

\* ensure_func_declared.
Declare(sym, defined) ==
    IF sym \in pending_func_decls \cup defined
    THEN UNCHANGED <<external_decls, pending_func_decls>>
    ELSE /\ external_decls' = external_decls \cup {sym}
         /\ pending_func_decls' = pending_func_decls \cup {sym}

\* Mutant of CrossModule: applied to executables too.
CrossModuleExe(sym, task) ==
    /\ task.pkg # None
    /\ ~IsPrefix(task.pkg, sym.ns)

\* Mutant of CrossModule: the caller's package is tested, not the callee's.
CrossModuleCaller(sym, task) == Lib /\ task.pkg # None /\ ~IsPrefix(task.pkg, Root.package)

\* emit_call's test, in library mode, that a callee is compiled elsewhere.
CrossModule(sym, task) ==
    /\ Lib /\ task.pkg # None
    /\ ~IsPrefix(task.pkg, sym.ns)
    /\ \A f \in ToSet(Root.fns) : ~(f.nomangle /\ ~f.extern /\ sym = Bare(f.name))

Statement == FnOf(current.task.fn).body[current.at]

\* The body is emitted with the aliases of its own file among its imports.
Aliased(task) ==
    LET file == source[task.fn.file]
    IN  ToSet(SelfImports(file.package, file)) \subseteq ToSet(Imports(task))

Use(sym, fn, ty) ==
    [from |-> current.task.fn, stmt |-> Statement, ty |-> current.task.ty,
     aliased |-> Aliased(current.task), sym |-> sym, fn |-> fn, fnty |-> ty]

\* emit_call: queue the callee, or only declare it.
EmitCall ==
    /\ phase = "emit" /\ Emitting /\ current.at <= Len(FnOf(current.task.fn).body)
    /\ Statement.k = "call"
    /\ \E t \in ResolveCall(Statement, current.task) :
         LET fresh == /\ t.sym \notin defined_functions \cup identity_map
                      /\ ~CrossModule(t.sym, current.task)
         IN  /\ queue' = IF fresh THEN Append(queue, t) ELSE queue
             /\ identity_map' = IF fresh THEN identity_map \cup {t.sym} ELSE identity_map
             /\ Declare(t.sym, defined_functions)
             /\ uses' = uses \cup {Use(t.sym, t.fn, t.ty)}
    /\ current' = [current EXCEPT !.at = @ + 1]
    /\ UNCHANGED <<source, build, loaderVars, sort, unit, phase, generic_impls, defined_functions,
                   active_hooks, definitions, objects>>

\* The names register_signatures and scan_defs_from_file put in globals.
Globals ==
    UNION { LET file == source[p]
            IN  {MangledIn(file.package, f) : f \in ToSet(file.fns)}
                \cup {Sym(file.package, f.name) : f \in {g \in ToSet(file.fns) : ~g.extern}} :
            p \in Loaded \cup {UnitPath} }

\* A function used as a value: require_local_function queues a function of
\* the unit, anything else is only declared.
EmitRef ==
    /\ phase = "emit" /\ Emitting /\ current.at <= Len(FnOf(current.task.fn).body)
    /\ Statement.k = "ref"
    /\ LET sym == ResolvePath(Statement, current.task)
           at == SelectInSeq(Root.fns, LAMBDA f : ~f.extern /\ MangledIn(Root.package, f) = sym)
       IN  /\ sym \in Globals
           /\ IF sym \in identity_map
              THEN UNCHANGED <<queue, identity_map, external_decls, pending_func_decls>>
              ELSE IF at # 0
              THEN /\ queue' = Append(queue, TaskOf(sym, [file |-> UnitPath, at |-> at], NoTy,
                                                    Root.imports, Root.package))
                   /\ identity_map' = identity_map \cup {sym}
                   /\ UNCHANGED <<external_decls, pending_func_decls>>
              ELSE Declare(sym, defined_functions) /\ UNCHANGED <<queue, identity_map>>
           /\ uses' = uses \cup {Use(sym, NoFn, NoTy)}
    /\ current' = [current EXCEPT !.at = @ + 1]
    /\ UNCHANGED <<source, build, loaderVars, sort, unit, phase, generic_impls, defined_functions,
                   active_hooks, definitions, objects>>

\* A print registers the runtime hook it calls.
EmitPrint ==
    /\ phase = "emit" /\ Emitting /\ current.at <= Len(FnOf(current.task.fn).body)
    /\ Statement.k = "print"
    /\ active_hooks' = active_hooks \cup {Bare(Statement.name)}
    /\ uses' = uses \cup {Use(Bare(Statement.name), NoFn, NoTy)}
    /\ current' = [current EXCEPT !.at = @ + 1]
    /\ UNCHANGED <<source, build, loaderVars, sort, unit, phase, generic_impls, external_decls,
                   pending_func_decls, defined_functions, identity_map, queue, definitions,
                   objects>>

\* No definition is found: the error ends the compilation.
Undefined ==
    /\ phase = "emit" /\ Emitting /\ current.at <= Len(FnOf(current.task.fn).body)
    /\ \/ Statement.k = "call" /\ ResolveCall(Statement, current.task) = {}
       \/ Statement.k = "ref" /\ ResolvePath(Statement, current.task) \notin Globals
    /\ Fail

FinishBody ==
    /\ phase = "emit" /\ Emitting /\ current.at > Len(FnOf(current.task.fn).body)
    /\ definitions' = Append(definitions,
                        [sym |-> current.task.sym, fn |-> current.task.fn, ty |-> current.task.ty])
    /\ current' = IdleBody
    /\ UNCHANGED <<source, build, loaderVars, sort, unit, phase, generic_impls, external_decls,
                   pending_func_decls, defined_functions, identity_map, queue, active_hooks,
                   uses, objects>>

\* Mutant of Object: what was queued is taken to be defined.
ObjectQueued ==
    [decls |-> pending_func_decls \ (defined_functions \cup identity_map),
     hooks |-> active_hooks, defs |-> definitions, uses |-> uses]

\* The text of the module: declarations of what was never defined, hooks,
\* bodies.  A library without entry points is an empty module.
Object ==
    IF Lib /\ Seeds = <<>> THEN [decls |-> {}, hooks |-> {}, defs |-> <<>>, uses |-> {}]
    ELSE [decls |-> pending_func_decls \ defined_functions, hooks |-> active_hooks,
          defs |-> definitions, uses |-> uses]

Assemble ==
    /\ phase = "emit" /\ ~Emitting /\ queue = <<>>
    /\ objects' = Append(objects, Object)
    /\ IF unit < Len(build.units)
       THEN StartUnit(unit + 1)
       ELSE /\ phase' = "linked"
            /\ UNCHANGED <<loaderVars, unit, generic_impls, external_decls, pending_func_decls,
                           defined_functions, identity_map, queue, current, active_hooks,
                           definitions, uses>>
    /\ UNCHANGED <<source, build, sort>>

Done == phase \in {"linked", "failed"} /\ UNCHANGED vars

Next ==
    \/ Load \/ OrderStart \/ Order \/ CannotStart \/ Register \/ Hydrate \/ EmitCall \/ EmitRef \/ EmitPrint
    \/ Undefined \/ FinishBody \/ Assemble \/ Done

Spec == Init /\ [][Next]_vars

-----------------------------------------------------------------------------
(* Properties *)

\* Types, and that a unit's loader and emitter never overlap.
TypeOK ==
    /\ unit \in DOMAIN build.units
    /\ phase \in {"load", "order", "emit", "failed", "linked"}
    /\ Len(objects) \in 0..Len(build.units)
    /\ Emitting \/ queue # <<>> => phase \in {"emit", "failed"}
    /\ phase \in {"order", "emit", "linked"} => LoaderDone

\* The imports of the unit load whenever they can (emit_mlir only warns of
\* the ones that fail): LoadsWhatItCan.
ImportsLoad == phase = "load" => LoadsWhatItCan(Deps(Root))

\* The order in which the loaded files are registered: ImportsComeFirst.
OrderOfImports == phase = "order" => ImportsComeFirst

\* The build is complete.
Linked == phase = "linked"

DefinedIn(o) == {o.defs[i].sym : i \in DOMAIN o.defs}
Present(o) == o.decls \cup o.hooks \cup DefinedIn(o)
AllFns == UNION {ToSet(source[p].fns) : p \in DOMAIN source}
AllExterns == Externs(DOMAIN source)

\* An extern of one file that another file implements with @no_mangle.
ImplementedExtern(sym) ==
    sym \in AllExterns /\ \E f \in AllFns : f.nomangle /\ sym = Bare(f.name)

\* The unspecialized symbol of a generic function.
TemplateSymbol(sym) ==
    \E p \in DOMAIN source : \E f \in ToSet(source[p].fns) :
      f.generic /\ sym = Sym(source[p].package, f.name)

\* Every symbol an emitted body refers to is declared or defined in its
\* module: what hydrate_specialization marks as defined, which removes its
\* declaration, is emitted.  Three kinds of task are marked and not emitted: an
\* extern that an imported file implements, a generic function named without
\* its types, and a function whose name looks like a template's (f_T).
UnitCloses ==
    Linked => \A i \in DOMAIN objects : \A u \in objects[i].uses :
      \/ u.sym \in Present(objects[i])
      \/ ImplementedExtern(u.sym) \/ TemplateSymbol(u.sym) \/ TemplateName(u.sym)

\* No module has a symbol twice: a body is emitted once whatever asks for it,
\* its forward declaration is gone, and no hook of the runtime repeats one;
\* only an extern with the name of a hook is declared twice.
SymbolsOnce ==
    Linked => \A i \in DOMAIN objects :
      LET o == objects[i]
      IN  /\ Cardinality(DefinedIn(o)) = Len(o.defs)
          /\ (o.hooks \cup o.decls) \cap DefinedIn(o) = {}
          /\ o.hooks \cap o.decls \subseteq AllExterns

\* The body under a symbol is the function, at the type, that every
\* call of it resolved to, unless a function is called what another one's
\* specialization is mangled to.
MeantBody ==
    Linked => \A i \in DOMAIN objects : \A u \in objects[i].uses : \A j \in DOMAIN objects[i].defs :
      LET d == objects[i].defs[j]
      IN  /\ u.fn # NoFn /\ u.sym = d.sym
          /\ u.fnty = NoTy <=> d.ty = NoTy
          => u.fn = d.fn /\ u.fnty = d.ty

\* What a name may mean in a file: its own functions and what it imports; an
\* import that only the lower-case form resolves makes nothing visible, since
\* its module is registered under the name the import wrote.
Scope(path, call) ==
    LET Of(p) == {id \in ToSet(Ids(p)) : FnOf(id).name = call.name}
        Packaged(p) == p \in DOMAIN source
        Visible(imp) == \/ call.qual = <<Last(imp.path)>>
                        \/ call.qual = None /\ (imp.kind = "mod" \/ call.name \in imp.names)
        Item(imp) == imp.kind = "mod" /\ Len(imp.path) > 1 /\ ~Resolvable(imp.path)
                     /\ call.qual = None /\ call.name = <<Last(imp.path)>>
        via(imp) == IF Packaged(imp.path) /\ Visible(imp) THEN Of(imp.path)
                    ELSE IF Item(imp) THEN Of(ParentOf(imp.path)) ELSE {}
    IN  (IF call.qual = None THEN Of(path) ELSE {})
        \cup UNION {via(imp) : imp \in ToSet(source[path].imports)}

\* A call whose name is in scope where it is written is bound to a function
\* in that scope, however deep in the imported modules the body is reached;
\* only where the body is emitted without the aliases of its own file, or the
\* function meant has a C name, may the unit's functions capture it.
InScope ==
    Linked => \A u \in UNION {o.uses : o \in ToSet(objects)} :
      LET scope == Scope(u.from.file, u.stmt)
      IN  /\ u.fn # NoFn /\ scope # {}
          /\ u.aliased
          /\ \A id \in scope : ~FnOf(id).nomangle
          => u.fn \in scope

Exported(f) == f.pub \/ f.nomangle
Definers(sym) == {i \in DOMAIN objects : sym \in DefinedIn(objects[i])}
Named(sym) ==
    {f \in UNION {ToSet(source[p].fns) : p \in {q \in DOMAIN source : source[q].package = sym.ns}} :
       f.name = sym.name}

\* Uses of a symbol that no object defines though some source file does: a
\* function value; a specialization of another unit's generic; a module
\* imported under a name that is not its package; a
\* @no_mangle function named through its package; an empty body; and a
\* function its own unit does not export.
LostShape(u) ==
    \/ u.stmt.k = "ref"
    \/ u.fnty # NoTy
    \/ u.sym.ns \notin {source[p].package : p \in DOMAIN source}
    \/ \E f \in Named(u.sym) : f.nomangle
    \/ \E f \in Named(u.sym) : f.empty
    \/ Lib /\ \E f \in Named(u.sym) : ~Exported(f)

\* Whatever an object only declares is defined by one of the objects, or is
\* an extern: a unit that leaves a callee to another unit (emit_call's
\* is_cross_module) is right that the other one emits it.
Links ==
    Linked =>
      \A i \in DOMAIN objects : \A u \in objects[i].uses :
        u.sym \in objects[i].decls \ AllExterns /\ ~LostShape(u) => Definers(u.sym) # {}

\* In library mode an exported function is emitted in the object of its own
\* file alone; only a caller that is itself no entry point, or a package
\* below the unit's own, brings a second copy.
HomeOnly ==
    Linked /\ Lib =>
      \A i \in DOMAIN objects : \A k \in DOMAIN objects[i].defs :
        LET d == objects[i].defs[k]
            home == build.units[i]
        IN  Exported(FnOf(d.fn)) =>
              \/ d.fn.file = home
              \/ IsPrefix(source[home].package, d.sym.ns)
              \/ \E u \in objects[i].uses : /\ u.sym = d.sym
                                            /\ u.from.file # home \/ ~Exported(FnOf(u.from))

\* What the loader hands to the emitter: every import that can be loaded, whole
\* and in order.  (And every variable has its type.)
ModulesReady == TypeOK /\ RegistryClosed /\ ImportsLoad /\ OrderOfImports

\* The text of each module is closed and has no symbol twice.
ModuleWellFormed == UnitCloses /\ SymbolsOnce

\* Every call runs the function its name means where it is written.
CallsBound == MeantBody /\ InScope

\* The objects link: nothing is left to another unit that does not define it,
\* and nothing is defined in two.
UnitsLink == Links /\ HomeOnly

=============================================================================
