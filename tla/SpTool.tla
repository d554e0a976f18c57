------------------------------- MODULE SpTool -------------------------------
(***************************************************************************)
(* `sp`, the Salt package tool (tools/sp/src): the dependency resolver,    *)
(* the content-addressed cache, the build script's shared scratch          *)
(* directory, and the commands new, build, run, test, check, clean, add    *)
(* and fetch, one action per file-system effect, in any number of          *)
(* terminals.  A command may be killed at any point; the user edits        *)
(* sources between commands, or during them if EditAnytime.                *)
(*                                                                         *)
(* A source tree is abstracted to its version; what becomes of a version   *)
(* in the compiler and at run time is the constant Outcome.  Contents of   *)
(* different directories are taken to differ.                              *)
(***************************************************************************)
EXTENDS Naturals, Sequences, FiniteSets, SequencesExt

CONSTANTS
    Dirs,         \* project directories
    Names,        \* names under which manifests mention dependencies
    Manifests,    \* initial states: [Dirs -> [SUBSET Names -> Spec]]
    Versions,     \* contents each source tree may have; 1 at first
    Outcome(_, _),\* directory, version -> "ok" | "noparse" | "nolink" | "exit1"
    Terminals,
    Invocations,  \* bound: commands given, as <<command, directory, --release>>
    EditAnytime,  \* sources may change while a command runs
    MaxEdits      \* bound: edits, removals, adds, cleans and kills together

\* The dependencies go by names of Names, of which there are finitely many;
\* commands are given in project directories; a new project has version 1.
ASSUME NamesAssumption ==
    /\ IsFiniteSet(Names)
    /\ \A m \in Manifests : DOMAIN m = Dirs /\ \A d \in Dirs : DOMAIN m[d] \subseteq Names
ASSUME DirsAssumption ==
    /\ \A i \in Invocations : i[2] \in Dirs
    /\ \A d \in Dirs : 1 \in Versions[d]
ASSUME BoundAssumption == MaxEdits \in Nat

VARIABLES
    present,   \* "none", "bin" or "lib": what `sp new` made of the directory
    deps,      \* [dependencies] of each salt.toml
    src,       \* version of each source tree
    target,    \* target/<profile>/<name>: a binary, Partial or None
    scratch,   \* /tmp/salt_build/<stem>: the MLIR and the binary last written
    cache,     \* ~/.salt/cache/artifacts: key -> binary
    proc,      \* the command running in each terminal
    ran,       \* what the last command, if `sp run`, executed
    compiled,  \* history: sources that compiled, linked and exited with 0
    edits

vars == <<present, deps, src, target, scratch, cache, proc, ran, compiled, edits>>
files == <<present, deps, src, target, scratch, cache>>

Profiles == {"debug", "release"}
Stems == {"main", "test_smoke"}
None == [of |-> "none"]
Partial == [of |-> "partial"]
Path(d) == [k |-> "path", dir |-> d]
Registry == [k |-> "registry", dir |-> "none"]

-----------------------------------------------------------------------------
\* cache.rs: the key hashes the project's files, the profile and the files of
\* the search roots in their order.  (Compiler version and target are literals.)

\* Mutant of ComputeKey: the search roots are left out of the hash.
ComputeKeyNoDeps(d, release, roots) ==
    [own |-> <<d, src[d]>>, profile |-> release, roots |-> <<>>]

ComputeKey(d, release, roots) ==
    [own |-> <<d, src[d]>>, profile |-> release,
     roots |-> [i \in DOMAIN roots |-> <<roots[i], src[roots[i]]>>]]

Lookup(key) == key \in DOMAIN cache

Profile(release) == IF release THEN "release" ELSE "debug"

\* The directories a project is made of: those in every set that holds the
\* project and, with a directory, what its manifest names.
Closed(S) ==
    \A e \in S : \A n \in DOMAIN deps[e] : deps[e][n].dir \in Dirs => deps[e][n].dir \in S
Needed(d) == {e \in Dirs : \A S \in SUBSET Dirs : d \in S /\ Closed(S) => e \in S}

\* What a binary is built from: the project and all it needs, as if run_test.sh
\* and salt-front read SALT_SEARCH_ROOTS, which compiler.rs:45 sets for them.
\* Neither does: salt-front looks in its working directory, above it and in std
\* (codegen/mod.rs:116), so this is a project whose imports are found there.
SourcesOf(d) == [e \in Needed(d) |-> src[e]]
Binary(d) == [of |-> "binary", dir |-> d, sources |-> SourcesOf(d)]
BinaryOutcome(b) == IF b.of # "binary" THEN "nolink" ELSE Outcome(b.dir, b.sources[b.dir])

-----------------------------------------------------------------------------
\* What a command holds: cmd, dir and release are its arguments, stem names its
\* files in the scratch directory; stack, seen and roots are the resolver's.
Command(pc, cmd, d, release) ==
    [pc |-> pc, cmd |-> cmd, dir |-> d, release |-> release,
     stem |-> IF cmd = "test" THEN "test_smoke" ELSE "main",
     stack |-> <<>>, seen |-> {}, roots |-> <<>>, key |-> <<>>, hit |-> FALSE, ok |-> FALSE]
Idle == Command("idle", "none", "none", FALSE)

Init ==
    /\ present = [d \in Dirs |-> "bin"]
    /\ deps \in Manifests
    /\ src = [d \in Dirs |-> 1]
    /\ target = [d \in Dirs |-> [p \in Profiles |-> None]]
    /\ scratch = [s \in Stems |-> [mlir |-> None, bin |-> None]]
    /\ cache = [k \in {} |-> None]
    /\ proc = [t \in Terminals |-> Idle]
    /\ ran = None
    /\ compiled = {}
    /\ edits = 0

Goto(t, pc) == proc' = [proc EXCEPT ![t].pc = pc]
Finish(t, ok) ==
    proc' = [proc EXCEPT ![t] = [@ EXCEPT !.pc = "done", !.ok = ok, !.stack = <<>>, !.seen = {},
                                          !.roots = <<>>, !.key = <<>>]]

\* The user starts a command, in a project directory.
Start(t, cmd, d, release) ==
    /\ proc[t].pc \in {"idle", "done"}
    /\ edits' = IF cmd \in {"clean", "add"} THEN edits + 1 ELSE edits
    /\ edits' <= MaxEdits
    /\ proc' = [proc EXCEPT ![t] = Command("start", cmd, d, release)]
    /\ ran' = None
    /\ UNCHANGED <<files, compiled>>

-----------------------------------------------------------------------------
(* resolver.rs: one frame per manifest being gone through.  Its dependencies *)
(* are a HashMap: they are taken in any order.                               *)

\* A manifest as loaded, for the dependency of that name in directory d.
Frame(name, d) == [name |-> name, dir |-> d, man |-> deps[d], left |-> DOMAIN deps[d]]

\* The innermost manifest is done with n.
Taken(stack, n) == [stack EXCEPT ![Len(stack)].left = @ \ {n}]

\* build, run, check and fetch load the project's manifest first; sp fetch
\* returns early when it lists no dependency.  The project's own src/ comes
\* first among the search roots.
Load(t) ==
    LET p == proc[t]
    IN /\ p.pc = "start" /\ p.cmd \in {"build", "run", "check", "fetch"}
       /\ IF present[p.dir] = "none" THEN Finish(t, FALSE)
          ELSE IF p.cmd = "fetch" /\ DOMAIN deps[p.dir] = {} THEN Finish(t, TRUE)
          ELSE proc' = [proc EXCEPT ![t].pc = "resolve", ![t].roots = <<p.dir>>,
                                    ![t].stack = <<Frame("", p.dir)>>]
       /\ UNCHANGED <<files, ran, compiled, edits>>

\* Mutant of ResolveSingle: the dependent comes before what it needs.
ResolveSingleEarly(t, n) ==
    LET p == proc[t]
        spec == Last(p.stack).man[n]
    IN /\ p.pc = "resolve" /\ n \in Last(p.stack).left
       /\ IF n \in p.seen THEN proc' = [proc EXCEPT ![t].stack = Taken(@, n)]
          ELSE IF spec.k # "path" \/ spec.dir \notin Dirs \/ present[spec.dir] = "none"
          THEN Finish(t, FALSE)
          ELSE proc' = [proc EXCEPT ![t].seen = @ \cup {n}, ![t].roots = Append(@, spec.dir),
                                    ![t].stack = Append(Taken(@, n), Frame(n, spec.dir))]
       /\ UNCHANGED <<files, ran, compiled, edits>>

\* resolve_single: each name once, whatever it stands for; only a path
\* dependency that exists can be resolved, and its manifest is gone through
\* before it is added.
ResolveSingle(t, n) ==
    LET p == proc[t]
        spec == Last(p.stack).man[n]
    IN /\ p.pc = "resolve" /\ n \in Last(p.stack).left
       /\ IF n \in p.seen THEN proc' = [proc EXCEPT ![t].stack = Taken(@, n)]
          ELSE IF spec.k # "path" \/ spec.dir \notin Dirs \/ present[spec.dir] = "none"
          THEN Finish(t, FALSE)
          ELSE proc' = [proc EXCEPT ![t].seen = @ \cup {n},
                                    ![t].stack = Append(Taken(@, n), Frame(n, spec.dir))]
       /\ UNCHANGED <<files, ran, compiled, edits>>

\* A manifest is gone through: its directory becomes a search root; the
\* project's own ends the resolution.
ResolveReturn(t) ==
    LET p == proc[t]
    IN /\ p.pc = "resolve" /\ Last(p.stack).left = {}
       /\ IF Len(p.stack) > 1
          THEN proc' = [proc EXCEPT ![t].roots = Append(@, Last(p.stack).dir),
                                    ![t].stack = Front(@)]
          ELSE IF p.cmd = "fetch" THEN Finish(t, TRUE)
          ELSE proc' = [proc EXCEPT ![t].pc = IF p.cmd = "check" THEN "verify" ELSE "key",
                                    ![t].stack = <<>>, ![t].seen = {}]
       /\ UNCHANGED <<files, ran, compiled, edits>>

-----------------------------------------------------------------------------
\* cmd_build: the key is computed before anything is compiled.
BuildKey(t) ==
    LET p == proc[t]
    IN /\ p.pc = "key"
       /\ proc' = [proc EXCEPT ![t].key = ComputeKey(p.dir, p.release, p.roots),
                               ![t].pc = "lookup"]
       /\ UNCHANGED <<files, ran, compiled, edits>>

\* What cmd_build's Ok leads to: sp run goes on to execute the target.
AfterBuild(t, hit) ==
    IF proc[t].cmd = "run"
    THEN proc' = [proc EXCEPT ![t].hit = hit, ![t].pc = "exec_target"]
    ELSE Finish(t, TRUE)

\* A hit ends the build: the artifact is not copied to target/.
BuildLookup(t) ==
    /\ proc[t].pc = "lookup"
    /\ IF Lookup(proc[t].key) THEN AfterBuild(t, TRUE) ELSE Goto(t, "front")
    /\ UNCHANGED <<files, ran, compiled, edits>>

\* Mutant of ScriptFront: a front-end failure does not stop the script.
ScriptFrontOn(t) ==
    LET p == proc[t]
    IN /\ p.pc = "front"
       /\ IF Outcome(p.dir, src[p.dir]) = "noparse"
          THEN UNCHANGED scratch
          ELSE scratch' = [scratch EXCEPT ![p.stem].mlir = Binary(p.dir)]
       /\ Goto(t, "link")
       /\ UNCHANGED <<present, deps, src, target, cache, ran, compiled, edits>>

\* run_test.sh, step 1: salt-front reads the sources now; the shell has
\* truncated the MLIR file before it starts.  The entry is src/main.salt,
\* which `sp new --lib` does not write.
ScriptFront(t) ==
    LET p == proc[t]
    IN /\ p.pc = "front"
       /\ IF present[p.dir] = "lib" /\ p.stem = "main"
          THEN Finish(t, FALSE) /\ UNCHANGED scratch
          ELSE IF Outcome(p.dir, src[p.dir]) = "noparse"
          THEN scratch' = [scratch EXCEPT ![p.stem].mlir = None] /\ Finish(t, FALSE)
          ELSE scratch' = [scratch EXCEPT ![p.stem].mlir = Binary(p.dir)] /\ Goto(t, "link")
       /\ UNCHANGED <<present, deps, src, target, cache, ran, compiled, edits>>

\* Steps 2 to 4: `clang ... | grep ... || true` hides a link failure, and the
\* binary of an earlier build stays.
ScriptLink(t) ==
    LET p == proc[t]
        input == scratch[p.stem].mlir
    IN /\ p.pc = "link"
       /\ scratch' = IF BinaryOutcome(input) = "nolink" THEN scratch
                     ELSE [scratch EXCEPT ![p.stem].bin = input]
       /\ Goto(t, "exec")
       /\ UNCHANGED <<present, deps, src, target, cache, ran, compiled, edits>>

\* Step 5: the script also runs the program, and its exit code is the build's.
ScriptExec(t) ==
    LET p == proc[t]
        b == scratch[p.stem].bin
        good == b # None /\ BinaryOutcome(b) = "ok"
    IN /\ p.pc = "exec"
       /\ IF good /\ p.cmd \in {"build", "run"} THEN Goto(t, "copy") ELSE Finish(t, good)
       /\ compiled' = IF good THEN compiled \cup {<<p.stem, b>>} ELSE compiled
       /\ UNCHANGED <<files, ran, edits>>

\* Mutant of CopyToTarget: an existing target is kept.
CopyToTargetOnce(t) ==
    LET p == proc[t]
        pr == Profile(p.release)
    IN /\ p.pc = "copy"
       /\ target' = [target EXCEPT ![p.dir][pr] = IF @ = None THEN scratch[p.stem].bin ELSE @]
       /\ Goto(t, "store")
       /\ UNCHANGED <<present, deps, src, scratch, cache, ran, compiled, edits>>

\* compiler::build copies the scratch binary to target/.
CopyToTarget(t) ==
    LET p == proc[t]
    IN /\ p.pc = "copy"
       /\ target' = [target EXCEPT ![p.dir][Profile(p.release)] = scratch[p.stem].bin]
       /\ Goto(t, "store")
       /\ UNCHANGED <<present, deps, src, scratch, cache, ran, compiled, edits>>

\* cache.store copies the target binary under the key computed at the start.
StoreInCache(t) ==
    LET p == proc[t]
        out == target[p.dir][Profile(p.release)]
    IN /\ p.pc = "store"
       /\ cache' = IF out = None THEN cache
                   ELSE [k \in DOMAIN cache \cup {p.key} |-> IF k = p.key THEN out ELSE cache[k]]
       /\ AfterBuild(t, FALSE)
       /\ UNCHANGED <<present, deps, src, target, scratch, ran, compiled, edits>>

\* cmd_run: whatever is in target/ is executed.
ExecTarget(t) ==
    LET p == proc[t]
        b == target[p.dir][Profile(p.release)]
    IN /\ p.pc = "exec_target"
       /\ ran' = [of |-> "run", dir |-> p.dir, bin |-> b, sources |-> SourcesOf(p.dir), hit |-> p.hit]
       /\ Finish(t, b.of = "binary" /\ BinaryOutcome(b) = "ok")
       /\ UNCHANGED <<files, compiled, edits>>

\* sp check: salt-front --verify on the entry, nothing written.
Verify(t) ==
    /\ proc[t].pc = "verify"
    /\ Finish(t, present[proc[t].dir] = "bin"
                 /\ Outcome(proc[t].dir, src[proc[t].dir]) # "noparse")
    /\ UNCHANGED <<files, ran, compiled, edits>>

\* sp test: tests/test_smoke.salt goes through the same script and scratch.
TestStart(t) ==
    /\ proc[t].pc = "start" /\ proc[t].cmd = "test"
    /\ IF present[proc[t].dir] = "none" THEN Finish(t, FALSE) ELSE Goto(t, "front")
    /\ UNCHANGED <<files, ran, compiled, edits>>

\* sp clean, sp new and sp add: one effect each.
Clean(t) ==
    /\ proc[t].pc = "start" /\ proc[t].cmd = "clean"
    /\ target' = [target EXCEPT ![proc[t].dir] = [p \in Profiles |-> None]]
    /\ Finish(t, TRUE)
    /\ UNCHANGED <<present, deps, src, scratch, cache, ran, compiled, edits>>

New(t, lib) ==
    /\ proc[t].pc = "start" /\ proc[t].cmd = "new"
    /\ IF present[proc[t].dir] # "none" THEN UNCHANGED <<present, deps, src>> /\ Finish(t, FALSE)
       ELSE /\ present' = [present EXCEPT ![proc[t].dir] = IF lib THEN "lib" ELSE "bin"]
            /\ deps' = [deps EXCEPT ![proc[t].dir] = [n \in {} |-> Registry]]
            /\ src' = [src EXCEPT ![proc[t].dir] = 1]
            /\ Finish(t, TRUE)
    /\ UNCHANGED <<target, scratch, cache, ran, compiled, edits>>

\* doc[table][name] = version replaces a path dependency of that name.
Add(t, n) ==
    /\ proc[t].pc = "start" /\ proc[t].cmd = "add"
    /\ IF present[proc[t].dir] = "none" THEN UNCHANGED deps /\ Finish(t, FALSE)
       ELSE /\ deps' = [deps EXCEPT ![proc[t].dir] =
                    [m \in DOMAIN @ \cup {n} |-> IF m = n THEN Registry ELSE @[m]]]
            /\ Finish(t, TRUE)
    /\ UNCHANGED <<present, src, target, scratch, cache, ran, compiled, edits>>

\* The user: edits a source tree, removes a project, kills a command.  A copy
\* cut short leaves a partial file.
NobodyBusy == \A t \in Terminals : proc[t].pc \in {"idle", "done"}

Edit(d, v) ==
    /\ edits < MaxEdits /\ (EditAnytime \/ NobodyBusy)
    /\ present[d] # "none" /\ src[d] # v
    /\ src' = [src EXCEPT ![d] = v]
    /\ edits' = edits + 1
    /\ proc' = [t \in Terminals |-> IF proc[t].pc = "done" THEN Idle ELSE proc[t]]
    /\ ran' = None
    /\ UNCHANGED <<present, deps, target, scratch, cache, compiled>>

RemoveProject(d) ==
    /\ edits < MaxEdits /\ NobodyBusy /\ present[d] # "none"
    /\ present' = [present EXCEPT ![d] = "none"]
    /\ target' = [target EXCEPT ![d] = [p \in Profiles |-> None]]
    /\ edits' = edits + 1
    /\ proc' = [t \in Terminals |-> Idle]
    /\ ran' = None
    /\ UNCHANGED <<deps, src, scratch, cache, compiled>>

Kill(t) ==
    LET p == proc[t]
    IN /\ p.pc \notin {"idle", "done"} /\ edits < MaxEdits
       /\ target' = IF p.pc = "copy"
                    THEN [target EXCEPT ![p.dir][Profile(p.release)] = Partial] ELSE target
       /\ cache' = IF p.pc = "store"
                   THEN [k \in DOMAIN cache \cup {p.key} |-> IF k = p.key THEN Partial ELSE cache[k]]
                   ELSE cache
       /\ proc' = [proc EXCEPT ![t] = Idle]
       /\ edits' = edits + 1
       /\ UNCHANGED <<present, deps, src, scratch, ran, compiled>>

Next ==
    \/ \E t \in Terminals :
        \/ \E i \in Invocations : Start(t, i[1], i[2], i[3])
        \/ Load(t) \/ (\E n \in Names : ResolveSingle(t, n)) \/ ResolveReturn(t)
        \/ BuildKey(t) \/ BuildLookup(t)
        \/ ScriptFront(t) \/ ScriptLink(t) \/ ScriptExec(t)
        \/ CopyToTarget(t) \/ StoreInCache(t) \/ ExecTarget(t)
        \/ Verify(t) \/ TestStart(t) \/ Clean(t)
        \/ \E lib \in BOOLEAN : New(t, lib)
        \/ \E n \in Names : Add(t, n)
        \/ Kill(t)
    \/ \E d \in Dirs : \E v \in Versions[d] : Edit(d, v)
    \/ \E d \in Dirs : RemoveProject(d)

Spec == Init /\ [][Next]_vars

-----------------------------------------------------------------------------
(***************************************************************************)
(* Properties                                                              *)
(***************************************************************************)

TypeOK ==
    /\ present \in [Dirs -> {"none", "bin", "lib"}]
    /\ \A d \in Dirs : src[d] \in Versions[d]
    /\ \A d \in Dirs, p \in Profiles : target[d][p].of \in {"none", "partial", "binary"}
    /\ \A t \in Terminals : proc[t].pc \in
          {"idle", "start", "resolve", "key", "lookup", "front", "link", "exec", "copy", "store",
           "exec_target", "verify", "done"}
    /\ edits \in 0 .. MaxEdits

\* resolve, whatever the HashMap order: each dependency is found once, after
\* what it needs unless they need each other, and every directory the project
\* needs is among the search roots unless a name it goes by was taken first.
\* (And every variable has its type.)
Before(s, a, b) == \E i, j \in DOMAIN s : i < j /\ s[i] = a /\ s[j] = b
NameClash(d) ==
    \E e, f \in Needed(d) : \E n \in DOMAIN deps[e] \cap DOMAIN deps[f] :
        deps[e][n] # deps[f][n]
RootsComplete ==
    TypeOK /\ \A t \in Terminals : proc[t].pc \in {"key", "verify"} =>
        LET d == proc[t].dir
            found == Tail(proc[t].roots)
        IN /\ Len(found) <= Cardinality(Names)
           /\ ~NameClash(d) => Needed(d) \subseteq ToSet(proc[t].roots)
           /\ ~NameClash(d) =>
                \A e \in Needed(d) \ {d} : \A n \in DOMAIN deps[e] :
                    e \notin Needed(deps[e][n].dir) => Before(found, deps[e][n].dir, e)

\* The script hides a failure of clang and goes on with the binary of an
\* earlier build, whatever project that was of: nothing below is promised then.
Links(d) == Outcome(d, src[d]) # "nolink"

\* The sources of d and of what it needs, as they are, once compiled, linked
\* and ran.
CompiledAsIs(d) ==
    \E c \in compiled :
        /\ c[1] = "main" /\ c[2].dir = d
        /\ \A e \in Needed(d) : e \in DOMAIN c[2].sources /\ c[2].sources[e] = src[e]

\* A build that reports success is a build of sources that once compiled,
\* linked and ran, whether it compiled them or found them in the cache; a
\* killed build and a failed one never make it so.  (Where one name stands
\* for two directories the key misses one of them.)
BuildOkMeansCompiled ==
    \A t \in Terminals :
        /\ proc[t].pc = "done" /\ proc[t].ok /\ proc[t].cmd \in {"build", "run"}
        /\ ~NameClash(proc[t].dir) /\ Links(proc[t].dir)
        => CompiledAsIs(proc[t].dir)

\* sp run after a build that compiled executes what was just compiled, though
\* the scratch directory is shared by all projects and target/ may hold an
\* older or a partial file.
RunAfterCompileIsCurrent ==
    ran # None /\ ~ran.hit /\ Outcome(ran.dir, ran.sources[ran.dir]) # "nolink" =>
        ran.bin.of = "binary" /\ ran.bin.dir = ran.dir /\ ran.bin.sources = ran.sources

\* sp test judges the project it was asked to: every project made by `sp new`
\* has a tests/test_smoke.salt, and all of them share one scratch binary.
TestJudgesOwn ==
    \A t \in Terminals :
        /\ proc[t].pc = "done" /\ proc[t].ok /\ proc[t].cmd = "test"
        /\ Links(proc[t].dir)
        => <<"test_smoke", Binary(proc[t].dir)>> \in compiled

\* tools/sp/src/main.rs:7 says that sp run compiles and runs the project: what
\* it executes is built from the project's present sources.
RunIsCurrent ==
    ran # None => ran.bin.of = "binary" /\ ran.bin.sources = ran.sources
=============================================================================
