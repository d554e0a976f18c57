------------------------------ MODULE StmtEmit ------------------------------
(***************************************************************************)
(* The statement emitter of the Salt compiler (codegen/stmt.rs), with the  *)
(* flow checkers it drives, and what the emitted code does when it runs.   *)
(*                                                                         *)
(* A function body is a sequence of statements.  EmitBlock and EmitStmt    *)
(* turn it into the straight list of MLIR operations that emit_block and   *)
(* emit_stmt push to their output string: labels, branches, effects,       *)
(* implicit drops.  They thread one record, the compile context: labels    *)
(* for break and continue, the cleanup stack, the consumed variables, the  *)
(* pointer states, the live mallocs, the path conditions and the facts     *)
(* asserted in the solver.  The first step of a behaviour compiles the     *)
(* program; if it is accepted, the emitted code is run in lockstep with a  *)
(* direct interpreter of the source.  Conditions are opaque: each test     *)
(* takes either outcome, the same one on both sides.                       *)
(***************************************************************************)
EXTENDS Integers, Sequences, FiniteSets, SequencesExt

CONSTANTS
    Programs,     \* the function bodies that are compiled
    TRIPS,        \* iterations of a range `for`
    PRIVILEGED    \* the package is std.* or kernel.*: unsafe is allowed

VARIABLES
    noverify,  \* the compiler runs with --no-verify
    phase,     \* "compile", "rejected", "run" or "done"
    code,      \* the emitted operations
    leaks,     \* names the two leak audits report
    shape,     \* what the program does that the properties tell apart
    pc,        \* next operation of the emitted code
    iv,        \* induction variables of the emitted code
    live,      \* stack slots that hold a constructed value
    dead,      \* stack slots whose value has been dropped
    bad,       \* slots an implicit drop found already dropped
    null,      \* pointer variables that hold address 0
    heap,      \* malloc'd variables neither freed nor passed on
    last,      \* last outcome of each test
    src,       \* the source interpreter: a stack of frames
    moved      \* variables the source has moved

vars == <<noverify, phase, code, leaks, shape, pc, iv, live, dead, bad,
          null, heap, last, src, moved>>

-----------------------------------------------------------------------------
(* Statements *)

\* A statement that is not a block: k names it, x is its variable.
Do(k, x) == [k |-> k, x |-> x]

\* `if`: c is "any", or "nonnull"/"null" when it is p.addr != 0 / == 0 of the
\* variable x.  els = <<>> is no else; elif says that els is one `else if`.
IfElse(c, x, body, els, elif) ==
    [k |-> "if", c |-> c, x |-> x, body |-> body, els |-> els, elif |-> elif]

\* while, loop, for (a range), forw (a range, its pattern `_`), iter (any other
\* iterator), with, window (map_window), unsafe, letelse, and letirr, a let-else
\* whose pattern always matches.
Body(k, body) == [k |-> k, body |-> body]

\* `match`: pats[i] is "any" when the pattern of arm i is `_` or a name,
\* "guarded" when such an arm has a guard, "test" otherwise; full says that the
\* arms cover every value.
Match(pats, arms, full) == [k |-> "match", pats |-> pats, arms |-> arms, full |-> full]

RangeKinds == {"for", "forw"}
LoopKinds == {"while", "loop", "iter"} \cup RangeKinds

\* The blocks nested directly in a statement.
Blocks(s) ==
    CASE s.k = "if" -> <<s.body, s.els>>
      [] s.k = "match" -> s.arms
      [] s.k \in LoopKinds \cup {"with", "window", "unsafe", "letelse"} -> <<s.body>>
      [] OTHER -> <<>>

\* Every statement of a block with the kinds of the statements around it.
RECURSIVE Nodes(_, _)
Nodes(ss, around) ==
    UNION { {[s |-> ss[i], around |-> around]} \cup
            UNION { Nodes(Blocks(ss[i])[b], Append(around, ss[i].k)) :
                        b \in DOMAIN Blocks(ss[i]) } : i \in DOMAIN ss }

-----------------------------------------------------------------------------
(* Emitted operations *)

Label(l) == [op |-> "label", l |-> l]
Br(l) == [op |-> "br", l |-> l]
CondBr(p, t, f) == [op |-> "cond", p |-> p, t |-> t, f |-> f]
ForTest(p, t, f) == [op |-> "fortest", p |-> p, t |-> t, f |-> f]
ForInit(p) == [op |-> "forinit", p |-> p]
ForInc(p) == [op |-> "forinc", p |-> p]
\* An effect on slot a; facts is what the solver assumes when it decides
\* whether a check there can be left out.
Effect(p, s, a, facts) == [op |-> "eff", p |-> p, s |-> s, a |-> a, facts |-> facts]
Clean(a) == [op |-> "clean", a |-> a]
\* A return; paths is what verify_postcondition assumes to prove `ensures` there.
Ret(paths) == [op |-> "ret", paths |-> paths]
Unreachable == [op |-> "unreach"]
\* scf.for/affine.for: one region, closed by its own end.
ScfFor(p) == [op |-> "scf", p |-> p]
ScfEnd(p) == [op |-> "endscf", p |-> p]

Terminators == {"br", "cond", "fortest", "ret", "unreach"}

-----------------------------------------------------------------------------
(* The compile context *)

\* Bound names at entry: parameters x (movable) and p (a pointer, marked
\* Valid because the caller guarantees it).  exits are the exit labels of the
\* `loop`s so far; prefix says that the numbers of labels are such that the one
\* of an enclosing loop begins the ones of the loops inside (1 and 12).
EmptyContext ==
    [code |-> <<>>, next |-> 1, brk |-> <<>>, cnt |-> <<>>,
     clean |-> << <<>> >>,              \* push_cleanup_scope of emit_fn
     vars |-> [v \in {"x", "p"} |-> <<0>>], objs |-> {},
     consumed |-> {}, ptr |-> [v \in {"p"} |-> "Valid"], mal |-> {},
     paths |-> <<>>, facts |-> {}, owned |-> {}, released |-> {},
     exits |-> {}, prefix |-> FALSE, term |-> FALSE, err |-> FALSE]

Out(cx, ops) == [cx EXCEPT !.code = @ \o ops]
Fail(cx) == [cx EXCEPT !.err = TRUE]
SetVar(f, v, a) == [u \in DOMAIN f \cup {v} |-> IF u = v THEN a ELSE f[u]]

\* emit_path: a name must be bound and not consumed to be read.
Readable(cx, x) == x \in DOMAIN cx.vars \ cx.consumed

\* PointerStateTracker::check_deref: an untracked pointer is assumed safe.
DerefAllowed(cx, x) == x \notin DOMAIN cx.ptr \/ cx.ptr[x] = "Valid"

\* Mutant of Narrow: the polarity of the comparison is lost.
NarrowAlwaysValid(ptr, s, taken) ==
    IF s.c = "any" THEN ptr ELSE SetVar(ptr, s.x, IF taken THEN "Valid" ELSE "Empty")

\* get_narrowing_target and the mark_valid/mark_empty it leads to.
Narrow(ptr, s, taken) ==
    CASE s.c = "any" -> ptr
      [] s.c = "nonnull" -> SetVar(ptr, s.x, IF taken THEN "Valid" ELSE "Empty")
      [] s.c = "null" -> SetVar(ptr, s.x, IF taken THEN "Empty" ELSE "Valid")

\* salt_block_always_returns: some statement of the block returns, where an
\* `else if` counts by its then-branch alone.
RECURSIVE AlwaysReturns(_)
AlwaysReturns(ss) ==
    \E i \in DOMAIN ss :
        \/ ss[i].k \in {"return", "retv"}
        \/ /\ ss[i].k = "if"
           /\ ss[i].els # <<>>
           /\ AlwaysReturns(ss[i].body)
           /\ AlwaysReturns(IF ss[i].elif THEN ss[i].els[1].body ELSE ss[i].els)

\* block_has_control_flow: what keeps a range `for` out of scf/affine form.
RECURSIVE HasControlFlow(_)
HasControlFlow(ss) ==
    \E i \in DOMAIN ss :
        \/ ss[i].k \in {"if", "while"}
        \/ ss[i].k \in RangeKinds \cup {"iter"} /\ HasControlFlow(ss[i].body)

\* hoist_allocas_in_block: annotated lets of this block are bound up front.
Hoist(ss, p, cx) ==
    LET names == {ss[i].x : i \in {j \in DOMAIN ss : ss[j].k \in {"vecT", "objT"}}}
        new == names \ DOMAIN cx.vars
        first(v) == CHOOSE i \in DOMAIN ss :
                        /\ ss[i].k \in {"vecT", "objT"} /\ ss[i].x = v
                        /\ \A j \in DOMAIN ss : j < i => ~(ss[j].k \in {"vecT", "objT"} /\ ss[j].x = v)
    IN  [cx EXCEPT !.vars = [v \in DOMAIN @ \cup new |->
                                IF v \in new THEN Append(p, first(v)) ELSE @[v]],
                   !.objs = @ \cup {v \in new : ss[first(v)].k = "objT"}]

\* The drops of emit_cleanup_for_return: the innermost cleanup scope, last
\* registered first, then every bound local whose type implements Drop.
ReturnCleanup(cx) ==
    LET tasks == IF cx.clean = <<>> THEN <<>> ELSE Last(cx.clean)
    IN  [i \in DOMAIN tasks |-> Clean(Reverse(tasks)[i].a)]
        \o SetToSeq({Clean(cx.vars[v]) : v \in cx.objs})

\* LoweringContext::pop_and_emit_cleanup, at the end of a loop body: a
\* consumed variable is not dropped, and nothing is marked released.
ScopeCleanup(cx) ==
    LET kept == SelectSeq(Reverse(Last(cx.clean)), LAMBDA t : t.x \notin cx.consumed)
    IN  [Out(cx, [i \in DOMAIN kept |-> Clean(kept[i].a)]) EXCEPT !.clean = Front(@)]

-----------------------------------------------------------------------------
(* Simple statements *)

\* `let mut v = Vec::new()`: an unbound name gets a slot and a cleanup task;
\* a bound one (hoisted, or declared before) is stored into, with no task.
EmitLet(s, p, cx) ==
    LET bound == s.x \in DOMAIN cx.vars
        a == IF bound THEN cx.vars[s.x] ELSE p
        c == Out(cx, <<Effect(p, s, a, cx.facts)>>)
    IN  IF bound THEN c
        ELSE [c EXCEPT
                !.vars = SetVar(@, s.x, p),
                !.objs = IF s.k = "obj" THEN @ \cup {s.x} ELSE @,
                !.clean = IF s.k = "vec"
                          THEN Append(Front(@), Append(Last(@), [x |-> s.x, a |-> p])) ELSE @,
                !.owned = IF s.k = "vec" THEN @ \cup {s.x} ELSE @]

\* Mutant of EmitDrop: the cleanup task of the dropped variable stays.
EmitDropKeepsTask(s, p, cx) ==
    IF ~Readable(cx, s.x) THEN Fail(cx)
    ELSE [Out(cx, <<Effect(p, s, cx.vars[s.x], cx.facts)>>) EXCEPT
            !.released = IF s.x \in cx.owned THEN @ \cup {s.x} ELSE @]

\* `v.drop()`: released in the ledger and taken off every cleanup scope.
EmitDrop(s, p, cx) ==
    IF ~Readable(cx, s.x) THEN Fail(cx)
    ELSE [Out(cx, <<Effect(p, s, cx.vars[s.x], cx.facts)>>) EXCEPT
            !.released = IF s.x \in cx.owned THEN @ \cup {s.x} ELSE @,
            !.clean = [i \in DOMAIN @ |-> SelectSeq(@[i], LAMBDA t : t.x # s.x)]]

\* Reads, pointer assignments, malloc, free and passing a pointer on.
EmitEffect(s, p, cx) ==
    LET a == IF s.k = "use" /\ s.x \in DOMAIN cx.vars THEN cx.vars[s.x] ELSE p
        c == Out(cx, <<Effect(p, s, a, cx.facts)>>)
    IN  CASE s.k = "use" -> IF Readable(cx, s.x) THEN c ELSE Fail(cx)
          [] s.k = "deref" -> IF DerefAllowed(cx, s.x) THEN c ELSE Fail(cx)
          [] s.k = "box" -> [c EXCEPT !.ptr = SetVar(@, s.x, "Valid")]
          [] s.k = "empty" -> [c EXCEPT !.ptr = SetVar(@, s.x, "Empty")]
          [] s.k = "malloc" -> [c EXCEPT !.mal = @ \cup {s.x},
                                         !.vars = SetVar(@, s.x, p)]
          [] s.k \in {"free", "pass"} -> [c EXCEPT !.mal = @ \ {s.x}]

\* `return` and `return x`: drops first, then the value, then the return
\* itself.  A returned pointer has escaped the malloc audit.
EmitReturn(s, p, cx) ==
    LET value == IF s.k = "return" THEN <<>> ELSE <<Effect(p, s, cx.vars[s.x], cx.facts)>>
    IN  IF s.k = "retv" /\ ~Readable(cx, s.x) THEN Fail(cx)
        ELSE [Out(cx, ReturnCleanup(cx) \o value \o <<Ret(cx.paths)>>)
                EXCEPT !.mal = @ \ {s.x}, !.term = TRUE]

\* break and continue: a branch to the label on top of their stack.
EmitJump(cx, labels) ==
    IF labels = <<>> THEN Fail(cx)
    ELSE [Out(cx, <<Br(Last(labels))>>) EXCEPT !.term = TRUE]

-----------------------------------------------------------------------------
(* Blocks and compound statements *)

RECURSIVE EmitStmt(_, _, _)

\* After an `if` without else whose body always returns, the rest of the block
\* is under the negated condition.
PushGuard(s, p, c) ==
    IF s.k = "if" /\ s.els = <<>> /\ AlwaysReturns(s.body) /\ ~c.err /\ ~c.term
    THEN [c EXCEPT !.paths = Append(@, <<p, FALSE>>)] ELSE c

\* The loop of emit_block: it stops at the first error or terminator.
EmitAll(ss, p, cx) ==
    FoldLeftDomain(LAMBDA c, i : IF c.err \/ c.term THEN c
                                 ELSE PushGuard(ss[i], Append(p, i), EmitStmt(ss[i], Append(p, i), c)),
                   cx, ss)

\* Mutant of EmitBlock: guards pushed in a block outlive it.
EmitBlockKeepsGuards(ss, p, cx) == EmitAll(ss, p, Hoist(ss, p, cx))

\* emit_block: guards pushed inside are popped at its end.
EmitBlock(ss, p, cx) ==
    [EmitAll(ss, p, Hoist(ss, p, cx)) EXCEPT !.paths = cx.paths]

\* A block emitted with its own copy of local_vars.
EmitScoped(ss, p, cx) ==
    LET c == EmitBlock(ss, p, cx)
    IN  [c EXCEPT !.vars = cx.vars, !.objs = cx.objs]

\* Mutant of FallTo: the branch is emitted after a terminator too.
FallToAlways(cx, l) == [Out(cx, <<Br(l)>>) EXCEPT !.term = FALSE]

\* A branch to l unless the block before it has already ended.
FallTo(cx, l) == IF cx.term THEN [cx EXCEPT !.term = FALSE] ELSE Out(cx, <<Br(l)>>)

\* Mutant of MergeConsumed: only what both branches consumed.
MergeConsumedBoth(cx, t, e) == cx.consumed \cup (t.consumed \cap e.consumed \cap DOMAIN cx.vars)

\* The names consumed after an `if`.
MergeConsumed(cx, t, e) == cx.consumed \cup ((t.consumed \cup e.consumed) \cap DOMAIN cx.vars)

\* emit_salt_if.  Pointer states are restored after each branch; consumed
\* names are the union of both branches, kept to the names bound outside.
EmitIf(s, p, cx) ==
    LET lt == cx.next
        le == cx.next + 1
        lm == cx.next + 2
        has == s.els # <<>>
        c1 == [Out(cx, <<CondBr(p, lt, IF has THEN le ELSE lm), Label(lt)>>) EXCEPT
                 !.next = @ + 3, !.ptr = Narrow(@, s, TRUE), !.paths = Append(@, <<p, TRUE>>)]
        t == EmitScoped(s.body, Append(p, 1), c1)
        c2 == [FallTo(t, lm) EXCEPT !.ptr = cx.ptr, !.consumed = cx.consumed, !.paths = cx.paths]
        c3 == [Out(c2, <<Label(le)>>) EXCEPT
                 !.ptr = Narrow(@, s, FALSE), !.paths = Append(@, <<p, FALSE>>)]
        e == EmitScoped(s.els, Append(p, 2), c3)
        c4 == IF has THEN [FallTo(e, lm) EXCEPT !.ptr = cx.ptr, !.paths = cx.paths] ELSE c2
        both == has /\ t.term /\ e.term
    IN  IF ~(s.c = "any" \/ Readable(cx, s.x)) THEN Fail(cx)
        ELSE IF t.err THEN t
        ELSE IF has /\ e.err THEN e
        ELSE [Out(c4, IF both THEN <<>> ELSE <<Label(lm)>>) EXCEPT
                !.consumed = MergeConsumed(cx, t, c4), !.term = both]

\* A loop body under its break and continue labels.
EmitLoopBody(s, p, cx, lbrk, lcnt) ==
    LET c == EmitScoped(s.body, Append(p, 1),
                        [cx EXCEPT !.brk = Append(@, lbrk), !.cnt = Append(@, lcnt)])
    IN  [c EXCEPT !.brk = cx.brk, !.cnt = cx.cnt]

\* Mutant of EmitWhile: the back edge skips the test.
EmitWhileNoRetest(s, p, cx) ==
    LET lh == cx.next
        lb == cx.next + 1
        lx == cx.next + 2
        c1 == [Out(cx, <<Br(lh), Label(lh), CondBr(p, lb, lx), Label(lb)>>) EXCEPT
                 !.next = @ + 3, !.facts = @ \cup {<<p, TRUE>>}]
        b == EmitLoopBody(s, p, c1, lx, lh)
    IN  IF b.err THEN b
        ELSE [Out(FallTo(b, lb), <<Label(lx)>>) EXCEPT !.facts = cx.facts \cup {<<p, FALSE>>}]

\* Mutant of EmitWhile: the solver scope of the body is not popped.
EmitWhileKeepsFacts(s, p, cx) ==
    LET lh == cx.next
        lb == cx.next + 1
        lx == cx.next + 2
        c1 == [Out(cx, <<Br(lh), Label(lh), CondBr(p, lb, lx), Label(lb)>>) EXCEPT
                 !.next = @ + 3, !.facts = @ \cup {<<p, TRUE>>}]
        b == EmitLoopBody(s, p, c1, lx, lh)
    IN  IF b.err THEN b
        ELSE [Out(FallTo(b, lh), <<Label(lx)>>) EXCEPT !.facts = @ \cup {<<p, FALSE>>}]

\* `while`: header with the test, body, exit.  The solver assumes the condition
\* in the body, forgets what it learnt there, and afterwards assumes it false.
EmitWhile(s, p, cx) ==
    LET lh == cx.next
        lb == cx.next + 1
        lx == cx.next + 2
        c1 == [Out(cx, <<Br(lh), Label(lh), CondBr(p, lb, lx), Label(lb)>>) EXCEPT
                 !.next = @ + 3, !.facts = @ \cup {<<p, TRUE>>}]
        b == EmitLoopBody(s, p, c1, lx, lh)
    IN  IF b.err THEN b
        ELSE [Out(FallTo(b, lh), <<Label(lx)>>) EXCEPT !.facts = cx.facts \cup {<<p, FALSE>>}]

\* `loop`: the exit block is emitted only if the output so far contains the
\* text of a branch to it, which is also the beginning of a branch to a label
\* whose number begins with this one.
EmitLoop(s, p, cx) ==
    LET lb == cx.next
        lx == cx.next + 1
        c1 == [Out(cx, <<Br(lb), Label(lb)>>) EXCEPT !.next = @ + 2, !.exits = @ \cup {lx}]
        b == EmitLoopBody(s, p, c1, lx, lb)
        c2 == FallTo(b, lb)
        begun == {lx} \cup IF cx.prefix THEN {l \in c2.exits : l > lx} ELSE {}
        used == \E i \in DOMAIN c2.code : \E l \in begun : c2.code[i] = Br(l)
    IN  IF b.err THEN b
        ELSE IF used THEN Out(c2, <<Label(lx)>>) ELSE [c2 EXCEPT !.term = TRUE]

\* emit_scf_for_simple and emit_affine_for: the body is emitted inside one
\* region, with the labels and the cleanup scope of the enclosing code.
EmitScfFor(s, p, cx) ==
    LET b == EmitScoped(s.body, Append(p, 1), Out(cx, <<ForInit(p), ScfFor(p)>>))
    IN  IF b.err THEN b ELSE [Out(b, <<ScfEnd(p)>>) EXCEPT !.term = FALSE]

\* A range `for` that is not structured: the variable lives in memory, the
\* header tests it, the end of the body increments it; continue goes to the
\* header.  A cleanup scope belongs to the body.
EmitRangeFor(s, p, cx) ==
    LET lh == cx.next
        lb == cx.next + 1
        lx == cx.next + 2
        c1 == [Out(cx, <<ForInit(p), Br(lh), Label(lh), ForTest(p, lb, lx), Label(lb)>>) EXCEPT
                 !.next = @ + 3, !.clean = Append(@, <<>>)]
        b == EmitLoopBody(s, p, c1, lx, lh)
        c2 == IF b.term THEN [b EXCEPT !.clean = Front(@), !.term = FALSE]
              ELSE Out(ScopeCleanup(b), <<ForInc(p), Br(lh)>>)
    IN  IF b.err THEN b ELSE [Out(c2, <<Label(lx)>>) EXCEPT !.facts = cx.facts]

\* The pattern `_` keeps a range out of the structured forms.
EmitFor(s, p, cx) ==
    IF s.k = "forw" \/ HasControlFlow(s.body) THEN EmitRangeFor(s, p, cx) ELSE EmitScfFor(s, p, cx)

\* emit_iterator_for_loop: .next() is called, and so the iterator advances,
\* in the header.
EmitIterFor(s, p, cx) ==
    LET lh == cx.next
        lb == cx.next + 1
        lx == cx.next + 2
        c1 == [Out(cx, <<Br(lh), Label(lh), CondBr(p, lb, lx), Label(lb)>>) EXCEPT
                 !.next = @ + 3, !.clean = Append(@, <<>>)]
        b == EmitLoopBody(s, p, c1, lx, lh)
        c2 == IF b.term THEN [b EXCEPT !.clean = Front(@), !.term = FALSE]
              ELSE Out(ScopeCleanup(b), <<Br(lh)>>)
    IN  IF b.err THEN b ELSE Out(c2, <<Label(lx)>>)

\* The chain of checks of emit_match.  The last arm is entered whether or not
\* its pattern matches; a wildcard branches at once, whatever its guard, and
\* opens no next check.
MatchChecks(s, p, l0) ==
    LET n == Len(s.arms)
        wild(i) == s.pats[i] # "test"
        arm(i) == l0 + i
        check(i) == l0 + n + i
        ops(i) == (IF wild(i) THEN <<Br(arm(i))>>
                   ELSE <<CondBr(Append(p, i), arm(i), IF i < n THEN check(i + 1) ELSE arm(i))>>)
                  \o (IF i < n /\ ~wild(i) THEN <<Label(check(i + 1))>> ELSE <<>>)
    IN  FlattenSeq([i \in 1..n |-> ops(i)])

\* The arms of emit_match from arm i on; the checker state of one arm flows
\* into the next.
RECURSIVE MatchArms(_, _, _, _, _)
MatchArms(s, p, i, cx, l0) ==
    IF i > Len(s.arms) THEN cx
    ELSE LET b == EmitScoped(s.arms[i], Append(p, i), Out(cx, <<Label(l0 + i)>>))
         IN  IF b.err THEN b ELSE MatchArms(s, p, i + 1, FallTo(b, l0), l0)

EmitMatch(s, p, cx) ==
    LET l0 == cx.next        \* the merge label, then arms, then checks
        c1 == [Out(cx, MatchChecks(s, p, l0)) EXCEPT !.next = @ + 1 + 2 * Len(s.arms)]
        c2 == MatchArms(s, p, 1, c1, l0)
        joined == \E i \in (Len(cx.code) + 1)..Len(c2.code) : c2.code[i] = Br(l0)
    IN  IF c2.err THEN c2
        ELSE IF joined THEN Out(c2, <<Label(l0)>>) ELSE [c2 EXCEPT !.term = TRUE]

\* emit_let_else: an else block that does not diverge ends in unreachable;
\* that of a pattern that always matches is not emitted.
EmitLetElse(s, p, cx) ==
    LET lb == cx.next
        le == cx.next + 1
        lc == cx.next + 2
        c1 == [Out(cx, <<CondBr(p, lb, le), Label(lb), Br(lc), Label(le)>>) EXCEPT !.next = @ + 3]
        e == EmitScoped(s.body, Append(p, 1), c1)
    IN  IF s.k = "letirr" THEN [cx EXCEPT !.next = @ + 3]
        ELSE IF e.err THEN e
        ELSE [Out(e, (IF e.term THEN <<>> ELSE <<Unreachable>>) \o <<Label(lc)>>)
                EXCEPT !.term = FALSE]

\* map_window reports that it falls through, whatever its block does.
EmitWindow(s, p, cx) == [EmitScoped(s.body, Append(p, 1), cx) EXCEPT !.term = FALSE]

EmitStmt(s, p, cx) ==
    CASE s.k \in {"vec", "vecT", "obj", "objT"} -> EmitLet(s, p, cx)
      [] s.k = "drop" -> EmitDrop(s, p, cx)
      [] s.k = "move" -> [cx EXCEPT !.consumed = @ \cup {s.x}]
      [] s.k \in {"use", "deref", "box", "empty", "malloc", "free", "pass"} -> EmitEffect(s, p, cx)
      [] s.k \in {"return", "retv"} -> EmitReturn(s, p, cx)
      [] s.k = "break" -> EmitJump(cx, cx.brk)
      [] s.k = "continue" -> EmitJump(cx, cx.cnt)
      [] s.k = "if" -> EmitIf(s, p, cx)
      [] s.k = "while" -> EmitWhile(s, p, cx)
      [] s.k = "loop" -> EmitLoop(s, p, cx)
      [] s.k \in RangeKinds -> EmitFor(s, p, cx)
      [] s.k = "iter" -> EmitIterFor(s, p, cx)
      [] s.k = "match" -> EmitMatch(s, p, cx)
      [] s.k \in {"letelse", "letirr"} -> EmitLetElse(s, p, cx)
      [] s.k = "window" -> EmitWindow(s, p, cx)
      [] s.k = "with" -> EmitScoped(s.body, Append(p, 1), cx)
      [] s.k = "unsafe" -> IF PRIVILEGED THEN EmitScoped(s.body, Append(p, 1), cx) ELSE Fail(cx)

\* The end of emit_fn: an open body gets its cleanup and a return; here every
\* task is dropped, consumed or not, and its name marked released.
CloseFn(c) ==
    LET tasks == Last(c.clean)
        drops == [i \in DOMAIN tasks |-> Clean(Reverse(tasks)[i].a)]
        c2 == [c EXCEPT !.clean = Front(@),
                        !.released = @ \cup {tasks[i].x : i \in DOMAIN tasks}]
    IN  IF c.err THEN c
        ELSE IF c.term THEN [c EXCEPT !.clean = Front(@)]
        ELSE Out(c2, drops \o ReturnCleanup(c2) \o <<Ret(<<>>)>>)

EmitFn(ss, prefix) ==
    [CloseFn(EmitBlock(ss, <<>>, [EmptyContext EXCEPT !.prefix = prefix])) EXCEPT !.prefix = FALSE]

\* Mutant of LeakReport: the malloc audit is skipped.
LeakReportNoMalloc(cx) == cx.owned \ cx.released

\* The two audits at the end of emit_fn: verify_leak_free and malloc verify.
LeakReport(cx) == (cx.owned \ cx.released) \cup cx.mal

-----------------------------------------------------------------------------
(* Running the emitted code *)

Tests == {"cond", "fortest", "scf"}

Target(l) == CHOOSE i \in DOMAIN code : code[i] = Label(l)
RegionStart(p) == CHOOSE i \in DOMAIN code : code[i] = ScfFor(p)
RegionEnd(p) == CHOOSE i \in DOMAIN code : code[i] = ScfEnd(p)

Outcome(p, b) == {t \in last : t[1] # p} \cup {<<p, b>>}

\* What the next operation shows to the outside, <<>> if nothing.
CodeEvent ==
    IF pc > Len(code) THEN <<"off">>
    ELSE CASE code[pc].op = "eff" -> <<"eff", code[pc].p>>
           [] code[pc].op = "cond" -> <<"test", code[pc].p>>
           [] code[pc].op \in {"fortest", "scf"} -> <<"for", code[pc].p, iv[code[pc].p]>>
           [] code[pc].op \in {"ret", "unreach"} -> <<code[pc].op>>
           [] OTHER -> <<>>

\* Branches, labels, induction variables and implicit drops.
CodeSilent ==
    /\ phase = "run"
    /\ CodeEvent = <<>>
    /\ LET o == code[pc] IN
        /\ pc' = CASE o.op = "br" -> Target(o.l)
                   [] o.op = "endscf" -> RegionStart(o.p)
                   [] OTHER -> pc + 1
        /\ iv' = CASE o.op = "forinit" -> SetVar(iv, o.p, 0)
                   [] o.op \in {"forinc", "endscf"} -> [iv EXCEPT ![o.p] = @ + 1]
                   [] OTHER -> iv
        /\ IF o.op = "clean"
           THEN /\ dead' = dead \cup {o.a}
                /\ live' = live \ {o.a}
                /\ bad' = IF o.a \in dead THEN bad \cup {o.a} ELSE bad
           ELSE UNCHANGED <<dead, live, bad>>
    /\ UNCHANGED <<noverify, phase, code, leaks, shape, null, heap, last, src, moved>>

-----------------------------------------------------------------------------
(* Running the source: a stack of frames, a block with the index of its next
   statement or a loop with the number of iterations done *)

Blk(ss, p) == [h |-> "blk", ss |-> ss, i |-> 1, p |-> p]
LoopFrame(s, p) == [h |-> "loop", ss |-> <<s>>, i |-> 0, p |-> p]

Top == Last(src)
Below == Front(src)
AtEnd == Top.h = "blk" /\ Top.i > Len(Top.ss)
Now == Top.ss[Top.i]
Here == Append(Top.p, Top.i)
\* The stack with the current statement passed.
Past == Append(Below, [Top EXCEPT !.i = @ + 1])
\* A loop that has finished an iteration; only a range counts them.
Again(stack) ==
    Append(Front(stack), [Last(stack) EXCEPT !.i = IF @ < TRIPS /\ Last(stack).ss[1].k \in RangeKinds
                                                   THEN @ + 1 ELSE @])
\* The innermost loop frame.
LoopAt == CHOOSE i \in DOMAIN src : src[i].h = "loop" /\ \A j \in DOMAIN src : j > i => src[j].h # "loop"

\* What the source does next, <<>> if nothing visible.
SrcEvent ==
    IF Top.h = "loop"
    THEN CASE Top.ss[1].k = "loop" -> <<>>
           [] Top.ss[1].k \in RangeKinds -> <<"for", Top.p, Top.i>>
           [] OTHER -> <<"test", Top.p>>
    ELSE CASE AtEnd -> IF Len(src) = 1 THEN <<"ret">> ELSE <<>>
           [] Now.k = "return" -> <<"ret">>
           [] Now.k \in {"if", "letelse"} -> <<"test", Here>>
           [] Now.k = "arm" -> <<"test", Now.p>>
           [] Now.k \in LoopKinds \cup {"with", "window", "unsafe", "letirr", "move", "break",
                                      "continue", "match"} -> <<>>
           [] OTHER -> <<"eff", Here>>

\* The arms still to be tried are a block of one pseudo-statement each time.
ArmFrame(s, p, i) == Blk(<<[k |-> "arm", p |-> Append(p, i), m |-> s, n |-> i]>>, p)
TryArm(s, p, i, stack) ==
    IF s.pats[i] = "any" THEN Append(stack, Blk(s.arms[i], Append(p, i)))
    ELSE Append(stack, ArmFrame(s, p, i))

SrcSilent ==
    /\ phase = "run"
    /\ CodeEvent # <<>>
    /\ SrcEvent = <<>>
    /\ src' = IF Top.h = "loop" THEN Append(src, Blk(Top.ss[1].body, Append(Top.p, 1)))
              ELSE IF AtEnd THEN (IF Last(Below).h = "loop" THEN Again(Below) ELSE Below)
              ELSE CASE Now.k \in LoopKinds -> Append(Past, LoopFrame(Now, Here))
                     [] Now.k \in {"with", "window", "unsafe"} -> Append(Past, Blk(Now.body, Append(Here, 1)))
                     [] Now.k = "match" -> TryArm(Now, Here, 1, Past)
                     [] Now.k \in {"move", "letirr"} -> Past
                     [] Now.k = "break" -> SubSeq(src, 1, LoopAt - 1)
                     [] Now.k = "continue" -> Again(SubSeq(src, 1, LoopAt))
    /\ moved' = IF Top.h = "blk" /\ ~AtEnd /\ Now.k = "move" THEN moved \cup {Now.x} ELSE moved
    /\ UNCHANGED <<noverify, phase, code, leaks, shape, pc, iv, live, dead, bad,
                   null, heap, last>>

\* The source after its test came out as b; a match none of whose arms applies
\* does nothing.
SrcAfter(b) ==
    IF Top.h = "loop"
    THEN IF b THEN Append(src, Blk(Top.ss[1].body, Append(Top.p, 1))) ELSE Below
    ELSE CASE Now.k = "if" -> IF b THEN Append(Past, Blk(Now.body, Append(Here, 1)))
                              ELSE Append(Past, Blk(Now.els, Append(Here, 2)))
           [] Now.k = "letelse" -> IF b THEN Past ELSE Append(Past, Blk(Now.body, Append(Here, 1)))
           [] Now.k = "arm" ->
                IF b THEN Append(Below, Blk(Now.m.arms[Now.n], Now.p))
                ELSE IF Now.n = Len(Now.m.arms) THEN Below
                ELSE TryArm(Now.m, Top.p, Now.n + 1, Below)

-----------------------------------------------------------------------------
(* Joint steps *)

Agree == CodeEvent # <<>> /\ SrcEvent # <<>> /\ CodeEvent = SrcEvent

\* An opaque condition, a pointer compared with 0, or the last arm of a match
\* that covers every value.
TestOutcomes ==
    LET s == IF Top.h = "blk" THEN Now ELSE Top.ss[1]
    IN  IF s.k = "arm" /\ s.m.full /\ s.n = Len(s.m.arms) THEN {TRUE}
        ELSE IF s.k # "if" \/ s.c = "any" THEN BOOLEAN
        ELSE {IF s.c = "null" THEN s.x \in null ELSE s.x \notin null}

StepTest ==
    /\ phase = "run" /\ Agree /\ CodeEvent[1] = "test"
    /\ \E b \in TestOutcomes :
        /\ pc' = Target(IF b THEN code[pc].t ELSE code[pc].f)
        /\ last' = Outcome(code[pc].p, b)
        /\ src' = SrcAfter(b)
    /\ UNCHANGED <<noverify, phase, code, leaks, shape, iv, live, dead, bad,
                   null, heap, moved>>

StepFor ==
    /\ phase = "run" /\ Agree /\ CodeEvent[1] = "for"
    /\ LET b == iv[code[pc].p] < TRIPS
           o == code[pc]
       IN  /\ pc' = IF o.op = "scf" THEN (IF b THEN pc + 1 ELSE RegionEnd(o.p) + 1)
                    ELSE Target(IF b THEN o.t ELSE o.f)
           /\ src' = SrcAfter(b)
    /\ UNCHANGED <<noverify, phase, code, leaks, shape, iv, live, dead, bad,
                   null, heap, last, moved>>

StepEffect ==
    /\ phase = "run" /\ Agree /\ CodeEvent[1] = "eff"
    /\ LET s == code[pc].s
           a == code[pc].a
       IN  /\ live' = CASE s.k \in {"vec", "vecT", "obj", "objT"} -> live \cup {a}
                        [] s.k = "drop" -> live \ {a}
                        [] OTHER -> live
           /\ dead' = CASE s.k \in {"vec", "vecT", "obj", "objT"} -> dead \ {a}
                        [] s.k = "drop" -> dead \cup {a}
                        [] OTHER -> dead
           /\ null' = CASE s.k = "empty" -> null \cup {s.x}
                        [] s.k = "box" -> null \ {s.x}
                        [] OTHER -> null
           /\ heap' = CASE s.k = "malloc" -> heap \cup {s.x}
                        [] s.k \in {"free", "pass", "retv"} -> heap \ {s.x}
                        [] OTHER -> heap
           /\ src' = IF s.k = "retv" THEN Append(Below, Blk(<<Do("return", "")>>, Top.p)) ELSE Past
    /\ pc' = pc + 1
    /\ UNCHANGED <<noverify, phase, code, leaks, shape, iv, bad, last, moved>>

StepReturn ==
    /\ phase = "run" /\ Agree /\ CodeEvent[1] = "ret"
    /\ phase' = "done"
    /\ UNCHANGED <<noverify, code, leaks, shape, pc, iv, live, dead, bad, null,
                   heap, last, src, moved>>

-----------------------------------------------------------------------------
(* What the program does that the properties tell apart *)

Shape(ss) ==
    LET N == Nodes(ss, <<>>)
        In(n, K) == \E i \in DOMAIN n.around : n.around[i] \in K
        Nearest(n) == LET L == {i \in DOMAIN n.around : n.around[i] \in LoopKinds}
                      IN  IF L = {} THEN "none"
                          ELSE n.around[CHOOSE i \in L : \A j \in L : j <= i]
        owned == {n.s.x : n \in {m \in N : m.s.k \in {"vec", "obj", "objT"}}}
        hides == {"loop", "match", "letelse", "with", "unsafe", "iter", "forw", "break", "continue",
                  "return", "retv"}
        \* The block has left when its last statement is emitted.
        Leaves(b) == EmitBlock(b, <<>>, [EmptyContext EXCEPT
                                           !.brk = <<1>>, !.cnt = <<1>>,
                                           !.vars = [v \in {"x", "p", "v", "w", "m"} |-> <<0>>]]).term
        tag(t, c) == IF c THEN {t} ELSE {}
    IN  tag("move in loop", \E n \in N : n.s.k = "move" /\ In(n, LoopKinds))
        \cup tag("drop in loop", \E n \in N : n.s.k = "drop" /\ In(n, LoopKinds))
        \cup tag("drop of Drop", \E n, m \in N : n.s.k = "drop" /\ m.s.k \in {"obj", "objT"}
                                                   /\ n.s.x = m.s.x)
        \cup tag("pointer set in branch", \E n \in N : n.s.k \in {"box", "empty"} /\ n.around # <<>>)
        \cup tag("memory in branch", \E n \in N : n.s.k \in {"malloc", "free", "pass", "return", "retv"}
                                                    /\ n.around # <<>>)
        \cup tag("continue in range", \E n \in N : n.s.k = "continue" /\ Nearest(n) \in RangeKinds)
        \cup tag("else if", \E n \in N : n.s.k = "if" /\ n.s.elif)
        \cup tag("break in while", \E n \in N : n.s.k = "break" /\ Nearest(n) = "while")
        \cup tag("while in branch", \E n \in N : n.s.k = "while"
                                        /\ In(n, {"if", "match", "letelse", "loop", "iter"}))
        \cup tag("jump in region", \E n \in N : n.s.k = "for" /\ ~HasControlFlow(n.s.body)
                                        /\ \E m \in Nodes(n.s.body, <<>>) : m.s.k \in hides)
        \cup tag("early wildcard", \E n \in N : n.s.k = "match"
                                        /\ \E i \in 1..(Len(n.s.arms) - 1) : n.s.pats[i] # "test")
        \cup tag("guarded wildcard", \E n \in N : n.s.k = "match" /\ Last(n.s.pats) = "guarded")
        \cup tag("open match", \E n \in N : n.s.k = "match" /\ ~n.s.full /\ Last(n.s.pats) = "test")
        \cup tag("window left", \E n \in N : n.s.k = "window" /\ Leaves(n.s.body))
        \cup tag("explicit drop", \E n \in N : n.s.k = "drop")
        \cup tag("owned value returned", \E n \in N : n.s.k = "retv" /\ n.s.x \in owned)
        \cup tag("open else", \E n \in N : n.s.k = "letelse"
                                        /\ ~Leaves(n.s.body))

\* Every block ends in its one terminator and is the target of a branch, every
\* target is a label emitted once, and no region holds a label or a terminator.
CodeWellFormed(ops) ==
    /\ \A i \in DOMAIN ops : ops[i].op = "label" =>
           /\ i > 1 /\ ops[i - 1].op \in Terminators
           /\ \E j \in DOMAIN ops :
                  \/ ops[j] = Br(ops[i].l)
                  \/ ops[j].op \in {"cond", "fortest"} /\ ops[i].l \in {ops[j].t, ops[j].f}
    /\ \A i \in DOMAIN ops : ops[i].op \in Terminators =>
           i = Len(ops) \/ ops[i + 1].op = "label"
    /\ ops # <<>> /\ ops[Len(ops)].op \in Terminators
    /\ \A i \in DOMAIN ops : ops[i].op = "br" =>
           Cardinality({j \in DOMAIN ops : ops[j] = Label(ops[i].l)}) = 1
    /\ \A i \in DOMAIN ops : ops[i].op \in {"cond", "fortest"} =>
           \A l \in {ops[i].t, ops[i].f} :
               Cardinality({j \in DOMAIN ops : ops[j] = Label(l)}) = 1
    /\ \A i, j \in DOMAIN ops : ops[i].op = "scf" /\ ops[j] = ScfEnd(ops[i].p) =>
           \A m \in (i + 1)..(j - 1) : ops[m].op \notin Terminators \cup {"label"}

-----------------------------------------------------------------------------
Init ==
    /\ src \in {<<Blk(b, <<>>)>> : b \in Programs}
    /\ noverify \in BOOLEAN
    /\ phase = "compile"
    /\ code = <<>> /\ leaks = {} /\ shape = {}
    /\ pc = 1 /\ iv = [v \in {} |-> 0]
    /\ live = {} /\ dead = {} /\ bad = {} /\ null = {} /\ heap = {} /\ last = {}
    /\ moved = {}

\* emit_fn on the body.  An error of the emitter rejects the program; a leak
\* report does unless verification is off.  Malformed code is not run.
Compile ==
    /\ phase = "compile"
    /\ \E cx \in {EmitFn(Top.ss, prefix) : prefix \in BOOLEAN} :
           /\ code' = IF cx.err THEN <<>> ELSE cx.code
           /\ leaks' = IF cx.err THEN {} ELSE LeakReport(cx)
           /\ phase' = IF cx.err \/ (~noverify /\ LeakReport(cx) # {}) THEN "rejected"
                       ELSE IF CodeWellFormed(cx.code) THEN "run" ELSE "malformed"
           /\ shape' = Shape(Top.ss) \cup
                         IF cx = EmitFn(Top.ss, FALSE) THEN {} ELSE {"label prefix"}
    /\ UNCHANGED <<noverify, pc, iv, live, dead, bad, null, heap, last, src, moved>>

\* Nothing more happens, also where code and source have parted.
Stop ==
    /\ \/ phase \in {"rejected", "malformed", "done"}
       \/ phase = "run" /\ CodeEvent # <<>> /\ SrcEvent # <<>> /\ ~Agree
    /\ UNCHANGED vars

Next == Compile \/ CodeSilent \/ SrcSilent \/ StepTest \/ StepFor \/ StepEffect
        \/ StepReturn \/ Stop

Spec == Init /\ [][Next]_vars

-----------------------------------------------------------------------------
\* Types; an induction variable never passes the bound of its range.
TypeOK ==
    /\ noverify \in BOOLEAN
    /\ phase \in {"compile", "rejected", "malformed", "run", "done"}
    /\ pc \in 1..(Len(code) + 1)
    /\ \A p \in DOMAIN iv : iv[p] \in 0..TRIPS
    /\ live \cap dead = {}
    /\ \A t \in last : t[2] \in BOOLEAN
    /\ src # <<>>

\* An accepted program is emitted as well-formed blocks: one terminator each,
\* at the end, every target emitted once, no block without a way in.  Except
\* for a wildcard arm that is not the last of its match; for a jump that
\* block_has_control_flow does not see, which lands inside an scf.for region;
\* for a map_window that its block leaves; and for a `loop` without break whose
\* exit label begins that of a loop inside it.
BlocksWellFormed ==
    phase = "malformed" =>
        shape \cap {"early wildcard", "jump in region", "window left", "label prefix"} # {}

\* The emitted code does what the source says: it shows the same tests,
\* iterations and effects in the same order.  Except under `continue` in a
\* range `for`, which skips the increment; a let-else whose else block falls
\* through; a match that does not cover every value, whose last arm is entered
\* anyway; and the guard of a last arm whose pattern is `_` or a name.
FollowsSource ==
    (phase = "run" /\ CodeEvent # <<>> /\ SrcEvent # <<>> /\ ~Agree)
        => shape \cap {"continue in range", "open else", "open match", "guarded wildcard"} # {}

\* A use of a moved variable is rejected: an accepted program reads none,
\* unless a move sits in a loop.
MovedNeverUsed ==
    (phase = "run" /\ Agree /\ CodeEvent[1] = "eff" /\ code[pc].s.k = "use"
        /\ code[pc].s.x \in moved) => "move in loop" \in shape

\* An accepted dereference never meets address 0, unless a pointer is
\* assigned inside a branch or a loop.
DerefNeverNull ==
    (phase = "run" /\ Agree /\ CodeEvent[1] = "eff" /\ code[pc].s.k = "deref"
        /\ code[pc].s.x \in null) => "pointer set in branch" \in shape

\* Implicit cleanup never drops a value that is already dropped, unless the
\* program calls drop itself in a loop or on a local that implements Drop.
CleanupNeverRepeats ==
    bad # {} => shape \cap {"drop in loop", "drop of Drop"} # {}

\* No value is read after cleanup has released it, unless the program calls
\* drop itself, or the read is the value of a `return`, which is emitted after
\* the drops.
ReadsBeforeRelease ==
    (phase = "run" /\ Agree /\ CodeEvent[1] = "eff" /\ code[pc].s.k \in {"use", "retv"}
        /\ code[pc].a \in dead) => shape \cap {"explicit drop", "owned value returned"} # {}

\* When both audits pass, every malloc has been freed or passed on by the
\* time the function returns, unless one of these or a return is conditional:
\* the trackers follow the text, not the paths.
AuditMeansFreed ==
    (phase = "done" /\ leaks = {} /\ heap # {}) => "memory in branch" \in shape

\* What the verifier assumes at a return holds there: each path condition is
\* the last outcome of its test.  Except after an `else if`.
PathConditionsHold ==
    (phase = "run" /\ Agree /\ CodeEvent[1] = "ret")
        => \/ "else if" \in shape
           \/ \A i \in DOMAIN code[pc].paths : code[pc].paths[i] \in last

\* What the solver assumes at a use holds there.  Except when a `while` is
\* left by break or sits in a branch.
SolverFactsHold ==
    (phase = "run" /\ Agree /\ CodeEvent[1] = "eff" /\ code[pc].s.k = "use")
        => \/ shape \cap {"break in while", "while in branch"} # {}
           \/ code[pc].facts \subseteq last

\* What is emitted for an accepted program is well formed and does what the
\* source does.  (And every variable has its type.)
EmittedRight == TypeOK /\ BlocksWellFormed /\ FollowsSource

\* The flow checkers reject what they are there to reject: no accepted program
\* uses a moved variable or dereferences address 0.
AcceptedUsesSafe == MovedNeverUsed /\ DerefNeverNull

\* Values are released exactly once, after their last use: never twice by
\* cleanup, and never not at all when the audits pass.
ReleasedOnce == CleanupNeverRepeats /\ ReadsBeforeRelease /\ AuditMeansFreed

\* Z3 is only ever told what is true when the program gets there.
VerifierAssumesTruth == PathConditionsHold /\ SolverFactsHold
=============================================================================
