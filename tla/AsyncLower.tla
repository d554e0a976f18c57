----------------------------- MODULE AsyncLower -----------------------------
(***************************************************************************)
(* How the Salt compiler turns a @yielding function into a state machine:  *)
(* the cross-yield liveness analysis (codegen/passes/liveness.rs), the     *)
(* AST-to-HIR lowering of statements (hir/lower.rs), the three ways of     *)
(* cutting a body at its yields (hir/async_lower.rs and emit_async_fn with *)
(* passes/async_to_state.rs), the @pulse budget check                      *)
(* (hir/verify_pulse_bounds), and the code the result runs as              *)
(* (codegen/emit_hir.rs).                                                  *)
(*                                                                         *)
(* A program is chosen in Init and compiled; then its source and its step  *)
(* function run side by side on the same branch outcomes.  A statement is  *)
(* abstracted to what it binds (def), what it reads (uses), its blocks and *)
(* its place in the program (at); conditions are opaque.                   *)
(***************************************************************************)
EXTENDS Integers, FiniteSets, SequencesExt

CONSTANTS
    Programs,   \* [params: SUBSET Vars, body: Seq(Stmt)]
    Lowerings,  \* which of {"cfg", "linear", "state_fns"} are exercised
    Budget,     \* cycle budget of verify_pulse_bounds
    CostCap     \* bound: cycles of one poll are counted up to here

VARIABLES
    prog,       \* the program being run
    low,        \* the lowering its step function came from
    blocks,     \* the basic blocks of the step function
    frame,      \* fields of the heap frame: lifted variables
    st,         \* ctx.__state: the current block
    k,          \* statements of the block still to run in this call
    loc,        \* locals of the running call of the step function
    poll,       \* "running", "pending" (suspended), "ready", or "stray": a call
                \* of the step function that ended without a Poll
    src,        \* source semantics: statements still to run
    env,        \* source semantics: values of the variables
    last,       \* the last condition tested and its outcome
    cost,       \* cycles spent by the running poll
    first       \* no poll has returned yet

vars == <<prog, low, blocks, frame, st, k, loc, poll, src, env, last, cost, first>>

-----------------------------------------------------------------------------
\* Statements.

None == "none"

\* `open` marks a loop that is being executed, where its next iteration begins.
Stmt(kind, def, uses, body, els) ==
    [k |-> kind, def |-> def, uses |-> uses, body |-> body, els |-> els,
     at |-> <<>>, open |-> FALSE]

Loops == {"while", "for", "loop"}
Jumps == {"break", "continue"}
Returns == {"return", "return_unit"}    \* `return e;` and `return;`

\* Gives every statement its path in the program.
RECURSIVE Place(_, _)
Place(ss, path) ==
    [i \in DOMAIN ss |->
        [ss[i] EXCEPT !.at = Append(path, i),
                      !.body = Place(ss[i].body, path \o <<i, 1>>),
                      !.els = Place(ss[i].els, path \o <<i, 2>>)]]

\* The bodies split_at_yields and emit_async_fn are written for.
Flat(ss) == \A i \in DOMAIN ss : ss[i].k \in {"let", "expr", "yield"}

-----------------------------------------------------------------------------
\* Cross-yield liveness (CrossYieldAnalyzer).  The walk numbers statements in
\* textual order; a nested block starts at the number of its own header.

\* record_uses_in_expr: only variables already registered are updated.
RecordUses(a, uses) ==
    [a EXCEPT !.last = [v \in DOMAIN @ |-> IF v \in uses THEN a.pos ELSE @[v]]]

DefineVar(a, v) ==
    [a EXCEPT !.def = [w \in DOMAIN @ \cup {v} |-> IF w = v THEN a.pos ELSE @[w]],
              !.last = [w \in DOMAIN @ \cup {v} |-> IF w = v THEN a.pos ELSE @[w]]]

AddYield(a) == [a EXCEPT !.yields = Append(@, a.pos)]

\* walk_block and walk_stmt; `loop`, `break` and `continue` fall in the
\* `_ => {}` arm.
RECURSIVE Walk(_, _)
Walk(a, ss) ==
    IF ss = <<>> THEN a
    ELSE LET s == Head(ss)
             walked ==
                CASE s.k = "let" -> RecordUses(DefineVar(a, s.def), s.uses)
                  [] s.k = "yield" -> AddYield(a)
                  [] s.k \in {"if", "match", "let_else"} ->
                        Walk(Walk(RecordUses(a, s.uses), s.body), s.els)
                  [] s.k \in {"while", "for"} -> Walk(AddYield(RecordUses(a, s.uses)), s.body)
                  [] s.k = "unsafe" -> Walk(a, s.body)
                  [] s.k \in {"expr", "return"} -> RecordUses(a, s.uses)
                  [] OTHER -> a
         IN Walk([walked EXCEPT !.pos = @ + 1], Tail(ss))

\* analyze: parameters are defined at position 0.
Analyze(p) ==
    Walk([pos |-> 0, yields |-> <<>>,
          def |-> [v \in p.params |-> 0], last |-> [v \in p.params |-> 0]], p.body)

NeedsTransform(p) == Analyze(p).yields # <<>>

\* Mutant of FrameMembers: the variable has to cross every yield.
FrameOfAllYields(p) ==
    LET a == Analyze(p)
    IN {v \in DOMAIN a.def :
            \A i \in DOMAIN a.yields : a.def[v] < a.yields[i] /\ a.last[v] > a.yields[i]}

FrameMembers(p) ==
    LET a == Analyze(p)
    IN {v \in DOMAIN a.def :
            \E i \in DOMAIN a.yields : a.def[v] < a.yields[i] /\ a.last[v] > a.yields[i]}

\* The crossing variables emit_mlir hands to lower_async_fn_cfg: frame members
\* found in var_name_map, where lower_fn_item records the parameters and
\* lower_syn_stmt records nothing for a `let`.
VarNameMap(p) == p.params
CrossingVars(p) == FrameMembers(p) \cap VarNameMap(p)

-----------------------------------------------------------------------------
\* AST -> HIR.  The last arm of lower_salt_stmt puts the unit literal for the
\* forms it has no counterpart for, bodies and all: unsafe blocks, match and
\* let-else here; move, map_window, with_region and invariant go the same way.

Stubs == {"unsafe", "match", "let_else"}

UnitExpr(s) == [s EXCEPT !.k = "unit", !.body = <<>>, !.els = <<>>]

RECURSIVE LowerBlock(_)
LowerBlock(ss) ==
    [i \in DOMAIN ss |->
        IF ss[i].k \in Stubs THEN UnitExpr(ss[i])
        ELSE [ss[i] EXCEPT !.body = LowerBlock(@), !.els = LowerBlock(@)]]

-----------------------------------------------------------------------------
\* Cutting the body into basic blocks.

Goto(t) == [k |-> "goto", at |-> <<>>, yes |-> t, no |-> t]

\* Mutant of Branch: the arms are exchanged.
BranchSwapped(at, y, n) == [k |-> "branch", at |-> at, yes |-> n, no |-> y]
Branch(at, y, n) == [k |-> "branch", at |-> at, yes |-> y, no |-> n]

YieldTo(t) == [k |-> "yield", at |-> <<>>, yes |-> t, no |-> t]
Return == [k |-> "return", at |-> <<>>, yes |-> -1, no |-> -1]

\* Mutant of Assume: the negation is on the wrong edge.
AssumeSwapped(at, holds) ==
    [Stmt(IF holds THEN "assume_not" ELSE "assume", None, {}, <<>>, <<>>) EXCEPT !.at = at]

\* Assume(cond) or Assume(NOT cond), carried across a CFG edge for Z3.
Assume(at, holds) ==
    [Stmt(IF holds THEN "assume" ELSE "assume_not", None, {}, <<>>, <<>>) EXCEPT !.at = at]

\* contains_yield / expr_contains_yield.
RECURSIVE ContainsYield(_)
ContainsYield(ss) ==
    \E i \in DOMAIN ss :
        ss[i].k = "yield" \/ ContainsYield(ss[i].body) \/ ContainsYield(ss[i].els)

PushBlock(b, id, stmts, term) ==
    [b EXCEPT !.blocks = [i \in DOMAIN @ \cup {id} |->
                            IF i = id THEN [stmts |-> stmts, term |-> term] ELSE @[i]]]
AllocIds(b, n) == [b EXCEPT !.next = @ + n]

\* CfgBuilder.lower_stmts: `cur` is the open block, `acc` its statements so
\* far, `exit` the block a finished scope goes to (-1: return).  What is not cut
\* is appended as it is: `break`, `continue` and `return` wherever they stand,
\* and a `for` with whatever it contains.
RECURSIVE LowerStmts(_, _, _, _, _)
LowerStmts(b, ss, cur, acc, exit) ==
    IF ss = <<>>
    THEN PushBlock(b, cur, acc, IF exit = -1 THEN Return ELSE Goto(exit))
    ELSE
      LET s == Head(ss)
          n == b.next
      IN CASE s.k = "yield" ->
                LowerStmts(PushBlock(AllocIds(b, 1), cur, acc, YieldTo(n)),
                           Tail(ss), n, <<>>, exit)
           [] s.k = "while" /\ ContainsYield(s.body) ->
                LET head == PushBlock(PushBlock(AllocIds(b, 3), cur, acc, Goto(n)),
                                      n, <<>>, Branch(s.at, n + 1, n + 2))
                    body == LowerStmts(head, s.body, n + 1, <<Assume(s.at, TRUE)>>, n)
                IN LowerStmts(body, Tail(ss), n + 2, <<Assume(s.at, FALSE)>>, exit)
           [] s.k = "loop" /\ ContainsYield(s.body) ->
                LET head == PushBlock(AllocIds(b, 1), cur, acc, Goto(n))
                    body == LowerStmts(head, s.body, n, <<>>, n)
                IN LowerStmts(AllocIds(body, 1), Tail(ss), body.next, <<>>, exit)
           [] s.k = "if" /\ ContainsYield(<<s>>) ->
                LET head == PushBlock(AllocIds(b, 3), cur, acc, Branch(s.at, n, n + 1))
                    then == LowerStmts(head, s.body, n, <<Assume(s.at, TRUE)>>, n + 2)
                    else == LowerStmts(then, s.els, n + 1, <<Assume(s.at, FALSE)>>, n + 2)
                IN LowerStmts(else, Tail(ss), n + 2, <<>>, exit)
           [] OTHER -> LowerStmts(b, Tail(ss), cur, Append(acc, s), exit)

BuildCfg(ss) ==
    LowerStmts([next |-> 1, blocks |-> [i \in {} |-> i]], ss, 0, <<>>, -1).blocks

\* Blocks 0..n-1 of a body cut at n-1 top-level places, each suspending into
\* the next: split_at_yields and generate_step_fn, and the slices of
\* emit_async_fn with the per-state functions of StateMachineEmitter.
Chain(slices) ==
    [i \in 0 .. Len(slices) - 1 |->
        [stmts |-> slices[i + 1],
         term |-> IF i < Len(slices) - 1 THEN YieldTo(i + 1) ELSE Return]]

RECURSIVE SplitAtYields(_, _)
SplitAtYields(ss, segments) ==
    IF ss = <<>> THEN segments
    ELSE SplitAtYields(Tail(ss),
            IF Head(ss).k = "yield" THEN Append(segments, <<>>)
            ELSE [segments EXCEPT ![Len(segments)] = Append(@, Head(ss))])

\* emit_async_fn slices the statements at the positions the analysis recorded.
StateSlices(p) ==
    LET y == Analyze(p).yields
        n == Len(p.body)
        from(i) == IF i = 0 THEN 0 ELSE Min({y[i] + 1, n})
        to(i) == IF i < Len(y) THEN Min({y[i + 1], n}) ELSE n
    IN [i \in 1 .. Len(y) + 1 |-> SubSeq(p.body, from(i - 1) + 1, to(i - 1))]

\* extract_return_expr: the last `return e` of a final block moves to its end,
\* where its value becomes the payload of Poll::Ready ("ready").
ExtractReturn(ss) ==
    LET rets == {i \in DOMAIN ss : ss[i].k = "return"}
    IN IF rets = {} THEN ss
       ELSE LET i == Max(rets) IN Append(RemoveAt(ss, i), [ss[i] EXCEPT !.k = "ready"])

\* generate_step_fn_from_cfg: one dispatch arm per block.
StepFnFromCfg(bs) ==
    [i \in DOMAIN bs |->
        IF bs[i].term.k = "return" THEN [bs[i] EXCEPT !.stmts = ExtractReturn(@)]
        ELSE bs[i]]

\* emit_hir_block stops after the first return, break or continue and refuses a
\* `for` before it.
RECURSIVE Emits(_)
Emits(ss) ==
    \A i \in DOMAIN ss :
        (\A j \in 1 .. i - 1 : ss[j].k \notin Jumps \cup Returns) =>
            ss[i].k # "for" /\ Emits(ss[i].body) /\ Emits(ss[i].els)

StepBlocks(p, lowering) ==
    CASE lowering = "cfg" -> StepFnFromCfg(BuildCfg(LowerBlock(p.body)))
      [] lowering = "linear" -> Chain(SplitAtYields(LowerBlock(p.body), <<<<>>>>))
      [] lowering = "state_fns" -> Chain(StateSlices(p))

-----------------------------------------------------------------------------
\* verify_pulse_bounds: the cost of every acyclic path from block 0 to the
\* first suspension.  A call costs 5 cycles, a comparison 1.

CallCost == 5
CondCost == 1
LoopGuess == 10   \* iterations assumed of a yield-free `while` or `for`

RECURSIVE ScoreStmts(_)
ScoreStmts(ss) ==
    IF ss = <<>> THEN 0
    ELSE LET s == Head(ss)
             c == CASE s.k \in {"let", "expr"} -> CallCost
                    [] s.k = "if" -> CondCost + 1
                                     + Max({ScoreStmts(s.body), ScoreStmts(s.els)})
                    [] s.k = "loop" -> Budget + 1
                    [] s.k = "while" -> CondCost + LoopGuess * (CondCost + ScoreStmts(s.body))
                    [] s.k = "for" -> LoopGuess * ScoreStmts(s.body)
                    [] OTHER -> 0    \* break, continue, return, unit
         IN c + ScoreStmts(Tail(ss))

\* A path result: its cost, or a reason not to accept the function.
Unbounded == -1

RECURSIVE PathCosts(_, _, _, _)

\* Mutant of PathCosts: a back edge ends the path quietly, as it does after a
\* Branch.
PathCostsNoBackEdge(bs, id, acc, path) ==
    LET b == bs[id]
        total == acc + ScoreStmts(b.stmts)
        next == {b.term.yes, b.term.no} \ path
    IN IF b.term.k \in {"yield", "return"} THEN {total}
       ELSE UNION {PathCosts(bs, t, total + 1, path \cup {t}) : t \in next}

\* Mutant of PathCosts: only the true arm of a Branch is explored.
PathCostsTrueArm(bs, id, acc, path) ==
    LET b == bs[id]
        total == acc + ScoreStmts(b.stmts)
    IN IF b.term.k \in {"yield", "return"} THEN {total}
       ELSE IF b.term.yes \in path THEN {Unbounded}
       ELSE PathCosts(bs, b.term.yes, total + 1, path \cup {b.term.yes})

PathCosts(bs, id, acc, path) ==
    LET b == bs[id]
        total == acc + ScoreStmts(b.stmts)
    IN IF \E i \in DOMAIN b.stmts : b.stmts[i].k = "loop" THEN {Unbounded}
       ELSE CASE b.term.k \in {"yield", "return"} -> {total}
              [] b.term.k = "goto" ->
                    IF b.term.yes \in path THEN {Unbounded}
                    ELSE PathCosts(bs, b.term.yes, total, path \cup {b.term.yes})
              [] b.term.k = "branch" ->
                    UNION {PathCosts(bs, t, total + 1, path \cup {t}) :
                              t \in {b.term.yes, b.term.no} \ path}

PulseVerified(bs) ==
    LET costs == PathCosts(bs, 0, 0, {0})
    IN Unbounded \notin costs /\ \A c \in costs : c <= Budget

MaxPathCost(bs) == Max(PathCosts(bs, 0, 0, {0}) \cup {0})

-----------------------------------------------------------------------------
\* Running a statement list: the semantics both sides share.  Entering a
\* `loop` and the jumps of a loop that is being executed are silent; every other
\* statement is one visible event.

Entered(s) == [s EXCEPT !.open = TRUE]

\* The innermost loop being executed goes on (`continue`) or is left (`break`).
OpenLoops(ss) == {i \in DOMAIN ss : ss[i].open}
AfterJump(ss) ==
    LET i == Min(OpenLoops(ss))
    IN SubSeq(ss, IF Head(ss).k = "break" THEN i + 1 ELSE i, Len(ss))

RECURSIVE Unroll(_)
Unroll(ss) ==
    IF ss = <<>> THEN ss
    ELSE LET s == Head(ss)
         IN CASE s.k = "loop" -> Unroll(s.body \o <<Entered(s)>> \o Tail(ss))
              [] s.k = "unsafe" -> Unroll(s.body \o Tail(ss))
              [] s.k = "unit" -> Unroll(Tail(ss))
              [] s.k \in Jumps /\ OpenLoops(ss) # {} -> Unroll(AfterJump(ss))
              [] OTHER -> ss

Tests == {"if", "while", "for", "match", "let_else"}

Event(ss) ==
    IF Unroll(ss) = <<>> THEN [k |-> "return", at |-> <<>>]
    ELSE LET s == Head(Unroll(ss))
         IN [k |-> IF s.k \in Tests THEN "test" ELSE IF s.k \in Returns THEN "return" ELSE s.k,
             at |-> IF s.k = "yield" THEN <<>> ELSE s.at]

\* A `for` tests its iterator, a `match` chooses between two arms, a let-else
\* its else block if the pattern does not match.
AfterTest(ss, outcome) ==
    LET s == Head(Unroll(ss))
        rest == Tail(Unroll(ss))
    IN IF outcome THEN s.body \o (IF s.k \in Loops THEN <<Entered(s)>> ELSE <<>>) \o rest
       ELSE s.els \o rest

-----------------------------------------------------------------------------
Undef == <<-1>>   \* the value of a variable nothing has been stored in
Argument == <<0>> \* the value a parameter is called with

ProgVars(p) == DOMAIN Analyze(p).def

\* The statements of a block run inside the trampoline's loop: a `break` whose
\* own loop was cut leaves the trampoline ("off"), a `continue` dispatches the
\* same block again ("silent"), a `return` that was not extracted returns its
\* bare value ("raw").  At the end the terminator decides.
StepEvent ==
    IF Unroll(k) # <<>>
    THEN LET s == Head(Unroll(k))
         IN [k |-> CASE s.k = "break" -> "off"
                     [] s.k = "continue" -> "silent"
                     [] s.k \in Returns -> "raw"
                     [] s.k = "ready" -> "return"
                     [] OTHER -> Event(k).k,
             at |-> Event(k).at]
    ELSE LET t == blocks[st].term
         IN [k |-> CASE t.k = "goto" -> "silent"
                     [] t.k = "branch" -> "test"
                     [] OTHER -> t.k,
             at |-> t.at]

AtAssume == k # <<>> /\ Head(k).k \in {"assume", "assume_not"}

\* What a use of v reads in the running call: a rewritten variable is a field
\* of the frame, any other a local of this call.
ReadVar(v) ==
    IF low # "state_fns" /\ v \in CrossingVars(prog) THEN frame[v] ELSE loc[v]

Init ==
    /\ prog \in {p \in Programs : NeedsTransform(p)}
    /\ low \in {l \in Lowerings : l = "cfg" \/ Flat(prog.body)}
    /\ blocks = StepBlocks(prog, low)
    /\ low = "cfg" => \A i \in DOMAIN blocks : Emits(blocks[i].stmts)
    /\ frame = [v \in ProgVars(prog) |-> Undef]
    /\ st = 0
    /\ k = blocks[0].stmts
    /\ loc = [v \in ProgVars(prog) |-> Undef]
    /\ poll = "running"
    /\ src = prog.body
    /\ env = [v \in ProgVars(prog) |-> IF v \in prog.params THEN Argument ELSE Undef]
    /\ last = [at |-> <<>>, outcome |-> FALSE]
    /\ cost = 0
    /\ first = TRUE

\* The source takes the same step; it stays where the step function leaves it.
InStep == StepEvent = Event(src)

Spend(n) == cost' = Min({cost + n, CostCap})

\* A `let` or a call, on both sides.  The step function binds the local of
\* the current call; the pattern of a `let` is never rewritten to a field.
Execute ==
    /\ poll = "running" /\ ~AtAssume
    /\ Unroll(k) # <<>> /\ StepEvent.k \in {"let", "expr"}
    /\ LET s == Head(Unroll(k))
       IN loc' = IF s.k = "let" THEN [loc EXCEPT ![s.def] = s.at] ELSE loc
    /\ k' = Tail(Unroll(k))
    /\ env' = IF InStep /\ StepEvent.k = "let"
              THEN LET s == Head(Unroll(src)) IN [env EXCEPT ![s.def] = s.at]
              ELSE env
    /\ src' = IF InStep THEN Tail(Unroll(src)) ELSE src
    /\ Spend(CallCost)
    /\ UNCHANGED <<prog, low, blocks, frame, st, poll, last, first>>

\* A condition: of a statement kept whole inside a block, or of a Branch.
Test(outcome) ==
    /\ poll = "running" /\ ~AtAssume /\ StepEvent.k = "test"
    /\ IF Unroll(k) # <<>>
       THEN k' = AfterTest(k, outcome) /\ UNCHANGED st
       ELSE LET t == blocks[st].term
            IN /\ st' = IF outcome THEN t.yes ELSE t.no
               /\ k' = blocks[st'].stmts
    /\ src' = IF InStep THEN AfterTest(src, outcome) ELSE src
    /\ last' = [at |-> StepEvent.at, outcome |-> outcome]
    /\ Spend(CondCost)
    /\ UNCHANGED <<prog, low, blocks, frame, loc, poll, env, first>>

\* The trampoline re-dispatches without returning: after a Goto, or at a
\* `continue` that has become its own.
Trampoline ==
    /\ poll = "running" /\ ~AtAssume /\ StepEvent.k = "silent"
    /\ st' = IF Unroll(k) # <<>> THEN st ELSE blocks[st].term.yes
    /\ k' = blocks[st'].stmts
    /\ UNCHANGED <<prog, low, blocks, frame, loc, poll, src, env, last, cost, first>>

\* The call ends without a Poll: behind the trampoline, or by a bare return.
Stray ==
    /\ poll = "running" /\ ~AtAssume /\ StepEvent.k \in {"off", "raw"}
    /\ poll' = "stray"
    /\ k' = <<>>
    /\ UNCHANGED <<prog, low, blocks, frame, st, loc, src, env, last, cost, first>>

\* An Assume is erased by the emitter.
SkipAssume ==
    /\ poll = "running" /\ AtAssume
    /\ k' = Tail(k)
    /\ UNCHANGED <<prog, low, blocks, frame, st, loc, poll, src, env, last, cost, first>>

\* A yield: the state functions spill the frame members, the step functions
\* store the state only; the locals of the call are gone.
Suspend ==
    /\ poll = "running" /\ ~AtAssume /\ StepEvent.k = "yield"
    /\ frame' = IF low = "state_fns"
                THEN [v \in DOMAIN frame |->
                        IF v \in FrameMembers(prog) THEN loc[v] ELSE Undef]
                ELSE frame
    /\ loc' = [v \in DOMAIN loc |-> Undef]
    /\ st' = blocks[st].term.yes
    /\ poll' = "pending"
    /\ first' = FALSE
    /\ src' = IF InStep THEN Tail(Unroll(src)) ELSE src
    /\ UNCHANGED <<prog, low, blocks, k, env, last, cost>>

\* The executor polls again: dispatch on the saved state, reload the frame.
Resume ==
    /\ poll = "pending"
    /\ poll' = "running"
    /\ k' = blocks[st].stmts
    /\ loc' = IF low = "state_fns" THEN frame ELSE loc
    /\ cost' = 0
    /\ UNCHANGED <<prog, low, blocks, frame, st, src, env, last, first>>

\* The last block: __state = -1 and Poll::Ready.
Finish ==
    /\ poll = "running" /\ ~AtAssume /\ StepEvent.k = "return"
    /\ poll' = "ready"
    /\ st' = -1
    /\ k' = <<>>
    /\ UNCHANGED <<prog, low, blocks, frame, loc, src, env, last, cost, first>>

Next ==
    \/ Execute
    \/ \E outcome \in BOOLEAN : Test(outcome)
    \/ Trampoline
    \/ Stray
    \/ SkipAssume
    \/ Suspend
    \/ Resume
    \/ Finish

\* The step function is sequential code and the executor polls a task until
\* it is ready, so neither stops while it has a step to take.
Spec == Init /\ [][Next]_vars /\ WF_vars(Next)

-----------------------------------------------------------------------------
(***************************************************************************)
(* Properties                                                              *)
(***************************************************************************)

TypeOK ==
    /\ poll \in {"running", "pending", "ready", "stray"}
    /\ st \in DOMAIN blocks \cup {-1}
    /\ \A i \in DOMAIN blocks :
          blocks[i].term.k # "return" => blocks[i].term.yes \in DOMAIN blocks
                                         /\ blocks[i].term.no \in DOMAIN blocks
    /\ cost \in 0 .. CostCap

\* Where a jump's own loop is cut: `cut` says so of the innermost one around ss.
RECURSIVE Captures(_, _, _)
Captures(ss, jumps, cut) ==
    \E i \in DOMAIN ss :
        LET s == ss[i]
        IN \/ cut /\ s.k \in jumps
           \/ Captures(s.body, jumps, IF s.k \in Loops THEN ContainsYield(s.body) ELSE cut)
           \/ Captures(s.els, jumps, cut)
Captured(p, jumps) == Captures(LowerBlock(p.body), jumps, FALSE)

RECURSIVE Mentions(_, _)
Mentions(ss, kinds) ==
    \E i \in DOMAIN ss :
        ss[i].k \in kinds \/ Mentions(ss[i].body, kinds) \/ Mentions(ss[i].els, kinds)

\* A return other than `return e` as the last statement of the function.
EarlyReturn(ss) ==
    \E i \in DOMAIN ss :
        Mentions(<<ss[i]>>, Returns) /\ (i = Len(ss) => ss[i].k # "return")

\* The bodies whose statements the CFG lowering carries over as they are meant.
Carried(p) ==
    /\ ~Mentions(p.body, Stubs)
    /\ ~Captured(p, Jumps)
    /\ ~EarlyReturn(p.body)

\* Whatever the lowering, the next thing the step function does - a call, a
\* test, a suspension, its return - is the next thing the source does, across
\* any number of polls (lower_stmts and its trampoline, split_at_yields,
\* emit_async_fn).  Not so, and excepted: a statement lowered to the unit
\* literal; a `break` or `continue` of a loop that is cut, which acts on the
\* trampoline's own loop; a return before the end of the body or without a
\* value, which is not wrapped in Poll::Ready.  (And every variable has its
\* type.)
StepFollowsSource ==
    /\ TypeOK
    /\ Carried(prog) /\ poll = "running" /\ ~AtAssume /\ StepEvent.k # "silent" =>
          InStep

\* The Assume statements put at the head of a block for Z3 (lower_stmts'
\* assume_prefix) are true there: the block is entered only by the branch
\* they describe, in the same poll.  Unless a `continue` of a cut loop brings
\* the trampoline back to the block without the test.
AssumesHold ==
    ~Captured(prog, {"continue"}) /\ poll = "running" /\ AtAssume =>
        last = [at |-> Head(k).at, outcome |-> Head(k).k = "assume"]

\* What a use should read, and does.
ReadsRight(vs) ==
    poll = "running" /\ ~AtAssume /\ Unroll(k) # <<>> /\ Unroll(src) # <<>> =>
        \A v \in Head(Unroll(src)).uses \cap vs : ReadVar(v) = env[v]

\* The frame computed by the cross-yield analysis is enough: a local read after
\* any number of suspensions has the value the source gives it when the frame
\* members are spilled and reloaded around each (generate_spill,
\* generate_reload).  For straight-line bodies without shadowing.
FrameKeepsLocals ==
    low = "state_fns" => ReadsRight(DOMAIN env \ prog.params)

\* hir/async_lower.rs:4 says that variables that live across yield boundaries
\* are lifted into the state struct's fields: so a read after a suspension
\* of a local finds the value.
LiveVariablesLifted == low = "cfg" => ReadsRight(DOMAIN env \ prog.params)

RECURSIVE HasPlainWhile(_)
HasPlainWhile(ss) ==
    \E i \in DOMAIN ss :
        \/ ss[i].k = "while" /\ ~ContainsYield(ss[i].body)
        \/ HasPlainWhile(ss[i].body) \/ HasPlainWhile(ss[i].els)

\* A function verify_pulse_bounds accepts returns from its first poll within
\* the cost it reports.  Left out are a yield-free `while`, which is only guessed
\* at (score_stmt's 10 iterations), and a `continue` of a cut loop, scored 0
\* though it runs the block again.
PulseAccepted ==
    /\ low = "cfg" /\ PulseVerified(blocks)
    /\ ~HasPlainWhile(LowerBlock(prog.body))
    /\ ~Captured(prog, {"continue"})
FirstPollWithinBound ==
    PulseAccepted /\ first => cost <= MaxPathCost(blocks)

\* ... and the call does come to its end: with these two exceptions, no path
\* through the trampoline spins.  (That it ends with a Poll is
\* StepFollowsSource.)
FirstPollReturns ==
    (PulseAccepted /\ first) ~> (~first \/ poll \in {"ready", "stray"})
=============================================================================
