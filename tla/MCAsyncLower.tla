---------------------------- MODULE MCAsyncLower ----------------------------
(* Small families of function bodies for AsyncLower. *)
EXTENDS AsyncLower

Let(v, u) == Stmt("let", v, u, <<>>, <<>>)
Call(u) == Stmt("expr", None, u, <<>>, <<>>)
Yield == Stmt("yield", None, {}, <<>>, <<>>)
Ret(u) == Stmt("return", None, u, <<>>, <<>>)
If(b, e) == Stmt("if", None, {}, b, e)
While(b) == Stmt("while", None, {}, b, <<>>)
Loop(b) == Stmt("loop", None, {}, b, <<>>)
For(b) == Stmt("for", None, {}, b, <<>>)
Unsafe(b) == Stmt("unsafe", None, {}, b, <<>>)
Match(b, e) == Stmt("match", None, {}, b, e)
LetElse(e) == Stmt("let_else", None, {}, <<>>, e)
Break == Stmt("break", None, {}, <<>>, <<>>)
Continue == Stmt("continue", None, {}, <<>>, <<>>)
RetUnit == Stmt("return_unit", None, {}, <<>>, <<>>)

UpTo(S, n) == UNION {[1 .. i -> S] : i \in 0 .. n}
Program(params, body) == [params |-> params, body |-> Place(body, <<>>)]

\* Straight-line bodies over two locals, each bound at most once.
Unshadowed(ss) ==
    \A i, j \in DOMAIN ss : i # j /\ ss[i].k = "let" /\ ss[j].k = "let" => ss[i].def # ss[j].def
FlatBodies ==
    {b \in UpTo({Let("x", {}), Let("y", {"x"}), Call({"x"}), Call({"y"}), Yield}, 5) : Unshadowed(b)}

\* One compound statement, or a nest of two, between simple ones.
Simple == {Call({}), Yield}
Blocks == UpTo(Simple, 2) \ {<<>>}
Nested == {If(<<Yield>>, <<>>), If(<<Call({})>>, <<Yield>>), While(<<Yield>>), While(<<Call({})>>), Loop(<<Yield>>)}
Compound ==
    {If(b, e) : b \in Blocks, e \in Blocks \cup {<<>>}}
    \cup {While(b) : b \in Blocks} \cup {Loop(b) : b \in Blocks}
    \cup {While(<<n, c>>) : n \in Nested, c \in Simple}
    \cup {If(<<Call({}), n>>, <<m>>) : n, m \in Nested}
    \cup {Loop(<<n, Call({})>>) : n \in Nested}
NestedBodies ==
    {a \o <<c>> \o z : a \in UpTo(Simple, 1), c \in Compound, z \in UpTo(Simple, 2) \cup {<<Call({}), Ret({})>>}}

\* Every way to leave a block early, before and after a call or a yield, in a
\* body of its own, in a loop, in a loop kept whole inside one that is cut, and
\* the other way round.
Leave == {Break, Continue, Ret({}), RetUnit}
Left(j) == If(<<j>>, <<>>)
Leaving(js) ==
    UNION {{<<Left(j), s>>, <<s, Left(j)>>, <<If(<<s, j>>, <<>>)>>, <<If(<<j>>, <<s>>)>>, <<s, j>>} :
              j \in js, s \in Simple}
OneLoop(bs) == {While(b) : b \in bs} \cup {Loop(b) : b \in bs} \cup {For(b) : b \in bs}
LeavingLoops == OneLoop(Leaving(Leave))
LeavingNests ==
    {l \in OneLoop({<<n, s>> : n \in LeavingLoops, s \in Simple}) : ContainsYield(<<l>>)}

\* What is lowered to the unit literal, around a yield, a call or a jump.
Stubbed(b) == {Unsafe(b), Match(b, <<Call({})>>), Match(<<Yield>>, b), LetElse(b \o <<Ret({})>>)}
StubBodies ==
    UNION {{<<u>>, <<Call({}), u, Yield>>, <<While(<<u, Yield>>)>>, <<Loop(<<u, Call({})>>)>>} :
              u \in Stubbed(<<Yield>>) \cup Stubbed(<<Call({})>>)}
    \cup {<<While(<<u, Yield>>)>> : u \in Stubbed(<<Break>>)}

LeavingBodies ==
    {a \o b \o z : a \in {<<>>, <<Yield>>},
                   b \in Leaving({Ret({}), RetUnit}) \cup {<<l>> : l \in LeavingLoops},
                   z \in {<<>>, <<Yield>>, <<Call({}), Ret({})>>}}
    \cup {<<l>> \o z : l \in LeavingNests, z \in {<<>>, <<Call({}), Ret({})>>}}
    \cup {<<Yield, j, s>> : j \in {Ret({}), RetUnit}, s \in Simple \cup {For(<<Call({})>>)}}

MCPrograms == {Program({}, b) : b \in FlatBodies \cup NestedBodies \cup StubBodies \cup LeavingBodies}

\* The smallest functions with a variable that lives across a yield.
LiftPrograms == {Program({}, <<Let("x", {}), Call(u), Yield, Call(w), Ret({"x"})>>) :
                    u, w \in SUBSET {"x"}}
=============================================================================
