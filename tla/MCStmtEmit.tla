----------------------------- MODULE MCStmtEmit -----------------------------
(* Function bodies for TLC: a prologue, one compound statement with short
   blocks in it, an epilogue. *)
EXTENDS StmtEmit

When(b, e) == IfElse("any", "", b, e, FALSE)
Ret1 == Do("return", "")

\* What a block may start with, and how it may leave.
Firsts == { <<>>, <<Do("use", "x")>>, <<Do("move", "x")>>, <<Do("vec", "v")>>,
            <<Do("drop", "v")>>, <<Do("empty", "p")>>, <<Do("deref", "p")>>,
            <<Do("free", "m")>>, <<Do("use", "x"), Do("move", "x")>> }
Exits == { <<>>, <<Ret1>>, <<Do("retv", "v")>>, <<Do("break", "")>>, <<Do("continue", "")>> }
Short == {f \o e : f \in Firsts, e \in Exits}

\* Blocks with one decision in them.
Decisions ==
    { When(b, e) : b \in Exits \ {<<>>}, e \in {<<>>, <<Ret1>>, <<Do("drop", "v")>>} }
    \cup { IfElse("any", "", <<Ret1>>, <<When(<<Ret1>>, <<>>)>>, TRUE),
           Match(<<"test", "any">>, << <<Ret1>>, <<Do("move", "x")>> >>, TRUE),
           Body("letelse", <<Ret1>>) }
Deep == {<<d>> \o f : d \in Decisions, f \in Firsts}

\* Patterns of two arms, and whether they cover every value.
Arms == { << <<"test", "any">>, TRUE >>, << <<"test", "test">>, TRUE >>,
          << <<"test", "test">>, FALSE >>, << <<"any", "test">>, TRUE >>,
          << <<"test", "guarded">>, FALSE >> }

Compounds ==
    { When(b, e) : b \in Short \cup Deep, e \in Firsts \cup {<<Ret1>>} }
    \cup { IfElse(c, "p", b, e, FALSE) : c \in {"null", "nonnull"}, b \in Short, e \in Firsts }
    \cup { Body(k, b) : k \in LoopKinds \cup {"with", "window", "unsafe"}, b \in Short \cup Deep }
    \cup { Body(k, b) : k \in {"letelse", "letirr"}, b \in Short }
    \cup { Match(w[1], <<b, e>>, w[2]) : w \in Arms, b \in Short, e \in Firsts \cup {<<Ret1>>} }
    \cup { Body(k, <<Body(j, <<d>>), Do("use", "x")>>) :
              k \in {"loop", "for", "forw", "while"}, j \in LoopKinds, d \in Decisions }
    \cup { When(<<Body(j, <<d>>)>>, <<>>) : j \in LoopKinds, d \in Decisions }

\* Prologue and epilogue.
Frames == { << <<Do("vec", "v")>>, <<Do("use", "x"), Do("deref", "p")>> >>,
            << <<Do("objT", "v"), Do("malloc", "m")>>, <<Do("free", "m")>> >>,
            << <<Do("malloc", "m"), Do("empty", "p")>>, <<Do("use", "x")>> >>,
            << <<Do("vecT", "v"), Do("vec", "w")>>, <<Do("use", "v"), Do("use", "w"), Do("retv", "v")>> >>,
            << <<Do("malloc", "m")>>, <<Do("pass", "m"), Do("vec", "v"), Do("obj", "w"), Ret1>> >> }

MCPrograms == {f[1] \o <<c>> \o f[2] : f \in Frames, c \in Compounds}
=============================================================================
