-------------------------- MODULE MCCompileSession --------------------------
(* Builds for TLC: an application, a library and its sub-module. *)
EXTENDS CompileSession

MCLower == [s \in {"app", "lib", "sub", "Lib", "f", "h", "std", "gone", "a", "b", "c", "d", "e"} |->
              IF s = "Lib" THEN "lib" ELSE s]

\* Statements.
Call(n) == [k |-> "call", qual |-> <<>>, name |-> n, ty |-> NoTy]
At(n, ty) == [k |-> "call", qual |-> <<>>, name |-> n, ty |-> ty]
In(q, n) == [k |-> "call", qual |-> q, name |-> n, ty |-> NoTy]
Ref(n) == [k |-> "ref", qual |-> <<>>, name |-> n, ty |-> NoTy]
Put(n) == [k |-> "print", qual |-> <<>>, name |-> n, ty |-> NoTy]

\* Functions.
Fun(n, body) == [name |-> n, pub |-> FALSE, nomangle |-> FALSE, extern |-> FALSE,
                 empty |-> FALSE, generic |-> FALSE, body |-> body]
Pub(n, body) == [Fun(n, body) EXCEPT !.pub = TRUE]
Raw(n, body) == [Fun(n, body) EXCEPT !.nomangle = TRUE]
Gen(n, body) == [Fun(n, body) EXCEPT !.generic = TRUE]
PubGen(n, body) == [Gen(n, body) EXCEPT !.pub = TRUE]
Empty(n) == [Fun(n, <<>>) EXCEPT !.empty = TRUE]
Ext(n) == [Fun(n, <<>>) EXCEPT !.extern = TRUE, !.empty = TRUE]

\* Imports and files.
Mod(p) == [kind |-> "mod", path |-> p]
Group(p, ns) == [kind |-> "group", path |-> p, names |-> ns]
File(p, imps, fns) == [state |-> "ok", package |-> p, imports |-> imps, fns |-> fns]
Broken(s) == [state |-> s, package |-> <<>>, imports |-> <<>>, fns |-> <<>>]

APP == <<"app">>
LIB == <<"lib">>
SUB == <<"lib", "sub">>
F == <<"f">>
G == <<"g">>
H == <<"h">>
G_i32 == <<"g", "i32">>
K == <<"k">>
M == <<"main">>

\* The application.
AppImports == { <<Mod(LIB)>>, <<Group(LIB, {F})>>, <<Mod(<<"lib", "f">>)>>,
                <<Mod(LIB), Mod(SUB)>>, <<Mod(<<"Lib">>)>>, <<Mod(<<"gone">>), Mod(LIB)>> }
AppStmts == { Call(F), In(LIB, F), Call(H), At(G, "i32"), Call(G_i32), Ref(H), Ref(F),
              Put(<<"putchar">>), Call(<<"putchar">>) }
AppBodies == {<<s>> : s \in AppStmts}
             \cup {<<s, t>> : s \in {Call(F), Call(H), At(G, "i32")}, t \in AppStmts}
AppHelpers == { <<Fun(H, <<Call(F)>>), Gen(G, <<At(G, "T")>>), Pub(G_i32, <<>>), Ext(<<"putchar">>)>>,
                <<Empty(H), Gen(G, <<Call(H)>>), Ext(F)>>,
                <<Raw(H, <<Call(<<"putchar">>)>>), Ext(<<"putchar">>)>>,
                <<Gen(G, <<Call(H)>>)>>,
                <<Fun(H, <<Call(H), Call(G_i32)>>), Fun(G_i32, <<Ref(H)>>)>> }
App(imps, body, helpers) == File(APP, imps, <<Pub(M, body)>> \o helpers)

\* The library: f calls g, g calls h.
LibFns == { <<Pub(F, <<Call(G)>>), Fun(G, <<Call(H)>>), Fun(H, <<>>)>>,
            <<Pub(F, <<At(G, "i64")>>), PubGen(G, <<Call(H)>>), Raw(H, <<>>)>>,
            <<Raw(F, <<Call(H)>>), Pub(H, <<Put(<<"putchar">>)>>)>>,
            <<Fun(F, <<>>), Pub(H, <<In(<<"sub">>, K)>>)>> }
LibImports == { <<>>, <<Mod(SUB)>> }
SubFile == File(SUB, <<>>, <<Pub(H, <<>>), Pub(K, <<Call(H)>>)>>)

Tree(app, imps, fns) ==
    [p \in {APP, LIB, SUB} |->
       CASE p = APP -> app [] p = LIB -> File(LIB, imps, fns) [] p = SUB -> SubFile]

CallBuilds ==
    { [mode |-> m, units |-> IF m = "exe" THEN <<APP>> ELSE <<APP, LIB, SUB>>,
       source |-> Tree(App(ai, ab, ah), li, lf)] :
        m \in {"exe", "lib"}, ai \in AppImports, ab \in AppBodies, ah \in AppHelpers,
        li \in LibImports, lf \in LibFns }

\* Import graphs: three modules below the unit, some missing or broken.
A == <<"a">>
B == <<"b">>
C == <<"a", "c">>
Edges == { <<>>, <<Mod(A)>>, <<Mod(B)>>, <<Mod(C)>>, <<Mod(<<"gone">>)>>,
           <<Mod(<<"b", "h">>)>>, <<Mod(B), Mod(C)>> }
Files(p) == {File(p, imps, <<Pub(H, <<>>)>>) : imps \in Edges}
            \cup {Broken("unreadable"), Broken("malformed")}
LoadBuilds ==
    { [mode |-> "exe", units |-> <<APP>>,
       source |-> [p \in {APP, A, B, C} |->
                     CASE p = APP -> File(APP, imps, <<Pub(M, <<>>)>>)
                       [] p = A -> fa [] p = B -> fb [] p = C -> fc]] :
        imps \in { <<Mod(A), Mod(B), Mod(C)>>, <<Mod(<<"gone">>), Mod(<<"a", "h">>), Mod(B)>> },
        fa \in Files(A), fb \in Files(B), fc \in {File(C, <<>>, <<>>), File(C, <<Mod(B)>>, <<>>)} }

\* Applications that start elsewhere than at main, or at one of several, and
\* one with a function called h_T or a call whose type nothing determines.
MS == <<"main_salt">>
KM == <<"kmain">>
H_T == <<"h", "T">>
EntryFns == { <<Fun(e, <<s>>), Fun(H, <<>>)>> : e \in {MS, KM}, s \in {Call(H), Call(MS), Ref(H)} }
            \cup { <<Fun(KM, <<Call(H)>>), Pub(MS, <<Call(KM)>>), Gen(H, <<>>)>>,
                   <<Raw(KM, <<Call(H)>>), Fun(H, <<Call(KM)>>)>>,
                   <<Pub(KM, <<Call(M)>>), Fun(MS, <<>>), Fun(M, <<Call(MS), Call(KM)>>)>>,
                   <<Fun(M, <<Call(H_T)>>), Fun(H_T, <<>>)>>,
                   <<Fun(M, <<At(G, "T")>>), Gen(G, <<Call(H)>>), Fun(H, <<>>)>> }
EntryBuilds ==
    { [mode |-> m, units |-> <<APP>>, source |-> [p \in {APP} |-> File(APP, <<>>, fns)]] :
        m \in {"exe", "lib"}, fns \in EntryFns }

\* An application without an entry point.
NoEntry == [mode |-> "exe", units |-> <<APP>>,
            source |-> [p \in {APP} |-> File(APP, <<>>, <<Pub(H, <<>>)>>)]]

MCBuilds == CallBuilds \cup LoadBuilds \cup EntryBuilds \cup {NoEntry}
=============================================================================
