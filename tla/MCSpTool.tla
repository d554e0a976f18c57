------------------------------ MODULE MCSpTool ------------------------------
(***************************************************************************)
(* One terminal, an application with two libraries.                        *)
(***************************************************************************)
EXTENDS SpTool

None0 == [n \in {} |-> Registry]

\* A chain, two dependencies of which one needs the other, two
\* libraries that need each other, and one name used for two directories.
MCManifests ==
    LET M(x, y, z) == [d \in Dirs |-> CASE d = "app" -> x [] d = "lib" -> y [] d = "base" -> z]
    IN { M([a |-> Path("lib")], [b |-> Path("base")], None0),
         M([a |-> Path("lib"), b |-> Path("base")], [b |-> Path("base")], None0),
         M([a |-> Path("lib")], [b |-> Path("base")], [a |-> Path("lib")]),
         M([a |-> Path("lib")], [a |-> Path("base")], None0) }

MCInvocations ==
    {<<c, "app", FALSE>> : c \in {"build", "run", "test", "check", "fetch", "clean", "add", "new"}}
    \cup {<<c, "lib", FALSE>> : c \in {"test", "new"}}

\* One project, built, run and cleaned.
StaleManifests == {[d \in Dirs |-> None0]}
StaleInvocations == {<<c, "app", FALSE>> : c \in {"build", "run", "clean"}}

MCVersions == [d \in Dirs |-> CASE d = "app" -> {1, 2, 3, 4} [] d = "lib" -> {1} [] d = "base" -> {1, 2}]

MCOutcome(d, v) ==
    CASE v = 3 -> "noparse"
      [] v = 4 -> "nolink"
      [] v = 2 /\ d = "app" -> "exit1"
      [] OTHER -> "ok"
=============================================================================
