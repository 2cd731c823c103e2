---- MODULE MCCommands ----
EXTENDS ClientCommands

S(on, locals, up, rows, remotes, under, stashed) ==
    [head |-> on, locals |-> locals, up |-> up, rows |-> rows,
     remotes |-> remotes, operation |-> under, stashed |-> stashed]

\* A clone with a branch beside its own and a remote branch nothing local
\* follows; HEAD detached in a rebase, in a repository without a remote.
Screens == {S("main", {"main", "topic"}, {"main"}, {"other"}, 1, "normal", FALSE),
            S("none", {"main"}, {}, {}, 0, "rebase", TRUE)}

====
