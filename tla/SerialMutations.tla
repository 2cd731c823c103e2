-------------------------- MODULE SerialMutations --------------------------
(***************************************************************************)
(* What the facade of gitcat-core promises about the repositories it keeps *)
(* open, without saying how.  A session is one repository handle; several  *)
(* sessions (linked worktrees) may share a common Git directory.  At any   *)
(* time at most one mutation works on a common directory, it belongs to a  *)
(* session that is open, only the end of a mutation changes the directory, *)
(* and a session is retired once and for all, never under a mutation.      *)
(***************************************************************************)
EXTENDS Naturals

CONSTANTS Tasks,        \* the callers
          Ids,          \* session handles
          CommonDirs    \* common Git directories

VARIABLES open,         \* sessions that accept mutations
          retired,      \* sessions that were closed
          working,      \* per common directory, the mutations at work: <<task, session>>
          changes       \* per common directory, how often gitcat changed it

vars == <<open, retired, working, changes>>

Init ==
    /\ open = {}
    /\ retired = {}
    /\ working = [c \in CommonDirs |-> {}]
    /\ changes = [c \in CommonDirs |-> 0]

OpenSession(i) ==
    /\ i \notin open \cup retired
    /\ open' = open \cup {i}
    /\ UNCHANGED <<retired, working, changes>>

CloseSession(i) ==
    /\ i \in open
    /\ \A c \in CommonDirs : \A t \in Tasks : <<t, i>> \notin working[c]
    /\ open' = open \ {i}
    /\ retired' = retired \cup {i}
    /\ UNCHANGED <<working, changes>>

BeginMutation(t, i, c) ==
    /\ i \in open
    /\ working[c] = {}
    /\ working' = [working EXCEPT ![c] = {<<t, i>>}]
    /\ UNCHANGED <<open, retired, changes>>

EndMutation(t, i, c) ==
    /\ working[c] = {<<t, i>>}
    /\ working' = [working EXCEPT ![c] = {}]
    /\ \/ changes' = [changes EXCEPT ![c] = @ + 1]
       \/ UNCHANGED changes
    /\ UNCHANGED <<open, retired>>

Next ==
    \/ \E i \in Ids : OpenSession(i) \/ CloseSession(i)
    \/ \E t \in Tasks, i \in Ids, c \in CommonDirs :
          BeginMutation(t, i, c) \/ EndMutation(t, i, c)

Spec == Init /\ [][Next]_vars
=============================================================================
