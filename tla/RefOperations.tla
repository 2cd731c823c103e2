--------------------------- MODULE RefOperations ---------------------------
(***************************************************************************)
(* The operations on branches, tags and HEAD (backend.rs): create, switch, *)
(* rename, delete, upstream, merge, detached checkout, tag, cherry-pick,   *)
(* revert, reset and reword, with the guards gitcat puts before Git's own, *)
(* and commit_action_availability, which tells the client beforehand.      *)
(*                                                                         *)
(* A commit is its parents, its change and its message.  An operation      *)
(* reads (the revision, HEAD, the parents) and then runs one command;      *)
(* another program may act in between.  Conflicts that a merge or a pick   *)
(* leaves are ConflictSession's; here they only make the repository busy.  *)
(***************************************************************************)
EXTENDS Naturals, FiniteSets, Sequences, SequencesExt

CONSTANTS
    Branches, Main, RefSide,   \* branch names; HEAD is on Main, RefSide is beside it
    Tags,
    Graphs,          \* the histories to start from
    MaxCommits,      \* bound: commits
    MaxAside,        \* bound: moves of other programs
    MaxRequests      \* bound: operations of the client

ASSUME RefAssumption ==
    /\ Main \in Branches /\ RefSide \in Branches /\ Main # RefSide
    /\ "none" \notin Branches
    /\ MaxCommits \in Nat /\ MaxAside \in Nat /\ MaxRequests \in Nat
    /\ \A g \in Graphs :
        /\ g \in Seq([parents : Seq(Nat), change : Nat, message : Nat]) /\ Len(g) >= 3
        /\ \A i \in 1..Len(g) : ToSet(g[i].parents) \subseteq 1..(i - 1)

VARIABLES
    graph,      \* the commits, a parent before its children
    branches,   \* [branch -> commit, 0 when there is no such branch]
    tracking,   \* [branch -> commit of the remote-tracking branch, or 0]
    upstream,   \* [branch -> it follows its remote-tracking branch]
    tags,
    at,         \* HEAD: a branch (unborn when that has no commit) or a commit
    underWay,       \* an operation other than Normal is under way
    dirty,      \* the working tree is not clean
    refCall,    \* the operation under way
    aside, requests

refState == <<graph, branches, tracking, upstream, tags, at, underWay, dirty>>
refVars == <<refState, refCall, aside, requests>>

Oids == 1..Len(graph)
HeadOid == IF at.branch = "none" THEN at.oid ELSE branches[at.branch]
OnBranch == at.branch # "none" /\ HeadOid # 0
Parents(c) == ToSet(graph[c].parents)
IsMerge(c) == Len(graph[c].parents) > 1

(* The commits reachable from each, itself included.                       *)
Ancestors == LET anc[c \in Oids] == {c} \cup UNION {anc[p] : p \in Parents(c)} IN anc

Reaches(c) == IF c = 0 THEN {} ELSE Ancestors[c]
Refs == {branches[b] : b \in Branches} \cup {tracking[b] : b \in Branches}
            \cup {tags[t] : t \in Tags} \cup {HeadOid}
Reachable == UNION {Reaches(c) : c \in Refs}

Modes == {"soft", "mixed", "hard"}
NoRequest == [kind |-> "none", pc |-> "idle", name |-> Main, oid |-> 0, option |-> "none",
              confirmed |-> FALSE, mainline |-> 0, headWas |-> 0, moved |-> FALSE, answer |-> "none"]

RefInit ==
    /\ graph \in Graphs
    /\ \E unborn \in BOOLEAN, tip \in {3, Len(graph)} :
        branches = [b \in Branches |-> CASE b = Main -> IF unborn THEN 0 ELSE Len(graph)
                                         [] b = RefSide -> tip
                                         [] OTHER -> 0]
    /\ tracking = [b \in Branches |-> IF b = RefSide THEN 0 ELSE 1]
    /\ upstream = [b \in Branches |-> FALSE]
    /\ tags = [t \in Tags |-> 0]
    /\ at \in [branch : {Main}, oid : {0}] \cup [branch : {"none"}, oid : {2}]
    /\ underWay = FALSE
    /\ dirty \in BOOLEAN
    /\ refCall = NoRequest
    /\ aside = 0 /\ requests = 0

---------------------------------------------------------------------------
(* What the Git commands do.                                               *)

(* HEAD, or the branch it is on, moves to c.                               *)
MoveHead(c) ==
    IF at.branch = "none" THEN at' = [at EXCEPT !.oid = c] /\ UNCHANGED branches
    ELSE branches' = [branches EXCEPT ![at.branch] = c] /\ UNCHANGED at

NewCommit(parents, change, message) ==
    /\ Len(graph) < MaxCommits
    /\ graph' = Append(graph, [parents |-> parents, change |-> change, message |-> message])
    /\ MoveHead(Len(graph) + 1)

(* git merge: up to date, fast-forward or a merge commit.                  *)
MergeInto(c) ==
    CASE c \in Reaches(HeadOid) -> UNCHANGED <<graph, branches, at>>
      [] c \notin Reaches(HeadOid) /\ HeadOid \in Reaches(c) \cup {0} -> MoveHead(c) /\ UNCHANGED graph
      [] OTHER -> NewCommit(<<HeadOid, c>>, Len(graph) + 1, Len(graph) + 1)

(* The commits git rebase replays: those after c, merges left out.         *)
Replayed(c) == {d \in Reaches(HeadOid) \ Reaches(c) : ~IsMerge(d)}

(* The rebuilt commit of rebuild_commit_message, then git rebase --onto:   *)
(* each replayed commit on the one before it.                              *)
Rewritten(c) ==
    LET picks == <<c>> \o SetToSortSeq(Replayed(c), <)
    IN  graph \o [i \in 1..(1 + Cardinality(Replayed(c))) |->
            [parents |-> IF i = 1 THEN graph[c].parents ELSE <<Len(graph) + i - 1>>,
             change  |-> graph[picks[i]].change,
             message |-> IF i = 1 THEN Len(graph) + 1 ELSE graph[picks[i]].message]]

---------------------------------------------------------------------------
(* Other programs, and the end of an operation that stopped.               *)

Aside ==
    /\ aside < MaxAside /\ aside' = aside + 1
    /\ refCall' = IF refCall = NoRequest THEN refCall ELSE [refCall EXCEPT !.moved = TRUE]
    /\ UNCHANGED <<tracking, upstream, tags, requests>>

AsideSwitch(b) ==
    /\ Aside
    /\ branches[b] # 0 /\ at' = [branch |-> b, oid |-> 0]
    /\ UNCHANGED <<graph, branches, underWay, dirty>>

AsideCommit ==
    /\ Aside
    /\ HeadOid # 0 /\ NewCommit(<<HeadOid>>, Len(graph) + 1, Len(graph) + 1)
    /\ dirty' = FALSE
    /\ UNCHANGED underWay

OperationEnds ==
    /\ underWay
    /\ underWay' = FALSE
    /\ UNCHANGED <<graph, branches, tracking, upstream, tags, at, dirty, refCall, aside, requests>>

---------------------------------------------------------------------------
(* The guards.                                                             *)

(* commit_action_availability, from one look at the status.                *)
InHeadHistory(c) == c \in Reaches(HeadOid)
NoMergeAfter(c) == ~\E d \in Reaches(HeadOid) \ Reaches(c) : IsMerge(d)

Enabled(kind, c) ==
    /\ ~underWay
    /\ kind \in {"detach", "pick", "revert"} => ~dirty
    /\ CASE kind = "pick" -> HeadOid # 0 /\ ~InHeadHistory(c)
         [] kind = "revert" -> HeadOid # 0 /\ InHeadHistory(c)
         [] kind = "reset" -> OnBranch
         [] kind = "reword" -> HeadOid # 0 /\ InHeadHistory(c) /\ (HeadOid = c \/ NoMergeAfter(c))
         [] OTHER -> TRUE

(* reword_commit's own.                                                    *)
RewordRefusal(c) ==
    CASE underWay -> "in_progress"
      [] HeadOid = 0 -> "invalid"
      [] ~underWay /\ HeadOid = c -> "none"
      [] ~underWay /\ HeadOid \notin {0, c} -> IF InHeadHistory(c) /\ NoMergeAfter(c) THEN "none" ELSE "unsupported"

(* validate_mainline_parent.                                               *)
MainlineFits(c, m) == IF IsMerge(c) THEN m \in 1..Len(graph[c].parents) ELSE m = 0

---------------------------------------------------------------------------
(* The client's operations.  A name or a revision that Git does not take   *)
(* is refused in the first step.                                           *)

RefCall(kind, name, oid, option, confirmed, mainline) ==
    /\ refCall = NoRequest
    /\ requests < MaxRequests /\ requests' = requests + 1
    /\ refCall' = [NoRequest EXCEPT !.kind = kind, !.pc = "validate", !.name = name, !.oid = oid,
                    !.option = option, !.confirmed = confirmed, !.mainline = mainline]
    /\ UNCHANGED <<refState, aside>>

CreateBranch(b, c, option) == RefCall("create", b, c, option, FALSE, 0)
CheckoutBranch(b) == RefCall("switch", b, 0, "none", FALSE, 0)
RenameBranch(b, new) == RefCall("rename", b, 0, new, FALSE, 0)
DeleteBranch(b, force, ok) == RefCall("delete", b, 0, IF force THEN "-D" ELSE "-d", ok, 0)
SetUpstream(b) == RefCall("upstream", b, 0, "none", FALSE, 0)
MergeBranch(b) == RefCall("merge", b, 0, "none", FALSE, 0)
CheckoutCommit(c) == RefCall("detach", Main, c, "none", FALSE, 0)
CreateTag(t, c) == RefCall("tag", t, c, "none", FALSE, 0)
CherryPick(c, m) == RefCall("pick", Main, c, "none", FALSE, m)
RevertCommit(c, m) == RefCall("revert", Main, c, "none", FALSE, m)
ResetToCommit(c, mode, ok) == RefCall("reset", Main, c, mode, ok, 0)
RewordCommit(c) == RefCall("reword", Main, c, "none", FALSE, 0)

On(pc) == refCall.pc = pc
Refuse(a) == refCall' = [refCall EXCEPT !.pc = "done", !.answer = a]
Run == refCall' = [refCall EXCEPT !.pc = "command", !.moved = FALSE, !.headWas = HeadOid,
                            !.oid = IF refCall.kind = "merge" THEN branches[refCall.name] ELSE @]
Still == UNCHANGED <<refState, aside, requests>>

ValidateUnconfirmed ==
    /\ On("validate")
    /\ CASE refCall.kind = "merge" /\ branches[refCall.name] = 0 -> Refuse("invalid")
         [] refCall.kind = "upstream" /\ tracking[refCall.name] = 0 -> Refuse("invalid")
         [] refCall.kind \in {"pick", "revert"} /\ ~MainlineFits(refCall.oid, refCall.mainline) -> Refuse("invalid")
         [] refCall.kind \in {"reset", "reword"} -> refCall' = [refCall EXCEPT !.pc = "guards"]
         [] OTHER -> Run
    /\ Still

(* The confirmation, the names and the revision are looked at first.       *)
Validate ==
    /\ On("validate")
    /\ CASE refCall.kind = "delete" /\ refCall.option = "-D" /\ ~refCall.confirmed -> Refuse("protected")
         [] refCall.kind = "reset" /\ refCall.option = "hard" /\ ~refCall.confirmed -> Refuse("protected")
         [] refCall.kind = "merge" /\ branches[refCall.name] = 0 -> Refuse("invalid")
         [] refCall.kind = "upstream" /\ tracking[refCall.name] = 0 -> Refuse("invalid")
         [] refCall.kind \in {"pick", "revert"} /\ ~MainlineFits(refCall.oid, refCall.mainline) -> Refuse("invalid")
         [] refCall.kind \in {"reset", "reword"} -> refCall' = [refCall EXCEPT !.pc = "guards"] \/ Refuse("invalid")
         [] OTHER -> Run \/ Refuse("invalid")
    /\ Still

GuardsWhenClean ==
    /\ On("guards")
    /\ IF underWay \/ dirty THEN Refuse("in_progress") ELSE Run
    /\ Still

(* reset_to_commit's snapshot, reword_commit's guards.                     *)
Guards ==
    /\ On("guards")
    /\ IF refCall.kind = "reset"
       THEN CASE underWay -> Refuse("in_progress")
              [] ~underWay /\ ~OnBranch -> Refuse("unsupported")
              [] OTHER -> Run
       ELSE IF RewordRefusal(refCall.oid) = "none" THEN Run ELSE Refuse(RewordRefusal(refCall.oid))
    /\ Still

(* mutate_with: the command's own refusal, or a stop with conflicts, which *)
(* is a success that needs the user.                                       *)
Finished == refCall' = [refCall EXCEPT !.pc = "done", !.answer = "ok"]
              \/ refCall' = [refCall EXCEPT !.pc = "done", !.answer = "failed"]
Rest == UNCHANGED <<aside, requests>>

CommandFails == On("command") /\ Refuse("failed") /\ Still

(* git switch makes a local branch for a remote-tracking one of its name.  *)
SwitchTo(b) ==
    /\ branches[b] # 0 \/ tracking[b] # 0
    /\ branches' = [branches EXCEPT ![b] = IF @ = 0 THEN tracking[b] ELSE @]
    /\ upstream' = [upstream EXCEPT ![b] = @ \/ branches[b] = 0]
    /\ at' = [branch |-> b, oid |-> 0]

BranchCommand ==
    /\ On("command") /\ Finished /\ Rest
    /\ LET b == refCall.name IN
       \/ /\ refCall.kind = "create" /\ branches[b] = 0 /\ at.branch # b
          /\ branches' = [branches EXCEPT ![b] = refCall.oid]
          /\ at' = IF refCall.option = "checkout" THEN [branch |-> b, oid |-> 0] ELSE at
          /\ UNCHANGED <<tags, upstream>>
       \/ refCall.kind = "switch" /\ SwitchTo(b) /\ UNCHANGED tags
       \/ /\ refCall.kind = "rename" /\ branches[b] # 0 /\ branches[refCall.option] = 0
          /\ branches' = [branches EXCEPT ![refCall.option] = branches[b], ![b] = 0]
          /\ upstream' = [upstream EXCEPT ![refCall.option] = upstream[b], ![b] = FALSE]
          /\ at' = IF at.branch = b THEN [at EXCEPT !.branch = refCall.option] ELSE at
          /\ UNCHANGED tags
       \/ /\ refCall.kind = "delete" /\ branches[b] # 0 /\ at.branch # b
          /\ refCall.option = "-d" =>
               branches[b] \in Reaches(IF upstream[b] /\ tracking[b] # 0 THEN tracking[b] ELSE HeadOid)
          /\ branches' = [branches EXCEPT ![b] = 0] /\ upstream' = [upstream EXCEPT ![b] = FALSE]
          /\ UNCHANGED <<at, tags>>
       \/ /\ refCall.kind = "upstream" /\ branches[b] # 0 /\ tracking[b] # 0
          /\ upstream' = [upstream EXCEPT ![b] = TRUE]
          /\ UNCHANGED <<branches, at, tags>>
       \/ /\ refCall.kind = "detach" /\ at' = [branch |-> "none", oid |-> refCall.oid]
          /\ UNCHANGED <<branches, upstream, tags>>
    /\ UNCHANGED <<graph, tracking, underWay, dirty>>

TagCommand ==
    /\ On("command") /\ Finished /\ Rest
    /\ refCall.kind = "tag" /\ tags[refCall.name] = 0
    /\ tags' = [tags EXCEPT ![refCall.name] = refCall.oid]
    /\ UNCHANGED <<graph, branches, tracking, upstream, at, underWay, dirty>>

CommitCommand ==
    /\ On("command") /\ Rest
    /\ refCall.kind \in {"merge", "pick", "revert"} /\ ~underWay
    /\ \/ /\ Finished /\ UNCHANGED <<underWay, dirty>>
          /\ IF refCall.kind = "merge" THEN MergeInto(refCall.oid)
             ELSE HeadOid # 0 /\ NewCommit(<<HeadOid>>, Len(graph) + 1, Len(graph) + 1)
       \/ /\ Refuse("ok") /\ underWay' = TRUE /\ dirty' = TRUE
          /\ UNCHANGED <<graph, branches, at>>
    /\ UNCHANGED <<tracking, upstream, tags>>

ResetCommand ==
    /\ On("command") /\ Finished /\ Rest
    /\ refCall.kind = "reset" /\ MoveHead(refCall.oid)
    /\ dirty' = (dirty /\ refCall.option # "hard")
    /\ UNCHANGED <<graph, tracking, upstream, tags, underWay>>

(* The tip is amended in place; an older commit is rebuilt and the later   *)
(* ones replayed on it, with the changes of the working tree put aside.    *)
RewordCommand ==
    /\ On("command") /\ Finished /\ Rest
    /\ refCall.kind = "reword" /\ ~underWay /\ HeadOid # 0
    /\ graph' = IF refCall.headWas = refCall.oid
                THEN Append(graph, [graph[HeadOid] EXCEPT !.message = Len(graph) + 1])
                ELSE Rewritten(refCall.oid)
    /\ Len(graph') <= MaxCommits
    /\ MoveHead(Len(graph'))
    /\ UNCHANGED <<tracking, upstream, tags, underWay, dirty>>

Replied == On("done") /\ refCall' = NoRequest /\ Still

RequestStep ==
    \/ Validate \/ Guards
    \/ CommandFails \/ BranchCommand \/ TagCommand \/ CommitCommand \/ ResetCommand \/ RewordCommand
    \/ Replied

RefClient ==
    \/ \E b \in Branches :
        \/ CheckoutBranch(b) \/ SetUpstream(b) \/ MergeBranch(b)
        \/ \E new \in Branches : RenameBranch(b, new)
        \/ \E force, ok \in BOOLEAN : DeleteBranch(b, force, ok)
        \/ \E c \in Oids, option \in {"checkout", "none"} : CreateBranch(b, c, option)
    \/ \E c \in Oids :
        \/ CheckoutCommit(c) \/ RewordCommit(c)
        \/ \E t \in Tags : CreateTag(t, c)
        \/ \E m \in 0..2 : CherryPick(c, m) \/ RevertCommit(c, m)
        \/ \E mode \in Modes, ok \in BOOLEAN : ResetToCommit(c, mode, ok)

RefNext ==
    \/ RequestStep \/ RefClient
    \/ \E b \in Branches : AsideSwitch(b)
    \/ AsideCommit \/ OperationEnds

RefSpec == RefInit /\ [][RefNext]_refVars /\ WF_refVars(RequestStep)

---------------------------------------------------------------------------
(* Properties.                                                             *)

(* The type invariant.                                                     *)
RefTypeOK ==
    /\ \A c \in Oids : Parents(c) \subseteq 1..(c - 1)
    /\ branches \in [Branches -> {0} \cup Oids]
    /\ upstream \in [Branches -> BOOLEAN]
    /\ tags \in [Tags -> {0} \cup Oids]
    /\ at.branch \in Branches \cup {"none"} /\ at.oid \in {0} \cup Oids
    /\ (at.branch = "none") = (at.oid # 0)
    /\ underWay \in BOOLEAN /\ dirty \in BOOLEAN
    /\ refCall.answer \in {"none", "ok", "failed", "invalid", "protected", "unsupported", "in_progress"}

(* A commit that a ref leads to is still led to after every step, except   *)
(* by a reset, a forced deletion (confirmed) and a reword, and except the  *)
(* tip of a detached HEAD that is left.                                    *)
CommitsSurvive ==
    [][RequestStep =>
        \/ Reachable \subseteq Reachable'
        \/ refCall.kind \in {"reset", "reword"}
        \/ refCall.kind = "delete" /\ refCall.option = "-D" /\ refCall.confirmed
        \/ at.branch = "none" /\ Reachable \ Reachable' \subseteq Reaches(at.oid)]_refVars

(* An operation moves the branch it names or, unless HEAD was moved after  *)
(* it was looked at, the current one; no other branch.                     *)
OtherBranchesStay ==
    [][RequestStep => \A b \in Branches : branches'[b] # branches[b] =>
        \/ b \in {refCall.name, refCall.option} /\ refCall.kind \in {"create", "switch", "rename", "delete"}
        \/ b = at.branch /\ refCall.kind \in {"merge", "pick", "revert", "reset", "reword"}]_refVars

(* A reword changes one message and nothing else of the history of HEAD:   *)
(* no commit is dropped, reordered or flattened.                           *)
Line(g, c, from) ==
    LET back[d \in Nat] == IF d = 0 THEN <<>>
            ELSE LET p == g[d].parents
                 IN  Append(IF p = <<>> THEN <<>> ELSE back[p[1]], <<g[d].change, Len(p),
                            IF d = from THEN 0 ELSE g[d].message>>)
    IN  back[c]

RewordChangesOneMessage ==
    [][RewordCommand /\ ~refCall.moved =>
        LET old == Line(graph, HeadOid, refCall.oid)
            new == Line(graph', HeadOid', 0)
        IN  /\ Len(new) = Len(old)
            /\ \A i \in DOMAIN old : SubSeq(new[i], 1, 2) = SubSeq(old[i], 1, 2)
            /\ \A i \in DOMAIN old : old[i][3] # 0 => new[i][3] = old[i][3]
            /\ {graph'[c].change : c \in Ancestors'[HeadOid']} = {graph[c].change : c \in Ancestors[HeadOid]}]_refVars

(* backend.rs:2943, of the menu's answer: "the same guards reword_commit   *)
(* itself enforces".                                                       *)
RewordGuardsAgree == \A c \in Oids : Enabled("reword", c) <=> RewordRefusal(c) = "none"

(* What the menu offers gitcat does not refuse itself, if nobody moves in  *)
(* between (a hard reset needs the confirmation, a merge its mainline).    *)
OfferedIsAccepted ==
    [][(Validate \/ Guards) /\ refCall.kind \in {"detach", "tag", "pick", "revert", "reset", "reword"}
         /\ Enabled(refCall.kind, refCall.oid) /\ refCall'.answer \in {"unsupported", "in_progress"}
         => FALSE]_refVars

(* A reset moves a local branch while no other operation is under way,     *)
(* unless that changed after the snapshot.                                 *)
ResetOnBranch ==
    [][ResetCommand => refCall.moved \/ (~underWay /\ OnBranch /\ refCall.headWas = HeadOid)]_refVars

(* Every operation ends.                                                   *)
RequestsEnd == refCall # NoRequest ~> refCall = NoRequest
=============================================================================
