----------------------------- MODULE DemoBackend -----------------------------
\* The in-memory backend of the browser preview (lib/demo.ts): the same calls as
\* the Git backend's, answered from one snapshot kept in a class.  Every call
\* waits for its delay and then runs to its end in one turn, so a call is one
\* step.  No handler of the demo starts a merge or leaves a conflict, so the
\* fields operation_state and conflicted keep their first values and the calls
\* about them only count a generation or are refused.  Commits are numbers:
\* negative for those of the seed, demoOid's argument for the others.
EXTENDS Integers, FiniteSets, Sequences, SequencesExt

CONSTANTS SeedParents,   \* parents of the seed commits, newest first, by index
          SeedBranches,  \* the local branches of the first snapshot
          SeedRemotes,   \* the remote ones
          SeedEntries,   \* the status entries of the first snapshot
          FreshNames,    \* names the user gives to branches and tags
          RenameTaken,   \* whether a branch may be renamed to a taken name
          Texts,         \* the messages the user writes
          PageLimit,     \* history_page_size
          DemoBound      \* bound on the generations of a behaviour

\* The first snapshot is on one of its branches, and no two have one name.
ASSUME DemoAssumption ==
    /\ SeedBranches \in Seq([name : STRING, oid : Int, is_head : BOOLEAN, upstream : STRING])
    /\ \A i, j \in DOMAIN SeedBranches : SeedBranches[i].name = SeedBranches[j].name => i = j
    /\ \E i \in DOMAIN SeedBranches :
          \A j \in DOMAIN SeedBranches : SeedBranches[j].is_head <=> j = i

VARIABLES isOpen, generation, commits, parents, message, labels, demoHead,
          branches, tags, entries, demoStashes, stashCount, seen, listing

NoName == "-"
NoText == ""
AppFile == "App.tsx"   \* the path a restored stash brings back

demoTreeVars == <<commits, parents>>
textVars == <<message, labels, tags>>
refVars == <<demoHead, branches>>
workVars == <<entries, demoStashes, stashCount>>
repoVars == <<demoTreeVars, textVars, refVars, workVars>>
clientVars == <<seen, listing>>
demoVars == <<isOpen, generation, repoVars, clientVars>>

\* What the snapshot, the stash list and the details tell a client.
Visible == [head |-> demoHead, branches |-> branches, entries |-> entries,
            stashes |-> demoStashes, commits |-> commits, message |-> message]

BranchIndex(name) == SelectInSeq(branches, LAMBDA b : b.name = name)
CommitIndex(oid) == SelectInSeq(commits, LAMBDA c : c = oid)
StashIndex(oid) == SelectInSeq(demoStashes, LAMBDA s : s = oid)
HeadEntry == SelectInSeq(branches, LAMBDA b : b.is_head)
CurrentBranchName == IF demoHead.kind = "branch" THEN demoHead.name ELSE NoName
HeadOid == demoHead.oid
KnownCommits == DOMAIN message
Clean == DOMAIN entries = {}

-----------------------------------------------------------------------------

NextGeneration == generation + 1

\* How a call ends: every one that succeeds counts a generation.
Mutation == generation' = NextGeneration

\* A call that throws has changed nothing before; code is the error's.
Refuse(code) == code \in STRING /\ UNCHANGED <<generation, repoVars>>

Calls == isOpen /\ generation < DemoBound /\ UNCHANGED <<isOpen, clientVars>>

\* setHeadOid writes the oid of the entry marked as head, whatever its name.
SetHeadOid(oid) ==
    /\ demoHead' = [demoHead EXCEPT !.oid = oid]
    /\ branches' = IF demoHead.kind = "branch" /\ HeadEntry > 0
                   THEN [branches EXCEPT ![HeadEntry].oid = oid] ELSE branches

\* A mutant: the mark of the branch that is left stays.
MarkedToo(list, index) ==
    [i \in DOMAIN list |-> [list[i] EXCEPT !.is_head = @ \/ i = index]]

Marked(list, index) ==
    [i \in DOMAIN list |-> [list[i] EXCEPT !.is_head = i = index]]

CheckoutValue(list, index) ==
    /\ branches' = Marked(list, index)
    /\ demoHead' = [kind |-> "branch", name |-> list[index].name,
                    oid |-> list[index].oid]

-----------------------------------------------------------------------------
\* Opening and closing: one flag for every tab of the client.
OpenDemo ==
    /\ isOpen' = TRUE
    /\ UNCHANGED <<generation, repoVars, clientVars>>

CloseDemo ==
    /\ isOpen /\ isOpen' = FALSE
    /\ UNCHANGED <<generation, repoVars, clientVars>>

CallWhenClosed ==
    /\ ~isOpen /\ Refuse("repository_closed") /\ UNCHANGED <<isOpen, clientVars>>

\* A dialog opens on what the screen shows: the expected state of its request.
OpenConfirmation ==
    /\ isOpen
    /\ seen' = [generation |-> generation, head_oid |-> HeadOid, shown |-> Visible]
    /\ UNCHANGED <<isOpen, generation, repoVars, listing>>

\* commitsForScope: a branch is listed from its tip down, in list order.
CommitsForScope(scope) ==
    LET all == branches \o SeedRemotes
        at == SelectInSeq(all, LAMBDA b : b.name = scope)
        start == IF at > 0 THEN CommitIndex(all[at].oid) ELSE 0
    IN  IF scope = NoName THEN commits
        ELSE IF start > 0 THEN SubSeq(commits, start, Len(commits)) ELSE <<>>

PageAt(scope, offset) ==
    SubSeq(CommitsForScope(scope), offset + 1,
           IF offset + PageLimit < Len(CommitsForScope(scope))
           THEN offset + PageLimit ELSE Len(CommitsForScope(scope)))

LoadPage(scope, before, offset, generations) ==
    LET page == PageAt(scope, offset)
        next == offset + Len(page)
    IN  /\ listing' = [scope |-> scope, commits |-> before \o page, next |-> next,
                       hasMore |-> next < Len(CommitsForScope(scope)),
                       generations |-> generations \cup {generation}]
        /\ UNCHANGED <<isOpen, generation, repoVars, seen>>

History ==
    /\ isOpen
    /\ \E scope \in {NoName} \cup {b.name : b \in ToSet(branches \o SeedRemotes)} :
          LoadPage(scope, <<>>, 0, {})

NextPage ==
    /\ isOpen /\ listing.hasMore
    /\ LoadPage(listing.scope, listing.commits, listing.next, listing.generations)

-----------------------------------------------------------------------------
\* The working tree: an entry has a staged and an unstaged side, or none.
StagedSide(entry) ==
    IF entry.worktree = "untracked" THEN "added"
    ELSE IF entry.worktree # "none" THEN entry.worktree
    ELSE IF entry.index # "none" THEN entry.index ELSE "modified"

StagePath ==
    /\ Calls
    /\ \E path \in DOMAIN entries :
          entries' = [entries EXCEPT ![path] =
                        [index |-> StagedSide(@), worktree |-> "none"]]
    /\ Mutation /\ UNCHANGED <<demoTreeVars, textVars, refVars, demoStashes, stashCount>>

UnstagePath ==
    /\ Calls
    /\ \E path \in {p \in DOMAIN entries : entries[p].index # "none"} :
          entries' = [entries EXCEPT ![path] =
                        [index |-> "none",
                         worktree |-> IF @.index = "added" THEN "untracked"
                                      ELSE @.index]]
    /\ Mutation /\ UNCHANGED <<demoTreeVars, textVars, refVars, demoStashes, stashCount>>

Without(paths) == Restrict(entries, DOMAIN entries \ paths)

DiscardPath ==
    /\ Calls
    /\ \E path \in DOMAIN entries : entries' = Without({path})
    /\ Mutation /\ UNCHANGED <<demoTreeVars, textVars, refVars, demoStashes, stashCount>>

\* stashFile counts a stash and lists none.
StashFile ==
    /\ Calls
    /\ \E path \in DOMAIN entries : entries' = Without({path})
    /\ stashCount' = stashCount + 1
    /\ Mutation /\ UNCHANGED <<demoTreeVars, textVars, refVars, demoStashes>>

StashSeed == generation + 500

StashPush ==
    /\ Calls
    /\ demoStashes' = <<StashSeed>> \o demoStashes
    /\ stashCount' = Len(demoStashes) + 1
    /\ entries' = Without(DOMAIN entries)
    /\ Mutation /\ UNCHANGED <<demoTreeVars, textVars, refVars>>

\* Applying replaces the whole status by one restored file.
StashApply ==
    /\ Calls
    /\ \E i \in DOMAIN demoStashes, pop \in BOOLEAN :
          demoStashes' = IF pop THEN RemoveAt(demoStashes, i) ELSE demoStashes
    /\ stashCount' = Len(demoStashes')
    /\ entries' = [p \in {AppFile} |-> [index |-> "none", worktree |-> "modified"]]
    /\ Mutation /\ UNCHANGED <<demoTreeVars, textVars, refVars>>

\* The calls that change nothing the demo keeps: gitignore, merge, fetch,
\* cherry-pick, revert, and the calls about conflicts and operations, none of
\* which there can be here.  They count a generation all the same.
CountOnly ==
    /\ Calls /\ Mutation /\ UNCHANGED repoVars

\* Resolving one file is refused, for no entry is in conflict; so is skipping a
\* merge.
ConflictCallRefused ==
    \/ Calls /\ Refuse("invalid_request")
    \/ Calls /\ Refuse("unsupported_operation")

-----------------------------------------------------------------------------
CommitSeed == Len(commits) + generation

\* createCommit puts the commit first and moves the head label to it.
CreateDemoCommit ==
    /\ Calls
    /\ \E text \in Texts \cup {NoText} :
          IF text = NoText THEN Refuse("invalid_request")
          ELSE LET oid == CommitSeed
                   name == IF demoHead.kind = "branch" THEN demoHead.name ELSE "main"
               IN  /\ commits' = <<oid>> \o commits
                   /\ parents' = [c \in KnownCommits \cup {oid} |->
                                    IF c = oid THEN {HeadOid} ELSE parents[c]]
                   /\ message' = [c \in KnownCommits \cup {oid} |->
                                    IF c = oid THEN text ELSE message[c]]
                   /\ labels' = [c \in KnownCommits \cup {oid} |->
                                    IF c = oid THEN {[name |-> name, is_head |-> TRUE]}
                                    ELSE {l \in labels[c] : ~l.is_head}]
                   /\ SetHeadOid(oid)
                   /\ entries' = Without(DOMAIN entries)
                   /\ Mutation /\ UNCHANGED <<tags, demoStashes, stashCount>>

\* rewordCommit rewrites the message in place and keeps the oid.
RewordDemoCommit ==
    /\ Calls
    /\ \E oid \in KnownCommits, text \in Texts \cup {NoText} :
          IF seen.generation # generation \/ seen.head_oid # HeadOid
          THEN Refuse("stale_snapshot")
          ELSE IF text = NoText THEN Refuse("invalid_settings")
          ELSE /\ message' = [message EXCEPT ![oid] = text]
               /\ Mutation
               /\ UNCHANGED <<demoTreeVars, labels, tags, refVars, workVars>>

CreateDemoTag ==
    /\ Calls
    /\ \E name \in FreshNames, oid \in KnownCommits :
          /\ tags' = Append(tags, name)
          /\ labels' = [labels EXCEPT ![oid] = @ \cup {[name |-> name, is_head |-> FALSE]}]
    /\ Mutation /\ UNCHANGED <<demoTreeVars, message, refVars, workVars>>

-----------------------------------------------------------------------------
CreateDemoBranch ==
    /\ Calls
    /\ \E name \in FreshNames, oid \in KnownCommits, checkout \in BOOLEAN :
          IF BranchIndex(name) > 0 THEN Refuse("invalid_ref_name")
          ELSE LET list == Append(branches, [name |-> name, oid |-> oid,
                                             is_head |-> FALSE, upstream |-> NoName])
               IN  /\ IF checkout THEN CheckoutValue(list, Len(list))
                      ELSE branches' = list /\ UNCHANGED demoHead
                   /\ Mutation /\ UNCHANGED <<demoTreeVars, textVars, workVars>>

CheckoutDemoBranch ==
    /\ Calls
    /\ \E name \in FreshNames \cup {b.name : b \in ToSet(branches)} :
          IF BranchIndex(name) = 0 THEN Refuse("invalid_ref_name")
          ELSE /\ CheckoutValue(branches, BranchIndex(name))
               /\ Mutation /\ UNCHANGED <<demoTreeVars, textVars, workVars>>

RenameHead(old, new) ==
    IF demoHead.kind = "branch" /\ demoHead.name = old
    THEN [demoHead EXCEPT !.name = new] ELSE demoHead

\* renameBranch does not look whether the new name is taken.
RenameDemoBranch ==
    /\ Calls
    /\ \E old \in {b.name : b \in ToSet(branches)},
          new \in FreshNames \cup {b.name : b \in ToSet(branches)} :
          /\ RenameTaken \/ BranchIndex(new) = 0
          /\ branches' = [branches EXCEPT ![BranchIndex(old)].name = new]
          /\ demoHead' = RenameHead(old, new)
    /\ Mutation /\ UNCHANGED <<demoTreeVars, textVars, workVars>>

\* The branches of other names, in their order.
OtherBranches(name) ==
    LET keep == {i \in DOMAIN branches : branches[i].name # name}
        f[i \in 0..Len(branches)] == IF i = 0 THEN <<>>
                                     ELSE IF i \in keep THEN Append(f[i - 1], branches[i])
                                     ELSE f[i - 1]
    IN  f[Len(branches)]

\* deleteBranch looks at the expected state first, then at its two guards.
DeleteDemoBranch ==
    /\ Calls
    /\ \E name \in {b.name : b \in ToSet(branches)},
          force \in BOOLEAN, confirmed \in BOOLEAN :
          IF seen.generation # generation \/ seen.head_oid # HeadOid
          THEN Refuse("stale_snapshot")
          ELSE IF (force /\ ~confirmed) \/ CurrentBranchName = name
          THEN Refuse("protected_operation")
          ELSE /\ branches' = OtherBranches(name)
               /\ Mutation
               /\ UNCHANGED <<demoTreeVars, textVars, demoHead, workVars>>

SetDemoUpstream ==
    /\ Calls
    /\ \E i \in DOMAIN branches, remote \in ToSet(SeedRemotes) :
          branches' = [branches EXCEPT ![i].upstream = remote.name]
    /\ Mutation /\ UNCHANGED <<demoTreeVars, textVars, demoHead, workVars>>

CheckoutDemoCommit ==
    /\ Calls
    /\ \E oid \in KnownCommits : demoHead' = [kind |-> "detached", name |-> NoName, oid |-> oid]
    /\ branches' = Marked(branches, 0)
    /\ Mutation /\ UNCHANGED <<demoTreeVars, textVars, workVars>>

ResetDemoCommit ==
    /\ Calls
    /\ \E oid \in KnownCommits, hard \in BOOLEAN, confirmed \in BOOLEAN :
          IF seen.generation # generation \/ seen.head_oid # HeadOid
          THEN Refuse("stale_snapshot")
          ELSE IF hard /\ ~confirmed THEN Refuse("protected_operation")
          ELSE /\ SetHeadOid(oid)
               /\ entries' = IF hard THEN Without(DOMAIN entries) ELSE entries
               /\ Mutation
               /\ UNCHANGED <<demoTreeVars, textVars, demoStashes, stashCount>>

DropDemoStash ==
    /\ Calls
    /\ \E i \in DOMAIN demoStashes, confirmed \in BOOLEAN :
          IF seen.generation # generation \/ seen.head_oid # HeadOid
          THEN Refuse("stale_snapshot")
          ELSE IF ~confirmed THEN Refuse("protected_operation")
          ELSE /\ demoStashes' = RemoveAt(demoStashes, i)
               /\ stashCount' = Len(demoStashes) - 1
               /\ Mutation /\ UNCHANGED <<demoTreeVars, textVars, refVars, entries>>

-----------------------------------------------------------------------------
\* commitActionAvailability goes by positions in the list, not by parents.
InHeadHistory(oid) == CommitIndex(HeadOid) > 0 /\ CommitIndex(oid) >= CommitIndex(HeadOid)

Enables(kind, oid) ==
    CASE kind = "checkout" -> Clean
      [] kind = "cherry_pick" -> ~InHeadHistory(oid) /\ Clean
      [] kind = "revert" -> InHeadHistory(oid) /\ Clean
      [] kind = "reword" -> InHeadHistory(oid)
      [] kind = "reset" -> demoHead.kind = "branch"
      [] OTHER -> TRUE

DemoInit ==
    /\ isOpen = TRUE /\ generation = 1
    /\ commits = [i \in DOMAIN SeedParents |-> 0 - i]
    /\ parents = [c \in {0 - i : i \in DOMAIN SeedParents} |->
                    {0 - p : p \in SeedParents[0 - c]}]
    /\ message = [c \in DOMAIN parents |-> "seed"]
    /\ branches = SeedBranches
    /\ demoHead = LET b == SeedBranches[SelectInSeq(SeedBranches, LAMBDA x : x.is_head)]
                  IN  [kind |-> "branch", name |-> b.name, oid |-> b.oid]
    /\ labels = [c \in DOMAIN parents |->
                   {[name |-> b.name, is_head |-> b.is_head] :
                      b \in {x \in ToSet(SeedBranches) : x.oid = c}}]
    /\ tags = <<>> /\ entries = SeedEntries
    /\ demoStashes = <<500>> /\ stashCount = 1
    /\ seen = [generation |-> 1, head_oid |-> HeadOid, shown |-> Visible]
    /\ listing = [scope |-> NoName, commits |-> <<>>, next |-> 0, hasMore |-> TRUE,
                  generations |-> {}]

DemoNext ==
    \/ OpenDemo \/ CloseDemo \/ CallWhenClosed \/ OpenConfirmation
    \/ History \/ NextPage
    \/ StagePath \/ UnstagePath \/ DiscardPath \/ StashFile \/ StashPush \/ StashApply
    \/ CountOnly \/ ConflictCallRefused
    \/ CreateDemoCommit \/ RewordDemoCommit \/ CreateDemoTag
    \/ CreateDemoBranch \/ CheckoutDemoBranch \/ RenameDemoBranch \/ DeleteDemoBranch
    \/ SetDemoUpstream \/ CheckoutDemoCommit \/ ResetDemoCommit \/ DropDemoStash

DemoSpec == DemoInit /\ [][DemoNext]_demoVars

-----------------------------------------------------------------------------
\* Types: the list, the messages, the parents and the labels are about the same
\* commits, each listed once, and no two stashes have one identity.
DemoTypeOK ==
    /\ generation \in 1..DemoBound /\ isOpen \in BOOLEAN
    /\ ToSet(commits) = DOMAIN message /\ DOMAIN parents = DOMAIN message
    /\ DOMAIN labels = DOMAIN message
    /\ IsInjective(commits) /\ IsInjective(demoStashes)
    /\ demoHead.oid \in DOMAIN message
    /\ \A i \in DOMAIN branches : branches[i].oid \in DOMAIN message
    /\ \A p \in DOMAIN entries : entries[p].index # "none" \/ entries[p].worktree # "none"

\* On a branch exactly one entry is marked as head, and it has the head's name
\* and commit; off one none is.  The client takes the branch a command is about
\* from the mark and the commit it is guarded by from the head.
HeadIsItsBranch ==
    LET marked == {i \in DOMAIN branches : branches[i].is_head}
    IN  IF demoHead.kind = "branch"
        THEN \E i \in DOMAIN branches :
                /\ marked = {i} /\ branches[i].name = demoHead.name
                /\ branches[i].oid = demoHead.oid
        ELSE marked = {}

\* A generation names a state: what a dialog showed is still what there is as
\* long as its generation is the current one.  This is all a confirmed delete,
\* reset, reword or drop is guarded by.
GenerationNamesState == seen.generation = generation => seen.shown = Visible

\* Pages read in one generation are the scope's commits, in order and whole once
\* no cursor is left.
ListingIsScope ==
    listing.generations = {generation} =>
        LET scoped == CommitsForScope(listing.scope)
        IN  /\ listing.commits = SubSeq(scoped, 1, Len(listing.commits))
            /\ ~listing.hasMore => listing.commits = scoped

Ancestors(oid) ==
    LET A[i \in DOMAIN commits] ==
            {commits[i]} \cup UNION {A[CommitIndex(p)] : p \in parents[commits[i]]}
    IN  A[CommitIndex(oid)]

\* A commit offered for cherry-picking is in nobody's past: it is no ancestor of
\* the head, though the offer only looks at places in the list.
PickIsNew ==
    \A oid \in DOMAIN message :
        Enables("cherry_pick", oid) => oid \notin Ancestors(HeadOid)

\* Not kept: the count of stashes is the length of their list (stashFile).
StashCountIsStashes == stashCount = Len(demoStashes)

\* Not kept: only commits of the head's past are offered for revert or reword.
RewordIsOfHistory ==
    \A oid \in DOMAIN message :
        Enables("reword", oid) => oid \in Ancestors(HeadOid)

\* Not kept: the graph's head label is on the head's commit.
HeadLabelOnHead ==
    \A oid \in DOMAIN message :
        (\E l \in labels[oid] : l.is_head) => oid = HeadOid

\* Not kept: a commit is listed once in the pages read (a commit made between
\* two pages shifts the second, whose cursor carries a generation nobody looks
\* at).
PagesDoNotRepeat == IsInjective(listing.commits)
=============================================================================
