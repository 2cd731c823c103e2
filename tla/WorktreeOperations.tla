------------------------ MODULE WorktreeOperations ------------------------
(***************************************************************************)
(* The operations on the working tree: stage, unstage, discard, stash some *)
(* files or all, apply, pop and drop a stash, ignore, commit and the first *)
(* commit (backend.rs).  Each is a few Git commands and file accesses, and *)
(* a file, the index or the list of stashes may be changed by another      *)
(* program between any two of them.                                        *)
(*                                                                         *)
(* A content is a number, 0 when the file is not there; every edit and     *)
(* every generated file is a content of its own.  Some commands read a     *)
(* path as a pattern (none has --literal-pathspecs here): PathMatches are  *)
(* the files it stands for.  Conflicted files are ConflictSession's.                   *)
(***************************************************************************)
EXTENDS Naturals, FiniteSets, Sequences, SequencesExt

CONSTANTS
    Files, Readme,   \* the paths of the repository, README.md among them
    PathMatches,     \* [Files -> SUBSET Files]: what Git takes a path for
    MaxContent,      \* bound: contents
    MaxOutside,      \* bound: moves of other programs
    MaxOperations    \* bound: operations of the client

ASSUME WorktreeAssumption ==
    /\ Readme \in Files /\ IsFiniteSet(Files)
    /\ PathMatches \in [Files -> SUBSET Files]
    /\ \A f \in Files : f \in PathMatches[f]
    /\ MaxContent \in Nat \ {0} /\ MaxOutside \in Nat /\ MaxOperations \in Nat

VARIABLES
    born,       \* HEAD has a commit
    head, staged, files,   \* contents in HEAD, in the index, in the working tree
    committed,  \* [file -> contents of some commit]
    stashes,    \* the stash list, the newest first
    ignore,     \* the lines of .gitignore
    lastContent, lastStash,
    job,        \* the operation under way
    outside, operations

repoState == <<born, head, staged, files, committed, stashes, ignore, lastContent, lastStash>>
worktreeVars == <<repoState, job, outside, operations>>

FileContents == 0..MaxContent
Patterns == {"*.log"}

NoJob == [kind |-> "none", pc |-> "idle", paths |-> {}, stash |-> 0, at |-> 0, known |-> {},
          tracked |-> FALSE, shown |-> [f \in Files |-> 0], index |-> [f \in Files |-> 0],
          moved |-> FALSE, answer |-> "none"]

WorktreeInit ==
    /\ born \in BOOLEAN
    /\ head = [f \in Files |-> IF born /\ f # Readme THEN 1 ELSE 0]
    /\ staged = head
    /\ files \in {head, [f \in Files |-> 1]}
    /\ committed = [f \in Files |-> {head[f]}]
    /\ stashes = <<>>
    /\ ignore = {"build/"}
    /\ lastContent = 1 /\ lastStash = 0
    /\ job = NoJob
    /\ outside = 0 /\ operations = 0

---------------------------------------------------------------------------
(* What the Git commands do.                                               *)

Matched(P) == UNION {PathMatches[f] : f \in P}
Tracked(f) == staged[f] # 0 \/ head[f] # 0
Over(old, P, new) == [f \in Files |-> IF f \in P THEN new[f] ELSE old[f]]

(* git add -A of the paths.                                                *)
Add(P) == staged' = Over(staged, Matched(P), files)

(* git restore --staged, which needs a commit.                             *)
RestoreStaged(P) == staged' = IF born THEN Over(staged, Matched(P), head) ELSE staged

NothingStaged == [f \in Files |-> 0]

CommitIndex ==
    /\ head' = staged
    /\ committed' = [f \in Files |-> committed[f] \cup {staged[f]}]
    /\ born' = TRUE

Dirty(P) == \E f \in Matched(P) : Tracked(f) /\ (files[f] # head[f] \/ staged[f] # head[f])

(* git stash push of the paths: their tracked changes, or nothing when     *)
(* there are none.                                                         *)
StashAway(P) ==
    IF ~Dirty(P) THEN UNCHANGED <<stashes, lastStash, files, staged>>
    ELSE /\ lastStash' = lastStash + 1
         /\ stashes' = <<[id |-> lastStash', files |-> [f \in Files |->
                            IF f \in Matched(P) /\ Tracked(f) THEN files[f] ELSE head[f]]]>> \o stashes
         /\ files' = [f \in Files |-> IF f \in Matched(P) /\ Tracked(f) THEN head[f] ELSE files[f]]
         /\ staged' = Over(staged, Matched(P), head)

---------------------------------------------------------------------------
(* Other programs.                                                         *)

Outside ==
    /\ outside < MaxOutside /\ outside' = outside + 1
    /\ job' = IF job = NoJob THEN job ELSE [job EXCEPT !.moved = TRUE]
    /\ UNCHANGED <<operations, ignore>>

OutsideEdit(f) ==
    /\ Outside
    /\ \/ /\ lastContent < MaxContent /\ lastContent' = lastContent + 1
          /\ files' = [files EXCEPT ![f] = lastContent']
       \/ files' = [files EXCEPT ![f] = 0] /\ UNCHANGED lastContent
    /\ UNCHANGED <<born, head, staged, committed, stashes, lastStash>>

OutsideCommit ==
    /\ Outside
    /\ staged' = files
    /\ head' = files /\ born' = TRUE
    /\ committed' = [f \in Files |-> committed[f] \cup {files[f]}]
    /\ UNCHANGED <<files, stashes, lastContent, lastStash>>

OutsideStash ==
    /\ Outside
    /\ born /\ Dirty(Files) /\ StashAway(Files)
    /\ UNCHANGED <<born, head, committed, lastContent>>

OutsideDrop ==
    /\ Outside
    /\ \E i \in DOMAIN stashes : stashes' = RemoveAt(stashes, i)
    /\ UNCHANGED <<born, head, staged, files, committed, lastContent, lastStash>>

---------------------------------------------------------------------------
(* The client's operations and their steps.                                *)

Start(kind, pc, paths, stash) ==
    /\ job = NoJob
    /\ operations < MaxOperations /\ operations' = operations + 1
    /\ job' = [NoJob EXCEPT !.kind = kind, !.pc = pc, !.paths = paths, !.stash = stash,
                            !.shown = IF kind = "discard" THEN files ELSE @,
                            !.index = IF kind \in {"stash_paths", "stash_push"} THEN staged ELSE @]
    /\ UNCHANGED <<repoState, outside>>

StagePaths(P) == Start("stage", "add", P, 0)
UnstagePaths(P) == Start("unstage", "head", P, 0)
(* InspectorPane asks for a confirmation of what the list shows.           *)
DiscardPaths(P) == Start("discard", "list", P, 0)
StashPaths(P) == Start("stash_paths", "add_all", P, 0)
StashPush == Start("stash_push", "add_all", Files, 0)
StashApply(s) == Start("apply", "resolve", {}, s)
StashPop(s) == Start("pop", "resolve", {}, s)
StashDrop(s) == Start("drop", "resolve", {}, s)
AppendGitignore == Start("ignore", "read_ignore", {}, 0)
CreateCommit == Start("commit", "commit", {}, 0)
CreateInitialCommit == Start("initial", "head", {Readme}, 0)

OnPc(pc) == job.pc = pc
Proceed(pc) == job' = [job EXCEPT !.pc = pc]
Done(a) == job' = [job EXCEPT !.pc = "done", !.answer = a]
Same == UNCHANGED <<outside, operations>>
Keep == Same /\ UNCHANGED repoState

(* mutate_with and mutation_result: the command is done, and its answer is *)
(* lost when the state cannot be read back.                                *)
DoneOrLost == Done("ok") \/ Done("failed")

Stage ==
    /\ OnPc("add")
    /\ \/ Add(job.paths) /\ DoneOrLost
       \/ Done("failed") /\ UNCHANGED staged
    /\ Same /\ UNCHANGED <<born, head, files, committed, stashes, ignore, lastContent, lastStash>>

(* head_oid, which decides between two commands.                           *)
ReadHead ==
    /\ OnPc("head")
    /\ IF job.kind = "initial" /\ born THEN Done("invalid")
       ELSE job' = [job EXCEPT !.tracked = born, !.moved = FALSE,
                               !.shown = IF job.kind = "initial" THEN files ELSE @,
                               !.index = IF job.kind = "initial" THEN staged ELSE @,
                               !.pc = IF job.kind = "initial" THEN "readme" ELSE "unstage"]
    /\ Keep

Unstage ==
    /\ OnPc("unstage")
    /\ \/ /\ IF job.tracked THEN RestoreStaged(job.paths)
             ELSE staged' = Over(staged, job.paths, NothingStaged)
          /\ DoneOrLost
       \/ Done("failed") /\ UNCHANGED staged
    /\ Same /\ UNCHANGED <<born, head, files, committed, stashes, ignore, lastContent, lastStash>>

(* discard_paths: ls-files tells the tracked paths from the others.        *)
ListTracked ==
    /\ OnPc("list")
    /\ job' = [job EXCEPT !.pc = "restore", !.moved = FALSE, !.tracked = born,
                          !.known = {f \in job.paths : staged[f] # 0}]
    /\ Keep

\* Mutant of RestoreTracked: only the working tree is restored.
RestoreWorktree ==
    /\ OnPc("restore")
    /\ files' = Over(files, job.known, head) /\ Proceed("clean")
    /\ Same /\ UNCHANGED <<born, head, staged, committed, stashes, ignore, lastContent, lastStash>>

RestoreTracked ==
    /\ OnPc("restore")
    /\ \/ /\ Proceed("clean")
          /\ IF ~job.tracked
             THEN staged' = Over(staged, job.known, NothingStaged) /\ UNCHANGED files
             ELSE staged' = Over(staged, job.known, head) /\ files' = Over(files, job.known, head)
       \/ job.known # {} /\ Done("failed") /\ UNCHANGED <<staged, files>>
    /\ Same /\ UNCHANGED <<born, head, committed, stashes, ignore, lastContent, lastStash>>

CleanUntracked ==
    /\ OnPc("clean")
    /\ \/ /\ files' = [f \in Files |-> IF f \in Matched(job.paths \ job.known) /\ staged[f] = 0
                                       THEN 0 ELSE files[f]]
          /\ DoneOrLost
       \/ job.paths # job.known /\ Done("failed") /\ UNCHANGED files
    /\ Same /\ UNCHANGED <<born, head, staged, committed, stashes, ignore, lastContent, lastStash>>

(* stash_paths and stash_push: everything is added first, so that a plain  *)
(* stash takes the untracked files too.  A message that is too long is     *)
(* found out only then.                                                    *)
AddAll ==
    /\ OnPc("add_all")
    /\ \/ Add(job.paths) /\ (Proceed("stash") \/ Done("failed") \/ Done("invalid"))
       \/ Done("failed") /\ UNCHANGED staged
    /\ Same /\ UNCHANGED <<born, head, files, committed, stashes, ignore, lastContent, lastStash>>

\* Mutant of PushStash: a failed stash cleans up with a restore of the files.
PushStashOrReset ==
    /\ OnPc("stash")
    /\ \/ born /\ StashAway(job.paths) /\ Done("ok")
       \/ files' = Over(files, job.paths, head) /\ Proceed("unstage_again") /\ UNCHANGED <<stashes, lastStash, staged>>
    /\ Same /\ UNCHANGED <<born, head, committed, ignore, lastContent>>

PushStash ==
    /\ OnPc("stash")
    /\ \/ born /\ StashAway(job.paths) /\ (Done("ok") \/ Proceed("unstage_again"))
       \/ Proceed("unstage_again") /\ UNCHANGED <<stashes, lastStash, files, staged>>
    /\ Same /\ UNCHANGED <<born, head, committed, ignore, lastContent>>

(* The error of the stash is kept, whatever the restore does.              *)
UnstageAgain ==
    /\ OnPc("unstage_again")
    /\ RestoreStaged(job.paths) \/ UNCHANGED staged
    /\ Done("failed")
    /\ Same /\ UNCHANGED <<born, head, files, committed, stashes, ignore, lastContent, lastStash>>

(* resolve_stash_index: the live list is read again, the commit looked up. *)
ResolveStashIndex ==
    /\ OnPc("resolve")
    /\ IF \E i \in DOMAIN stashes : stashes[i].id = job.stash
       THEN job' = [job EXCEPT !.pc = "stash_command", !.moved = FALSE,
                       !.at = CHOOSE i \in DOMAIN stashes : stashes[i].id = job.stash]
       ELSE Done("invalid")
    /\ Keep

(* git stash apply or pop over a clean file takes the stashed content; it  *)
(* refuses over a changed one, and a pop that ends in conflicts keeps the  *)
(* stash.                                                                  *)
Taken(s) == [f \in Files |-> IF f \in {g \in Files : s.files[g] \notin committed[g]}
                             THEN s.files[f] ELSE files[f]]
CanTake(s) == \A f \in Files : Taken(s)[f] # files[f] => files[f] = head[f] /\ staged[f] = head[f]

StashCommand ==
    /\ OnPc("stash_command")
    /\ \/ /\ job.at \in DOMAIN stashes
          /\ job.kind # "drop" => CanTake(stashes[job.at])
          /\ files' = IF job.kind = "drop" THEN files ELSE Taken(stashes[job.at])
          /\ stashes' = IF job.kind = "apply" THEN stashes ELSE RemoveAt(stashes, job.at)
          /\ DoneOrLost
       \/ Done("failed") /\ UNCHANGED <<files, stashes>>
    /\ Same /\ UNCHANGED <<born, head, staged, committed, ignore, lastContent, lastStash>>

(* append_gitignore reads the file, or takes it for empty when it cannot   *)
(* (another encoding), and writes it whole.                                *)
WriteGitignore ==
    /\ OnPc("read_ignore")
    /\ \E existing \in {ignore, {}} :
          \/ Patterns \subseteq existing /\ Done("ok") /\ UNCHANGED ignore
          \/ ~ Patterns \subseteq existing /\ ignore' = existing \cup Patterns /\ DoneOrLost
          \/ Done("failed") /\ UNCHANGED ignore
    /\ Same /\ UNCHANGED <<born, head, staged, files, committed, stashes, lastContent, lastStash>>

(* create_initial_commit: what is staged, or else a README that is written *)
(* only when there is none.                                                *)
WriteInitialReadme ==
    /\ OnPc("readme")
    /\ CASE \E f \in Files : staged[f] # 0 -> Proceed("commit") /\ UNCHANGED <<files, lastContent>>
         [] OTHER ->
            \/ /\ Proceed("add_readme")
               /\ IF files[Readme] # 0 THEN UNCHANGED <<files, lastContent>>
                  ELSE /\ lastContent < MaxContent /\ lastContent' = lastContent + 1
                       /\ files' = [files EXCEPT ![Readme] = lastContent']
            \/ Done("failed") /\ UNCHANGED <<files, lastContent>>
    /\ Same /\ UNCHANGED <<born, head, staged, committed, stashes, ignore, lastStash>>

AddReadme ==
    /\ OnPc("add_readme")
    /\ \/ Add({Readme}) /\ Proceed("commit")
       \/ Done("failed") /\ UNCHANGED staged
    /\ Same /\ UNCHANGED <<born, head, files, committed, stashes, ignore, lastContent, lastStash>>

(* An empty message is refused first; a hook may refuse the commit.        *)
Commit ==
    /\ OnPc("commit")
    /\ \/ CommitIndex /\ DoneOrLost
       \/ (Done("failed") \/ Done("invalid")) /\ UNCHANGED <<head, committed, born>>
    /\ Same /\ UNCHANGED <<staged, files, stashes, ignore, lastContent, lastStash>>

Answered == OnPc("done") /\ job' = NoJob /\ Keep

JobStep ==
    \/ Stage \/ ReadHead \/ Unstage \/ ListTracked \/ RestoreTracked \/ CleanUntracked
    \/ AddAll \/ PushStash \/ UnstageAgain \/ ResolveStashIndex \/ StashCommand
    \/ WriteGitignore \/ WriteInitialReadme \/ AddReadme \/ Commit
    \/ Answered

WorktreeClient ==
    \/ \E P \in SUBSET Files \ {{}} :
            StagePaths(P) \/ UnstagePaths(P) \/ DiscardPaths(P) \/ StashPaths(P)
    \/ \E s \in 1..lastStash : StashApply(s) \/ StashPop(s) \/ StashDrop(s)
    \/ StashPush \/ AppendGitignore \/ CreateCommit \/ CreateInitialCommit

WorktreeNext ==
    \/ JobStep \/ WorktreeClient
    \/ \E f \in Files : OutsideEdit(f)
    \/ OutsideCommit \/ OutsideStash \/ OutsideDrop

WorktreeSpec == WorktreeInit /\ [][WorktreeNext]_worktreeVars /\ WF_worktreeVars(JobStep)

---------------------------------------------------------------------------
(* Properties.                                                             *)

(* The type invariant.                                                     *)
WorktreeTypeOK ==
    /\ born \in BOOLEAN
    /\ head \in [Files -> FileContents] /\ staged \in [Files -> FileContents]
    /\ files \in [Files -> FileContents]
    /\ committed \in [Files -> SUBSET FileContents]
    /\ ToSet(stashes) \subseteq [id : 1..lastStash, files : [Files -> FileContents]]
    /\ ignore \subseteq Patterns \cup {"build/"}
    /\ job.paths \subseteq Files /\ job.known \subseteq job.paths /\ job.stash \in 0..lastStash
    /\ job.answer \in {"none", "ok", "failed", "invalid"}

(* A content of file f can be got back.                                    *)
Kept(f, c) ==
    \/ c = 0 \/ files[f] = c \/ staged[f] = c \/ c \in committed[f]
    \/ \E i \in DOMAIN stashes : stashes[i].files[f] = c

(* Only discarding a file loses what is in it: every other operation, a    *)
(* failing one too, leaves the content of a working file in the working    *)
(* tree, the index, a commit or a stash; and discarding touches no file    *)
(* but the chosen ones.                                                    *)
WorkIsKept ==
    [][\A f \in Files, c \in FileContents : JobStep /\ files[f] = c
         => Kept(f, c)' \/ (job.kind = "discard" /\ f \in job.paths)]_worktreeVars

(* A stash leaves the list only when it is the one that was named (or the  *)
(* list was moved after it was read), and a popped one is in the working   *)
(* tree then.                                                              *)
NamedStashGoes ==
    [][\A i \in DOMAIN stashes : JobStep /\ stashes[i] \notin ToSet(stashes')
         => /\ job.kind \in {"pop", "drop"}
            /\ stashes[i].id = job.stash \/ job.moved
            /\ job.kind = "pop" =>
                 \A f \in Files, c \in FileContents : stashes[i].files[f] = c => Kept(f, c)']_worktreeVars

Undisturbed(kind) == job.pc = "done" /\ job.kind = kind /\ job.answer = "ok" /\ ~job.moved

(* After a success, unstaged paths are in the index as they are in HEAD,   *)
(* also when HEAD has no commit.                                           *)
UnstagedIsHead == Undisturbed("unstage") => \A f \in job.paths : staged[f] = head[f]

Discarded(f) == staged[f] = head[f] /\ (born \/ f \notin job.known => files[f] = head[f])

(* After a success, a discarded path that was in the index or is not in    *)
(* HEAD is as in HEAD; when there is no commit yet it is untracked.        *)
DiscardedIsHead ==
    Undisturbed("discard") => \A f \in job.paths : f \in job.known \/ head[f] = 0 => Discarded(f)

(* InspectorPane.tsx:114, before a discard: "Discard all changes to ...?"  *)
(* After a success no change of the chosen paths is left, a staged         *)
(* deletion neither.                                                       *)
AllChangesDiscarded == Undisturbed("discard") => \A f \in job.paths : Discarded(f)

(* The first commit is what the user had staged, whole and alone; when     *)
(* nothing was staged it is the README, an existing one as it was.         *)
FirstCommitIsChosen ==
    Undisturbed("initial") =>
        IF \E f \in Files : job.index[f] # 0 THEN head = job.index
        ELSE /\ \A f \in Files \ {Readme} : head[f] = 0
             /\ head[Readme] # 0 /\ (job.shown[Readme] # 0 => head[Readme] = job.shown[Readme])

(* A stash that succeeds leaves no change of its paths behind.             *)
StashedIsClean ==
    Undisturbed("stash_paths") \/ Undisturbed("stash_push") => \A f \in job.paths : files[f] = head[f]

(* Every operation ends.                                                   *)
JobsEnd == job # NoJob ~> job = NoJob

(* README.md:241, of discarding changes and others: "require explicit      *)
(* confirmation plus a current matching snapshot.  The core rejects stale  *)
(* dialogs."  What a discard destroys is what the dialog was about.        *)
DiscardedWasShown ==
    [][\A f \in Files, c \in FileContents : JobStep /\ job.kind = "discard" /\ files[f] = c
         => Kept(f, c)' \/ job.shown[f] = c \/ job.moved]_worktreeVars

(* What append_gitignore appends to stays in the file.                     *)
IgnoreOnlyGrows == [][ignore \subseteq ignore']_ignore

(* A stash that fails leaves the user's staging as it was.                 *)
FailedStashKeepsStaging ==
    job.pc = "done" /\ job.kind \in {"stash_paths", "stash_push"} /\ job.answer # "ok" /\ ~job.moved
      => \A f \in Files : staged[f] = job.index[f] \/ files[f] = head[f]
==========================================================================
