---- MODULE ForgeRows ----
\* The pull requests and checks that decorate the branch rows: what is asked
\* when a snapshot comes onto the screen, the cache that may answer it, and
\* which of several answers in flight is shown (useForgeStatus.ts, lib/forge.ts,
\* the lookups of status.rs).
EXTENDS Naturals, Sequences, SequencesExt

CONSTANTS
    RowScreens,    \* what a snapshot says: [repo, tips, head], tips pairs of
                   \* branch and commit, repo "" for no remote to ask
    ServiceLists,  \* the lists of pull requests the service may hold, newest first
    OwnerOf,       \* the owner of each repository asked about
    CheckedAtMost, \* MAX_CHECKED_BRANCHES
    RowBound       \* snapshots, settings and service changes of a behaviour

\* The service answers with lists, and they are lists of pull requests.
ASSUME RowAssumption ==
    \A l \in ServiceLists :
        /\ l \in Seq({l[i] : i \in DOMAIN l})
        /\ \A i \in DOMAIN l : DOMAIN l[i] = {"ref", "oid", "owner"}

VARIABLES
    rowScreen,  \* the snapshot on the screen
    rowWants,   \* the settings: [pulls, checks]
    lastTips,   \* the tips last asked about, NoTips before
    rowPulls,   \* what the rows show: the pull requests, one per branch
    rowPullsOf, \* the repository they were asked of
    rowChecks,  \* the checks shown, by branch: the commit and its state
    rowCalls,   \* the lookups in flight, those of an earlier effect too
    served,     \* what the service would list now, by repository
    listCache,  \* what the core holds of an earlier list, by repository
    rowSteps

rowVars == <<rowScreen, rowWants, lastTips, rowPulls, rowPullsOf, rowChecks, rowCalls,
             served, listCache, rowSteps>>

NoTips    == {<<"no branch", 0>>}
NoOwner   == "-"
NoHead    == "-"
NoList    == <<[ref |-> NoHead, oid |-> 0, owner |-> NoOwner]>>
NotWanted == <<>>
Asked     == {s.repo : s \in RowScreens} \ {""}

\* Those of the pull requests at these places that are the first of their branch.
FirstOfBranch(list, places) ==
    LET keep == {i \in places : \A j \in places : j < i => list[j].ref # list[i].ref}
        f[i \in 0..Len(list)] == IF i = 0 THEN <<>>
                                 ELSE IF i \in keep THEN Append(f[i - 1], list[i]) ELSE f[i - 1]
    IN  f[Len(list)]

\* A pull request of another owner is dropped, and the first of a branch wins.
PullsByBranch(list, owner) ==
    FirstOfBranch(list, {i \in DOMAIN list : list[i].owner \in {owner, NoOwner}})

\* The branches a check is asked for: those with a pull request, then HEAD's.
ChecksWanted(pulls, screen) ==
    LET refs == {pulls[i].ref : i \in DOMAIN pulls}
        tip  == {t \in screen.tips : t[1] = screen.head /\ t[1] \notin refs}
        all  == [i \in DOMAIN pulls |-> [branch |-> pulls[i].ref, oid |-> pulls[i].oid]]
                \o SetToSeq({[branch |-> t[1], oid |-> t[2]] : t \in tip})
    IN  SubSeq(all, 1, IF Len(all) > CheckedAtMost THEN CheckedAtMost ELSE Len(all))

\* A commit without a report has no badge; a branch is judged on its own commit.
ChecksByBranch(wanted, state) ==
    {[branch |-> wanted[i].branch, oid |-> wanted[i].oid, state |-> state[wanted[i].oid]] :
        i \in {k \in DOMAIN wanted : state[wanted[k].oid] # "none"}}

\* The cleanup of the effect: its call goes on, its answer is dropped.
KeptOnRows(calls) == calls

DroppedFromRows(calls) == {[c EXCEPT !.live = FALSE] : c \in calls}

CallsLeft(calls) == DroppedFromRows(calls)

\* The core answers from its cache unless it is told to refresh.
FromCache(repo, refresh) == IF refresh THEN NoList ELSE listCache[repo]

\* The two effects of a render with a new snapshot or new settings: starting
\* over when the repository or a setting is another one, then asking.
Ask(screen, wants, over) ==
    LET last    == IF over THEN NoTips ELSE lastTips
        asks    == screen.repo # "" /\ wants.pulls
        refresh == last # NoTips /\ last # screen.tips
    IN  /\ lastTips' = IF asks THEN screen.tips ELSE last
        /\ rowCalls' = CallsLeft(rowCalls) \cup
             (IF asks THEN {[live |-> TRUE, repo |-> screen.repo, refresh |-> refresh,
                             wanted |-> NotWanted, stage |-> "pulls",
                             hit |-> FromCache(screen.repo, refresh)]} ELSE {})
        /\ rowPulls' = IF over THEN <<>> ELSE rowPulls
        /\ rowPullsOf' = IF over THEN "" ELSE rowPullsOf
        /\ rowChecks' = IF over THEN {} ELSE rowChecks

StepRows == rowSteps < RowBound /\ rowSteps' = rowSteps + 1

ShowSnapshot ==
    \E s \in RowScreens :
        /\ StepRows
        /\ rowScreen' = s
        /\ Ask(s, rowWants, s.repo # rowScreen.repo)
        /\ UNCHANGED <<rowWants, served, listCache>>

SetRowSources ==
    \E w \in [pulls : BOOLEAN, checks : BOOLEAN] \ {rowWants} :
        /\ StepRows
        /\ rowWants' = w
        /\ Ask(rowScreen, w, TRUE)
        /\ UNCHANGED <<rowScreen, served, listCache>>

\* A pull request is opened, merged or pushed to.
ServiceChanges ==
    \E r \in Asked, l \in ServiceLists :
        /\ StepRows
        /\ served' = [served EXCEPT ![r] = l]
        /\ UNCHANGED <<rowScreen, rowWants, lastTips, rowPulls, rowPullsOf, rowChecks,
                       rowCalls, listCache>>

\* The entry of the cache runs out.
CacheExpires ==
    \E r \in Asked :
        /\ listCache[r] # NoList
        /\ listCache' = [listCache EXCEPT ![r] = NoList]
        /\ UNCHANGED <<rowScreen, rowWants, lastTips, rowPulls, rowPullsOf, rowChecks,
                       rowCalls, served, rowSteps>>

PullsArrive ==
    \E c \in rowCalls :
        LET list   == IF c.hit = NoList THEN served[c.repo] ELSE c.hit
            pulls  == PullsByBranch(list, OwnerOf[c.repo])
            wanted == ChecksWanted(pulls, rowScreen)
        IN
        /\ c.stage = "pulls"
        /\ listCache' = [listCache EXCEPT ![c.repo] = IF c.hit = NoList THEN list ELSE @]
        /\ rowPulls' = IF c.live THEN pulls ELSE rowPulls
        /\ rowPullsOf' = IF c.live THEN c.repo ELSE rowPullsOf
        /\ rowCalls' = (rowCalls \ {c}) \cup
             (IF c.live /\ rowWants.checks
              THEN {[c EXCEPT !.stage = "checks", !.wanted = wanted]} ELSE {})
        /\ UNCHANGED <<rowScreen, rowWants, lastTips, rowChecks, served, rowSteps>>

ChecksArrive ==
    \E c \in rowCalls :
        \E state \in [{c.wanted[i].oid : i \in DOMAIN c.wanted} -> {"none", "success"}] :
            /\ c.stage = "checks"
            /\ rowChecks' = IF c.live THEN ChecksByBranch(c.wanted, state) ELSE rowChecks
            /\ rowCalls' = rowCalls \ {c}
            /\ UNCHANGED <<rowScreen, rowWants, lastTips, rowPulls, rowPullsOf, served,
                           listCache, rowSteps>>

\* The service cannot be reached: nothing of the rows is touched.
LookupFails ==
    \E c \in rowCalls :
        /\ c.hit = NoList
        /\ rowCalls' = rowCalls \ {c}
        /\ UNCHANGED <<rowScreen, rowWants, lastTips, rowPulls, rowPullsOf, rowChecks,
                       served, listCache, rowSteps>>

RowInit ==
    /\ rowScreen = [repo |-> "", tips |-> NoTips, head |-> NoHead]
    /\ rowWants = [pulls |-> TRUE, checks |-> TRUE]
    /\ lastTips = NoTips /\ rowPulls = <<>> /\ rowPullsOf = "" /\ rowChecks = {}
    /\ rowCalls = {}
    /\ served \in [Asked -> ServiceLists]
    /\ listCache = [r \in Asked |-> NoList]
    /\ rowSteps = 0

RowNext == \/ ShowSnapshot \/ SetRowSources \/ ServiceChanges \/ CacheExpires
           \/ PullsArrive \/ ChecksArrive \/ LookupFails

RowSpec == RowInit /\ [][RowNext]_rowVars

RowTypeOK ==
    /\ rowPullsOf \in Asked \cup {""}
    /\ \A c \in rowCalls : c.repo \in Asked /\ c.stage \in {"pulls", "checks"} /\ c.refresh \in BOOLEAN
    /\ \A r \in Asked : served[r] \in ServiceLists /\ listCache[r] \in ServiceLists \cup {NoList}
    /\ rowSteps \in 0..RowBound

\* The rows carry pull requests and checks of the repository on the screen and of
\* no fork of it, one per branch, and none at all once the source is switched
\* off: an answer on its way when the snapshot or the settings changed is lost.
RowsAreOfRepository ==
    /\ rowPulls # <<>> => /\ rowPullsOf = rowScreen.repo
                          /\ rowWants.pulls
    /\ rowChecks # {} => rowPullsOf = rowScreen.repo /\ rowWants.checks
    /\ \A i, j \in DOMAIN rowPulls :
          /\ rowPulls[i].owner \in {OwnerOf[rowPullsOf], NoOwner}
          /\ i # j => rowPulls[i].ref # rowPulls[j].ref

\* Not held: "A service that cannot be reached leaves the rows plain"
\* (useForgeStatus.ts:99); they keep what they showed before.
PlainWhenUnreachable ==
    [][LookupFails /\ rowCalls' = {} => rowPulls' = <<>>]_rowVars

\* Not held: tips that moved ask the service "rather than answering from its
\* cache" (useForgeStatus.ts:86-88); a redraw before the answer drops it, and
\* asks again without the refresh.
NewsIsShown ==
    \A r \in Asked :
        (rowCalls = {} /\ rowPullsOf = r /\ listCache[r] # NoList)
            => rowPulls = PullsByBranch(listCache[r], OwnerOf[r])
====
