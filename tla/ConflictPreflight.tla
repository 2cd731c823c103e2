---- MODULE ConflictPreflight ----
\* The conflict indicator of the toolbar: the trial merge of the branch on the
\* screen with a chosen target, asked again whenever either side moves, and the
\* label shown while answers are on their way (useConflictPreflight.ts).
EXTENDS Naturals

CONSTANTS
    Targets,      \* the branches to compare with
    FirstTarget,  \* default_conflict_target of a snapshot
    TrialTabs,    \* the tabs, each of its own repository
    TrialBound    \* switches, loads, choices and moves of a behaviour

ASSUME TargetAssumption == FirstTarget \in Targets

VARIABLES
    trialTab,     \* the active tab, NoTab for none
    targetChosen, \* what each tab says: a target, Default or Disabled
    repoAt,       \* each repository as it is: [head, at, conflicts]
    trialView,    \* the snapshot on the screen, Blank before it is loaded
    preflight,    \* the answer shown, NoAnswer for none
    checking,     \* conflictPreflightLoading
    trials,       \* the trial merges in flight, with the snapshot they were asked at
    trialSeq, trialSteps

trialVars == <<trialTab, targetChosen, repoAt, trialView, preflight, checking, trials,
               trialSeq, trialSteps>>

NoTab    == "no tab"
Default  == "default"
Disabled == "disabled"
NoTarget == "no target"
Oids     == 0..2  \* 0: no such branch, or no commit yet
Blank    == [head |-> 0, at |-> [t \in Targets |-> 0], conflicts |-> FALSE, loaded |-> FALSE]
NoAnswer == [tab |-> NoTab, target |-> NoTarget, head |-> 0, oid |-> 0, state |-> "none"]

\* The target of a tab: its own, none, or what the snapshot proposes.
conflictTarget(tab, chosen, view) ==
    IF tab = NoTab \/ chosen[tab] = Disabled THEN NoTarget
    ELSE IF chosen[tab] # Default THEN chosen[tab]
    ELSE IF view.loaded THEN FirstTarget ELSE NoTarget

conflictTargetOid(view, target) == IF target = NoTarget THEN 0 ELSE view.at[target]

\* What the effect depends on: it runs again when one of these is another.
DepsWithTips(tab, chosen, view) ==
    LET t == conflictTarget(tab, chosen, view)
    IN  <<view.conflicts, tab, view.head, t, conflictTargetOid(view, t)>>

Deps(tab, chosen, view) ==
    DepsWithTips(tab, chosen, view)

\* The effect: it gives up what is in flight, and asks when there is what to ask.
TryMerge(tab, chosen, view) ==
    LET target == conflictTarget(tab, chosen, view)
        asks   == tab # NoTab /\ ~view.conflicts /\ target # NoTarget
    IN  IF Deps(tab, chosen, view) = Deps(trialTab, targetChosen, trialView)
        THEN UNCHANGED <<preflight, checking, trials, trialSeq>>
        ELSE /\ trialSeq' = trialSeq + 1
             /\ preflight' = NoAnswer
             /\ checking' = asks
             /\ trials' = trials \cup
                  (IF asks THEN {[seq |-> trialSeq + 1, tab |-> tab, target |-> target,
                                  head |-> view.head, oid |-> conflictTargetOid(view, target)]}
                   ELSE {})

StepTrial == trialSteps < TrialBound /\ trialSteps' = trialSteps + 1

\* Another tab: its screen is blank until its overview comes. (The effect may
\* run once more on the way, with an answer nobody hears.)
SwitchTab ==
    \E t \in (TrialTabs \cup {NoTab}) \ {trialTab} :
        /\ StepTrial
        /\ trialTab' = t /\ trialView' = Blank
        /\ TryMerge(t, targetChosen, Blank)
        /\ UNCHANGED <<targetChosen, repoAt>>

TrialOverview ==
    /\ trialTab # NoTab
    /\ StepTrial
    /\ trialView' = repoAt[trialTab]
    /\ TryMerge(trialTab, targetChosen, repoAt[trialTab])
    /\ UNCHANGED <<trialTab, targetChosen, repoAt>>

selectConflictTarget ==
    \E t \in Targets \cup {Disabled} :
        LET chosen == [targetChosen EXCEPT ![trialTab] = t] IN
        /\ trialTab # NoTab
        /\ StepTrial
        /\ targetChosen' = chosen
        /\ TryMerge(trialTab, chosen, trialView)
        /\ UNCHANGED <<trialTab, repoAt, trialView>>

\* A commit, a fetch, a merge: from the client or from outside.
RepositoryMoves ==
    \E r \in TrialTabs : \E to \in {[repoAt[r] EXCEPT !.head = o] : o \in Oids}
                           \cup {[repoAt[r] EXCEPT !.at[t] = o] : t \in Targets, o \in Oids}
                           \cup {[repoAt[r] EXCEPT !.conflicts = b] : b \in BOOLEAN} :
        /\ to # repoAt[r]
        /\ StepTrial
        /\ repoAt' = [repoAt EXCEPT ![r] = to]
        /\ UNCHANGED <<trialTab, targetChosen, trialView, preflight, checking, trials, trialSeq>>

\* The core merges what it finds; a side it cannot resolve is an error, which the
\* indicator shows as unavailable.
TrialAnswers ==
    \E c \in trials :
        LET now   == repoAt[c.tab]
            heard == c.seq = trialSeq /\ c.tab = trialTab
            known == now.head # 0 /\ now.at[c.target] # 0
        IN
        /\ \E state \in IF known THEN {"clean", "conflicting"} ELSE {"unavailable"} :
              preflight' = IF heard
                           THEN [tab |-> c.tab, target |-> c.target, head |-> c.head,
                                 oid |-> c.oid, state |-> state]
                           ELSE preflight
        /\ checking' = IF c.seq = trialSeq THEN FALSE ELSE checking
        /\ trials' = trials \ {c}
        /\ UNCHANGED <<trialTab, targetChosen, repoAt, trialView, trialSeq, trialSteps>>

TrialInit ==
    /\ trialTab = NoTab
    /\ targetChosen = [t \in TrialTabs |-> Default]
    /\ repoAt = [t \in TrialTabs |-> [head |-> 1, at |-> [b \in Targets |-> 1],
                                      conflicts |-> FALSE, loaded |-> TRUE]]
    /\ trialView = Blank /\ preflight = NoAnswer /\ checking = FALSE /\ trials = {}
    /\ trialSeq = 0 /\ trialSteps = 0

TrialNext == SwitchTab \/ TrialOverview \/ selectConflictTarget \/ RepositoryMoves \/ TrialAnswers

TrialSpec == TrialInit /\ [][TrialNext]_trialVars

TrialTypeOK ==
    /\ trialTab \in TrialTabs \cup {NoTab}
    /\ targetChosen \in [TrialTabs -> Targets \cup {Default, Disabled}]
    /\ checking \in BOOLEAN
    /\ \A c \in trials : c.seq \in 1..trialSeq /\ c.tab \in TrialTabs /\ c.target \in Targets
    /\ trialSeq \in 0..TrialBound /\ trialSteps \in 0..TrialBound

\* The indicator speaks of what is on the screen: an answer shown was asked of the
\* active repository, against the target chosen now, when the snapshot had the
\* commits it has now, and while nothing is in conflict; the indicator checks
\* exactly as long as such an answer is on its way.
IndicatorIsOfScreen ==
    LET target == conflictTarget(trialTab, targetChosen, trialView) IN
    /\ preflight # NoAnswer =>
          /\ preflight.tab = trialTab /\ preflight.target = target
          /\ preflight.head = trialView.head
          /\ preflight.oid = conflictTargetOid(trialView, target)
          /\ ~trialView.conflicts
    /\ checking <=> \E c \in trials : c.seq = trialSeq
    /\ (trialTab # NoTab /\ target # NoTarget /\ ~trialView.conflicts)
          => checking \/ preflight # NoAnswer
====
