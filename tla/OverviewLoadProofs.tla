------------------------- MODULE OverviewLoadProofs -------------------------
(***************************************************************************)
(* Proofs about OverviewLoad, for any repositories, clicks and bounds: the *)
(* screen is the active repository's, and answers arrive in order.         *)
(***************************************************************************)
EXTENDS OverviewLoad, TLAPS

-----------------------------------------------------------------------------
(***************************************************************************)
(* The inductive invariant.                                                *)
(***************************************************************************)
\* The types of what is on the screen, in flight or captured by a click; a history
\* has a page, and a click that waits or is at work has its repository.
ClickTypes(f) ==
    /\ f \in [Clicks -> Click]
    /\ \A c \in Clicks : f[c].stage \in {"queued", "operating"} => f[c].repo \in Repos
Types ==
    /\ version \in [Repos -> Nat]
    /\ active \in Repos \cup {NoRepo}
    /\ snapshot \in Snapshot \cup {NoScreen}
    /\ history = NoScreen \/ (history \in History /\ history.pages # <<>>)
    /\ loads \subseteq Load
    /\ pages \subseteq PageCall
    /\ ClickTypes(click)

\* What is shown was read some time ago.
ScreenWasRead ==
    /\ snapshot # NoScreen => snapshot.version <= version[snapshot.repo]
    /\ history # NoScreen => history.pages[1].version <= version[history.repo]

\* A click captured a snapshot of the repository it acts on.
CapturedOfItsOwn ==
    \A c \in Clicks : click[c].captured # NoScreen =>
        /\ click[c].captured.repo = click[c].repo
        /\ click[c].captured.version <= version[click[c].repo]

\* One load holds the current sequence number, or none.
OneLatest == \A k, l \in loads : k.latest /\ l.latest => k = l

\* A page that may still be shown belongs to a history that is there.
PagesOfHistory == \A p \in pages : p.latest => p.repo = active /\ history # NoScreen

\* A click at work would put back a snapshot of the repository of the load.
PutsBack(c, l) ==
    /\ click[c].stage = "operating" /\ click[c].captured # NoScreen
    /\ click[c].repo = l.repo

\* What the load has read is no older than the screen, nor than what a click at
\* work would put back.
InTime(l) ==
    /\ l.snapshot # Unread =>
          /\ l.snapshot <= version[l.repo]
          /\ snapshot # NoScreen /\ snapshot.repo = l.repo => snapshot.version <= l.snapshot
          /\ \A c \in Clicks : PutsBack(c, l) => click[c].captured.version <= l.snapshot
    /\ l.history # Unread =>
          /\ l.history <= version[l.repo]
          /\ history # NoScreen /\ history.repo = l.repo => history.pages[1].version <= l.history
AnswersInTime == \A l \in loads : l.latest => InTime(l)

ScreenInv ==
    /\ Types
    /\ ScreenIsActive
    /\ ScreenWasRead
    /\ CapturedOfItsOwn
    /\ OneLatest
    /\ PagesOfHistory
    /\ AnswersInTime

-----------------------------------------------------------------------------
(***************************************************************************)
(* Types.                                                                  *)
(***************************************************************************)
LEMMA SupersededLoads == ASSUME NEW S, S \subseteq Load PROVE Superseded(S) \subseteq Load
BY DEF Superseded, Load

LEMMA SupersededPages == ASSUME NEW S, S \subseteq PageCall PROVE Superseded(S) \subseteq PageCall
BY DEF Superseded, PageCall

LEMMA NewLoadType ==
    ASSUME NEW r \in Repos, NEW loud \in BOOLEAN, NEW c \in Clicks \cup {NoClick}
    PROVE  NewLoad(r, loud, c) \in Load
BY DEF NewLoad, Load

\* A load that starts keeps the types, whoever starts it.
LEMMA LoadTypes ==
    ASSUME Types, NEW r \in Repos, NEW loud \in BOOLEAN, NEW c \in Clicks \cup {NoClick},
           LoadOverview(r, loud, c),
           version' \in [Repos -> Nat], ClickTypes(click')
    PROVE  Types'
<1>1. loads' \subseteq Load
  BY SupersededLoads, NewLoadType DEF Types, LoadOverview
<1>2. pages' \subseteq PageCall
  BY SupersededPages DEF Types, LoadOverview
<1> QED BY <1>1, <1>2 DEF Types, LoadOverview

LEMMA TouchType ==
    ASSUME version \in [Repos -> Nat], NEW r, Touch(r)
    PROVE  /\ version' \in [Repos -> Nat]
           /\ \A q \in Repos : version[q] <= version'[q]
BY DEF Touch

LEMMA StageType ==
    ASSUME ClickTypes(click), NEW c \in Clicks, NEW stage \in Stages,
           stage \in {"queued", "operating"} => click[c].stage \in {"queued", "operating"}
    PROVE  ClickTypes([click EXCEPT ![c].stage = stage])
BY DEF ClickTypes, Click

LEMMA TypesHold == ASSUME Types, [Next]_vars PROVE Types'
<1> USE DEF screenVars, mutationVars
<1>1. ASSUME NEW r \in Repos \cup {NoRepo}, Switch(r) PROVE Types'
  <2>1. r # NoRepo => NewLoad(r, TRUE, NoClick) \in Load
    BY NewLoadType
  <2> QED BY <1>1, <2>1, SupersededLoads, SupersededPages DEF Types, Switch
<1>2. CASE Refresh
  BY <1>2, LoadTypes DEF Types, Refresh, Free
<1>3. CASE LoadMore
  <2>1. LastPage \in Page
    BY <1>3 DEF Types, LoadMore, LastPage, History
  <2>2. active \in Repos
    BY <1>3 DEF Types, LoadMore, Free
  <2>3. [repo |-> active, latest |-> TRUE, cursor |-> LastPage, answer |-> "pending"] \in PageCall
    BY <2>1, <2>2 DEF PageCall
  <2> QED BY <1>3, <2>3, SupersededPages DEF Types, LoadMore
<1>4. ASSUME NEW c \in Clicks, NEW optimistic \in {FALSE, Staging}, Press(c, optimistic)
      PROVE  Types'
  <2>1. [stage |-> "queued", repo |-> active, optimistic |-> optimistic, captured |-> snapshot] \in Click
    BY <1>4, SwitchAssumption DEF Types, Click, Stages
  <2>2. ClickTypes(click')
    BY <1>4, <2>1 DEF Types, ClickTypes, Press
  <2> QED BY <1>4, <2>2 DEF Types, Press
<1>5. ASSUME NEW l \in loads, AnswerLoad(l) \/ FailLoad(l) PROVE Types'
  <2>1. l \in Load /\ version[l.repo] \in Nat
    BY DEF Types, Load
  <2>2. CASE ReadSnapshot(l)
    <3>1. [l EXCEPT !.snapshot = version[l.repo]] \in Load
      BY <2>1 DEF Load
    <3> QED BY <2>2, <3>1 DEF Types, ReadSnapshot
  <2>3. CASE ReadHistory(l)
    <3>1. [l EXCEPT !.history = version[l.repo]] \in Load
      BY <2>1 DEF Load
    <3> QED BY <2>3, <3>1 DEF Types, ReadHistory
  <2>4. ASSUME Settle(l) PROVE loads' \subseteq Load /\ ClickTypes(click')
    <3>1. l.by # NoClick => l.by \in Clicks
      BY <2>1 DEF Load
    <3>2. "done" \in Stages
      BY DEF Stages
    <3> QED BY <2>4, <3>1, <3>2, StageType DEF Types, Settle, EndClick
  <2>5. CASE Deliver(l)
    <3>1. l.snapshot \in Nat /\ l.history \in Nat /\ l.repo \in Repos
      BY <2>1, <2>5 DEF Deliver, Load
    <3>2. [repo |-> l.repo, version |-> l.snapshot, hopes |-> {}] \in Snapshot
      BY <3>1 DEF Snapshot
    <3>3. /\ [repo |-> l.repo, pages |-> <<[version |-> l.history, number |-> 1]>>] \in History
          /\ <<[version |-> l.history, number |-> 1]>> # <<>>
      BY <3>1 DEF History, Page
    <3>4. history' = NoScreen \/ (history' \in History /\ history'.pages # <<>>)
      <4> DEFINE first == [repo |-> l.repo, pages |-> <<[version |-> l.history, number |-> 1]>>]
      <4>1. first \in History /\ first.pages # <<>>
        BY <3>3
      <4>2. history' = first \/ history' = history
        BY <2>5 DEF Deliver
      <4> HIDE DEF first
      <4> QED BY <4>1, <4>2 DEF Types
    <3>5. snapshot' \in Snapshot \cup {NoScreen}
      BY <2>5, <3>2 DEF Types, Deliver
    <3> QED BY <2>4, <2>5, <3>4, <3>5 DEF Types, Deliver
  <2>6. CASE FailLoad(l)
    BY <2>4, <2>6 DEF Types, FailLoad
  <2> QED BY <1>5, <2>2, <2>3, <2>5, <2>6 DEF AnswerLoad
<1>6. ASSUME NEW p \in pages, AnswerPage(p) PROVE Types'
  <2>1. p \in PageCall
    BY DEF Types
  <2>2. CASE ServePage(p)
    <3>1. \A answer \in {"page", "stale"} : [p EXCEPT !.answer = answer] \in PageCall
      BY <2>1 DEF PageCall
    <3> QED BY <2>2, <3>1 DEF Types, ServePage
  <2>3. CASE DeliverPage(p)
    <3>1. NextPage(p) \in Page /\ p.repo \in Repos
      BY <2>1 DEF NextPage, PageCall, Page
    <3>2. history' = NoScreen \/ (history' \in History /\ history'.pages # <<>>)
      <4>1. /\ [repo |-> p.repo, pages |-> <<NextPage(p)>>] \in History
            /\ <<NextPage(p)>> # <<>>
        BY <3>1 DEF History
      <4>2. history \in History =>
              LET more == [history EXCEPT !.pages = Append(@, NextPage(p))]
              IN  more \in History /\ more.pages # <<>>
        <5> SUFFICES ASSUME history \in History
                     PROVE  LET more == [history EXCEPT !.pages = Append(@, NextPage(p))]
                            IN  more \in History /\ more.pages # <<>>
          OBVIOUS
        <5>1. /\ Append(history.pages, NextPage(p)) \in Seq(Page)
              /\ Append(history.pages, NextPage(p)) # <<>>
          BY <3>1 DEF History
        <5> QED BY <5>1 DEF History
      <4> DEFINE first == [repo |-> p.repo, pages |-> <<NextPage(p)>>]
                 more == [history EXCEPT !.pages = Append(@, NextPage(p))]
      <4>3. first \in History /\ first.pages # <<>>
        BY <4>1
      <4>4. history' = history \/ history' = first \/ (history # NoScreen /\ history' = more)
        BY <2>3 DEF DeliverPage
      <4> HIDE DEF first, more
      <4> QED BY <4>2, <4>3, <4>4 DEF Types, more
    <3> QED BY <2>3, <3>2 DEF Types, DeliverPage
  <2> QED BY <1>6, <2>2, <2>3 DEF AnswerPage
<1>7. ASSUME NEW r \in Repos, ExternalChange(r) \/ Notice(r) PROVE Types'
  <2>1. CASE ExternalChange(r)
    BY <2>1 DEF Types, ExternalChange
  <2>2. CASE Notice(r)
    BY <2>2, LoadTypes DEF Types, Notice
  <2> QED BY <1>7, <2>1, <2>2
<1>8. CASE StartFetch
  BY <1>8 DEF Types, StartFetch
<1>9. ASSUME NEW r \in Repos, EndFetch(r) \/ FailFetch(r) PROVE Types'
  <2>1. version' \in [Repos -> Nat]
    BY <1>9, TouchType DEF Types, EndFetch, FailFetch
  <2>2. CASE EndFetch(r)
    BY <2>1, <2>2, LoadTypes DEF Types, EndFetch
  <2>3. CASE FailFetch(r)
    BY <2>1, <2>3 DEF Types, FailFetch
  <2> QED BY <1>9, <2>2, <2>3
<1>10. ASSUME NEW c \in Clicks, Advance(c) PROVE Types'
  <2>0. click[c] \in Click /\ {"operating", "gave up", "reloading", "done", "failed"} \subseteq Stages
    BY DEF Types, ClickTypes, Stages
  <2>1. CASE Launch(c)
    <3>1. ClickTypes(click')
      BY <2>0, <2>1, StageType DEF Types, Launch, Waits
    <3>2. snapshot' \in Snapshot \cup {NoScreen}
      BY <2>1 DEF Types, Launch, Snapshot
    <3> QED BY <2>1, <3>1, <3>2, SupersededLoads DEF Types, Launch
  <2>2. CASE GiveUp(c)
    BY <2>0, <2>2, StageType DEF Types, GiveUp, Waits
  <2>3. CASE OperationSucceeds(c)
    <3>1. version' \in [Repos -> Nat]
      BY <2>3, TouchType DEF Types, OperationSucceeds
    <3>2. ClickTypes(click')
      BY <2>0, <2>3, StageType DEF Types, OperationSucceeds, EndClick
    <3>3. click[c].repo \in Repos
      BY <2>3 DEF Types, ClickTypes, OperationSucceeds
    <3>4. CASE active = click[c].repo
      BY <2>3, <3>1, <3>2, <3>3, <3>4, LoadTypes DEF OperationSucceeds
    <3>5. CASE active # click[c].repo
      BY <2>3, <3>1, <3>2, <3>5 DEF Types, OperationSucceeds
    <3> QED BY <3>4, <3>5
  <2>4. CASE OperationFails(c)
    <3>1. version' \in [Repos -> Nat]
      BY <2>4, TouchType DEF Types, OperationFails
    <3>2. ClickTypes(click')
      BY <2>0, <2>4, StageType DEF Types, OperationFails, EndClick
    <3>3. snapshot' \in Snapshot \cup {NoScreen}
      BY <2>0, <2>4 DEF Types, OperationFails, Click
    <3> QED BY <2>4, <3>1, <3>2, <3>3 DEF Types, OperationFails
  <2> QED BY <1>10, <2>1, <2>2, <2>3, <2>4 DEF Advance
<1> QED BY <1>1, <1>2, <1>3, <1>4, <1>5, <1>6, <1>7, <1>8, <1>9, <1>10
     DEF Next, User, EndOfFetch, Types, vars

-----------------------------------------------------------------------------
(***************************************************************************)
(* The other conjuncts.                                                    *)
(***************************************************************************)
LEMMA InitHolds == Init => ScreenInv
<1> SUFFICES ASSUME Init PROVE ScreenInv
  OBVIOUS
<1>1. Types
  BY DEF Init, Types, ClickTypes, Click, Stages
<1> QED BY <1>1 DEF Init, ScreenInv, ScreenIsActive, ScreenWasRead, CapturedOfItsOwn,
           OneLatest, PagesOfHistory, AnswersInTime

LEMMA ScreenTypes ==
    ASSUME Types
    PROVE  /\ snapshot # NoScreen => snapshot.repo \in Repos /\ snapshot.version \in Nat
           /\ history # NoScreen => history.repo \in Repos /\ history.pages[1].version \in Nat
<1>1. snapshot # NoScreen => snapshot.repo \in Repos /\ snapshot.version \in Nat
  BY DEF Types, Snapshot
<1>2. ASSUME history # NoScreen PROVE history.repo \in Repos /\ history.pages[1].version \in Nat
  <2>1. history.pages \in Seq(Page) /\ history.pages # <<>> /\ history.repo \in Repos
    BY <1>2 DEF Types, History
  <2>2. history.pages[1] \in Page
    BY <2>1
  <2> QED BY <2>1, <2>2 DEF Page
<1> QED BY <1>1, <1>2

LEMMA NoneLatest == ASSUME NEW S, S \subseteq Load \/ S \subseteq PageCall
                    PROVE  \A x \in Superseded(S) : ~ x.latest
BY DEF Superseded, Load, PageCall

\* Versions only grow.
Grows == \A r \in Repos : version[r] <= version'[r]

\* No click captures anything, or begins its operation.
Calm ==
    \A c \in Clicks :
        /\ click'[c].captured = click[c].captured /\ click'[c].repo = click[c].repo
        /\ click'[c].stage = "operating" => click[c].stage = "operating"

\* The loads are those there were, but for one that starts.
FewerLoads ==
    /\ OneLatest'
    /\ \A l \in loads' : l.latest => l \in loads \/ (l.snapshot = Unread /\ l.history = Unread)

FewerPages ==
    \A p \in pages' : p.latest =>
        \/ \E q \in pages : q.latest /\ q.repo = p.repo
        \/ p.repo = active /\ history # NoScreen

\* A step that leaves the screen as it is.
LEMMA ScreenStays ==
    ASSUME ScreenInv, Types', Grows, Calm, FewerLoads, FewerPages,
           UNCHANGED <<active, snapshot, history>>
    PROVE  ScreenInv'
<1>1. ScreenIsActive'
  BY DEF ScreenInv, ScreenIsActive
<1>2. ScreenWasRead'
  <2>1. /\ snapshot # NoScreen => snapshot.repo \in Repos /\ snapshot.version \in Nat
        /\ history # NoScreen => history.repo \in Repos /\ history.pages[1].version \in Nat
    BY ScreenTypes DEF ScreenInv
  <2>2. \A r \in Repos : version[r] \in Nat /\ version'[r] \in Nat
    BY DEF ScreenInv, Types
  <2> QED BY <2>1, <2>2 DEF ScreenInv, ScreenWasRead, Grows
<1>3. CapturedOfItsOwn'
  <2>1. \A c \in Clicks : click[c].captured # NoScreen =>
          click[c].captured.repo \in Repos /\ click[c].captured.version \in Nat
    BY DEF ScreenInv, Types, ClickTypes, Click, Snapshot
  <2>2. \A r \in Repos : version[r] \in Nat /\ version'[r] \in Nat
    BY DEF ScreenInv, Types
  <2> QED BY <2>1, <2>2 DEF ScreenInv, CapturedOfItsOwn, Grows, Calm
<1>4. PagesOfHistory'
  BY DEF ScreenInv, PagesOfHistory, FewerPages
<1>5. AnswersInTime'
  <2> SUFFICES ASSUME NEW l \in loads', l.latest PROVE InTime(l)'
    BY DEF AnswersInTime
  <2>1. CASE l.snapshot = Unread /\ l.history = Unread
    BY <2>1 DEF InTime
  <2>2. CASE l \in loads
    <3>1. InTime(l) /\ l \in Load
      BY <2>2 DEF ScreenInv, AnswersInTime, Types
    <3>2. version[l.repo] \in Nat /\ version'[l.repo] \in Nat /\ version[l.repo] <= version'[l.repo]
      BY <3>1 DEF ScreenInv, Types, Load, Grows
    <3>3. \A c \in Clicks : PutsBack(c, l)' => PutsBack(c, l) /\ click'[c].captured = click[c].captured
      BY DEF Calm, PutsBack
    <3> QED BY <3>1, <3>2, <3>3 DEF InTime, Load
  <2> QED BY <2>1, <2>2 DEF FewerLoads
<1> QED BY <1>1, <1>2, <1>3, <1>4, <1>5 DEF ScreenInv, FewerLoads

\* A load that starts is the latest and has read nothing; silent or not.
LEMMA LoadStarts ==
    ASSUME ScreenInv, NEW r, NEW loud, NEW c, LoadOverview(r, loud, c)
    PROVE  FewerLoads /\ FewerPages /\ UNCHANGED <<active, snapshot, history>>
<1>1. /\ \A l \in loads' : l.latest => l = NewLoad(r, loud, c)
      /\ NewLoad(r, loud, c).snapshot = Unread /\ NewLoad(r, loud, c).history = Unread
  BY NoneLatest DEF ScreenInv, Types, LoadOverview, NewLoad
<1>2. FewerLoads
  BY <1>1 DEF FewerLoads, OneLatest
<1>3. FewerPages
  BY NoneLatest DEF ScreenInv, Types, LoadOverview, FewerPages
<1> QED BY <1>2, <1>3 DEF LoadOverview

\* A read of the repository is as new as anything.
LEMMA ReadStep ==
    ASSUME ScreenInv, Types', NEW l \in loads, ReadSnapshot(l) \/ ReadHistory(l)
    PROVE  ScreenInv'
<1>0. l \in Load /\ version[l.repo] \in Nat
  BY DEF ScreenInv, Types, Load
\* What the request finds, and the load that has it.
<1>1. PICK seen \in Nat, read \in {[l EXCEPT !.snapshot = version[l.repo]],
                                  [l EXCEPT !.history = version[l.repo]]} :
        /\ seen = version[l.repo]
        /\ read \in {[l EXCEPT !.snapshot = seen], [l EXCEPT !.history = seen]}
        /\ loads' = (loads \ {l}) \cup {read}
        /\ UNCHANGED <<version, active, snapshot, history, pages, click>>
  <2>1. CASE ReadSnapshot(l)
    BY <1>0, <2>1 DEF ReadSnapshot, screenVars, mutationVars
  <2>2. CASE ReadHistory(l)
    BY <1>0, <2>2 DEF ReadHistory, screenVars, mutationVars
  <2> QED BY <2>1, <2>2
<1>2. read.latest = l.latest /\ read.repo = l.repo
  BY <1>0, <1>1 DEF Load
<1>3. OneLatest'
  BY <1>1, <1>2 DEF ScreenInv, OneLatest
<1>4. ASSUME l.latest PROVE InTime(read)'
  <2>1. InTime(l)
    BY <1>4 DEF ScreenInv, AnswersInTime
  <2>2. /\ snapshot # NoScreen /\ snapshot.repo = l.repo => snapshot.version <= seen
        /\ history # NoScreen /\ history.repo = l.repo => history.pages[1].version <= seen
    BY <1>1 DEF ScreenInv, ScreenWasRead
  <2>3. \A c \in Clicks : PutsBack(c, l) => click[c].captured.version <= seen
    BY <1>1 DEF ScreenInv, CapturedOfItsOwn, PutsBack
  <2>4. /\ read.snapshot # Unread => read.snapshot = seen \/ (read.snapshot = l.snapshot /\ l.snapshot # Unread)
        /\ read.history # Unread => read.history = seen \/ (read.history = l.history /\ l.history # Unread)
    BY <1>0, <1>1 DEF Load
  <2>5. \A c \in Clicks : PutsBack(c, read)' <=> PutsBack(c, l)
    BY <1>1, <1>2 DEF PutsBack
  <2> QED BY <1>1, <1>2, <2>1, <2>2, <2>3, <2>4, <2>5 DEF InTime
<1>5. AnswersInTime'
  <2> SUFFICES ASSUME NEW k \in loads', k.latest PROVE InTime(k)'
    BY DEF AnswersInTime
  <2>1. CASE k = read
    BY <2>1, <1>2, <1>4
  <2>2. CASE k \in loads
    <3>1. InTime(k)
      BY <2>2 DEF ScreenInv, AnswersInTime
    <3> QED BY <1>1, <3>1 DEF InTime, PutsBack
  <2> QED BY <1>1, <2>1, <2>2
<1> QED BY <1>1, <1>3, <1>5
     DEF ScreenInv, ScreenIsActive, ScreenWasRead, CapturedOfItsOwn, PagesOfHistory

\* The answer of the latest load replaces the screen, any other leaves it.
LEMMA DeliverStep ==
    ASSUME ScreenInv, Types', NEW l \in loads, Deliver(l)
    PROVE  ScreenInv'
<1>0. l \in Load /\ l.snapshot # Unread /\ l.history # Unread
  BY DEF ScreenInv, Types, Deliver
<1>1. /\ loads' = loads \ {l} /\ UNCHANGED <<version, active, pages>>
      /\ Calm
  <2>1. \A c \in Clicks : click[c] \in Click
    BY DEF ScreenInv, Types, ClickTypes
  <2>2. Calm
    BY <2>1 DEF Deliver, Settle, EndClick, mutationVars, Calm, Click, ScreenInv, Types, ClickTypes
  <2> QED BY <2>2 DEF Deliver, Settle
<1>2. CASE ~ Current(l)
  <2>1. FewerLoads /\ FewerPages
    BY <1>1 DEF FewerLoads, FewerPages, ScreenInv, OneLatest
  <2>2. Grows
    BY <1>1 DEF ScreenInv, Types, Grows
  <2> QED BY <1>1, <1>2, <2>1, <2>2, ScreenStays DEF Deliver
<1>3. CASE Current(l)
  <2>1. InTime(l) /\ active = l.repo
    BY <1>3 DEF ScreenInv, AnswersInTime, Current
  <2>2. /\ snapshot' = [repo |-> l.repo, version |-> l.snapshot, hopes |-> {}]
        /\ history' = [repo |-> l.repo, pages |-> <<[version |-> l.history, number |-> 1]>>]
    BY <1>3 DEF Deliver
  <2>3. /\ snapshot'.repo = active /\ snapshot'.version = l.snapshot
        /\ history'.repo = active /\ history'.pages[1].version = l.history
    BY <2>1, <2>2
  <2>4. \A k \in loads' : ~ k.latest
    BY <1>1, <1>3 DEF ScreenInv, OneLatest, Current
  <2>5. ScreenIsActive' /\ ScreenWasRead'
    BY <1>0, <1>1, <2>1, <2>3 DEF ScreenIsActive, ScreenWasRead, InTime
  <2>6. CapturedOfItsOwn'
    BY <1>1 DEF ScreenInv, CapturedOfItsOwn, Calm
  <2>7. history' # NoScreen
    <3>1. history' \in History
      BY <1>0, <2>2 DEF History, Page, Load
    <3> QED BY <3>1, NoScreenAssumption
  <2> QED BY <1>1, <2>4, <2>5, <2>6, <2>7 DEF ScreenInv, OneLatest, AnswersInTime, PagesOfHistory
<1> QED BY <1>2, <1>3

\* A page goes to the end of the history it was asked for: its first page stays.
LEMMA PageStep ==
    ASSUME ScreenInv, Types', NEW p \in pages, AnswerPage(p)
    PROVE  ScreenInv'
<1>0. p \in PageCall /\ Grows
  <2>1. version' = version
    BY DEF AnswerPage, ServePage, DeliverPage
  <2> QED BY <2>1 DEF ScreenInv, Types, Grows
<1>1. UNCHANGED <<version, active, snapshot, loads, click>>
  BY DEF AnswerPage, ServePage, DeliverPage, screenVars, mutationVars
<1>2. Calm /\ FewerLoads
  BY <1>1 DEF Calm, FewerLoads, ScreenInv, OneLatest
<1>3. \A q \in pages' : q.latest => \E o \in pages : o.latest /\ o.repo = q.repo
  <2>1. CASE ServePage(p)
    BY <1>0, <2>1 DEF ServePage, PageCall
  <2>2. CASE DeliverPage(p)
    BY <2>2 DEF DeliverPage
  <2> QED BY <2>1, <2>2 DEF AnswerPage
<1>4. CASE history' = history
  BY <1>0, <1>1, <1>2, <1>3, <1>4, ScreenStays DEF FewerPages
<1>5. CASE history' # history
  <2>1. DeliverPage(p) /\ Current(p) /\ history # NoScreen
    <3>1. DeliverPage(p) /\ Current(p)
      BY <1>5 DEF AnswerPage, ServePage, DeliverPage, screenVars
    <3> QED BY <3>1 DEF ScreenInv, PagesOfHistory, Current
  <2>2. history' = [history EXCEPT !.pages = Append(@, NextPage(p))]
    BY <1>5, <2>1 DEF DeliverPage
  <2>3. history \in History /\ history.pages \in Seq(Page) /\ history.pages # <<>>
    BY <2>1 DEF ScreenInv, Types, History
  <2>4. history'.repo = history.repo /\ history'.pages = Append(history.pages, NextPage(p))
    BY <2>2, <2>3 DEF History
  <2>5. history'.pages[1] = history.pages[1] /\ history' # NoScreen
    <3>1. NextPage(p) \in Page
      BY <1>0 DEF NextPage, PageCall, Page
    <3>2. history'.pages[1] = history.pages[1]
      BY <2>3, <2>4, <3>1
    <3>3. history' \in History
      BY <2>2, <2>3, <3>1 DEF History
    <3> QED BY <3>2, <3>3, NoScreenAssumption
  <2>6. ScreenIsActive' /\ ScreenWasRead'
    BY <1>1, <2>1, <2>4, <2>5 DEF ScreenInv, ScreenIsActive, ScreenWasRead
  <2>7. PagesOfHistory'
    BY <1>1, <1>3, <2>5 DEF ScreenInv, PagesOfHistory
  <2>8. AnswersInTime'
    BY <1>1, <2>1, <2>4, <2>5 DEF ScreenInv, AnswersInTime, InTime, PutsBack
  <2> QED BY <1>1, <2>6, <2>7, <2>8 DEF ScreenInv, CapturedOfItsOwn, OneLatest
<1> QED BY <1>4, <1>5

\* Another tab: a blank screen, and one load that may fill it.
LEMMA SwitchStep ==
    ASSUME ScreenInv, Types', NEW r \in Repos \cup {NoRepo}, Switch(r)
    PROVE  ScreenInv'
<1>1. /\ \A l \in loads' : l.latest => l = NewLoad(r, TRUE, NoClick)
      /\ NewLoad(r, TRUE, NoClick).snapshot = Unread /\ NewLoad(r, TRUE, NoClick).history = Unread
      /\ \A p \in pages' : ~ p.latest
  BY NoneLatest DEF ScreenInv, Types, Switch, NewLoad
<1>2. snapshot' = NoScreen /\ history' = NoScreen /\ UNCHANGED <<version, click>>
  BY DEF Switch, mutationVars
<1>3. OneLatest' /\ PagesOfHistory'
  BY <1>1 DEF OneLatest, PagesOfHistory
<1>4. AnswersInTime'
  BY <1>1 DEF AnswersInTime, InTime
<1> QED BY <1>2, <1>3, <1>4 DEF ScreenInv, ScreenIsActive, ScreenWasRead, CapturedOfItsOwn

\* The closures of a click capture the screen of the active repository.
LEMMA PressStep ==
    ASSUME ScreenInv, Types', NEW c \in Clicks, NEW optimistic, Press(c, optimistic)
    PROVE  ScreenInv'
<1>1. /\ click'[c].repo = active /\ click'[c].captured = snapshot /\ click'[c].stage = "queued"
      /\ \A d \in Clicks \ {c} : click'[d] = click[d]
      /\ UNCHANGED <<version, active, snapshot, history, loads, pages>>
  BY DEF Press, ScreenInv, Types, ClickTypes, screenVars
<1>2. CapturedOfItsOwn'
  BY <1>1 DEF ScreenInv, CapturedOfItsOwn, ScreenIsActive, ScreenWasRead
<1>3. \A d \in Clicks, l \in loads : PutsBack(d, l)' => PutsBack(d, l) /\ click'[d] = click[d]
  BY <1>1 DEF PutsBack
<1>4. AnswersInTime'
  BY <1>1, <1>3 DEF ScreenInv, AnswersInTime, InTime
<1> QED BY <1>1, <1>2, <1>4
     DEF ScreenInv, ScreenIsActive, ScreenWasRead, OneLatest, PagesOfHistory

\* A click that starts gives up every load in flight.
LEMMA LaunchStep ==
    ASSUME ScreenInv, Types', NEW c \in Clicks, Launch(c)
    PROVE  ScreenInv'
<1>1. /\ \A l \in loads' : ~ l.latest
      /\ UNCHANGED <<version, active, history, pages>>
  BY NoneLatest DEF ScreenInv, Types, Launch
<1>2. \A d \in Clicks : click'[d].captured = click[d].captured /\ click'[d].repo = click[d].repo
  BY DEF Launch, ScreenInv, Types, ClickTypes, Click
<1>3. /\ snapshot = NoScreen => snapshot' = NoScreen
      /\ snapshot # NoScreen => snapshot'.repo = snapshot.repo /\ snapshot'.version = snapshot.version
  BY DEF Launch, ScreenInv, Types, Snapshot
<1>4. ScreenIsActive' /\ ScreenWasRead'
  BY <1>1, <1>3 DEF ScreenInv, ScreenIsActive, ScreenWasRead
<1>5. CapturedOfItsOwn'
  BY <1>1, <1>2 DEF ScreenInv, CapturedOfItsOwn
<1> QED BY <1>1, <1>4, <1>5 DEF ScreenInv, OneLatest, PagesOfHistory, AnswersInTime

\* A click that fails puts back what it captured: of the active repository, and
\* no newer than what the load in flight has read.
LEMMA FailStep ==
    ASSUME ScreenInv, Types', NEW c \in Clicks, OperationFails(c)
    PROVE  ScreenInv'
<1>1. UNCHANGED <<active, history, loads, pages>> /\ Grows
  BY TouchType DEF OperationFails, Grows, ScreenInv, Types
<1>2. Calm
  BY DEF OperationFails, EndClick, Calm, ScreenInv, Types, ClickTypes, Click
<1>3. FewerLoads /\ FewerPages
  BY <1>1 DEF FewerLoads, FewerPages, ScreenInv, OneLatest
<1>4. CASE snapshot' = snapshot
  BY <1>1, <1>2, <1>3, <1>4, ScreenStays
<1>5. CASE CanHope(c) /\ snapshot' = click[c].captured
  <2> DEFINE back == click[c].captured
  <2>1. /\ back \in Snapshot /\ back # NoScreen /\ back.repo = active
        /\ back.version <= version[active] /\ active \in Repos
    BY <1>5 DEF CanHope, ScreenInv, CapturedOfItsOwn, Types, ClickTypes, Click, Snapshot
  <2>2. version[active] \in Nat /\ version'[active] \in Nat /\ version[active] <= version'[active]
    BY <1>1, <2>1 DEF ScreenInv, Types, Grows
  <2>3. ScreenIsActive'
    BY <1>1, <1>5, <2>1 DEF ScreenInv, ScreenIsActive
  <2>4. history # NoScreen => history.repo = active /\ history.pages[1].version \in Nat
    BY ScreenTypes DEF ScreenInv, ScreenIsActive
  <2>5. ScreenWasRead'
    BY <1>1, <1>5, <2>1, <2>2, <2>4 DEF ScreenInv, ScreenWasRead, Snapshot
  <2>6. CapturedOfItsOwn'
    <3>1. \A d \in Clicks : click[d].captured # NoScreen =>
            click[d].captured.repo \in Repos /\ click[d].captured.version \in Nat
      BY DEF ScreenInv, Types, ClickTypes, Click, Snapshot
    <3>2. \A r \in Repos : version[r] \in Nat /\ version'[r] \in Nat
      BY DEF ScreenInv, Types
    <3> QED BY <1>1, <1>2, <3>1, <3>2 DEF ScreenInv, CapturedOfItsOwn, Grows, Calm
  <2>7. AnswersInTime'
    <3> SUFFICES ASSUME NEW l \in loads, l.latest PROVE InTime(l)'
      BY <1>1 DEF AnswersInTime
    <3>1. InTime(l) /\ l \in Load
      BY DEF ScreenInv, AnswersInTime, Types
    <3>2. version[l.repo] \in Nat /\ version'[l.repo] \in Nat /\ version[l.repo] <= version'[l.repo]
      BY <1>1, <3>1 DEF ScreenInv, Types, Load, Grows
    <3>3. \A d \in Clicks : PutsBack(d, l)' => PutsBack(d, l) /\ click'[d].captured = click[d].captured
      BY <1>2 DEF Calm, PutsBack
    <3>4. l.repo = active => PutsBack(c, l)
      BY <1>5, <2>1 DEF PutsBack, CanHope, OperationFails
    <3> QED BY <1>1, <1>5, <2>1, <3>1, <3>2, <3>3, <3>4 DEF InTime, Load
  <2> QED BY <1>1, <2>3, <2>5, <2>6, <2>7 DEF ScreenInv, OneLatest, PagesOfHistory
<1> QED BY <1>4, <1>5 DEF OperationFails

\* A step that touches neither the screen, nor the loads, nor the clicks' captures.
LEMMA OtherStep ==
    ASSUME ScreenInv, Types', Grows, Calm, FewerPages,
           UNCHANGED <<active, snapshot, history>>, loads' \subseteq loads
    PROVE  ScreenInv'
<1>1. FewerLoads
  BY DEF FewerLoads, ScreenInv, OneLatest
<1> QED BY <1>1, ScreenStays

LEMMA StepHolds == ASSUME ScreenInv, [Next]_vars PROVE ScreenInv'
<1> USE DEF screenVars, mutationVars
<1>0. Types'
  BY TypesHold DEF ScreenInv
<1>1. /\ version' = version => Grows
      /\ \A r : Touch(r) => Grows
      /\ click' = click => Calm
      /\ UNCHANGED <<active, history, pages>> => FewerPages
  BY TouchType DEF ScreenInv, Types, Grows, Calm, FewerPages
<1>2. \A c \in Clicks, stage \in Stages \ {"operating"} :
        click' = [click EXCEPT ![c].stage = stage] => Calm
  BY DEF ScreenInv, Types, ClickTypes, Click, Calm
<1>3. CASE Refresh
  BY <1>0, <1>1, <1>3, LoadStarts, ScreenStays DEF Refresh
<1>4. CASE LoadMore
  <2>1. FewerPages
    BY <1>4, NoneLatest DEF LoadMore, FewerPages, ScreenInv, Types
  <2> QED BY <1>0, <1>1, <1>4, <2>1, OtherStep DEF LoadMore
<1>5. ASSUME NEW l \in loads, FailLoad(l) PROVE ScreenInv'
  <2>1. l.by # NoClick => l.by \in Clicks
    BY DEF ScreenInv, Types, Load
  <2>2. Calm
    BY <1>1, <1>2, <1>5, <2>1 DEF FailLoad, Settle, EndClick, Stages
  <2> QED BY <1>0, <1>1, <1>5, <2>2, OtherStep DEF FailLoad, Settle
<1>6. ASSUME NEW r \in Repos, ExternalChange(r) PROVE ScreenInv'
  <2>1. Grows
    BY <1>6 DEF ExternalChange, Grows, ScreenInv, Types
  <2> QED BY <1>0, <1>1, <1>6, <2>1, OtherStep DEF ExternalChange
<1>7. ASSUME NEW r \in Repos, Notice(r) PROVE ScreenInv'
  <2>1. CASE LoadOverview(r, FALSE, NoClick)
    BY <1>0, <1>1, <1>7, <2>1, LoadStarts, ScreenStays DEF Notice
  <2>2. CASE UNCHANGED <<screenVars, loads, pages>>
    BY <1>0, <1>1, <1>7, <2>2, OtherStep DEF Notice
  <2> QED BY <1>7, <2>1, <2>2 DEF Notice
<1>8. CASE StartFetch
  BY <1>0, <1>1, <1>8, OtherStep DEF StartFetch
<1>9. ASSUME NEW r \in Repos, EndFetch(r) \/ FailFetch(r) PROVE ScreenInv'
  <2>1. Grows /\ Calm
    BY <1>1, <1>9 DEF EndFetch, FailFetch
  <2>2. CASE LoadOverview(r, FALSE, NoClick)
    BY <1>0, <2>1, <2>2, LoadStarts, ScreenStays
  <2>3. CASE UNCHANGED <<screenVars, loads, pages>>
    BY <1>0, <1>1, <2>1, <2>3, OtherStep
  <2> QED BY <1>9, <2>2, <2>3 DEF EndFetch, FailFetch
<1>10. ASSUME NEW c \in Clicks, GiveUp(c) PROVE ScreenInv'
  BY <1>0, <1>1, <1>2, <1>10, OtherStep DEF GiveUp, Stages
<1>11. ASSUME NEW c \in Clicks, OperationSucceeds(c) PROVE ScreenInv'
  <2>1. Grows /\ Calm
    BY <1>1, <1>2, <1>11 DEF OperationSucceeds, EndClick, Stages
  <2>2. CASE LoadOverview(active, TRUE, c)
    BY <1>0, <2>1, <2>2, LoadStarts, ScreenStays
  <2>3. CASE UNCHANGED <<screenVars, loads, pages>>
    BY <1>0, <1>1, <2>1, <2>3, OtherStep
  <2> QED BY <1>11, <2>2, <2>3 DEF OperationSucceeds
<1>12. CASE UNCHANGED vars
  BY <1>0, <1>1, <1>12, OtherStep DEF vars
<1> QED BY <1>0, <1>3, <1>4, <1>5, <1>6, <1>7, <1>8, <1>9, <1>10, <1>11, <1>12, SwitchStep,
          PressStep, ReadStep, DeliverStep, PageStep, LaunchStep, FailStep
     DEF Next, User, AnswerLoad, EndOfFetch, Advance

-----------------------------------------------------------------------------
(***************************************************************************)
(* The theorems.                                                           *)
(***************************************************************************)
\* The strengthening holds in every state that useRepositoryOverview.ts and
\* useWorktreeMutations.ts can reach.
THEOREM ScreenInvHolds == Spec => []ScreenInv
BY InitHolds, StepHolds, PTL DEF Spec

\* However tabs, loads, pages and clicks interleave, the snapshot and the history
\* on the screen are the active repository's, or blank.
THEOREM ScreenFollowsTab == Spec => []ScreenIsActive
<1>1. ScreenInv => ScreenIsActive
  BY DEF ScreenInv
<1> QED BY <1>1, ScreenInvHolds, PTL

\* No answer of loadOverview replaces a screen of the same repository that shows
\* something newer: the comparison of sequence numbers is enough for that.
THEOREM AnswersComeInOrder == Spec => NewestAnswerWins
<1> DEFINE Newest ==
      \A l \in loads : Deliver(l) /\ snapshot # NoScreen /\ snapshot.repo = l.repo =>
          /\ snapshot'.version >= snapshot.version
          /\ history # NoScreen => history'.pages[1].version >= history.pages[1].version
<1>1. ASSUME ScreenInv PROVE Newest
  <2> SUFFICES ASSUME NEW l \in loads, Deliver(l), snapshot # NoScreen, snapshot.repo = l.repo
               PROVE  /\ snapshot'.version >= snapshot.version
                      /\ history # NoScreen =>
                            history'.pages[1].version >= history.pages[1].version
    OBVIOUS
  <2>1. /\ snapshot.version \in Nat
        /\ history # NoScreen => history.repo = l.repo /\ history.pages[1].version \in Nat
    BY <1>1, ScreenTypes DEF ScreenInv, ScreenIsActive
  <2>2. CASE Current(l)
    <3>1. InTime(l)
      BY <1>1, <2>2 DEF ScreenInv, AnswersInTime, Current
    <3>2. /\ l \in Load /\ l.snapshot # Unread /\ l.history # Unread
          /\ snapshot'.version = l.snapshot /\ history'.pages[1].version = l.history
      BY <1>1, <2>2 DEF ScreenInv, Types, Deliver
    <3> QED BY <2>1, <3>1, <3>2 DEF InTime, Load
  <2>3. CASE ~ Current(l)
    BY <2>1, <2>3 DEF Deliver
  <2> QED BY <2>2, <2>3
<1>2. ScreenInv => [Newest]_vars
  BY <1>1
<1> QED BY <1>2, ScreenInvHolds, PTL DEF NewestAnswerWins

-----------------------------------------------------------------------------
(***************************************************************************)
(* The spinners.                                                           *)
(***************************************************************************)

\* One page call holds the current sequence number, or none.
OnePage == \A p, q \in pages : p.latest /\ q.latest => p = q

\* Without automatic fetch, no silent load starts while the spinner turns.
SpinnerInv ==
    /\ OnePage /\ PageSpinnerHasCall
    /\ ~ AutoFetch => fetching = {} /\ SpinnerHasLoad

\* A load that starts for the active repository: a silent one where no spinner turns.
LEMMA SpinnersStart ==
    ASSUME ScreenInv, SpinnerInv, NEW loud \in BOOLEAN, NEW c, LoadOverview(active, loud, c)
    PROVE  /\ OnePage' /\ PageSpinnerHasCall'
           /\ (loud \/ ~ overviewLoading) => SpinnerHasLoad'
<1>1. /\ \A l \in Superseded(loads) : ~ l.latest
      /\ \A p \in Superseded(pages) : ~ p.latest
  BY NoneLatest DEF ScreenInv, Types
<1>2. LET l == NewLoad(active, loud, c) IN l.latest /\ l.loud = loud /\ l.repo = active
  BY DEF NewLoad
<1>3. OnePage' /\ PageSpinnerHasCall'
  BY <1>1 DEF LoadOverview, SpinnerInv, OnePage, PageSpinnerHasCall, Current
<1>4. ASSUME loud \/ ~ overviewLoading PROVE SpinnerHasLoad'
  BY <1>1, <1>2, <1>4 DEF LoadOverview, SpinnerHasLoad, Current
<1> QED BY <1>3, <1>4

LEMMA SpinnersStay ==
    ASSUME SpinnerInv, UNCHANGED <<active, overviewLoading, historyLoading, loads, pages>>,
           fetching' \subseteq fetching
    PROVE  SpinnerInv'
BY DEF SpinnerInv, OnePage, PageSpinnerHasCall, SpinnerHasLoad, Current

\* A load that is read keeps its number and what it was started with.
LEMMA SpinnerRead ==
    ASSUME ScreenInv, SpinnerInv, NEW l \in loads, ReadSnapshot(l) \/ ReadHistory(l)
    PROVE  SpinnerInv'
<1>1. UNCHANGED <<active, overviewLoading, historyLoading, pages, fetching>>
  BY DEF ReadSnapshot, ReadHistory, screenVars
<1>2. PICK k : /\ loads' = (loads \ {l}) \cup {k}
               /\ k.loud = l.loud /\ k.latest = l.latest /\ k.repo = l.repo
  <2>1. l \in Load
    BY DEF ScreenInv, Types
  <2>2. CASE ReadSnapshot(l)
    <3> DEFINE k == [l EXCEPT !.snapshot = version[l.repo]]
    <3>1. k.loud = l.loud /\ k.latest = l.latest /\ k.repo = l.repo
      BY <2>1 DEF Load
    <3>2. loads' = (loads \ {l}) \cup {k}
      BY <2>2 DEF ReadSnapshot
    <3> HIDE DEF k
    <3> QED BY <3>1, <3>2
  <2>3. CASE ReadHistory(l)
    <3> DEFINE k == [l EXCEPT !.history = version[l.repo]]
    <3>1. k.loud = l.loud /\ k.latest = l.latest /\ k.repo = l.repo
      BY <2>1 DEF Load
    <3>2. loads' = (loads \ {l}) \cup {k}
      BY <2>3 DEF ReadHistory
    <3> HIDE DEF k
    <3> QED BY <3>1, <3>2
  <2> QED BY <2>2, <2>3
<1>3. SpinnerHasLoad => SpinnerHasLoad'
  BY <1>1, <1>2 DEF SpinnerHasLoad, Current
<1> QED BY <1>1, <1>3 DEF SpinnerInv, OnePage, PageSpinnerHasCall, Current

\* The load that ends clears the spinner if it has set it.
LEMMA SpinnerSettles ==
    ASSUME ScreenInv, SpinnerInv, NEW l \in loads, Settle(l),
           UNCHANGED <<active, historyLoading, pages, fetching>>
    PROVE  SpinnerInv'
<1>1. SpinnerHasLoad => SpinnerHasLoad'
  BY DEF ScreenInv, OneLatest, Settle, SpinnerHasLoad, Current
<1> QED BY <1>1 DEF SpinnerInv, OnePage, PageSpinnerHasCall, Current

LEMMA SpinnerPages ==
    ASSUME ScreenInv, SpinnerInv, NEW p \in pages, AnswerPage(p)
    PROVE  SpinnerInv'
<1>1. UNCHANGED <<active, overviewLoading, loads, fetching>>
  BY DEF AnswerPage, ServePage, DeliverPage, screenVars
<1>2. CASE ServePage(p)
  <2>1. PICK q : /\ pages' = (pages \ {p}) \cup {q} /\ historyLoading' = historyLoading
                 /\ q.latest = p.latest /\ q.repo = p.repo
    <3> DEFINE q(answer) == [p EXCEPT !.answer = answer]
    <3>1. \A answer : q(answer).latest = p.latest /\ q(answer).repo = p.repo
      BY DEF ScreenInv, Types, PageCall
    <3>2. \E answer : pages' = (pages \ {p}) \cup {q(answer)}
      BY <1>2 DEF ServePage
    <3> HIDE DEF q
    <3> QED BY <1>2, <3>1, <3>2 DEF ServePage, screenVars
  <2> QED BY <1>1, <2>1 DEF SpinnerInv, OnePage, PageSpinnerHasCall, SpinnerHasLoad, Current
<1>3. CASE DeliverPage(p)
  BY <1>1, <1>3 DEF DeliverPage, SpinnerInv, OnePage, PageSpinnerHasCall, SpinnerHasLoad, Current
<1> QED BY <1>2, <1>3 DEF AnswerPage

LEMMA SpinnerSwitches ==
    ASSUME ScreenInv, SpinnerInv, NEW r \in Repos \cup {NoRepo}, Switch(r)
    PROVE  SpinnerInv'
<1>1. /\ \A l \in Superseded(loads) : ~ l.latest
      /\ \A p \in Superseded(pages) : ~ p.latest
  BY NoneLatest DEF ScreenInv, Types
<1>2. LET l == NewLoad(r, TRUE, NoClick) IN l.latest /\ l.loud /\ l.repo = r
  BY DEF NewLoad
<1>3. OnePage' /\ PageSpinnerHasCall'
  BY <1>1 DEF Switch, OnePage, PageSpinnerHasCall, Current
<1>4. SpinnerHasLoad'
  BY <1>1, <1>2 DEF Switch, SpinnerHasLoad, Current
<1> QED BY <1>3, <1>4 DEF SpinnerInv, Switch

LEMMA SpinnerStepHolds == ASSUME ScreenInv, SpinnerInv, [Next]_vars PROVE SpinnerInv'
<1> USE DEF screenVars, mutationVars
<1>1. CASE Refresh
  BY <1>1, SpinnersStart DEF Refresh, SpinnerInv
<1>2. CASE LoadMore
  <2>1. \A p \in Superseded(pages) : ~ p.latest
    BY NoneLatest DEF ScreenInv, Types
  <2>2. PICK p : p.latest /\ p.repo = active /\ pages' = Superseded(pages) \cup {p}
    BY <1>2 DEF LoadMore
  <2>3. OnePage' /\ PageSpinnerHasCall'
    BY <1>2, <2>1, <2>2 DEF LoadMore, OnePage, PageSpinnerHasCall, Current
  <2>4. SpinnerHasLoad => SpinnerHasLoad'
    BY <1>2 DEF LoadMore, SpinnerHasLoad, Current
  <2> QED BY <1>2, <2>3, <2>4 DEF LoadMore, SpinnerInv
<1>3. ASSUME NEW c \in Clicks, NEW optimistic, Press(c, optimistic) PROVE SpinnerInv'
  BY <1>3, SpinnersStay DEF Press
<1>4. ASSUME NEW l \in loads, AnswerLoad(l) \/ FailLoad(l) PROVE SpinnerInv'
  BY <1>4, SpinnerRead, SpinnerSettles DEF AnswerLoad, Deliver, FailLoad
<1>5. ASSUME NEW r \in Repos, ExternalChange(r) PROVE SpinnerInv'
  BY <1>5, SpinnersStay DEF ExternalChange
<1>6. ASSUME NEW r \in Repos, Notice(r) PROVE SpinnerInv'
  <2>1. CASE r = active /\ Free
    BY <1>6, <2>1, SpinnersStart DEF Notice, Free, SpinnerInv
  <2>2. CASE ~ (r = active /\ Free)
    BY <1>6, <2>2, SpinnersStay DEF Notice
  <2> QED BY <2>1, <2>2
<1>7. CASE StartFetch
  BY <1>7 DEF StartFetch, SpinnerInv, OnePage, PageSpinnerHasCall, SpinnerHasLoad, Current
<1>8. ASSUME NEW r \in Repos, EndFetch(r) \/ FailFetch(r) PROVE SpinnerInv'
  <2>1. AutoFetch
    BY <1>8, SwitchAssumption DEF EndFetch, FailFetch, SpinnerInv
  <2>2. CASE LoadOverview(active, FALSE, NoClick)
    BY <2>1, <2>2, SpinnersStart DEF SpinnerInv
  <2>3. CASE UNCHANGED <<screenVars, loads, pages>>
    BY <1>8, <2>3, SpinnersStay DEF EndFetch, FailFetch
  <2> QED BY <1>8, <2>2, <2>3 DEF EndFetch, FailFetch
<1>9. ASSUME NEW c \in Clicks, Launch(c) PROVE SpinnerInv'
  <2>1. \A l \in Superseded(loads) : ~ l.latest
    BY NoneLatest DEF ScreenInv, Types
  <2> QED BY <1>9, <2>1 DEF Launch, SpinnerInv, OnePage, PageSpinnerHasCall, SpinnerHasLoad, Current
<1>10. ASSUME NEW c \in Clicks, GiveUp(c) \/ OperationFails(c) PROVE SpinnerInv'
  BY <1>10, SpinnersStay DEF GiveUp, OperationFails
<1>11. ASSUME NEW c \in Clicks, OperationSucceeds(c) PROVE SpinnerInv'
  <2>1. CASE LoadOverview(active, TRUE, c)
    BY <1>11, <2>1, SpinnersStart DEF OperationSucceeds, SpinnerInv
  <2>2. CASE UNCHANGED <<screenVars, loads, pages>>
    BY <1>11, <2>2, SpinnersStay DEF OperationSucceeds
  <2> QED BY <1>11, <2>1, <2>2 DEF OperationSucceeds
<1>12. CASE UNCHANGED vars
  BY <1>12, SpinnersStay DEF vars
<1> QED BY <1>1, <1>2, <1>3, <1>4, <1>5, <1>6, <1>7, <1>8, <1>9, <1>10, <1>11, <1>12,
          SpinnerSwitches, SpinnerPages
     DEF Next, User, EndOfFetch, Advance

LEMMA SpinnerInvHolds == Spec => []SpinnerInv
<1>1. Init => SpinnerInv
  BY DEF Init, SpinnerInv, OnePage, PageSpinnerHasCall, SpinnerHasLoad
<1> QED BY <1>1, SpinnerStepHolds, ScreenInvHolds, PTL DEF Spec

\* While automatic fetch is off, a spinner that turns has the one load behind it that
\* will clear it: no tab switch, refresh, click or event of useAutoRefresh.ts takes the
\* sequence number of a loud load without clearing its spinner or taking it over.
THEOREM SpinnersHaveLoads == ~ AutoFetch => (Spec => []SpinnerHasLoad)
<1> SUFFICES ASSUME ~ AutoFetch PROVE Spec => []SpinnerHasLoad
  OBVIOUS
<1>1. SpinnerInv => SpinnerHasLoad
  BY DEF SpinnerInv
<1> QED BY <1>1, SpinnerInvHolds, PTL

\* With or without it, historyLoading is set exactly while a call of loadMoreHistory is
\* in flight that will clear it: loading more is never refused for good.
THEOREM PageSpinnersHaveCalls == Spec => []PageSpinnerHasCall
<1>1. SpinnerInv => PageSpinnerHasCall
  BY DEF SpinnerInv
<1> QED BY <1>1, SpinnerInvHolds, PTL
=============================================================================
