---- MODULE AvatarRounds ----
\* Which authors the client asks the hosting service about, round by round, and
\* which answers reach the graph (useAvatars.ts, lib/avatars.ts).
EXTENDS Naturals

CONSTANTS
    Emails,      \* the addresses of the commits
    AvatarRepos, \* the home pages of the repositories, "" for a remote without avatars
    AvatarBound  \* views, pages and settings of a behaviour

VARIABLES
    authors,    \* the view: [web, tip, emails]
    source,     \* the avatar settings: "off", "host" or "gravatar"
    askedSet,   \* addresses sent and not taken back
    unresolved, \* addresses sent and still without a picture
    askedTip,   \* the tip of the last round
    images,     \* the pictures shown: [email, web, source]
    rounds,     \* the requests in flight: [live, emails, web, source]
    avatarSteps

avatarVars == <<authors, source, askedSet, unresolved, askedTip, images, rounds, avatarSteps>>

NoTip   == 0
Tips    == 1..2
Sources == {"off", "host", "gravatar"}
Views   == [web : AvatarRepos, tip : Tips, emails : SUBSET Emails \ {{}}]

\* An address is asked once, and again when history has moved past the tip.
avatarEmailsToAsk(emails, sent, open, tipMoved) ==
    {e \in emails : e \notin sent \/ (tipMoved /\ e \in open)}

\* The two effects of a render: starting over when the repository or the source
\* is another one, then asking about the view. A round of an earlier render goes
\* on without anyone to hear it.
AskRound(view, from, over) ==
    LET sent    == IF over THEN {} ELSE askedSet
        open    == IF over THEN {} ELSE unresolved
        last    == IF over THEN NoTip ELSE askedTip
        pending == avatarEmailsToAsk(view.emails, sent, open, view.tip # last)
        asks    == view.web # "" /\ from # "off" /\ pending # {}
    IN  /\ askedSet' = IF asks THEN sent \cup pending ELSE sent
        /\ unresolved' = IF asks THEN open \cup pending ELSE open
        /\ askedTip' = IF asks THEN view.tip ELSE last
        /\ images' = IF over THEN {} ELSE images
        /\ rounds' = {[r EXCEPT !.live = FALSE] : r \in rounds} \cup
             (IF asks THEN {[live |-> TRUE, emails |-> pending, web |-> view.web,
                             source |-> from]} ELSE {})

StepAvatars == avatarSteps < AvatarBound /\ avatarSteps' = avatarSteps + 1

\* A snapshot and its history come onto the screen.
ViewLoaded ==
    \E v \in Views :
        /\ StepAvatars
        /\ authors' = v
        /\ AskRound(v, source, v.web # authors.web)
        /\ UNCHANGED source

\* A further page of history brings its authors.
PageLoaded ==
    \E more \in SUBSET Emails :
        LET v == [authors EXCEPT !.emails = @ \cup more] IN
        /\ StepAvatars
        /\ authors' = v
        /\ AskRound(v, source, FALSE)
        /\ UNCHANGED source

SetSource ==
    \E s \in Sources \ {source} :
        /\ StepAvatars
        /\ source' = s
        /\ AskRound(authors, s, TRUE)
        /\ UNCHANGED authors

\* Only a round someone still waits for takes its addresses off the record.
OffTheRecord(round, found) == IF round.live THEN unresolved \ found ELSE unresolved

OffTheRecordAnyway(round, found) == unresolved \ found

StillOpen(round, found) ==
    OffTheRecord(round, found)

\* The core names some of the authors of the round.
RoundResolves ==
    \E r \in rounds : \E found \in SUBSET r.emails :
        /\ unresolved' = StillOpen(r, found)
        /\ images' = IF r.live
                     THEN {i \in images : i.email \notin found}
                          \cup {[email |-> e, web |-> r.web, source |-> r.source] : e \in found}
                     ELSE images
        /\ rounds' = rounds \ {r}
        /\ UNCHANGED <<authors, source, askedSet, askedTip, avatarSteps>>

\* A round that fails clears the record of what was asked, heard or not.
RoundFails ==
    \E r \in rounds :
        /\ askedSet' = {}
        /\ rounds' = rounds \ {r}
        /\ UNCHANGED <<authors, source, unresolved, askedTip, images, avatarSteps>>

AvatarInit ==
    /\ authors = [web |-> "", tip |-> NoTip, emails |-> {}]
    /\ source = "host"
    /\ askedSet = {} /\ unresolved = {} /\ askedTip = NoTip
    /\ images = {} /\ rounds = {}
    /\ avatarSteps = 0

AvatarNext == ViewLoaded \/ PageLoaded \/ SetSource \/ RoundResolves \/ RoundFails

AvatarSpec == AvatarInit /\ [][AvatarNext]_avatarVars

AvatarTypeOK ==
    /\ authors.web \in AvatarRepos /\ authors.tip \in Tips \cup {NoTip}
    /\ authors.emails \subseteq Emails
    /\ source \in Sources
    /\ askedSet \subseteq Emails /\ unresolved \subseteq Emails
    /\ askedTip \in Tips \cup {NoTip}
    /\ images \subseteq [email : Emails, web : AvatarRepos, source : Sources]
    /\ rounds \subseteq [live : BOOLEAN, emails : SUBSET Emails, web : AvatarRepos, source : Sources]
    /\ avatarSteps \in 0..AvatarBound

\* An author who still shows an initial can be asked about again: the address is
\* either not on the record of what was asked, or on that of what stayed open,
\* which a tip that moves while the author is in view asks again ("an author does
\* not keep their initial until the next restart", useAvatars.ts:23). A picture
\* shown was resolved against the repository and the source of the screen.
InitialsAreRetried ==
    /\ \A e \in authors.emails :
          (authors.web # "" /\ source # "off")
              => \/ \E i \in images : i.email = e
                 \/ e \in unresolved
                 \/ e \notin askedSet
    /\ \A i \in images : i.web = authors.web /\ i.source = source

\* Not held: "Resolved addresses are never re-sent" (lib/avatars.ts:39); a round
\* that fails clears the record of those that were resolved too.
ResolvedIsNotSent ==
    [][\A e \in Emails :
          (\E i \in images' : i.email = e)
              => \A r \in rounds' \ rounds : r.live => e \notin r.emails]_avatarVars

\* Not held: a page or a reload that comes before the answer drops it, and the
\* authors of the round keep their initials until the tip moves.
AnswerIsWaitedFor ==
    \A e \in authors.emails :
        (e \in askedSet /\ e \in unresolved /\ authors.tip = askedTip)
            => \/ \E r \in rounds : r.live /\ e \in r.emails
               \/ rounds = {}
====
