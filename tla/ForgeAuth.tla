------------------------------ MODULE ForgeAuth ------------------------------
(***************************************************************************)
(* Signing in to one hosting service, keeping the sign-in usable, and what *)
(* is remembered of the service's answers: ForgeAuth of oauth.rs over its  *)
(* TokenStore, ForgeService of status.rs, the commands of the shell, and   *)
(* the loop of forgeConnections.ts that follows a device code to its end.  *)
(*                                                                         *)
(* The commands of the shell run on a thread pool, so an action of the     *)
(* backend ends where a lock is released or an answer awaited; an action   *)
(* of the client ends at an await.                                         *)
(***************************************************************************)
EXTENDS Naturals, FiniteSets

CONSTANTS
    Codes, NoCode,   \* device codes, one for each press of Connect; none
    Requests,        \* requests of ForgeService to the host
    NoCredential,    \* the store holds nothing for the host
    MaxPolls,        \* polls until the code's deadline: expires_in / interval
    MaxRenewals,     \* bound: renewals the service grants
    MaxFailures,     \* bound: answers that do not arrive, stores that refuse
    MaxSignOuts      \* bound: times the user disconnects

ASSUME CodesAssumption == NoCode \notin Codes
ASSUME BoundsAssumption ==
    /\ MaxPolls \in Nat \ {0}
    /\ {MaxRenewals, MaxFailures, MaxSignOuts} \subseteq Nat

\* What the store holds after a sign-in: its code names the family of tokens,
\* and the number tells the rotations of its refresh token apart.
Credential == [family : Codes, number : Nat \ {0}]
ASSUME NoCredentialAssumption == NoCredential \notin Credential

VARIABLES
    code,      \* the service, per code: what became of it
    live,      \* the service, per family: the refresh token it accepts, or 0
    pending,   \* the backend: the device code of the pending login
    stored,    \* the store: the credential of the host
    signIn,    \* per code: where its connectForge is
    tries,     \* per code: polls its loop has made
    poll,      \* per code: the poll of its loop
    shown,     \* the client: state.pending, by its code
    request,   \* per request: where it is and the credential it has
    cache,     \* the code of the sign-in the cached answer was given to, or NoCode
    leaving,   \* the sign-out at work: what it has yet to clear
    failures, signOuts,
    lost,      \* history: families with a renewal whose answer was lost
    forgotten, \* history: codes of the sign-ins started before a sign-out ended
    expiredNotice \* history: codes reported to the user as expired

serviceVars == <<code, live>>
backendVars == <<pending, stored, cache, leaving>>
clientVars == <<signIn, tries, shown>>
history == <<lost, forgotten, expiredNotice>>
vars == <<serviceVars, backendVars, clientVars, poll, request, failures, signOuts, history>>

CodeStates == {"unissued", "waiting", "approved", "denied", "expired", "exchanged"}
SignIns == {"none", "asking", "issued", "answering", "sleeping", "polling", "over"}
Answers == {"none", "pending", "token", "denied", "expired", "refused", "complete", "error"}
Poll == [stage : {"none", "read", "asked", "answered", "account", "unpend", "reply"},
         code : Codes \cup {NoCode}, answer : Answers]
Request == [stage : {"idle", "renewing", "renewed", "asking", "answered"},
            read : Credential \cup {NoCredential}, again : BOOLEAN]

NoPoll == [stage |-> "none", code |-> NoCode, answer |-> "none"]
Idle == [stage |-> "idle", read |-> NoCredential, again |-> FALSE]

TypeOK ==
    /\ code \in [Codes -> CodeStates]
    /\ live \in [Codes -> Nat]
    /\ pending \in Codes \cup {NoCode}
    /\ stored \in Credential \cup {NoCredential}
    /\ signIn \in [Codes -> SignIns]
    /\ tries \in [Codes -> 0 .. MaxPolls]
    /\ poll \in [Codes -> Poll]
    /\ shown \in Codes \cup {NoCode}
    /\ request \in [Requests -> Request]
    /\ cache \in Codes \cup {NoCode}
    /\ leaving \in {"no", "store", "answers"}
    /\ failures \in Nat /\ signOuts \in Nat
    /\ lost \cup forgotten \cup expiredNotice \subseteq Codes

Init ==
    /\ code = [c \in Codes |-> "unissued"]
    /\ live = [c \in Codes |-> 0]
    /\ pending = NoCode
    /\ stored = NoCredential
    /\ signIn = [c \in Codes |-> "none"]
    /\ tries = [c \in Codes |-> 0]
    /\ poll = [c \in Codes |-> NoPoll]
    /\ shown = NoCode
    /\ request = [r \in Requests |-> Idle]
    /\ cache = NoCode
    /\ leaving = "no"
    /\ failures = 0 /\ signOuts = 0
    /\ lost = {} /\ forgotten = {} /\ expiredNotice = {}

Fail == failures < MaxFailures /\ failures' = failures + 1

(***************************************************************************)
(* The user on the verification page, and the clock of the service.        *)
(***************************************************************************)
Decide(c) ==
    /\ code[c] = "waiting"
    /\ \E fate \in {"approved", "denied", "expired"} : code' = [code EXCEPT ![c] = fate]
    /\ UNCHANGED <<live, backendVars, clientVars, poll, request, failures, signOuts, history>>

(***************************************************************************)
(* connectForge and ForgeAuth::begin.                                      *)
(***************************************************************************)
Advance(c, step) == signIn' = [signIn EXCEPT ![c] = step]

\* `if (!target || state.pending) return`
Connect(c) ==
    /\ signIn[c] = "none"
    /\ shown = NoCode
    /\ Advance(c, "asking")
    /\ UNCHANGED <<serviceVars, backendVars, tries, shown, poll, request, failures, signOuts, history>>

Issue(c) ==
    /\ signIn[c] = "asking"
    /\ code' = [code EXCEPT ![c] = "waiting"]
    /\ Advance(c, "issued")
    /\ UNCHANGED <<live, backendVars, tries, shown, poll, request, failures, signOuts, history>>

NoIssue(c) ==
    /\ signIn[c] \in {"asking", "issued"}
    /\ Fail
    /\ Advance(c, "over")
    /\ UNCHANGED <<serviceVars, backendVars, tries, shown, poll, request, signOuts, history>>

KeepCode(c) ==
    /\ signIn[c] = "issued"
    /\ pending' = c
    /\ Advance(c, "answering")
    /\ UNCHANGED <<serviceVars, stored, cache, leaving, tries, shown, poll, request, failures, signOuts, history>>

ShowCode(c) ==
    /\ signIn[c] = "answering"
    /\ shown' = c
    /\ Advance(c, "sleeping")
    /\ UNCHANGED <<serviceVars, backendVars, tries, poll, request, failures, signOuts, history>>

(***************************************************************************)
(* follow, and ForgeAuth::poll.                                            *)
(***************************************************************************)
SetPoll(c, stage, d, answer) ==
    poll' = [poll EXCEPT ![c] = [stage |-> stage, code |-> d, answer |-> answer]]

\* The timer of the loop: an abandoned loop ends, another one polls.
Wake(c) ==
    /\ signIn[c] = "sleeping"
    /\ IF shown # c
       THEN Advance(c, "over") /\ UNCHANGED <<tries, poll>>
       ELSE /\ Advance(c, "polling")
            /\ tries' = [tries EXCEPT ![c] = @ + 1]
            /\ SetPoll(c, "read", NoCode, "none")
    /\ UNCHANGED <<serviceVars, backendVars, shown, request, failures, signOuts, history>>

\* The poll is about the host: it takes whatever code is pending there.
ReadPending(c) ==
    /\ poll[c].stage = "read"
    /\ IF pending = NoCode
       THEN SetPoll(c, "reply", NoCode, "expired")
       ELSE SetPoll(c, "asked", pending, "none")
    /\ UNCHANGED <<serviceVars, backendVars, clientVars, request, failures, signOuts, history>>

\* The service exchanges an approved code once, for the first tokens of its family.
ServePoll(c) ==
    LET d == poll[c].code IN
    /\ poll[c].stage = "asked"
    /\ CASE code[d] = "waiting"   -> SetPoll(c, "answered", d, "pending")
         [] code[d] = "approved"  -> SetPoll(c, "answered", d, "token")
         [] code[d] = "exchanged" -> SetPoll(c, "answered", d, "refused")
         [] OTHER                 -> SetPoll(c, "answered", d, code[d])
    /\ IF code[d] = "approved"
       THEN code' = [code EXCEPT ![d] = "exchanged"] /\ live' = [live EXCEPT ![d] = 1]
       ELSE UNCHANGED serviceVars
    /\ UNCHANGED <<backendVars, clientVars, request, failures, signOuts, history>>

\* The request fails on its way, or its answer does.
LosePoll(c) ==
    /\ poll[c].stage \in {"asked", "answered"}
    /\ Fail
    /\ SetPoll(c, "reply", poll[c].code, "error")
    /\ UNCHANGED <<serviceVars, backendVars, clientVars, request, signOuts, history>>

\* A final answer other than a token: the pending login of the host is dropped.
DropLogin(c) ==
    /\ poll[c].stage = "answered"
    /\ poll[c].answer \in {"denied", "expired", "refused"}
    /\ pending' = NoCode
    /\ SetPoll(c, "reply", poll[c].code,
               IF poll[c].answer = "refused" THEN "error" ELSE poll[c].answer)
    /\ UNCHANGED <<serviceVars, stored, cache, leaving, clientVars, request, failures, signOuts, history>>

PassOn(c) ==
    /\ poll[c].stage = "answered"
    /\ \/ poll[c].answer = "pending" /\ SetPoll(c, "reply", poll[c].code, "pending")
       \/ poll[c].answer = "token" /\ SetPoll(c, "account", poll[c].code, "token")
    /\ UNCHANGED <<serviceVars, backendVars, clientVars, request, failures, signOuts, history>>

FirstTokens(c) == [family |-> c, number |-> 1]

\* fetch_account has answered or failed, which makes no difference to the store.
StoreSignIn(c) ==
    /\ poll[c].stage = "account"
    /\ stored' = FirstTokens(poll[c].code)
    /\ SetPoll(c, "unpend", poll[c].code, "token")
    /\ UNCHANGED <<serviceVars, pending, cache, leaving, clientVars, request, failures, signOuts, history>>

\* The secret is refused, or it is stored and the index beside it is not written.
CannotStoreSignIn(c) ==
    /\ poll[c].stage = "account"
    /\ Fail
    /\ stored' \in {stored, FirstTokens(poll[c].code)}
    /\ SetPoll(c, "reply", poll[c].code, "error")
    /\ UNCHANGED <<serviceVars, pending, cache, leaving, clientVars, request, signOuts, history>>

CompleteSignIn(c) ==
    /\ poll[c].stage = "unpend"
    /\ pending' = NoCode
    /\ SetPoll(c, "reply", poll[c].code, "complete")
    /\ UNCHANGED <<serviceVars, stored, cache, leaving, clientVars, request, failures, signOuts, history>>

\* The loop takes the answer, stops or sleeps, and hides the code on the screen or not.
Take(c, stops, hides) ==
    /\ poll[c].stage = "reply"
    /\ poll' = [poll EXCEPT ![c] = NoPoll]
    /\ Advance(c, IF stops THEN "over" ELSE "sleeping")
    /\ shown' = IF hides THEN NoCode ELSE shown
    /\ expiredNotice' = expiredNotice \cup
           (IF shown = c /\ poll[c].answer = "expired" THEN {c} ELSE {})
    /\ UNCHANGED <<serviceVars, backendVars, tries, request, failures, signOuts,
                   lost, forgotten>>

Stops(c) == shown # c \/ poll[c].answer # "pending" \/ tries[c] = MaxPolls

TakeAnswerKeepingDenied(c) == Take(c, Stops(c), shown = c /\ Stops(c) /\ poll[c].answer # "denied")

\* A failure is reported without a look at whether the loop was abandoned;
\* anything else is not.
TakeAnswer(c) == Take(c, Stops(c), poll[c].answer = "error" \/ (shown = c /\ Stops(c)))

\* cancelForgeSignIn
Cancel ==
    /\ shown # NoCode
    /\ shown' = NoCode
    /\ UNCHANGED <<serviceVars, backendVars, signIn, tries, poll, request, failures, signOuts, history>>

(***************************************************************************)
(* forge_sign_out: the pending login, the store, then the answers.         *)
(***************************************************************************)
SignOut ==
    /\ stored # NoCredential
    /\ leaving = "no" /\ signOuts < MaxSignOuts
    /\ signOuts' = signOuts + 1
    /\ leaving' = "store"
    /\ pending' = NoCode
    /\ UNCHANGED <<serviceVars, stored, cache, clientVars, poll, request, failures, history>>

ClearStore ==
    /\ leaving = "store"
    /\ leaving' = "answers"
    /\ stored' = NoCredential
    /\ forgotten' = {c \in Codes : signIn[c] # "none"}
    /\ UNCHANGED <<serviceVars, pending, cache, clientVars, poll, request, failures, signOuts,
                   lost, expiredNotice>>

CannotClearStore ==
    /\ leaving = "store"
    /\ Fail
    /\ leaving' = "no"
    /\ stored' \in {stored, NoCredential}
    /\ UNCHANGED <<serviceVars, pending, cache, clientVars, poll, request, signOuts, history>>

ForgetHost ==
    /\ leaving = "answers"
    /\ leaving' = "no"
    /\ cache' = NoCode
    /\ UNCHANGED <<serviceVars, pending, stored, clientVars, poll, request, failures, signOuts, history>>

(***************************************************************************)
(* A request of ForgeService, with access_token before it and, when it is  *)
(* rejected, renew_rejected and one more attempt.                          *)
(***************************************************************************)
Step(r, stage) == request' = [request EXCEPT ![r].stage = stage]
End(r) == request' = [request EXCEPT ![r] = Idle]

\* access_token: the stored sign-in as it is, or about to expire and renewed.
StartRequest(r) ==
    /\ request[r].stage = "idle"
    /\ \E stage \in {"asking"} \cup (IF stored = NoCredential THEN {} ELSE {"renewing"}) :
          request' = [request EXCEPT ![r] = [stage |-> stage, read |-> stored, again |-> FALSE]]
    /\ UNCHANGED <<serviceVars, backendVars, clientVars, poll, failures, signOuts, history>>

Renewals == Cardinality({t \in Codes \X (2 .. MaxRenewals + 1) : t[2] <= live[t[1]]})

\* The service takes a refresh token once and answers with the next one.
GrantRenewal(r) ==
    LET read == request[r].read IN
    /\ request[r].stage = "renewing"
    /\ live[read.family] = read.number /\ Renewals < MaxRenewals
    /\ live' = [live EXCEPT ![read.family] = @ + 1]
    /\ Step(r, "renewed")
    /\ UNCHANGED <<code, backendVars, clientVars, poll, failures, signOuts, history>>

\* What a failed renewal leaves: access_token answers with what was stored,
\* renew_rejected with nothing.
WithoutRenewal(r) == IF request[r].again THEN End(r) ELSE Step(r, "asking")

RefuseRenewal(r) ==
    /\ request[r].stage = "renewing"
    /\ WithoutRenewal(r)
    /\ UNCHANGED <<serviceVars, backendVars, clientVars, poll, failures, signOuts, history>>

Successor(credential) == [credential EXCEPT !.number = @ + 1]

\* Mutant: the refresh token the service has just spent is kept.
StoreRenewalKeepingRefresh(r) ==
    /\ request[r].stage = "renewed"
    /\ stored' = request[r].read
    /\ Step(r, "asking")
    /\ UNCHANGED <<serviceVars, pending, cache, leaving, clientVars, poll, failures, signOuts, history>>

StoreRenewal(r) ==
    /\ request[r].stage = "renewed"
    /\ stored' = Successor(request[r].read)
    /\ request' = [request EXCEPT ![r].stage = "asking", ![r].read = Successor(@)]
    /\ UNCHANGED <<serviceVars, pending, cache, leaving, clientVars, poll, failures, signOuts, history>>

\* The answer is lost or the store refuses it, though the service has moved on; or
\* the store takes it and its index is not written.
LoseRenewal(r) ==
    /\ request[r].stage = "renewed"
    /\ Fail
    /\ \/ stored' = stored /\ lost' = lost \cup {request[r].read.family}
       \/ stored' = Successor(request[r].read) /\ lost' = lost
    /\ WithoutRenewal(r)
    /\ UNCHANGED <<serviceVars, pending, cache, leaving, clientVars, poll, signOuts,
                   forgotten, expiredNotice>>

AnswerRequest(r) ==
    /\ request[r].stage = "asking"
    /\ Step(r, "answered") \/ End(r)
    /\ UNCHANGED <<serviceVars, backendVars, clientVars, poll, failures, signOuts, history>>

\* The service refuses the token: one renewal of whatever is stored by now.
RejectRequest(r) ==
    /\ request[r].stage = "asking"
    /\ IF request[r].again \/ stored = NoCredential
       THEN End(r)
       ELSE request' = [request EXCEPT ![r] = [stage |-> "renewing", read |-> stored, again |-> TRUE]]
    /\ UNCHANGED <<serviceVars, backendVars, clientVars, poll, failures, signOuts, history>>

WriteCache(r) ==
    /\ request[r].stage = "answered"
    /\ cache' = IF request[r].read = NoCredential THEN NoCode ELSE request[r].read.family
    /\ End(r)
    /\ UNCHANGED <<serviceVars, pending, stored, leaving, clientVars, poll, failures, signOuts, history>>

\* The entry is too old, or a repository was created and the list dropped.
DropAnswer ==
    /\ cache # NoCode
    /\ cache' = NoCode
    /\ UNCHANGED <<serviceVars, pending, stored, leaving, clientVars, poll, request, failures,
                   signOuts, history>>

-----------------------------------------------------------------------------
\* What goes on by itself once a sign-in was asked for.
Begin(c) == Issue(c) \/ KeepCode(c) \/ ShowCode(c)
Ask(c) == ReadPending(c) \/ ServePoll(c) \/ PassOn(c) \/ DropLogin(c)
Finish(c) == StoreSignIn(c) \/ CompleteSignIn(c) \/ TakeAnswer(c)
Follow(c) == Begin(c) \/ Wake(c) \/ Ask(c) \/ Finish(c)
Serve(r) == GrantRenewal(r) \/ RefuseRenewal(r) \/ StoreRenewal(r)
                \/ AnswerRequest(r) \/ RejectRequest(r) \/ WriteCache(r)
Leave == ClearStore \/ ForgetHost

Next ==
    \/ \E c \in Codes : Connect(c) \/ Decide(c) \/ Follow(c)
    \/ \E c \in Codes : NoIssue(c) \/ LosePoll(c) \/ CannotStoreSignIn(c)
    \/ Cancel \/ SignOut \/ Leave \/ CannotClearStore
    \/ \E r \in Requests : StartRequest(r) \/ Serve(r) \/ LoseRenewal(r)
    \/ DropAnswer

Spec == Init /\ [][Next]_vars

\* Timers fire and requests are answered, all of them under a timeout; nobody
\* has to visit the verification page.
Fairness ==
    /\ \A c \in Codes : WF_vars(Follow(c))
    /\ WF_vars(Leave)
    /\ \A r \in Requests : WF_vars(Serve(r))
FairSpec == Spec /\ Fairness

-----------------------------------------------------------------------------
(***************************************************************************)
(* Properties.                                                             *)
(***************************************************************************)

\* As long as no answer is lost, the store never ends up with a refresh token
\* the service has already spent, however many requests renew it at once and
\* whatever sign-ins and sign-outs come in between: what is stored is live, or
\* the request that spent it is about to store its successor.
RefreshIsUsable ==
    stored # NoCredential /\ stored.family \notin lost =>
        \/ stored.number = live[stored.family]
        \/ \E r \in Requests : request[r].stage = "renewed" /\ request[r].read = stored

\* A code on the screen has a loop that follows it: connectForge refuses for as
\* long as one is shown, so a code nobody follows would bar every later sign-in.
ShownHasLoop == shown # NoCode => signIn[shown] \in {"sleeping", "polling"}

\* Every sign-in ends without the user: its code leaves the screen.
SignInEnds == \A c \in Codes : shown = c ~> shown # c

\* Of the credentials of one family, the service's live one is in one place: with
\* the poll it was exchanged for, in the store and with the requests that read it
\* there, or with the one request that was granted it.
Holds(r, c) == request[r].stage \in {"renewing", "renewed"} /\ request[r].read.family = c
Exchanged(c) == poll[c].stage \in {"answered", "account"} /\ poll[c].answer = "token"

NothingAhead ==
    /\ stored # NoCredential => stored.number <= live[stored.family]
    /\ \A r \in Requests :
          /\ request[r].stage \in {"renewing", "renewed"} => request[r].read # NoCredential
          /\ request[r].stage = "renewing" =>
                request[r].read.number <= live[request[r].read.family]
          /\ request[r].stage = "renewed" =>
                live[request[r].read.family] = request[r].read.number + 1
    /\ \A c \in Codes : code[c] # "exchanged" => live[c] = 0

\* A code is issued once, and only an issued code is pending or asked about.
CodesAreIssued ==
    /\ \A c \in Codes :
          /\ signIn[c] \in {"none", "asking"} => code[c] = "unissued"
          /\ signIn[c] = "issued" => code[c] # "unissued"
          /\ poll[c].stage = "asked" => code[poll[c].code] # "unissued"
    /\ pending # NoCode => code[pending] # "unissued"

GrantedOnce ==
    \A r \in Requests : request[r].stage = "renewed" =>
        LET f == request[r].read.family IN
        /\ stored # NoCredential /\ stored.family = f => stored.number < live[f]
        /\ \A q \in Requests \ {r} : Holds(q, f) =>
              request[q].stage = "renewing" /\ request[q].read.number < live[f]

ExchangedOnce ==
    \A c \in Codes : Exchanged(c) =>
        LET d == poll[c].code IN
        /\ d \in Codes /\ code[d] = "exchanged" /\ live[d] = 1
        /\ stored # NoCredential => stored.family # d
        /\ \A r \in Requests : ~Holds(r, d)
        /\ \A b \in Codes \ {c} : Exchanged(b) => poll[b].code # d

\* What a loop has still to do: an asked poll is about a code, a sleeping loop has
\* polls left, and only a polling loop has a poll.
LoopsInStep ==
    \A c \in Codes :
        /\ poll[c].stage \in {"asked", "answered", "account"} => poll[c].code \in Codes
        /\ poll[c].stage = "account" => poll[c].answer = "token"
        /\ signIn[c] = "sleeping" => tries[c] < MaxPolls
        /\ signIn[c] \in {"none", "asking", "issued", "answering"} => tries[c] = 0
        /\ poll[c].stage # "none" <=> signIn[c] = "polling"

\* The inductive invariant: everything above together.
IInv ==
    /\ TypeOK
    /\ CodesAreIssued
    /\ NothingAhead
    /\ GrantedOnce
    /\ ExchangedOnce
    /\ LoopsInStep
    /\ RefreshIsUsable
    /\ ShownHasLoop

(***************************************************************************)
(* What the docs and comments say and the code does not keep: each has a   *)
(* counterexample, told in README.md under Disagreements.                  *)
(***************************************************************************)

\* "Forgets the credential for one host, and any sign-in still in flight.": what
\* was signed in before the sign-out is not stored again after it.
SignOutForgets == stored # NoCredential => stored.family \notin forgotten

\* "Forgets [...] everything the service answered while it was held.": once a
\* sign-out is over, no answer given to what it forgot is in the cache.
SignOutForgetsAnswers == leaving = "no" /\ cache # NoCode => cache \notin forgotten

\* "What a service is willing to answer changes with the credential, so its
\* answers must not outlive one": a cached answer belongs to the stored sign-in,
\* unless a sign-out is about to drop it.
AnswersFollowCredential ==
    leaving = "no" /\ cache # NoCode /\ stored # NoCredential => cache = stored.family

\* "The code timed out; the sign-in has to start again.": the user is told so
\* only about a code the service does not take any more.
ExpiredMeansExpired ==
    \A c \in expiredNotice : code[c] \notin {"waiting", "approved"}

\* "Only one runs at a time": one sign-in is begun or followed.
InProgress(c) == signIn[c] \in {"asking", "issued", "answering"} \/ shown = c
OneSignInAtATime == \A c, d \in Codes : InProgress(c) /\ InProgress(d) => c = d

\* "Starts a device-flow sign-in and follows it to its end.": only its own poll
\* or the user takes a code from the screen.
FollowedToItsEnd ==
    [][\A c, d \in Codes : c # d /\ shown = c /\ TakeAnswer(d) => shown' = c]_vars
=============================================================================
