-------------------------- MODULE ForgeAuthProofs --------------------------
(***************************************************************************)
(* Proofs about ForgeAuth, for any number of sign-ins and requests and any *)
(* bounds.                                                                 *)
(***************************************************************************)
EXTENDS ForgeAuth, TLAPS

\* The two halves of the invariant: who holds which token, and where the loops are.
Tokens == NothingAhead /\ GrantedOnce /\ ExchangedOnce /\ RefreshIsUsable
Loops == CodesAreIssued /\ LoopsInStep /\ ShownHasLoop

LEMMA Halves == IInv <=> TypeOK /\ Tokens /\ Loops
BY DEF IInv, Tokens, Loops

LEMMA InitHolds == Init => IInv
<1> SUFFICES ASSUME Init PROVE IInv
  OBVIOUS
<1>1. TypeOK
  <2>1. 0 \in 0 .. MaxPolls
    BY BoundsAssumption
  <2>2. NoPoll \in Poll /\ Idle \in Request
    BY DEF NoPoll, Idle, Poll, Request, Answers
  <2> QED BY <2>1, <2>2 DEF Init, TypeOK, CodeStates, SignIns
<1>2. /\ \A c \in Codes : poll[c].stage = "none" /\ code[c] = "unissued" /\ signIn[c] = "none"
      /\ \A r \in Requests : request[r].stage = "idle"
  BY DEF Init, NoPoll, Idle
<1>3. Tokens
  BY <1>2 DEF Init, Tokens, NothingAhead, GrantedOnce, ExchangedOnce, RefreshIsUsable, Exchanged
<1>4. Loops
  BY <1>2 DEF Init, Loops, CodesAreIssued, LoopsInStep, ShownHasLoop
<1> QED BY <1>1, <1>3, <1>4, Halves

\* A step that leaves the credentials where they are, and completes no exchange.
LEMMA TokensFrame ==
    ASSUME Tokens,
           live' = live, stored' = stored, lost' = lost, request' = request,
           \A c \in Codes : code'[c] = code[c] \/ (code[c] # "exchanged" /\ code'[c] # "exchanged"),
           \A c \in Codes : Exchanged(c)' => Exchanged(c) /\ poll'[c].code = poll[c].code
    PROVE  Tokens'
<1>1. NothingAhead'
  BY DEF Tokens, NothingAhead
<1>2. GrantedOnce' /\ RefreshIsUsable'
  BY DEF Tokens, GrantedOnce, RefreshIsUsable, Holds
<1>3. ExchangedOnce'
  BY DEF Tokens, ExchangedOnce, Holds
<1> QED BY <1>1, <1>2, <1>3 DEF Tokens

\* A step that the loops have no part in.
LEMMA LoopsFrame ==
    ASSUME Loops, UNCHANGED <<clientVars, poll, code>>, pending' \in {pending, NoCode}
    PROVE  Loops'
BY DEF Loops, CodesAreIssued, LoopsInStep, ShownHasLoop, clientVars

-----------------------------------------------------------------------------
(***************************************************************************)
(* The steps of a sign-in.                                                 *)
(***************************************************************************)
LEMMA BeginStep ==
    ASSUME IInv, NEW c \in Codes,
           Connect(c) \/ Issue(c) \/ NoIssue(c) \/ KeepCode(c) \/ ShowCode(c) \/ Wake(c)
    PROVE  IInv'
<1> USE Halves
<1>1. TypeOK'
  <2>1. tries' \in [Codes -> 0 .. MaxPolls]
    BY BoundsAssumption DEF Connect, Issue, NoIssue, KeepCode, ShowCode, Wake, Advance,
       clientVars, TypeOK, Loops, LoopsInStep
  <2>2. poll' \in [Codes -> Poll]
    BY DEF Connect, Issue, NoIssue, KeepCode, ShowCode, Wake, SetPoll, TypeOK, Poll, Answers
  <2>3. signIn' \in [Codes -> SignIns]
    BY DEF Connect, Issue, NoIssue, KeepCode, ShowCode, Wake, Advance, TypeOK, SignIns
  <2>4. code' \in [Codes -> CodeStates] /\ UNCHANGED <<live, request, stored, cache, leaving>>
    BY DEF Connect, Issue, NoIssue, KeepCode, ShowCode, Wake, serviceVars, backendVars,
       TypeOK, CodeStates
  <2>5. pending' \in Codes \cup {NoCode} /\ shown' \in Codes \cup {NoCode}
    BY DEF Connect, Issue, NoIssue, KeepCode, ShowCode, Wake, clientVars, backendVars, TypeOK
  <2>6. failures' \in Nat /\ signOuts' = signOuts /\ UNCHANGED history
    BY DEF Connect, Issue, NoIssue, KeepCode, ShowCode, Wake, Fail, TypeOK
  <2> QED BY <2>1, <2>2, <2>3, <2>4, <2>5, <2>6 DEF TypeOK, history
<1>2. Tokens'
  <2>1. live' = live /\ stored' = stored /\ lost' = lost /\ request' = request
    BY DEF Connect, Issue, NoIssue, KeepCode, ShowCode, Wake, serviceVars, backendVars, history
  <2>2. \A d \in Codes : code'[d] = code[d] \/ (code[d] # "exchanged" /\ code'[d] # "exchanged")
    BY DEF Connect, Issue, NoIssue, KeepCode, ShowCode, Wake, serviceVars, TypeOK, Loops, CodesAreIssued
  <2>3. \A d \in Codes : Exchanged(d)' => Exchanged(d) /\ poll'[d].code = poll[d].code
    BY DEF Connect, Issue, NoIssue, KeepCode, ShowCode, Wake, SetPoll, Exchanged, TypeOK
  <2> QED BY <2>1, <2>2, <2>3, TokensFrame
<1>3. CodesAreIssued'
  BY DEF Connect, Issue, NoIssue, KeepCode, ShowCode, Wake, Advance, SetPoll, serviceVars,
     backendVars, TypeOK, Poll, Loops, CodesAreIssued, LoopsInStep
<1>4. LoopsInStep'
  BY BoundsAssumption DEF Connect, Issue, NoIssue, KeepCode, ShowCode, Wake, Advance, SetPoll, clientVars,
     TypeOK, Loops, LoopsInStep
<1>5. ShownHasLoop'
  BY CodesAssumption DEF Connect, Issue, NoIssue, KeepCode, ShowCode, Wake, Advance, clientVars,
     TypeOK, Loops, ShownHasLoop
<1> QED BY <1>1, <1>2, <1>3, <1>4, <1>5 DEF IInv, Tokens

\* A poll up to the service's answer, and what ends it without a token.
LEMMA AskStep ==
    ASSUME IInv, NEW c \in Codes,
           ReadPending(c) \/ LosePoll(c) \/ DropLogin(c) \/ PassOn(c)
    PROVE  IInv'
<1> USE Halves
<1>1. /\ UNCHANGED <<serviceVars, stored, cache, leaving, clientVars, request, signOuts, history>>
      /\ failures' \in Nat /\ pending' \in {pending, NoCode}
      /\ poll[c].stage # "none"
      /\ \E stage \in {"asked", "account", "reply"}, d \in Codes \cup {NoCode}, answer \in Answers :
            /\ poll' = [poll EXCEPT ![c] = [stage |-> stage, code |-> d, answer |-> answer]]
            /\ stage # "reply" => d \in Codes
            /\ stage = "asked" => d = pending /\ answer = "none"
            /\ stage = "account" => Exchanged(c) /\ d = poll[c].code /\ answer = "token"
  <2>1. CASE ReadPending(c)
    BY <2>1 DEF ReadPending, SetPoll, backendVars, TypeOK, Answers
  <2>2. CASE LosePoll(c)
    <3>1. poll[c].code \in Codes \cup {NoCode} /\ failures + 1 \in Nat
      BY DEF TypeOK, Poll
    <3>2. poll' = [poll EXCEPT ![c] = [stage |-> "reply", code |-> poll[c].code, answer |-> "error"]]
      BY <2>2 DEF LosePoll, SetPoll
    <3>3. \E stage \in {"asked", "account", "reply"}, d \in Codes \cup {NoCode}, answer \in Answers :
            /\ poll' = [poll EXCEPT ![c] = [stage |-> stage, code |-> d, answer |-> answer]]
            /\ stage = "reply"
      BY <3>1, <3>2 DEF Answers
    <3> QED BY <2>2, <3>1, <3>3 DEF LosePoll, Fail, backendVars
  <2>3. CASE DropLogin(c)
    BY <2>3 DEF DropLogin, SetPoll, backendVars, TypeOK, Answers, Poll
  <2>4. CASE PassOn(c)
    BY <2>4 DEF PassOn, SetPoll, backendVars, TypeOK, Answers, Poll, Exchanged, Loops, LoopsInStep
  <2> QED BY <2>1, <2>2, <2>3, <2>4
<1>2. PICK stage \in {"asked", "account", "reply"}, d \in Codes \cup {NoCode}, answer \in Answers :
         /\ poll' = [poll EXCEPT ![c] = [stage |-> stage, code |-> d, answer |-> answer]]
         /\ stage # "reply" => d \in Codes
         /\ stage = "asked" => d = pending /\ answer = "none"
         /\ stage = "account" => Exchanged(c) /\ d = poll[c].code /\ answer = "token"
  BY <1>1
<1>3. /\ poll'[c] = [stage |-> stage, code |-> d, answer |-> answer]
      /\ \A b \in Codes \ {c} : poll'[b] = poll[b]
  BY <1>2 DEF TypeOK
<1>4. TypeOK'
  <2>1. poll' \in [Codes -> Poll]
    BY <1>2 DEF TypeOK, Poll
  <2> QED BY <1>1, <2>1 DEF TypeOK, serviceVars, clientVars, history
<1>5. Tokens'
  <2>1. \A b \in Codes : Exchanged(b)' => Exchanged(b) /\ poll'[b].code = poll[b].code
    BY <1>2, <1>3 DEF Exchanged
  <2> QED BY <1>1, <2>1, TokensFrame DEF serviceVars, history
<1>6. CodesAreIssued'
  BY <1>1, <1>2, <1>3, CodesAssumption DEF Loops, CodesAreIssued, serviceVars, clientVars
<1>7. LoopsInStep' /\ ShownHasLoop'
  BY <1>1, <1>2, <1>3 DEF Loops, LoopsInStep, ShownHasLoop, clientVars
<1> QED BY <1>4, <1>5, <1>6, <1>7 DEF IInv, Tokens

\* The exchange: an approved code has no token anywhere yet.
LEMMA ServePollStep ==
    ASSUME IInv, NEW c \in Codes, ServePoll(c)
    PROVE  IInv'
<1> USE Halves
<1> DEFINE d == poll[c].code
<1>1. /\ poll[c].stage = "asked" /\ d \in Codes /\ code[d] # "unissued"
      /\ UNCHANGED <<backendVars, clientVars, request, failures, signOuts, history>>
  BY DEF ServePoll, Loops, LoopsInStep, CodesAreIssued
<1>2. PICK answer \in Answers \ {"none"} :
         /\ poll' = [poll EXCEPT ![c] = [stage |-> "answered", code |-> d, answer |-> answer]]
         /\ answer = "token" <=> code[d] = "approved"
  BY <1>1 DEF ServePoll, SetPoll, Answers, TypeOK, CodeStates
<1>3. /\ poll'[c] = [stage |-> "answered", code |-> d, answer |-> answer]
      /\ \A b \in Codes \ {c} : poll'[b] = poll[b]
  BY <1>2 DEF TypeOK
<1>4. TypeOK'
  <2>1. poll' \in [Codes -> Poll]
    BY <1>1, <1>2 DEF TypeOK, Poll
  <2>2. code' \in [Codes -> CodeStates] /\ live' \in [Codes -> Nat]
    BY DEF ServePoll, TypeOK, CodeStates, serviceVars
  <2> QED BY <1>1, <2>1, <2>2 DEF TypeOK, backendVars, clientVars, history
<1>5. Loops'
  <2>1. \A b \in Codes : code'[b] = code[b] \/ (b = d /\ code[b] = "approved" /\ code'[b] = "exchanged")
    BY <1>1 DEF ServePoll, serviceVars, TypeOK
  <2>2. CodesAreIssued'
    BY <1>1, <1>3, <2>1 DEF Loops, CodesAreIssued, LoopsInStep, backendVars, clientVars, TypeOK
  <2>3. LoopsInStep' /\ ShownHasLoop'
    BY <1>1, <1>3 DEF Loops, LoopsInStep, ShownHasLoop, clientVars
  <2> QED BY <2>2, <2>3 DEF Loops
<1>6. Tokens'
  <2>1. CASE code[d] # "approved"
    <3>1. UNCHANGED serviceVars /\ UNCHANGED <<stored, lost>>
      BY <1>1, <2>1 DEF ServePoll, backendVars, history
    <3>2. \A b \in Codes : Exchanged(b)' => Exchanged(b) /\ poll'[b].code = poll[b].code
      BY <1>2, <1>3, <2>1 DEF Exchanged
    <3> QED BY <1>1, <3>1, <3>2, TokensFrame DEF serviceVars
  <2>2. CASE code[d] = "approved"
    <3>1. /\ code' = [code EXCEPT ![d] = "exchanged"] /\ live' = [live EXCEPT ![d] = 1]
          /\ UNCHANGED <<stored, request, lost>>
      BY <1>1, <2>2 DEF ServePoll, backendVars, history
    <3>2. /\ code'[d] = "exchanged" /\ live'[d] = 1 /\ live[d] = 0
          /\ \A b \in Codes \ {d} : code'[b] = code[b] /\ live'[b] = live[b]
      BY <1>1, <2>2, <3>1 DEF TypeOK, Tokens, NothingAhead
    <3>3. stored # NoCredential => stored.family # d /\ stored.family \in Codes
      BY <3>2 DEF TypeOK, Tokens, NothingAhead, Credential
    <3>4. \A r \in Requests : ~Holds(r, d)
      <4> SUFFICES ASSUME NEW r \in Requests, Holds(r, d) PROVE FALSE
        OBVIOUS
      <4>1. request[r].read \in Credential /\ request[r].stage \in {"renewing", "renewed"}
        BY DEF Tokens, NothingAhead, Holds, TypeOK, Request
      <4>2. request[r].read.number \in Nat \ {0} /\ request[r].read.family = d
        BY <4>1 DEF Credential, Holds
      <4> QED BY <3>2, <4>1, <4>2 DEF Tokens, NothingAhead
    <3>5. \A b \in Codes : Exchanged(b) => poll[b].code # d
      BY <2>2 DEF Tokens, ExchangedOnce
    <3>6. \A r \in Requests : request[r].stage \in {"renewing", "renewed"} =>
             request[r].read.family \in Codes \ {d}
      BY <3>4 DEF Tokens, NothingAhead, Holds, TypeOK, Request, Credential
    <3>7. NothingAhead'
      BY <3>1, <3>2, <3>3, <3>6 DEF Tokens, NothingAhead
    <3>8. GrantedOnce'
      BY <3>1, <3>2, <3>6 DEF Tokens, GrantedOnce, Holds
    <3>9. RefreshIsUsable'
      BY <3>1, <3>2, <3>3 DEF Tokens, RefreshIsUsable
    <3>10. ExchangedOnce'
      <4>1. \A b \in Codes \ {c} : Exchanged(b)' <=> Exchanged(b)
        BY <1>3 DEF Exchanged
      <4>2. \A b \in Codes \ {c} : Exchanged(b) =>
               poll[b].code \in Codes /\ poll[b].code # d
        BY <3>5 DEF Tokens, ExchangedOnce
      <4>3. \A b \in Codes : \A r \in Requests : Holds(r, b)' <=> Holds(r, b)
        BY <3>1 DEF Holds
      <4> QED BY <1>1, <1>3, <3>1, <3>2, <3>3, <3>4, <4>1, <4>2, <4>3 DEF Tokens, ExchangedOnce
    <3> QED BY <3>7, <3>8, <3>9, <3>10 DEF Tokens
  <2> QED BY <2>1, <2>2
<1> QED BY <1>4, <1>5, <1>6 DEF IInv, Tokens, Loops

\* The token goes from the poll into the store, or is dropped.
LEMMA StoreSignInStep ==
    ASSUME IInv, NEW c \in Codes, StoreSignIn(c) \/ CannotStoreSignIn(c)
    PROVE  IInv'
<1> USE Halves
<1>1. /\ poll[c].stage = "account" /\ poll[c].code \in Codes
      /\ UNCHANGED <<serviceVars, pending, cache, leaving, clientVars, request, signOuts, history>>
      /\ failures' \in Nat
  BY DEF StoreSignIn, CannotStoreSignIn, Fail, backendVars, TypeOK, Loops, LoopsInStep
<1>2. PICK stage \in {"unpend", "reply"}, answer \in {"token", "error"} :
         poll' = [poll EXCEPT ![c] = [stage |-> stage, code |-> poll[c].code, answer |-> answer]]
  BY DEF StoreSignIn, CannotStoreSignIn, SetPoll
<1>3. /\ poll'[c] = [stage |-> stage, code |-> poll[c].code, answer |-> answer]
      /\ \A b \in Codes \ {c} : poll'[b] = poll[b]
  BY <1>2 DEF TypeOK
<1>4. TypeOK'
  <2>1. poll' \in [Codes -> Poll]
    BY <1>1, <1>2 DEF TypeOK, Poll, Answers
  <2>2. stored' \in Credential \cup {NoCredential}
    BY <1>1 DEF StoreSignIn, CannotStoreSignIn, FirstTokens, TypeOK, Credential
  <2> QED BY <1>1, <2>1, <2>2 DEF TypeOK, serviceVars, clientVars, history
<1>5. Loops'
  BY <1>1, <1>3 DEF Loops, CodesAreIssued, LoopsInStep, ShownHasLoop, serviceVars, clientVars
<1>6. \A b \in Codes : Exchanged(b)' => Exchanged(b) /\ b # c /\ poll'[b].code = poll[b].code
  BY <1>3 DEF Exchanged
<1>7. Tokens'
  <2>1. CASE stored' = stored
    BY <1>1, <1>6, <2>1, TokensFrame DEF serviceVars, history
  <2>2. CASE stored' = FirstTokens(poll[c].code)
    <3>1. stored' = [family |-> poll[c].code, number |-> 1]
      BY <2>2 DEF FirstTokens
    <3>2. Exchanged(c)
      BY <1>1 DEF Exchanged, Loops, LoopsInStep
    <3>3. /\ code[poll[c].code] = "exchanged" /\ live[poll[c].code] = 1
          /\ \A r \in Requests : ~Holds(r, poll[c].code)
          /\ \A b \in Codes \ {c} : Exchanged(b) => poll[b].code # poll[c].code
      BY <3>2 DEF Tokens, ExchangedOnce
    <3>4. UNCHANGED <<live, code, request, lost>> /\ stored' # NoCredential
      BY <1>1, <3>1, NoCredentialAssumption DEF serviceVars, history, Credential
    <3>5. NothingAhead' /\ RefreshIsUsable'
      BY <3>1, <3>3, <3>4 DEF Tokens, NothingAhead, RefreshIsUsable
    <3>6. GrantedOnce'
      BY <3>1, <3>3, <3>4 DEF Tokens, GrantedOnce, Holds
    <3>7. ExchangedOnce'
      BY <1>6, <3>1, <3>3, <3>4 DEF Tokens, ExchangedOnce, Holds
    <3> QED BY <3>5, <3>6, <3>7 DEF Tokens
  <2> QED BY <2>1, <2>2 DEF StoreSignIn, CannotStoreSignIn
<1> QED BY <1>4, <1>5, <1>7 DEF IInv, Tokens, Loops

\* The end of a poll, the end of a sign-in, and what the user does about them.
LEMMA EndStep ==
    ASSUME IInv, NEW c \in Codes, CompleteSignIn(c) \/ TakeAnswer(c)
    PROVE  IInv'
<1> USE Halves
<1>1. /\ UNCHANGED <<serviceVars, stored, cache, leaving, tries, request, failures, signOuts, lost>>
      /\ pending' \in {pending, NoCode} /\ shown' \in {shown, NoCode}
      /\ expiredNotice' \cup forgotten' \subseteq Codes
  BY DEF CompleteSignIn, TakeAnswer, Take, backendVars, clientVars, history, TypeOK
<1>2. PICK new \in Poll :
         poll' = [poll EXCEPT ![c] = new] /\ new.stage \in {"none", "reply"}
  BY DEF CompleteSignIn, TakeAnswer, Take, SetPoll, NoPoll, Poll, Answers, TypeOK
<1>3. poll'[c] = new /\ \A b \in Codes \ {c} : poll'[b] = poll[b]
  BY <1>2 DEF TypeOK
<1>4. signIn' \in [Codes -> SignIns]
  BY DEF CompleteSignIn, TakeAnswer, Take, Advance, clientVars, TypeOK, SignIns
<1>5. TypeOK'
  BY <1>1, <1>2, <1>4 DEF TypeOK, serviceVars, history
<1>6. Tokens'
  <2>1. \A b \in Codes : Exchanged(b)' => Exchanged(b) /\ poll'[b].code = poll[b].code
    BY <1>2, <1>3 DEF Exchanged
  <2> QED BY <1>1, <2>1, TokensFrame DEF serviceVars
<1>7. Loops'
  <2>1. CASE CompleteSignIn(c)
    <3>1. UNCHANGED clientVars /\ poll[c].stage = "unpend" /\ poll'[c].stage = "reply"
      BY <1>3, <2>1 DEF CompleteSignIn, SetPoll, TypeOK
    <3> QED BY <1>1, <1>2, <1>3, <3>1
       DEF Loops, CodesAreIssued, LoopsInStep, ShownHasLoop, serviceVars, clientVars
  <2>2. CASE TakeAnswer(c)
    <3>1. /\ poll[c].stage = "reply" /\ poll'[c].stage = "none" /\ pending' = pending
          /\ signIn' = [signIn EXCEPT ![c] = IF Stops(c) THEN "over" ELSE "sleeping"]
          /\ shown = c /\ Stops(c) => shown' = NoCode
      BY <1>3, <2>2 DEF TakeAnswer, Take, Advance, NoPoll, backendVars, TypeOK
    <3>2. ~Stops(c) => tries[c] < MaxPolls
      BY BoundsAssumption DEF Stops, TypeOK
    <3>3. signIn[c] = "polling"
      BY <3>1 DEF Loops, LoopsInStep
    <3>4. CodesAreIssued' /\ LoopsInStep'
      BY <1>1, <1>3, <3>1, <3>2, <3>3 DEF Loops, CodesAreIssued, LoopsInStep, serviceVars, TypeOK
    <3>5. ShownHasLoop'
      BY <1>1, <3>1, CodesAssumption DEF Loops, ShownHasLoop, TypeOK
    <3> QED BY <3>4, <3>5 DEF Loops
  <2> QED BY <2>1, <2>2
<1> QED BY <1>5, <1>6, <1>7 DEF IInv, Tokens, Loops

-----------------------------------------------------------------------------
(***************************************************************************)
(* Steps without a loop: the user, a sign-out, the cache.                  *)
(***************************************************************************)
LEMMA AsideStep ==
    ASSUME IInv,
           \/ (\E c \in Codes : Decide(c)) \/ Cancel \/ DropAnswer
           \/ SignOut \/ ClearStore \/ CannotClearStore \/ ForgetHost
    PROVE  IInv'
<1> USE Halves
<1>1. /\ UNCHANGED <<live, signIn, tries, poll, request, lost>>
      /\ pending' \in {pending, NoCode} /\ shown' \in {shown, NoCode}
      /\ stored' \in {stored, NoCredential}
  BY DEF Decide, Cancel, DropAnswer, SignOut, ClearStore, CannotClearStore, ForgetHost,
     backendVars, clientVars, serviceVars, history
<1>2. /\ code' \in [Codes -> CodeStates]
      /\ \A c \in Codes : code'[c] = code[c]
            \/ (code[c] = "waiting" /\ code'[c] \notin {"exchanged", "unissued"})
  BY DEF Decide, Cancel, DropAnswer, SignOut, ClearStore, CannotClearStore, ForgetHost,
     serviceVars, TypeOK, CodeStates
<1>3. /\ cache' \in Codes \cup {NoCode} /\ leaving' \in {"no", "store", "answers"}
      /\ failures' \in Nat /\ signOuts' \in Nat
      /\ forgotten' \cup expiredNotice' \subseteq Codes
  BY DEF Decide, Cancel, DropAnswer, SignOut, ClearStore, CannotClearStore, ForgetHost, Fail,
     backendVars, history, TypeOK
<1>4. TypeOK'
  BY <1>1, <1>2, <1>3 DEF TypeOK
<1>5. Loops'
  BY <1>1, <1>2 DEF Loops, CodesAreIssued, LoopsInStep, ShownHasLoop, TypeOK
<1>6. Tokens'
  <2>1. NothingAhead'
    BY <1>1, <1>2 DEF Tokens, NothingAhead
  <2>2. GrantedOnce' /\ RefreshIsUsable'
    BY <1>1 DEF Tokens, GrantedOnce, RefreshIsUsable, Holds
  <2>3. ExchangedOnce'
    BY <1>1, <1>2 DEF Tokens, ExchangedOnce, Holds, Exchanged
  <2> QED BY <2>1, <2>2, <2>3 DEF Tokens
<1> QED BY <1>4, <1>5, <1>6 DEF IInv, Tokens, Loops

-----------------------------------------------------------------------------
(***************************************************************************)
(* The steps of a request.                                                 *)
(***************************************************************************)

\* A request that starts or ends without a grant: what it may come to hold is what
\* is stored.
LEMMA RequestStep ==
    ASSUME IInv, NEW r \in Requests,
           \/ StartRequest(r) \/ RefuseRenewal(r) \/ AnswerRequest(r)
           \/ RejectRequest(r) \/ WriteCache(r)
    PROVE  IInv'
<1> USE Halves
<1>1. /\ UNCHANGED <<serviceVars, stored, pending, leaving, clientVars, poll, failures, signOuts, history>>
      /\ cache' \in Codes \cup {NoCode} /\ request[r].stage # "renewed"
  BY DEF StartRequest, RefuseRenewal, AnswerRequest, RejectRequest, WriteCache, backendVars,
     TypeOK, Request, Credential
<1>2. PICK new \in Request :
         /\ request' = [request EXCEPT ![r] = new]
         /\ new.stage # "renewed"
         /\ new.stage = "renewing" => new.read = stored /\ stored # NoCredential
  <2>1. CASE StartRequest(r)
    BY <2>1 DEF StartRequest, TypeOK, Request
  <2>2. CASE RefuseRenewal(r) \/ AnswerRequest(r) \/ WriteCache(r)
    <3>1. request' = [request EXCEPT ![r] = Idle]
             \/ \E stage \in {"asking", "answered"} : request' = [request EXCEPT ![r].stage = stage]
      BY <2>2 DEF RefuseRenewal, AnswerRequest, WriteCache, WithoutRenewal, End, Step
    <3>2. Idle \in Request /\ Idle.stage = "idle"
      BY DEF Idle, Request
    <3>3. \A stage \in {"asking", "answered"} : [request[r] EXCEPT !.stage = stage] \in Request
      BY DEF TypeOK, Request
    <3> QED BY <3>1, <3>2, <3>3 DEF TypeOK, Request
  <2>3. CASE RejectRequest(r)
    <3> DEFINE renewal == [stage |-> "renewing", read |-> stored, again |-> TRUE]
    <3>1. Idle \in Request /\ Idle.stage = "idle"
      BY DEF Idle, Request
    <3>2. renewal \in Request /\ renewal.stage = "renewing" /\ renewal.read = stored
      BY DEF TypeOK, Request
    <3>3. \/ request' = [request EXCEPT ![r] = Idle]
          \/ request' = [request EXCEPT ![r] = renewal] /\ stored # NoCredential
      BY <2>3 DEF RejectRequest, End
    <3> HIDE DEF renewal
    <3> QED BY <3>1, <3>2, <3>3
  <2> QED BY <2>1, <2>2, <2>3
<1>3. request'[r] = new /\ \A q \in Requests \ {r} : request'[q] = request[q]
  BY <1>2 DEF TypeOK
<1>4. TypeOK'
  BY <1>1, <1>2 DEF TypeOK, serviceVars, clientVars, history
<1>5. Loops'
  BY <1>1, LoopsFrame DEF serviceVars
<1>6. Tokens'
  <2>1. /\ UNCHANGED <<live, code, stored, lost>>
        /\ \A c \in Codes : Exchanged(c)' <=> Exchanged(c)
    BY <1>1 DEF serviceVars, history, Exchanged
  <2>2. NothingAhead'
    BY <1>2, <1>3, <2>1 DEF Tokens, NothingAhead
  <2>3. \A q \in Requests : request'[q].stage = "renewed" => q # r /\ request'[q] = request[q]
    BY <1>2, <1>3
  <2>4. GrantedOnce'
    <3>1. ASSUME NEW q \in Requests, request'[q].stage = "renewed"
          PROVE  LET f == request[q].read.family IN
                 /\ stored # NoCredential /\ stored.family = f => stored.number < live[f]
                 /\ \A p \in Requests \ {q} : Holds(p, f) =>
                       request[p].stage = "renewing" /\ request[p].read.number < live[f]
      BY <2>3, <3>1 DEF Tokens, GrantedOnce
    <3>2. ASSUME NEW q \in Requests, request'[q].stage = "renewed",
                 NEW p \in Requests \ {q}, Holds(p, request[q].read.family)'
          PROVE  request'[p].stage = "renewing"
                 /\ request'[p].read.number < live[request[q].read.family]
      BY <1>2, <1>3, <2>3, <3>1, <3>2 DEF Holds
    <3> QED BY <2>1, <2>3, <3>1, <3>2 DEF GrantedOnce
  <2>5. RefreshIsUsable'
    BY <1>1, <1>3, <2>1 DEF Tokens, RefreshIsUsable
  <2>6. ExchangedOnce'
    <3>1. \A c, d \in Codes : Exchanged(c) /\ d = poll[c].code => \A q \in Requests : ~Holds(q, d)'
      BY <1>2, <1>3 DEF Tokens, ExchangedOnce, Holds
    <3> QED BY <1>1, <2>1, <3>1 DEF Tokens, ExchangedOnce
  <2> QED BY <2>2, <2>4, <2>5, <2>6 DEF Tokens
<1> QED BY <1>4, <1>5, <1>6 DEF IInv, Tokens, Loops

\* A grant: the only holder of the live token becomes the holder of the next one.
LEMMA GrantStep ==
    ASSUME IInv, NEW r \in Requests, GrantRenewal(r)
    PROVE  IInv'
<1> USE Halves
<1> DEFINE read == request[r].read
           f == read.family
<1>1. /\ request[r].stage = "renewing" /\ live[f] = read.number
      /\ live' = [live EXCEPT ![f] = @ + 1]
      /\ request' = [request EXCEPT ![r].stage = "renewed"]
      /\ UNCHANGED <<code, backendVars, clientVars, poll, failures, signOuts, history>>
  BY DEF GrantRenewal, Step
<1>2. read \in Credential /\ f \in Codes /\ read.number \in Nat \ {0}
  BY <1>1 DEF Tokens, NothingAhead, TypeOK, Request, Credential
<1>3. /\ request'[r].stage = "renewed" /\ request'[r].read = read
      /\ \A q \in Requests \ {r} : request'[q] = request[q]
      /\ live'[f] = read.number + 1 /\ \A c \in Codes \ {f} : live'[c] = live[c]
  BY <1>1, <1>2 DEF TypeOK, Request
<1>4. TypeOK'
  <2>1. live' \in [Codes -> Nat] /\ request' \in [Requests -> Request]
    BY <1>1, <1>2 DEF TypeOK, Request
  <2> QED BY <1>1, <2>1 DEF TypeOK, backendVars, clientVars, history
<1>5. Loops'
  BY <1>1, LoopsFrame DEF backendVars
<1>6. UNCHANGED <<stored, lost>> /\ \A c \in Codes : Exchanged(c)' <=> Exchanged(c)
  BY <1>1 DEF backendVars, history, Exchanged
\* Nobody else was granted a renewal of this family, and no poll has its token.
<1>7. \A q \in Requests \ {r} : ~(request[q].stage = "renewed" /\ request[q].read.family = f)
  BY <1>1, <1>2 DEF Tokens, GrantedOnce, Holds, TypeOK
<1>8. \A c \in Codes : Exchanged(c) => poll[c].code # f
  BY <1>1, <1>2 DEF Tokens, ExchangedOnce, Holds
<1>9. stored # NoCredential => stored.family \in Codes /\ stored.number \in Nat
  BY DEF TypeOK, Credential
<1>10. \A q \in Requests : request[q].stage \in {"renewing", "renewed"} =>
          request[q].read.family \in Codes /\ request[q].read.number \in Nat
  BY DEF Tokens, NothingAhead, TypeOK, Request, Credential
<1>11. NothingAhead'
  <2>1. code[f] = "exchanged"
    BY <1>1, <1>2 DEF Tokens, NothingAhead
  <2>2. \A c \in Codes : live[c] \in Nat
    BY DEF TypeOK
  <2> QED BY <1>1, <1>2, <1>3, <1>6, <1>7, <1>9, <1>10, <2>1, <2>2 DEF Tokens, NothingAhead
<1>12. GrantedOnce'
  <2>1. ASSUME NEW q \in Requests, request'[q].stage = "renewed"
        PROVE  /\ request'[q].read = request[q].read /\ request[q].read.family \in Codes
               /\ q # r => request[q].stage = "renewed" /\ request[q].read.family # f
    BY <1>2, <1>3, <1>7, <1>10, <2>1
  <2>2. ASSUME NEW q \in Requests, request'[q].stage = "renewed",
               stored # NoCredential, stored.family = request[q].read.family
        PROVE  stored.number < live'[request[q].read.family]
    <3>1. CASE q = r
      BY <1>1, <1>2, <1>3, <1>9, <2>2, <3>1 DEF Tokens, NothingAhead
    <3>2. CASE q # r
      BY <1>3, <2>1, <2>2, <3>2 DEF Tokens, GrantedOnce
    <3> QED BY <3>1, <3>2
  <2>3. ASSUME NEW q \in Requests, request'[q].stage = "renewed",
               NEW p \in Requests \ {q}, Holds(p, request[q].read.family)'
        PROVE  request'[p].stage = "renewing"
               /\ request'[p].read.number < live'[request[q].read.family]
    <3>1. CASE q = r
      <4>1. request'[p] = request[p] /\ Holds(p, f)
        BY <1>3, <2>3, <3>1 DEF Holds
      <4>2. request[p].stage = "renewing" /\ request[p].read.number <= live[f]
        BY <1>7, <3>1, <4>1 DEF Holds, Tokens, NothingAhead
      <4> QED BY <1>1, <1>2, <1>3, <1>10, <3>1, <4>1, <4>2
    <3>2. CASE q # r
      <4>1. p # r /\ request'[p] = request[p] /\ Holds(p, request[q].read.family)
        BY <1>3, <2>1, <2>3, <3>2 DEF Holds
      <4>2. request[p].stage = "renewing"
            /\ request[p].read.number < live[request[q].read.family]
        BY <2>1, <2>3, <3>2, <4>1 DEF Tokens, GrantedOnce
      <4> QED BY <1>3, <2>1, <2>3, <3>2, <4>1, <4>2
    <3> QED BY <3>1, <3>2
  <2> QED BY <1>6, <2>1, <2>2, <2>3 DEF GrantedOnce
<1>13. ExchangedOnce'
  <2>1. \A q \in Requests, c \in Codes : Holds(q, c)' => Holds(q, c)
    BY <1>1, <1>3 DEF Holds
  <2>2. \A c \in Codes : Exchanged(c) => poll[c].code \in Codes \ {f}
    BY <1>8 DEF Tokens, ExchangedOnce
  <2>3. \A c \in Codes : Exchanged(c) => live'[poll[c].code] = live[poll[c].code]
    BY <1>3, <2>2
  <2> QED BY <1>1, <1>6, <2>1, <2>2, <2>3 DEF Tokens, ExchangedOnce
<1>14. RefreshIsUsable'
  <2>1. CASE stored = NoCredential \/ stored.family # f
    BY <1>2, <1>3, <1>6, <1>9, <2>1 DEF Tokens, RefreshIsUsable
  <2>2. CASE stored # NoCredential /\ stored.family = f
    <3>1. stored.family \notin lost => stored.number = read.number
      BY <1>1, <1>7, <2>2 DEF Tokens, RefreshIsUsable
    <3>2. stored.number = read.number => stored = read
      BY <1>2, <2>2 DEF TypeOK, Credential
    <3> QED BY <1>3, <1>6, <3>1, <3>2 DEF RefreshIsUsable
  <2> QED BY <2>1, <2>2
<1> QED BY <1>4, <1>5, <1>11, <1>12, <1>13, <1>14 DEF IInv, Tokens, Loops

\* The end of a grant: its token goes into the store, or is lost.
LEMMA RenewedStep ==
    ASSUME IInv, NEW r \in Requests, StoreRenewal(r) \/ LoseRenewal(r)
    PROVE  IInv'
<1> USE Halves
<1> DEFINE f == request[r].read.family
           renewed == Successor(request[r].read)
<1>1. /\ request[r].stage = "renewed"
      /\ UNCHANGED <<serviceVars, pending, cache, leaving, clientVars, poll, signOuts,
                     forgotten, expiredNotice>>
      /\ failures' \in Nat
  BY DEF StoreRenewal, LoseRenewal, Fail, backendVars, history, TypeOK
<1>2. request[r].read \in Credential /\ f \in Codes /\ live[f] = request[r].read.number + 1
  BY <1>1 DEF Tokens, NothingAhead, TypeOK, Request, Credential
<1>3. renewed \in Credential /\ renewed.family = f /\ renewed.number = live[f]
  BY <1>2 DEF Credential, Successor
<1> HIDE DEF renewed
<1>4. PICK new \in Request :
         request' = [request EXCEPT ![r] = new] /\ new.stage \in {"idle", "asking"}
  <2>1. Idle \in Request /\ Idle.stage = "idle"
    BY DEF Idle, Request
  <2>2. [request[r] EXCEPT !.stage = "asking"] \in Request
    BY DEF TypeOK, Request
  <2>3. [request[r] EXCEPT !.stage = "asking", !.read = renewed] \in Request
    <3>1. request[r] \in Request
      BY DEF TypeOK
    <3> QED BY <1>3, <3>1 DEF Request
  <2> QED BY <2>1, <2>2, <2>3 DEF StoreRenewal, LoseRenewal, WithoutRenewal, End, Step, TypeOK, Request, renewed
<1>5. request'[r] = new /\ \A q \in Requests \ {r} : request'[q] = request[q]
  BY <1>4 DEF TypeOK
<1>6. /\ lost \subseteq lost' /\ lost' \subseteq Codes
      /\ \/ stored' = renewed
         \/ stored' = stored /\ f \in lost'
  BY <1>2 DEF StoreRenewal, LoseRenewal, history, TypeOK, renewed
<1>7. TypeOK'
  <2>1. request' \in [Requests -> Request]
    BY <1>4 DEF TypeOK
  <2> QED BY <1>1, <1>3, <1>6, <2>1 DEF TypeOK, serviceVars, clientVars
<1>8. Loops'
  BY <1>1, LoopsFrame DEF serviceVars
<1>9. UNCHANGED <<live, code>> /\ \A c \in Codes : Exchanged(c)' <=> Exchanged(c)
  BY <1>1 DEF serviceVars, Exchanged
<1>10. \A q \in Requests, c \in Codes : Holds(q, c)' => q # r /\ Holds(q, c) /\ request'[q] = request[q]
  BY <1>4, <1>5 DEF Holds
<1>11. /\ \A q \in Requests \ {r} : Holds(q, f) =>
             request[q].stage = "renewing" /\ request[q].read.number < live[f]
       /\ \A c \in Codes : Exchanged(c) => poll[c].code # f
  BY <1>1, <1>2 DEF Tokens, GrantedOnce, ExchangedOnce, Holds
<1>12. NothingAhead'
  BY <1>3, <1>4, <1>5, <1>6, <1>9, NoCredentialAssumption DEF Tokens, NothingAhead, TypeOK, Credential
<1>13. GrantedOnce'
  <2>1. ASSUME NEW q \in Requests, request'[q].stage = "renewed"
        PROVE  /\ q # r /\ request'[q] = request[q] /\ request[q].stage = "renewed"
               /\ request[q].read.family # f
    BY <1>4, <1>5, <1>11, <2>1 DEF Holds
  <2>2. ASSUME NEW q \in Requests, request'[q].stage = "renewed",
               stored' # NoCredential, stored'.family = request[q].read.family
        PROVE  stored'.number < live[request[q].read.family]
    BY <1>3, <1>6, <2>1, <2>2 DEF Tokens, GrantedOnce
  <2>3. ASSUME NEW q \in Requests, request'[q].stage = "renewed",
               NEW p \in Requests \ {q}, Holds(p, request[q].read.family)'
        PROVE  request'[p].stage = "renewing"
               /\ request'[p].read.number < live[request[q].read.family]
    <3>1. p # r /\ request'[p] = request[p] /\ Holds(p, request[q].read.family)
      BY <1>4, <1>5, <2>3 DEF Holds
    <3> QED BY <2>1, <2>3, <3>1 DEF Tokens, GrantedOnce
  <2> QED BY <1>9, <2>1, <2>2, <2>3 DEF GrantedOnce
<1>14. ExchangedOnce'
  BY <1>1, <1>3, <1>6, <1>9, <1>10, <1>11 DEF Tokens, ExchangedOnce
<1>15. RefreshIsUsable'
  <2>1. CASE stored' = renewed
    BY <1>3, <1>9, <2>1 DEF RefreshIsUsable
  <2>2. CASE stored' = stored /\ f \in lost'
    BY <1>5, <1>6, <1>9, <2>2 DEF Tokens, RefreshIsUsable
  <2> QED BY <1>6, <2>1, <2>2
<1> QED BY <1>7, <1>8, <1>12, <1>13, <1>14, <1>15 DEF IInv, Tokens, Loops

-----------------------------------------------------------------------------
LEMMA IInvStep == IInv /\ [Next]_vars => IInv'
<1> SUFFICES ASSUME IInv, [Next]_vars PROVE IInv'
  OBVIOUS
<1>1. CASE \E c \in Codes : Connect(c) \/ Decide(c) \/ Follow(c)
  BY <1>1, BeginStep, AskStep, ServePollStep, StoreSignInStep, EndStep, AsideStep
     DEF Follow, Begin, Ask, Finish
<1>2. CASE \E c \in Codes : NoIssue(c) \/ LosePoll(c) \/ CannotStoreSignIn(c)
  BY <1>2, BeginStep, AskStep, StoreSignInStep
<1>3. CASE Cancel \/ SignOut \/ Leave \/ CannotClearStore \/ DropAnswer
  BY <1>3, AsideStep DEF Leave
<1>4. CASE \E r \in Requests : StartRequest(r) \/ Serve(r) \/ LoseRenewal(r)
  BY <1>4, RequestStep, GrantStep, RenewedStep DEF Serve
<1>5. CASE UNCHANGED vars
  <2>1. UNCHANGED <<serviceVars, backendVars, clientVars, poll, request, failures, signOuts, history>>
    BY <1>5 DEF vars
  <2>2. TypeOK'
    BY <2>1 DEF IInv, TypeOK, serviceVars, backendVars, clientVars, history
  <2>3. Tokens'
    BY <2>1, TokensFrame, Halves DEF serviceVars, backendVars, history, Exchanged
  <2>4. Loops'
    BY <2>1, LoopsFrame, Halves DEF serviceVars, backendVars
  <2> QED BY <2>2, <2>3, <2>4 DEF IInv, Tokens, Loops
<1> QED BY <1>1, <1>2, <1>3, <1>4, <1>5 DEF Next

\* Which token is where, and where every loop is, holds in every reachable state.
THEOREM ForgeInductiveInvariant == Spec => []IInv
BY InitHolds, IInvStep, PTL DEF Spec

\* Types, among them the deadline: no loop polls more often than MaxPolls.
THEOREM ForgeTypeCorrect == Spec => []TypeOK
<1>1. IInv => TypeOK
  BY DEF IInv
<1> QED BY <1>1, ForgeInductiveInvariant, PTL

\* However many requests renew, and whatever sign-ins come in between, the stored
\* refresh token is live or its successor is about to be stored, unless an answer
\* of its family was lost.
THEOREM RefreshStaysUsable == Spec => []RefreshIsUsable
<1>1. IInv => RefreshIsUsable
  BY DEF IInv
<1> QED BY <1>1, ForgeInductiveInvariant, PTL

\* A code on the screen is followed, so it cannot bar the next sign-in for ever.
THEOREM ShownCodeIsFollowed == Spec => []ShownHasLoop
<1>1. IInv => ShownHasLoop
  BY DEF IInv
<1> QED BY <1>1, ForgeInductiveInvariant, PTL
=============================================================================
