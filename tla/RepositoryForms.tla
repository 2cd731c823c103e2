---------------------------- MODULE RepositoryForms ----------------------------
(***************************************************************************)
(* The dialogs that bring a repository or a remote in: CloneDialog.tsx and *)
(* CreateDialog.tsx of components/start-page, AddRemoteDialog.tsx of       *)
(* components/remotes, and the list of a signed-in account's repositories  *)
(* (ForgeRepositoryPicker.tsx), with what they read of the connections     *)
(* (forgeConnections.ts, lib/integrations.ts).  An address is the host it  *)
(* lives on, or "typed", and the repository it names, or "" for none.  The *)
(* busy flag, the credentials and the service change on their own.         *)
(***************************************************************************)
EXTENDS Integers, Sequences, FiniteSets, FiniteSetsExt

CONSTANTS Integrations, \* function from a service to the sequence of its hosts
          LinksOnly,    \* the services GitCat can only link to
          Listed,       \* function from a host to the names its account can reach
          FormBound     \* user actions and changes of a sign-in in a run

ASSUME FormAssumption == FormBound \in Nat /\ LinksOnly \subseteq DOMAIN Integrations

VARIABLES
    form,        \* the open dialog and its fields, or NoForm
    picker,      \* the repository list, or NoPicker
    listCalls,   \* forgeRepositories requests in flight: [id, host, credential]
    stored,      \* the credential stored for a host, numbered, 0 for none
    accepted,    \* the credentials the service accepts for a host
    refused,     \* rejected: hosts marked as refusing their credential
    formBusy,    \* a command is running
    sent,        \* the last request of a dialog, or NoRequestSent
    formActs     \* user actions and changes so far (bound)

formVars == <<form, picker, listCalls, stored, accepted, refused, formBusy, sent,
              formActs>>

Services == DOMAIN Integrations
Hosts    == DOMAIN Listed
NoAddress     == <<"", "">>
TypedUrls     == {<<"typed", "t">>, <<"typed", "">>}
NoForm        == [dialog |-> "none"]
NoPicker      == [host |-> ""]
NoRequestSent == [kind |-> "none"]

-----------------------------------------------------------------------------
(* What the dialogs derive on every render. *)

CredentialFor(h) == stored[h] # 0
Connected(h)     == CredentialFor(h) /\ h \notin refused

\* selfHostedHosts of the chosen service; AddRemote offers the connected ones.
HostsOf(f) ==
    IF f.dialog = "none" \/ f.source \notin Services \ LinksOnly THEN <<>>
    ELSE IF f.dialog = "remote" THEN SelectSeq(Integrations[f.source], Connected)
    ELSE Integrations[f.source]

SelectedHost(f) ==
    LET hosts == HostsOf(f) IN
    IF f.dialog # "none" /\ \E i \in DOMAIN hosts : hosts[i] = f.host THEN f.host
    ELSE IF hosts = <<>> THEN "" ELSE hosts[1]

HasConnection(f) == SelectedHost(f) # "" /\ Connected(SelectedHost(f))

\* ready and the branches of the three dialogs: whether the fields are there.
FieldsShown(f) ==
    CASE f.dialog = "none"   -> FALSE
      [] f.dialog = "remote" -> f.source = "url" \/ HostsOf(f) # <<>>
      [] OTHER               -> f.source \notin Services \/ HasConnection(f)

\* RepositorySource shows the list of a host whose credential is not refused.
ListedHost(f) ==
    IF f.dialog = "clone" /\ f.source \in Services /\ HasConnection(f)
    THEN SelectedHost(f) ELSE ""

\* repositoryNameFromUrl; a folder of its own is asked from nobody.
Destination(f) == IF f.parent = "" THEN "" ELSE f.url[2]

CanClone(f) == f.url # NoAddress /\ Destination(f) # "" /\ (f.shallow => f.depthValid)

CanCreate(f) ==
    f.parent # "" /\ f.name # "" /\ (f.source \in Services => HasConnection(f))

CanAdd(f) ==
    IF f.source = "url" THEN f.url # NoAddress ELSE SelectedHost(f) # "" /\ f.name # ""

Submittable(f) ==
    /\ ~formBusy
    /\ \/ f.dialog = "clone"  /\ CanClone(f)
       \/ f.dialog = "create" /\ CanCreate(f)
       \/ f.dialog = "remote" /\ CanAdd(f)

\* Of the repositories loaded last, the one with the picked full name.
Chosen ==
    IF picker.host # "" /\ form.dialog = "clone" /\ form.picked \in picker.repositories
    THEN form.picked ELSE ""

-----------------------------------------------------------------------------
(* The list: ForgeRepositoryPicker is mounted, keeps its state from one host *)
(* to the next, and asks again when the host or the reload token changes.    *)

FormActs == formActs < FormBound /\ formActs' = formActs + 1

FreshPicker == [host |-> "", call |-> 0, repositories |-> {}, from |-> "",
                loading |-> TRUE, error |-> FALSE, open |-> TRUE, filter |-> ""]

NextCall == 1 + Max({0} \cup {c.id : c \in listCalls} \cup
                    (IF picker.host = "" THEN {} ELSE {picker.call}))

AskList(p, h, calls) ==
    /\ picker' = [p EXCEPT !.host = h, !.call = NextCall, !.loading = TRUE,
                           !.error = FALSE]
    /\ listCalls' = calls \cup {[id |-> NextCall, host |-> h,
                                 credential |-> stored'[h]]}

\* After any step: the list stays, unmounts, mounts, or asks for another host.
\* The primed form, credentials and refusals decide.
PickerBecomes(p, calls) ==
    LET h == ListedHost(form)' IN
    IF h = picker.host THEN picker' = p /\ listCalls' = calls
    ELSE IF h = "" THEN picker' = NoPicker /\ listCalls' = calls
    ELSE AskList(IF picker.host = "" THEN FreshPicker ELSE p, h, calls)

PickerFollows == PickerBecomes(picker, listCalls)

FormInit ==
    /\ form = NoForm /\ picker = NoPicker /\ listCalls = {}
    /\ \E on \in SUBSET Hosts : stored = [h \in Hosts |-> IF h \in on THEN 1 ELSE 0]
    /\ accepted = [h \in Hosts |-> {1}]
    /\ refused = {} /\ formBusy = FALSE /\ sent = NoRequestSent /\ formActs = 0

AnswerIsLive(call) == picker.host # "" /\ picker.call = call.id

\* The list of the account, a refused credential, or another failure.
ListArrives(call, fails) ==
    LET refusal == call.credential \notin accepted[call.host]
        lists   == ~refusal /\ ~fails
        answered == [picker EXCEPT !.loading = FALSE, !.error = ~lists,
                        !.repositories = IF lists THEN Listed[call.host] ELSE @,
                        !.from = IF lists THEN call.host ELSE @]
    IN
    /\ call \in listCalls
    /\ refused' = IF lists THEN refused \ {call.host}
                  ELSE IF refusal THEN refused \cup {call.host} ELSE refused
    /\ UNCHANGED <<form, stored, accepted, formBusy, sent, formActs>>
    /\ PickerBecomes(IF AnswerIsLive(call) THEN answered ELSE picker, listCalls \ {call})

InList == picker.host # "" /\ ~picker.loading /\ ~picker.error
          /\ (picker.open \/ Chosen = "")

PickRepository(r) ==
    /\ FormActs /\ InList /\ r \in picker.repositories
    /\ picker.filter \in {"", r}
    /\ form' = [form EXCEPT !.picked = r, !.url = <<picker.from, r>>]
    /\ picker' = [picker EXCEPT !.open = FALSE]
    /\ UNCHANGED <<listCalls, stored, accepted, refused, formBusy, sent>>

\* The field reopens the list, Escape falls back to the choice, typing filters.
FieldOfList ==
    /\ FormActs /\ picker.host # ""
    /\ \/ Chosen # "" /\ picker' = [picker EXCEPT !.open = ~@]
       \/ /\ picker.open \/ Chosen = ""
          /\ \E text \in {""} \cup UNION {Listed[h] : h \in Hosts} :
                 text # picker.filter /\ picker' = [picker EXCEPT !.filter = text]
    /\ UNCHANGED <<form, listCalls, stored, accepted, refused, formBusy, sent>>

ReloadList ==
    /\ FormActs /\ picker.host # "" /\ ~picker.loading
    /\ UNCHANGED <<form, stored, accepted, refused, formBusy, sent>>
    /\ AskList([picker EXCEPT !.open = TRUE], picker.host, listCalls)

-----------------------------------------------------------------------------
(* The fields. *)

FormRest == UNCHANGED <<stored, accepted, refused, formBusy, sent>>

OpenForm(dialog) ==
    /\ FormActs /\ form = NoForm
    /\ dialog # "remote" => ~formBusy
    /\ form' = [dialog |-> dialog,
                source |-> IF dialog = "create" THEN "local" ELSE "url", host |-> "",
                url |-> NoAddress, picked |-> "", parent |-> "",
                name |-> IF dialog = "remote" THEN "n" ELSE "",
                shallow |-> FALSE, depthValid |-> TRUE, private |-> TRUE]
    /\ FormRest /\ PickerFollows

CloseForm ==
    /\ FormActs /\ form # NoForm
    /\ form.dialog # "remote" => ~formBusy
    /\ form' = NoForm
    /\ FormRest /\ PickerFollows

\* The sources of a dialog; only AddRemote lets one choose a service GitCat can
\* do no more than link to.
SourcesOf(f) ==
    CASE f.dialog = "clone"  -> {"url"} \cup (Services \ LinksOnly)
      [] f.dialog = "create" -> {"local"} \cup (Services \ LinksOnly)
      [] OTHER               -> {"url"} \cup Services

ChooseSource(source) ==
    /\ FormActs /\ form # NoForm /\ source \in SourcesOf(form)
    /\ form' = [form EXCEPT !.source = source,
                    !.host = IF source \in Services \/ form.dialog = "remote" THEN "" ELSE @]
    /\ FormRest /\ PickerFollows

\* The hosts of a service, when there are several to choose from.
ChooseHost(h) ==
    /\ FormActs /\ form # NoForm
    /\ \E i \in DOMAIN HostsOf(form) : HostsOf(form)[i] = h
    /\ form.dialog = "create" => ~HasConnection(form)
    /\ form.dialog = "remote" \/ Len(HostsOf(form)) > 1
    /\ form' = [form EXCEPT !.host = h]
    /\ FormRest /\ PickerFollows

TypeUrl ==
    /\ form.source = "url"
    /\ \E url \in TypedUrls \cup {NoAddress} : form' = [form EXCEPT !.url = url]

TypeFolder == \E folder \in {"", "dir"} : form' = [form EXCEPT !.parent = folder]

TypeName == \E name \in {"", "n"} : form' = [form EXCEPT !.name = name]

TypeInClone ==
    /\ form.dialog = "clone"
    /\ \/ TypeUrl
       \/ /\ FieldsShown(form)
          /\ \/ TypeFolder
             \/ form' = [form EXCEPT !.shallow = ~@]
             \/ form.shallow /\ form' = [form EXCEPT !.depthValid = ~@]

TypeInCreate ==
    /\ form.dialog = "create" /\ FieldsShown(form)
    /\ \/ TypeName \/ TypeFolder
       \/ form.source \in Services /\ form' = [form EXCEPT !.private = ~@]

TypeInAdd ==
    /\ form.dialog = "remote" /\ FieldsShown(form)
    /\ \/ TypeUrl
       \/ form.source # "url" /\ TypeName
       \/ form.source \in Services /\ form' = [form EXCEPT !.private = ~@]

TypeField ==
    /\ FormActs
    /\ TypeInClone \/ TypeInCreate \/ TypeInAdd
    /\ form' # form
    /\ FormRest /\ PickerFollows

-----------------------------------------------------------------------------
(* Submitting, and what changes around the dialogs. *)

RequestOf(f) ==
    [kind |-> f.dialog, source |-> f.source,
     host |-> IF f.source \in Services THEN SelectedHost(f) ELSE "",
     connected |-> f.source \in Services => Connected(SelectedHost(f)),
     url |-> f.url, chosen |-> Chosen, shown |-> picker.host,
     destination |-> IF f.dialog = "clone" THEN Destination(f) ELSE f.parent,
     private |-> f.private]

\* The button or Enter; the dialog closes and the command runs.
SubmitForm ==
    /\ FormActs /\ Submittable(form)
    /\ sent' = RequestOf(form)
    /\ form' = NoForm /\ formBusy' = TRUE
    /\ UNCHANGED <<stored, accepted, refused>> /\ PickerFollows

BusyChanges ==
    /\ FormActs
    /\ formBusy' = ~formBusy
    /\ UNCHANGED <<form, picker, listCalls, stored, accepted, refused, sent>>

\* reloadForgeConnections after a sign-in, a token or a sign-out: every refusal
\* is dropped with the credential it was about.
SignInChanges(h, signsIn) ==
    /\ FormActs /\ (signsIn \/ stored[h] # 0)
    /\ stored' = [stored EXCEPT ![h] = IF signsIn THEN formActs' + 1 ELSE 0]
    /\ accepted' = [accepted EXCEPT ![h] = IF signsIn THEN @ \cup {stored'[h]} ELSE @]
    /\ refused' = {}
    /\ UNCHANGED <<form, formBusy, sent>> /\ PickerFollows

\* The credential is revoked on the service's own page.
Revoke(h) ==
    /\ FormActs /\ stored[h] \in accepted[h]
    /\ accepted' = [accepted EXCEPT ![h] = @ \ {stored[h]}]
    /\ UNCHANGED <<form, picker, listCalls, stored, refused, formBusy, sent>>

FormNext ==
    \/ \E dialog \in {"clone", "create", "remote"} : OpenForm(dialog)
    \/ CloseForm \/ TypeField \/ SubmitForm \/ BusyChanges
    \/ \E source \in Services \cup {"url", "local"} : ChooseSource(source)
    \/ \E h \in Hosts : ChooseHost(h) \/ Revoke(h)
    \/ \E h \in Hosts, signsIn \in BOOLEAN : SignInChanges(h, signsIn)
    \/ \E call \in listCalls, fails \in BOOLEAN : ListArrives(call, fails)
    \/ \E r \in UNION {Listed[h] : h \in Hosts} : PickRepository(r)
    \/ FieldOfList \/ ReloadList

FormSpec == FormInit /\ [][FormNext]_formVars

-----------------------------------------------------------------------------
(* Properties. *)

\* The open dialog has the fields of its kind and the list is mounted exactly
\* while the clone dialog shows a connected host.
FormTypeOK ==
    /\ form.dialog \in {"none", "clone", "create", "remote"}
    /\ form # NoForm => /\ form.source \in Services \cup {"url", "local"}
                        /\ form.url \in TypedUrls \cup {NoAddress}
                                        \cup {<<h, r>> : h \in Hosts, r \in UNION {Listed[k] : k \in Hosts}}
    /\ picker.host = ListedHost(form)
    /\ refused \subseteq Hosts
    /\ formBusy \in BOOLEAN

\* A list that is on the screen is the list of the host above it, however the
\* services, hosts, reloads and their answers follow one another: the cleanup of
\* the effect drops the answers of an earlier host
\* (ForgeRepositoryPicker.tsx:58-83).
ListIsOfHost ==
    picker.host # "" /\ ~picker.loading /\ ~picker.error => picker.from = picker.host

\* No dialog asks a service for a repository with a credential that is missing
\* or known to be refused, also when it was signed out while its host was chosen
\* (AddRemoteDialog.tsx:70-78, CreateDialog.tsx:57-63).
AskedOfConnected ==
    sent.kind \in {"create", "remote"} => sent.connected

\* What is cloned from a service's page is the repository its field names.
\* ForgeRepositoryPicker.tsx:33-35 says "Picking one closes the list and names
\* it in the field, the way a select behaves: the choice stays visible".
ClonesWhatIsShown ==
    sent.kind = "clone" /\ sent.source \in Services =>
        sent.url = <<sent.shown, sent.chosen>>

\* A host is marked as refusing only while the credential that was refused is
\* the stored one.  forgeConnections.ts:77-79 says "a refusal recorded against
\* the previous one says nothing about what is stored now".
RefusalIsOfStored ==
    \A h \in refused : stored[h] \notin accepted[h]
===============================================================================
