----------------------------- MODULE Dashboard -----------------------------
(***************************************************************************)
(* The page of App.tsx: the list of notifications, the form that submits   *)
(* one, the panel with the record of one, the health light and the banner  *)
(* of the last error.                                                      *)
(*                                                                         *)
(* JavaScript runs one callback at a time; a step is what runs between two *)
(* awaits.  Requests overlap, and their answers come in any order.  What   *)
(* is written in the fields and the error of the form are left out.        *)
(***************************************************************************)
EXTENDS FiniteSets, Integers

CONSTANTS
  PageLoads,    \* bound: requests for the list that the page has out at once
  Submits,      \* bound: runs of submit() at once, up to their last timer
  MaxDetails,   \* bound: requests of openDetail() out at once
  MaxVersion,   \* bound: changes of the list at the server
  MaxFailures   \* bound: requests that fail

ASSUME DashboardAssumption ==
  /\ PageLoads \cap Submits = {} /\ PageLoads # {}
  /\ MaxDetails \in Nat /\ MaxVersion \in Nat /\ MaxFailures \in Nat

Versions == 0 .. MaxVersion
Nothing == -1   \* the empty list of the first render

\* A call of loadNotifications(), until it has the version it was answered with.
Free == -1
Sent == -2
Failed == -3

VARIABLES
  version,      \* of the list at the server
  list,         \* the version in notifications
  loading,
  loads,        \* each call of loadNotifications(): its request or its answer
  autoRefresh,
  showComposer,
  sending,
  submitSuccess,
  submits,      \* where each run of submit() is; "closing" is its last timer
  details,      \* the number of requests of openDetail() that are out
  selected,     \* the panel is open
  health,       \* "online" or "offline"
  error,        \* the banner of the last error is on the page
  failures,
  ofForm,       \* history: runs that the form on the screen has started
  accepted,     \* history: a POST of the form on the screen was answered 202
  strays        \* history: runs of an earlier form were under way when it opened

vars == <<version, list, loading, loads, autoRefresh, showComposer, sending,
          submitSuccess, submits, details, selected, health, error,
          failures, ofForm, accepted, strays>>

listVars == <<version, list, loading, loads>>
formVars == <<showComposer, sending, submitSuccess, submits>>
panelVars == <<details, selected>>
lightVars == <<health, error>>
history == <<ofForm, accepted, strays>>

\* The first effect has called loadNotifications().
Init ==
  /\ version = 0 /\ list = Nothing /\ loading = TRUE
  /\ \E l \in PageLoads :
       loads = [k \in PageLoads \cup Submits |-> IF k = l THEN Sent ELSE Free]
  /\ autoRefresh = TRUE
  /\ showComposer = FALSE /\ sending = FALSE /\ submitSuccess = FALSE
  /\ submits = [s \in Submits |-> "free"]
  /\ details = 0 /\ selected = FALSE
  /\ health = "offline" /\ error = FALSE
  /\ failures = 0
  /\ ofForm = {} /\ accepted = FALSE /\ strays = FALSE

-----------------------------------------------------------------------------
(* The server, as the page sees it.                                        *)

Change ==
  /\ version < MaxVersion /\ version' = version + 1
  /\ UNCHANGED <<list, loading, loads, autoRefresh, formVars, panelVars, lightVars, failures, history>>

MayFail == failures < MaxFailures /\ failures' = failures + 1

Serve(l) ==
  /\ loads[l] = Sent
  /\ \/ loads' = [loads EXCEPT ![l] = version] /\ UNCHANGED failures
     \/ loads' = [loads EXCEPT ![l] = Failed] /\ MayFail
  /\ UNCHANGED <<version, list, loading, autoRefresh, formVars, panelVars, lightVars, history>>

-----------------------------------------------------------------------------
(* loadNotifications() and its callers.                                    *)

CallLoad(l) ==
  /\ loads[l] = Free /\ loads' = [loads EXCEPT ![l] = Sent]
  /\ loading' = TRUE
  /\ UNCHANGED <<version, list>>

\* The button, and the timer while autoRefresh is on.
Reload(l) ==
  /\ CallLoad(l)
  /\ UNCHANGED <<autoRefresh, formVars, panelVars, lightVars, failures, history>>

RefreshOnce(l) ==
  /\ autoRefresh /\ list = Nothing
  /\ Reload(l)

Refresh(l) == autoRefresh /\ Reload(l)

Toggle ==
  /\ autoRefresh' = ~autoRefresh
  /\ UNCHANGED <<listVars, formVars, panelVars, lightVars, failures, history>>

\* A failed request leaves the list; both ways end with setLoading(false).
Answered(l) ==
  /\ loads[l] \in Versions \cup {Failed}
  /\ loads' = [loads EXCEPT ![l] = Free]
  /\ IF loads[l] = Failed
     THEN health' = "offline" /\ error' = TRUE /\ UNCHANGED list
     ELSE list' = loads[l] /\ error' = FALSE /\ UNCHANGED health
  /\ loading' = FALSE
  /\ UNCHANGED <<version, autoRefresh, panelVars, failures, history>>

PageLoaded(l) == l \in PageLoads /\ Answered(l) /\ UNCHANGED formVars

-----------------------------------------------------------------------------
(* The form.                                                               *)

OpenComposer ==
  /\ showComposer' = TRUE /\ submitSuccess' = FALSE
  /\ IF showComposer THEN UNCHANGED strays
     ELSE strays' = (\E s \in Submits : submits[s] \in {"posted", "loading"})
  /\ UNCHANGED <<listVars, autoRefresh, sending, submits, panelVars, lightVars, failures, ofForm,
                 accepted>>

\* The history is that of the form on the screen, and goes with it.
Unmount == showComposer' = FALSE /\ ofForm' = {} /\ accepted' = FALSE /\ strays' = FALSE

CloseComposer ==
  /\ showComposer /\ Unmount
  /\ UNCHANGED <<listVars, autoRefresh, sending, submitSuccess, submits, panelVars, lightVars,
                 failures>>

\* The button is what can stop a second submit(): it looks at sending, which
\* submit() does not set, and at submitSuccess.
CanSubmit == showComposer /\ ~sending /\ ~submitSuccess

Submit(s) ==
  /\ CanSubmit
  /\ submits[s] = "free" /\ submits' = [submits EXCEPT ![s] = "posted"]
  /\ ofForm' = ofForm \cup {s}
  /\ UNCHANGED <<listVars, autoRefresh, showComposer, sending, submitSuccess, panelVars, lightVars,
                 failures, accepted, strays>>

AcceptedWithoutAwait(s) ==
  /\ submits[s] = "posted" /\ submits' = [submits EXCEPT ![s] = "closing"]
  /\ accepted' = (accepted \/ s \in ofForm)
  /\ sending' = FALSE /\ submitSuccess' = TRUE
  /\ CallLoad(s)
  /\ UNCHANGED <<autoRefresh, showComposer, panelVars, lightVars, failures, ofForm, strays>>

\* 202: the form is cleared and submit() awaits loadNotifications().
Accepted(s) ==
  /\ submits[s] = "posted" /\ submits' = [submits EXCEPT ![s] = "loading"]
  /\ accepted' = (accepted \/ s \in ofForm)
  /\ CallLoad(s)
  /\ UNCHANGED <<autoRefresh, showComposer, sending, submitSuccess, panelVars, lightVars, failures,
                 ofForm, strays>>

RejectedAsSuccess(s) ==
  /\ submits[s] = "posted" /\ submits' = [submits EXCEPT ![s] = "closing"]
  /\ sending' = FALSE /\ submitSuccess' = TRUE
  /\ MayFail
  /\ UNCHANGED <<listVars, autoRefresh, showComposer, panelVars, lightVars, history>>

Rejected(s) ==
  /\ submits[s] = "posted" /\ submits' = [submits EXCEPT ![s] = "free"]
  /\ sending' = FALSE
  /\ MayFail
  /\ UNCHANGED <<listVars, autoRefresh, showComposer, submitSuccess, panelVars, lightVars, history>>

ConfirmWithoutTimer(s) ==
  /\ submits[s] = "loading" /\ Answered(s)
  /\ submits' = [submits EXCEPT ![s] = "free"]
  /\ sending' = FALSE /\ submitSuccess' = TRUE
  /\ UNCHANGED showComposer

\* loadNotifications() throws nothing: the list may be old, the POST was taken.
Confirm(s) ==
  /\ submits[s] = "loading" /\ Answered(s)
  /\ submits' = [submits EXCEPT ![s] = "closing"]
  /\ sending' = FALSE /\ submitSuccess' = TRUE
  /\ UNCHANGED showComposer

\* The timer closes whatever form is open then.
CloseByTimer(s) ==
  /\ submits[s] = "closing" /\ submits' = [submits EXCEPT ![s] = "free"]
  /\ Unmount
  /\ UNCHANGED <<listVars, autoRefresh, sending, submitSuccess, panelVars, lightVars, failures>>

-----------------------------------------------------------------------------
(* The panel.  A row is there to be clicked while the list is not loading.  *)

RowsShown == ~loading /\ list # Nothing

\* The open panel covers the page; until then another row may be clicked.
OpenDetail ==
  /\ RowsShown /\ ~selected
  /\ details < MaxDetails /\ details' = details + 1
  /\ sending' = TRUE /\ submitSuccess' = FALSE
  /\ UNCHANGED <<listVars, autoRefresh, showComposer, submits, selected, lightVars,
                 failures, history>>

\* Whichever of the answers comes: the panel opens, or opens again, or changes.
DetailAnswered ==
  /\ details > 0 /\ details' = details - 1
  /\ \/ selected' = TRUE /\ UNCHANGED <<failures, error>>
     \/ MayFail /\ error' = TRUE /\ UNCHANGED selected
  /\ UNCHANGED <<listVars, autoRefresh, formVars, health, history>>

CloseDetail ==
  /\ selected /\ selected' = FALSE
  /\ UNCHANGED <<listVars, autoRefresh, formVars, details, lightVars, failures, history>>

-----------------------------------------------------------------------------
(* The health light and the banner.                                        *)

\* The answer to a checkHealth(), which the first effect and a timer call
\* whatever else is out: one may come at any time.
CheckHealth ==
  /\ \/ health' = "online" /\ UNCHANGED failures
     \/ health' = "offline" /\ MayFail
  /\ UNCHANGED <<listVars, autoRefresh, formVars, panelVars, error, history>>

Dismiss ==
  /\ error /\ error' = FALSE
  /\ UNCHANGED <<listVars, autoRefresh, formVars, panelVars, health, failures, history>>

-----------------------------------------------------------------------------
SubmitStep(s) == Accepted(s) \/ Rejected(s) \/ Confirm(s) \/ CloseByTimer(s)

Next ==
  \/ Change \/ Toggle
  \/ \E l \in PageLoads \cup Submits : Serve(l)
  \/ \E l \in PageLoads : Reload(l) \/ Refresh(l) \/ PageLoaded(l)
  \/ OpenComposer \/ CloseComposer
  \/ \E s \in Submits : Submit(s) \/ SubmitStep(s)
  \/ OpenDetail \/ DetailAnswered \/ CloseDetail
  \/ CheckHealth \/ Dismiss

Spec == Init /\ [][Next]_vars

\* Requests are answered, in time or with an error, and timers fire.  The
\* operator owes nothing.
FairSpec ==
  /\ Spec
  /\ \A l \in PageLoads \cup Submits : WF_vars(Serve(l))
  /\ \A l \in PageLoads : WF_vars(PageLoaded(l)) /\ WF_vars(Refresh(l))
  /\ \A s \in Submits : WF_vars(SubmitStep(s))
  /\ WF_vars(DetailAnswered)
  /\ WF_vars(CheckHealth)

-----------------------------------------------------------------------------
(* Properties.                                                             *)

\* Types, and that a run of submit() awaits its own call of loadNotifications().
TypeOK ==
  /\ version \in Versions /\ list \in Versions \cup {Nothing}
  /\ loading \in BOOLEAN /\ autoRefresh \in BOOLEAN
  /\ loads \in [PageLoads \cup Submits -> Versions \cup {Free, Sent, Failed}]
  /\ showComposer \in BOOLEAN /\ sending \in BOOLEAN /\ submitSuccess \in BOOLEAN
  /\ submits \in [Submits -> {"free", "posted", "loading", "closing"}]
  /\ \A s \in Submits : submits[s] = "loading" <=> loads[s] # Free
  /\ details \in 0 .. MaxDetails /\ selected \in BOOLEAN
  /\ health \in {"online", "offline"} /\ error \in BOOLEAN
  /\ failures \in 0 .. MaxFailures
  /\ ofForm \subseteq Submits /\ accepted \in BOOLEAN /\ strays \in BOOLEAN

\* A form that says "Notification accepted and queued." has been accepted, unless
\* it was opened over a run of an earlier one, whose end it then shows as its own
\* (App.tsx:114-141, 510).
ConfirmedWasAccepted == submitSuccess /\ showComposer /\ ~strays => accepted

\* However answers overtake each other, a page that refreshes itself comes to show
\* the list as the server has it, and once requests succeed no light and no banner
\* speaks of a failure any more (App.tsx:64-99).
EventuallyFresh ==
  <>[]autoRefresh => <>[](list = version /\ health = "online" /\ ~error)

\* A form that reports success has the timer of a run of submit() behind it that
\* takes it away, however often it was closed and opened since (App.tsx:132-133).
ConfirmationIsTimed == submitSuccess /\ showComposer => \E s \in Submits : submits[s] = "closing"
=============================================================================
