-------------------------- MODULE DashboardProofs --------------------------
(* What the form of Dashboard promises for any number of overlapping runs  *)
(* of submit() and requests for the list.                                  *)
EXTENDS Dashboard, TLAPS

\* Without strays all that is under way was started by the form on the screen.
OwnRuns ==
  showComposer /\ ~strays =>
    \A s \in Submits : submits[s] \in {"posted", "loading"} => s \in ofForm

\* A run that awaits the list has been answered 202.
LoadingIsAccepted ==
  showComposer => \A s \in ofForm : submits[s] = "loading" => accepted

NoFormNoRuns == ~showComposer => ofForm = {}

IndInv ==
  /\ TypeOK
  /\ OwnRuns
  /\ LoadingIsAccepted
  /\ NoFormNoRuns
  /\ ConfirmedWasAccepted
  /\ ConfirmationIsTimed

LEMMA InitOK == Init => IndInv
<1> SUFFICES ASSUME Init PROVE IndInv
  OBVIOUS
<1>1. TypeOK
  <2>1. /\ version \in Versions /\ list \in Versions \cup {Nothing}
        /\ details \in 0 .. MaxDetails /\ failures \in 0 .. MaxFailures
    BY DashboardAssumption DEF Init, Versions
  <2>2. PICK l \in PageLoads :
          loads = [k \in PageLoads \cup Submits |-> IF k = l THEN Sent ELSE Free]
    BY DEF Init
  <2>3. loads \in [PageLoads \cup Submits -> Versions \cup {Free, Sent, Failed}]
    BY <2>2
  <2>4. \A s \in Submits : submits[s] = "loading" <=> loads[s] # Free
    BY <2>2, DashboardAssumption DEF Init
  <2>5. submits \in [Submits -> {"free", "posted", "loading", "closing"}]
    BY DEF Init
  <2> QED BY <2>1, <2>3, <2>4, <2>5 DEF Init, TypeOK
<1> QED BY <1>1 DEF Init, IndInv, OwnRuns, LoadingIsAccepted, NoFormNoRuns, ConfirmedWasAccepted, ConfirmationIsTimed

LEMMA LoadFacts == Free # Sent /\ Free # Failed /\ Sent # Failed
                   /\ \A v \in Versions : v # Free /\ v # Sent /\ v # Failed
BY DashboardAssumption DEF Free, Sent, Failed, Versions

LEMMA MayFailKeeps ==
  ASSUME failures \in 0 .. MaxFailures, MayFail
  PROVE  failures' \in 0 .. MaxFailures
BY DashboardAssumption DEF MayFail

\* loadNotifications() in the slot of the page.
LEMMA PageKeeps ==
  ASSUME TypeOK, NEW l \in PageLoads, NEW x \in Versions \cup {Free, Sent, Failed},
         loads' = [loads EXCEPT ![l] = x]
  PROVE  /\ loads' \in [PageLoads \cup Submits -> Versions \cup {Free, Sent, Failed}]
         /\ \A s \in Submits : loads'[s] = loads[s]
BY DashboardAssumption DEF TypeOK

\* A step of the run s: its place and its call of loadNotifications().
LEMMA RunKeeps ==
  ASSUME TypeOK, NEW s \in Submits, NEW x \in Versions \cup {Free, Sent, Failed},
         NEW p \in {"free", "posted", "loading", "closing"}, p = "loading" <=> x # Free,
         submits' = [submits EXCEPT ![s] = p], loads' = [loads EXCEPT ![s] = x]
  PROVE  /\ loads' \in [PageLoads \cup Submits -> Versions \cup {Free, Sent, Failed}]
         /\ submits' \in [Submits -> {"free", "posted", "loading", "closing"}]
         /\ \A r \in Submits : submits'[r] = "loading" <=> loads'[r] # Free
         /\ \A r \in Submits : r # s => submits'[r] = submits[r]
         /\ submits'[s] = p
BY DEF TypeOK

\* The two halves of TypeOK: the calls with the runs, and the rest of the page.
Slots ==
  /\ loads \in [PageLoads \cup Submits -> Versions \cup {Free, Sent, Failed}]
  /\ submits \in [Submits -> {"free", "posted", "loading", "closing"}]
  /\ \A s \in Submits : submits[s] = "loading" <=> loads[s] # Free

Page ==
  /\ version \in Versions /\ list \in Versions \cup {Nothing}
  /\ loading \in BOOLEAN /\ autoRefresh \in BOOLEAN
  /\ showComposer \in BOOLEAN /\ sending \in BOOLEAN /\ submitSuccess \in BOOLEAN
  /\ details \in 0 .. MaxDetails /\ selected \in BOOLEAN
  /\ health \in {"online", "offline"} /\ error \in BOOLEAN
  /\ failures \in 0 .. MaxFailures
  /\ ofForm \subseteq Submits /\ accepted \in BOOLEAN /\ strays \in BOOLEAN

LEMMA Halves == TypeOK <=> Slots /\ Page
BY DEF TypeOK, Slots, Page

LEMMA PrimedHalves == Slots' /\ Page' => TypeOK'
BY DEF TypeOK, Slots, Page

\* A step that is about something else leaves the calls and the runs as they are.
LEMMA SlotsSame == Slots /\ UNCHANGED <<loads, submits>> => Slots'
BY DEF Slots

LEMMA StepOK == IndInv /\ [Next]_vars => IndInv'
<1> SUFFICES ASSUME IndInv, [Next]_vars PROVE IndInv'
  OBVIOUS
<1> USE DashboardAssumption
<1>a. TypeOK /\ OwnRuns /\ LoadingIsAccepted /\ NoFormNoRuns /\ ConfirmedWasAccepted
     /\ ConfirmationIsTimed
  BY DEF IndInv
<1>1. CASE Change
  <2>1. TypeOK'
    BY <1>a, <1>1 DEF TypeOK, Change, formVars, panelVars, lightVars, history, Versions
  <2> QED BY <1>a, <1>1, <2>1 DEF IndInv, Change, formVars, history, OwnRuns, LoadingIsAccepted, NoFormNoRuns, ConfirmedWasAccepted, ConfirmationIsTimed
<1>2. CASE Toggle
  <2>1. TypeOK'
    BY <1>a, <1>2 DEF TypeOK, Toggle, listVars, formVars, panelVars, lightVars, history
  <2> QED BY <1>a, <1>2, <2>1 DEF IndInv, Toggle, formVars, history, OwnRuns, LoadingIsAccepted, NoFormNoRuns, ConfirmedWasAccepted, ConfirmationIsTimed
<1>3. ASSUME NEW l \in PageLoads \cup Submits, Serve(l) PROVE IndInv'
  <2>1. loads[l] = Sent /\ \E x \in Versions \cup {Failed} : loads' = [loads EXCEPT ![l] = x]
    BY <1>a, <1>3 DEF Serve, TypeOK
  <2>2. PICK x \in Versions \cup {Failed} : loads' = [loads EXCEPT ![l] = x]
    BY <2>1
  <2>3. loads' \in [PageLoads \cup Submits -> Versions \cup {Free, Sent, Failed}]
    BY <1>a, <2>2 DEF TypeOK
  <2>4. \A s \in Submits : loads'[s] # Free <=> loads[s] # Free
    BY <1>a, <2>1, <2>2, LoadFacts DEF TypeOK
  <2>5. failures' \in 0 .. MaxFailures
    BY <1>a, <1>3, MayFailKeeps DEF Serve, TypeOK
  <2>6. TypeOK'
    BY <1>a, <1>3, <2>3, <2>4, <2>5 DEF TypeOK, Serve, formVars, panelVars, lightVars, history
  <2> QED BY <1>a, <1>3, <2>6 DEF IndInv, Serve, formVars, history, OwnRuns, LoadingIsAccepted, NoFormNoRuns, ConfirmedWasAccepted, ConfirmationIsTimed
<1>4. ASSUME NEW l \in PageLoads, Reload(l) PROVE IndInv'
  <2>1. loads' = [loads EXCEPT ![l] = Sent]
    BY <1>4 DEF Reload, CallLoad
  <2>2. TypeOK'
    BY <1>a, <1>4, <2>1, PageKeeps DEF TypeOK, Reload, CallLoad, formVars, panelVars, lightVars, history
  <2> QED BY <1>a, <1>4, <2>2 DEF IndInv, Reload, formVars, history, OwnRuns, LoadingIsAccepted, NoFormNoRuns, ConfirmedWasAccepted, ConfirmationIsTimed
<1>5. ASSUME NEW l \in PageLoads, PageLoaded(l) PROVE IndInv'
  <2>1. loads' = [loads EXCEPT ![l] = Free] /\ list' \in Versions \cup {Nothing}
        /\ health' \in {"online", "offline"} /\ error' \in BOOLEAN
    BY <1>a, <1>5, LoadFacts DEF PageLoaded, Answered, TypeOK
  <2>2. TypeOK'
    BY <1>a, <1>5, <2>1, PageKeeps DEF TypeOK, PageLoaded, Answered, formVars, panelVars, lightVars, history
  <2> QED BY <1>a, <1>5, <2>2 DEF IndInv, PageLoaded, Answered, formVars, history, OwnRuns, LoadingIsAccepted, NoFormNoRuns, ConfirmedWasAccepted, ConfirmationIsTimed
<1>6. CASE OpenComposer
  <2>1. TypeOK'
    BY <1>a, <1>6 DEF TypeOK, OpenComposer, listVars, panelVars, lightVars
  <2>2. CASE showComposer
    BY <1>a, <1>6, <2>1, <2>2 DEF IndInv, OpenComposer, OwnRuns, LoadingIsAccepted, NoFormNoRuns, ConfirmedWasAccepted, ConfirmationIsTimed
  <2>3. CASE ~showComposer
    BY <1>a, <1>6, <2>1, <2>3 DEF IndInv, OpenComposer, OwnRuns, LoadingIsAccepted, NoFormNoRuns, ConfirmedWasAccepted, ConfirmationIsTimed
  <2> QED BY <2>2, <2>3
<1>7. CASE CloseComposer
  <2>s. Slots'
    BY <1>a, <1>7, Halves, SlotsSame DEF CloseComposer, Unmount, listVars, panelVars, lightVars
  <2>p. Page
    BY <1>a, Halves
  <2>g. Page'
    BY <2>p, <1>7 DEF Page, CloseComposer, Unmount, listVars, panelVars, lightVars
  <2>1. TypeOK'
    BY <2>s, <2>g, PrimedHalves
  <2> QED BY <1>a, <1>7, <2>1 DEF IndInv, CloseComposer, Unmount, OwnRuns, LoadingIsAccepted, NoFormNoRuns, ConfirmedWasAccepted, ConfirmationIsTimed
<1>8. ASSUME NEW s \in Submits, Submit(s) PROVE IndInv'
  <2>1. submits[s] = "free" /\ submits' = [submits EXCEPT ![s] = "posted"] /\ loads' = loads
    BY <1>8 DEF Submit, listVars
  <2>2. \A r \in Submits : submits'[r] = "loading" <=> loads'[r] # Free
    BY <1>a, <2>1 DEF TypeOK
  <2>3. TypeOK'
    BY <1>a, <1>8, <2>1, <2>2 DEF TypeOK, Submit, listVars, panelVars, lightVars
  <2>4. \A r \in Submits : r # s => submits'[r] = submits[r]
    BY <1>a, <2>1 DEF TypeOK
  <2>5. submits'[s] = "posted" /\ ofForm' = ofForm \cup {s} /\ showComposer' = showComposer
    BY <1>a, <1>8, <2>1 DEF TypeOK, Submit
  <2>6. UNCHANGED <<showComposer, strays, accepted, submitSuccess>>
    BY <1>8 DEF Submit
  <2>7. OwnRuns' /\ LoadingIsAccepted'
    BY <1>a, <2>4, <2>5, <2>6 DEF OwnRuns, LoadingIsAccepted, TypeOK
  <2>8. NoFormNoRuns' /\ ConfirmedWasAccepted'
    BY <1>a, <1>8, <2>6 DEF NoFormNoRuns, ConfirmedWasAccepted, Submit, CanSubmit
  <2>9. ConfirmationIsTimed'
    BY <1>8, <2>6 DEF ConfirmationIsTimed, Submit, CanSubmit
  <2> QED BY <2>3, <2>7, <2>8, <2>9 DEF IndInv
<1>9. ASSUME NEW s \in Submits, Accepted(s) PROVE IndInv'
  <2>1. /\ submits[s] = "posted" /\ submits' = [submits EXCEPT ![s] = "loading"]
        /\ loads' = [loads EXCEPT ![s] = Sent]
    BY <1>9 DEF Accepted, CallLoad
  <2>2. /\ loads' \in [PageLoads \cup Submits -> Versions \cup {Free, Sent, Failed}]
        /\ submits' \in [Submits -> {"free", "posted", "loading", "closing"}]
        /\ \A r \in Submits : submits'[r] = "loading" <=> loads'[r] # Free
        /\ \A r \in Submits : r # s => submits'[r] = submits[r]
    BY <1>a, <2>1, LoadFacts, RunKeeps
  <2>3. accepted' \in BOOLEAN
    BY <1>a, <1>9 DEF Accepted, TypeOK
  <2>4. TypeOK'
    BY <1>a, <1>9, <2>2, <2>3 DEF TypeOK, Accepted, CallLoad, panelVars, lightVars
  <2>5. /\ accepted => accepted'
        /\ s \in ofForm => accepted'
        /\ UNCHANGED <<showComposer, strays, submitSuccess, ofForm>>
    BY <1>9 DEF Accepted
  <2>6. OwnRuns'
    BY <1>a, <2>1, <2>2, <2>5 DEF OwnRuns
  <2>7. LoadingIsAccepted'
    <3>1. ASSUME showComposer, NEW r \in ofForm, submits'[r] = "loading"
          PROVE  accepted'
      <4>1. r \in Submits
        BY <1>a DEF TypeOK
      <4>2. CASE r = s
        BY <2>5, <4>2, <3>1
      <4>3. CASE r # s
        <5>1. submits[r] = "loading"
          BY <2>2, <3>1, <4>1, <4>3
        <5>2. accepted
          BY <1>a, <3>1, <5>1 DEF LoadingIsAccepted
        <5> QED BY <2>5, <5>2
      <4> QED BY <4>2, <4>3
    <3> QED BY <2>5, <3>1 DEF LoadingIsAccepted
  <2>8. NoFormNoRuns' /\ ConfirmedWasAccepted'
    BY <1>a, <2>5 DEF NoFormNoRuns, ConfirmedWasAccepted
  <2>9. ConfirmationIsTimed'
    BY <1>a, <2>1, <2>2, <2>5 DEF ConfirmationIsTimed
  <2> QED BY <2>4, <2>6, <2>7, <2>8, <2>9 DEF IndInv
<1>10. ASSUME NEW s \in Submits, Rejected(s) \/ CloseByTimer(s) PROVE IndInv'
  <2>1. /\ submits[s] \in {"posted", "closing"} /\ submits' = [submits EXCEPT ![s] = "free"]
        /\ loads' = loads
    BY <1>10 DEF Rejected, CloseByTimer, listVars
  <2>2. /\ submits' \in [Submits -> {"free", "posted", "loading", "closing"}]
        /\ \A r \in Submits : submits'[r] # "free" => submits'[r] = submits[r]
        /\ \A r \in Submits : r # s => submits'[r] = submits[r]
    BY <1>a, <2>1 DEF TypeOK
  <2>3. \A r \in Submits : submits'[r] = "loading" <=> loads'[r] # Free
    BY <1>a, <2>1 DEF TypeOK
  <2>4. failures' \in 0 .. MaxFailures
    BY <1>a, <1>10, MayFailKeeps DEF Rejected, CloseByTimer, TypeOK
  <2>s. Slots'
    BY <1>a, <2>1, <2>2, <2>3 DEF Slots, TypeOK
  <2>p. Page
    BY <1>a, Halves
  <2>g. Page'
    <3>1. CASE Rejected(s)
      BY <2>p, <3>1, <2>4 DEF Page, Rejected, listVars, panelVars, lightVars, history
    <3>2. CASE CloseByTimer(s)
      <4>1. /\ UNCHANGED <<version, list, loading, autoRefresh, sending, submitSuccess, details,
                           selected, health, error, failures>>
            /\ showComposer' = FALSE /\ ofForm' = {} /\ accepted' = FALSE /\ strays' = FALSE
        BY <3>2 DEF CloseByTimer, Unmount, listVars, panelVars, lightVars
      <4> QED BY <2>p, <4>1 DEF Page
    <3> QED BY <1>10, <3>1, <3>2
  <2>5. TypeOK'
    BY <2>s, <2>g, PrimedHalves
  <2>6. \/ UNCHANGED <<showComposer, ofForm, strays, accepted, submitSuccess>>
        \/ showComposer' = FALSE /\ ofForm' = {}
    BY <1>10 DEF Rejected, CloseByTimer, Unmount, history
  <2>7. OwnRuns' /\ LoadingIsAccepted'
    BY <1>a, <2>2, <2>6 DEF OwnRuns, LoadingIsAccepted, TypeOK
  <2>8. NoFormNoRuns' /\ ConfirmedWasAccepted'
    BY <1>a, <2>6 DEF NoFormNoRuns, ConfirmedWasAccepted
  <2>9. ConfirmationIsTimed'
    <3>1. CASE Rejected(s)
      <4>1. submits[s] = "posted" /\ UNCHANGED <<showComposer, submitSuccess>>
        BY <3>1 DEF Rejected
      <4> QED BY <1>a, <2>2, <4>1 DEF ConfirmationIsTimed
    <3>2. CASE CloseByTimer(s)
      BY <3>2 DEF CloseByTimer, Unmount, ConfirmationIsTimed
    <3> QED BY <1>10, <3>1, <3>2
  <2> QED BY <2>5, <2>7, <2>8, <2>9 DEF IndInv
<1>11. ASSUME NEW s \in Submits, Confirm(s) PROVE IndInv'
  <2>1. /\ submits[s] = "loading" /\ submits' = [submits EXCEPT ![s] = "closing"]
        /\ loads' = [loads EXCEPT ![s] = Free] /\ list' \in Versions \cup {Nothing}
        /\ health' \in {"online", "offline"} /\ error' \in BOOLEAN
    BY <1>a, <1>11, LoadFacts DEF Confirm, Answered, TypeOK
  <2>2. /\ loads' \in [PageLoads \cup Submits -> Versions \cup {Free, Sent, Failed}]
        /\ submits' \in [Submits -> {"free", "posted", "loading", "closing"}]
        /\ \A r \in Submits : submits'[r] = "loading" <=> loads'[r] # Free
        /\ \A r \in Submits : r # s => submits'[r] = submits[r]
        /\ submits'[s] = "closing"
    BY <1>a, <2>1, RunKeeps
  <2>3. TypeOK'
    BY <1>a, <1>11, <2>1, <2>2 DEF TypeOK, Confirm, Answered, panelVars, lightVars, history
  <2>4. UNCHANGED <<showComposer, strays, accepted, ofForm>>
    BY <1>11 DEF Confirm, Answered, history
  <2>5. OwnRuns' /\ LoadingIsAccepted' /\ NoFormNoRuns'
    BY <1>a, <2>2, <2>4 DEF OwnRuns, LoadingIsAccepted, NoFormNoRuns, TypeOK
  <2>6. ConfirmedWasAccepted'
    <3>1. showComposer /\ ~strays => s \in ofForm
      BY <1>a, <2>1 DEF OwnRuns
    <3>2. showComposer /\ s \in ofForm => accepted
      BY <1>a, <2>1 DEF LoadingIsAccepted
    <3> QED BY <2>4, <3>1, <3>2 DEF ConfirmedWasAccepted
  <2>7. ConfirmationIsTimed'
    BY <2>2 DEF ConfirmationIsTimed
  <2> QED BY <2>3, <2>5, <2>6, <2>7 DEF IndInv
<1>12. CASE OpenDetail
  <2>s. Slots'
    BY <1>a, <1>12, Halves, SlotsSame DEF OpenDetail, listVars
  <2>d. details' \in 0 .. MaxDetails
    BY <1>a, <1>12 DEF TypeOK, OpenDetail
  <2>p. Page
    BY <1>a, Halves
  <2>g. Page'
    BY <2>p, <2>d, <1>12 DEF Page, OpenDetail, listVars, lightVars, history
  <2>1. TypeOK'
    BY <2>s, <2>g, PrimedHalves
  <2> QED BY <1>a, <1>12, <2>1 DEF IndInv, OpenDetail, history, OwnRuns, LoadingIsAccepted, NoFormNoRuns, ConfirmedWasAccepted, ConfirmationIsTimed
<1>13. CASE DetailAnswered
  <2>1. failures' \in 0 .. MaxFailures
    BY <1>a, <1>13, MayFailKeeps DEF DetailAnswered, TypeOK
  <2>s. Slots'
    BY <1>a, <1>13, Halves, SlotsSame DEF DetailAnswered, listVars, formVars, history
  <2>p. Page
    BY <1>a, Halves
  <2>d. details' \in 0 .. MaxDetails
    BY <1>a, <1>13 DEF TypeOK, DetailAnswered
  <2>g. Page'
    BY <2>p, <2>d, <1>13, <2>1 DEF Page, DetailAnswered, listVars, formVars, history
  <2>2. TypeOK'
    BY <2>s, <2>g, PrimedHalves
  <2> QED BY <1>a, <1>13, <2>2 DEF IndInv, DetailAnswered, formVars, history, OwnRuns, LoadingIsAccepted, NoFormNoRuns, ConfirmedWasAccepted, ConfirmationIsTimed
<1>14. CASE CloseDetail
  <2>s. Slots'
    BY <1>a, <1>14, Halves, SlotsSame DEF CloseDetail, listVars, lightVars, formVars, history
  <2>p. Page
    BY <1>a, Halves
  <2>g. Page'
    BY <2>p, <1>14 DEF Page, CloseDetail, listVars, lightVars, formVars, history
  <2>1. TypeOK'
    BY <2>s, <2>g, PrimedHalves
  <2> QED BY <1>a, <1>14, <2>1 DEF IndInv, CloseDetail, formVars, history, OwnRuns, LoadingIsAccepted, NoFormNoRuns, ConfirmedWasAccepted, ConfirmationIsTimed
<1>15. CASE CheckHealth
  <2>1. failures' \in 0 .. MaxFailures
    BY <1>a, <1>15, MayFailKeeps DEF CheckHealth, TypeOK
  <2>2. TypeOK'
    BY <1>a, <1>15, <2>1 DEF TypeOK, CheckHealth, listVars, formVars, panelVars, history
  <2> QED BY <1>a, <1>15, <2>2 DEF IndInv, CheckHealth, formVars, history, OwnRuns, LoadingIsAccepted, NoFormNoRuns, ConfirmedWasAccepted, ConfirmationIsTimed
<1>16. CASE Dismiss
  <2>s. Slots'
    BY <1>a, <1>16, Halves, SlotsSame DEF Dismiss, listVars, formVars, panelVars, history
  <2>p. Page
    BY <1>a, Halves
  <2>g. Page'
    BY <2>p, <1>16 DEF Page, Dismiss, listVars, formVars, panelVars, history
  <2>1. TypeOK'
    BY <2>s, <2>g, PrimedHalves
  <2> QED BY <1>a, <1>16, <2>1 DEF IndInv, Dismiss, formVars, history, OwnRuns, LoadingIsAccepted, NoFormNoRuns, ConfirmedWasAccepted, ConfirmationIsTimed
<1>17. CASE UNCHANGED vars
  <2>1. TypeOK'
    BY <1>a, <1>17 DEF TypeOK, vars
  <2> QED BY <1>a, <1>17, <2>1 DEF IndInv, vars, OwnRuns, LoadingIsAccepted, NoFormNoRuns, ConfirmedWasAccepted, ConfirmationIsTimed
<1> QED
  BY <1>1, <1>2, <1>3, <1>4, <1>5, <1>6, <1>7, <1>8, <1>9, <1>10, <1>11, <1>12, <1>13, <1>14, <1>15, <1>16, <1>17
  DEF Next, SubmitStep, Refresh

THEOREM Inductive == Spec => []IndInv
BY InitOK, StepOK, PTL DEF Spec

-----------------------------------------------------------------------------
(* The theorems.                                                           *)

\* Every variable keeps its range, and the runs of submit() and their calls of
\* loadNotifications() agree (App.tsx:114-141).
THEOREM TypeCorrect == Spec => []TypeOK
<1>1. IndInv => TypeOK
  BY DEF IndInv
<1> QED BY <1>1, Inductive, PTL

\* However many requests overlap, a form that says it was queued has been taken by
\* the server, or was opened over a run of another form (App.tsx:114-141, 510).
THEOREM ConfirmationTrue == Spec => []ConfirmedWasAccepted
<1>1. IndInv => ConfirmedWasAccepted
  BY DEF IndInv
<1> QED BY <1>1, Inductive, PTL

\* Whatever is closed, opened again or answered late, a form that reports success
\* has a timer running that takes it away (App.tsx:132-133).
THEOREM ConfirmationTimed == Spec => []ConfirmationIsTimed
<1>1. IndInv => ConfirmationIsTimed
  BY DEF IndInv
<1> QED BY <1>1, Inductive, PTL
=============================================================================
