----------------------------- MODULE Workspace -----------------------------
EXTENDS Naturals

(***************************************************************************)
(* The browser workspace (apps/web/app.js, workspace-state.js): handlers   *)
(* of clicks and of late API answers share one mutable state; each ends in *)
(* render(), which repairs the state, replaces the page and saves both.    *)
(* An asynchronous handler keeps the objective it was started for, however *)
(* the user moves on meanwhile.  Titles, metrics and the other inputs that *)
(* no handler branches on are left out.                                    *)
(***************************************************************************)
CONSTANTS Objectives,    (* objective records: objects, not ids            *)
          DefaultTasks,  (* task ids of the reviewed catalog               *)
          ItemSales,     (* the one a new objective starts with            *)
          Requests,      (* API calls that may be in flight at once        *)
          MaxCalls,      (* bound of the model on API calls altogether     *)
          None

(* What the handler of an API call keeps across its await.                 *)
CallRecords ==
  [kind : {"connect", "compile", "launch", "inference"},
   objective : Objectives \cup {None}, valid : BOOLEAN]

ASSUME WorkspaceAssumption ==
  /\ None \notin Objectives /\ ItemSales \in DefaultTasks
  /\ "custom" \notin DefaultTasks /\ MaxCalls \in Nat
  /\ None \notin CallRecords

VARIABLES
  ui,       \* the workspace fields of the state
  obj,      \* the objective records, also those no longer listed
  shown,    \* the state of the last render that succeeded: page and storage
  requests, \* API calls in flight: what their handlers will go on with
  calls     \* API calls so far

vars == <<ui, obj, shown, requests, calls>>

Tasks == DefaultTasks \cup {"custom"}

Outcomes == {"draft_ready", "needs_clarification", "unsupported"}

(* createObjective()                                                       *)
Fresh ==
  [fit |-> None, confirmed |-> FALSE, task |-> ItemSales,
   draft |-> None, draftFor |-> None, evaluationFor |-> None,
   materializing |-> "idle", materializationError |-> FALSE,
   materializationFor |-> None,
   api |-> "idle", apiError |-> FALSE, view |-> "brief"]

Init ==
  /\ ui = [connected |-> FALSE, api |-> "idle", knowledge |-> FALSE,
           simulation |-> "idle", experiment |-> FALSE, module |-> "data",
           view |-> "brief", active |-> None, listed |-> {}]
  /\ obj = [o \in Objectives |-> Fresh]
  /\ shown = [ui |-> ui, obj |-> obj, animated |-> TRUE]
  /\ requests = [i \in Requests |-> None] /\ calls = 0

-----------------------------------------------------------------------------
(* render()                                                                *)

CanAccess(m, u) ==
  \/ m = "data"
  \/ m = "knowledge" /\ u.connected
  \/ m = "objectives" /\ u.knowledge
  \/ m = "experiments" /\ u.experiment

CanView(v, objective) == v = "brief" \/ objective.confirmed

(* objectiveAgentGuidance(): the first panel whose condition holds.        *)
Panel(objective) ==
  CASE objective.fit = None -> "none"
    [] objective.fit = "unsupported" -> "data_gap"
    [] objective.fit = "supported" ->
         IF objective.api = "compiling" THEN "compiling"
         ELSE IF objective.materializing = "loading" THEN "materializing"
         ELSE IF objective.materializationError THEN "materialization_error"
         ELSE IF objective.api = "loading" THEN "inference"
         ELSE IF objective.apiError THEN "api_error"
         ELSE IF objective.draft \in {"needs_clarification", "unsupported"}
           THEN objective.draft
         ELSE IF objective.task = "custom" /\ objective.draft = "draft_ready"
           THEN "review"
         ELSE IF objective.confirmed THEN "confirmed"
         ELSE IF objective.materializationFor # None THEN "materialized"
         ELSE "choose"

(* A faulty render() that leaves an unreachable view open.                 *)
RepairedModule(u, objectives) ==
  [u EXCEPT !.module = IF CanAccess(@, u) THEN @ ELSE "data"]

Repaired(u, objectives) ==
  LET m == IF CanAccess(u.module, u) THEN u.module ELSE "data" IN
  [u EXCEPT !.module = m,
            !.view = IF m = "objectives" /\ ~CanView(@, objectives[u.active])
                       THEN "brief" ELSE @]

(* The panel of a confirmed objective takes the contract of its draft;     *)
(* taskContractFrom() throws when there is none.                           *)
Throws(u, objectives) ==
  /\ u.module = "objectives" /\ u.view = "brief"
  /\ Panel(objectives[u.active]) = "confirmed"
  /\ objectives[u.active].draft = None

(* A render() that throws leaves page and storage as they were, but has    *)
(* stopped the waiting animation.                                          *)
Paint(u, objectives) ==
  LET r == Repaired(u, objectives) IN
  /\ ui' = r
  /\ shown' = IF Throws(r, objectives)
                THEN [shown EXCEPT !.animated = FALSE]
                ELSE [ui |-> r, obj |-> objectives, animated |-> TRUE]

Render(u, objectives) == Paint(u, objectives) /\ obj' = objectives

-----------------------------------------------------------------------------
(* What the page offers, and the objective a click works on.               *)

Page == shown.ui

Displayed == shown.obj[Page.active]

OnBrief == Page.module = "objectives" /\ Page.view = "brief"

Offered(panels) == OnBrief /\ Panel(Displayed) \in panels

Active == obj[ui.active]

Set(objective) == [obj EXCEPT ![ui.active] = objective]

(* An API call starts; its handler keeps what the record names.            *)
Send(i, call) ==
  /\ requests[i] = None /\ calls < MaxCalls
  /\ requests' = [requests EXCEPT ![i] = call] /\ calls' = calls + 1

Call(kind, o, valid) == [kind |-> kind, objective |-> o, valid |-> valid]

(* A faulty handler: it looks for the active objective when the answer is  *)
(* there.                                                                  *)
TargetActive(i) == ui.active

(* The objective the handler of call i was started for.                    *)
Target(i) == requests[i].objective

Answered(i, kind) ==
  /\ requests[i] # None /\ requests[i].kind = kind
  /\ requests' = [requests EXCEPT ![i] = None] /\ UNCHANGED calls

-----------------------------------------------------------------------------
(* Navigation and setup.                                                   *)

OpenModule(m) ==
  /\ CanAccess(m, Page)
  /\ Render([ui EXCEPT !.module = m], obj)
  /\ UNCHANGED <<requests, calls>>

Connect(i) ==
  /\ Page.module = "data" /\ ~Page.connected /\ Page.api # "loading"
  /\ Send(i, Call("connect", None, TRUE))
  /\ Render([ui EXCEPT !.api = "loading"], obj)

ConnectReturns(i) ==
  /\ Answered(i, "connect")
  /\ \/ Render([ui EXCEPT !.connected = TRUE, !.api = "ready"], obj)
     \/ Render([ui EXCEPT !.connected = FALSE, !.api = "error"], obj)

Emptied(u) ==
  [u EXCEPT !.connected = FALSE, !.api = "idle", !.listed = {},
            !.view = "brief", !.experiment = FALSE, !.simulation = "idle",
            !.module = "data"]

(* Faulty disconnects: one keeps the business knowledge, one the selection.*)
DisconnectForgetful ==
  /\ Page.module = "data" /\ Page.connected
  /\ Render([Emptied(ui) EXCEPT !.active = None], obj)
  /\ UNCHANGED <<requests, calls>>

DisconnectKeepsActive ==
  /\ Page.module = "data" /\ Page.connected
  /\ Render([Emptied(ui) EXCEPT !.knowledge = FALSE], obj)
  /\ UNCHANGED <<requests, calls>>

Disconnect ==
  /\ Page.module = "data" /\ Page.connected
  /\ Render([Emptied(ui) EXCEPT !.knowledge = FALSE, !.active = None], obj)
  /\ UNCHANGED <<requests, calls>>

(* createObjective() with a new record o.                                  *)
Unused(o) ==
  o \notin ui.listed /\ \A i \in Requests : requests[i] # None => Target(i) # o

Created(u, o) ==
  [u EXCEPT !.listed = @ \cup {o}, !.active = o, !.view = "brief"]

SaveKnowledge ==
  /\ Page.module = "knowledge"
  /\ LET u == [ui EXCEPT !.knowledge = TRUE, !.module = "objectives",
                         !.view = "brief"] IN
     IF ui.active # None
       THEN Render(u, obj)
       ELSE \E o \in Objectives :
              Unused(o) /\ Render(Created(u, o), [obj EXCEPT ![o] = Fresh])
  /\ UNCHANGED <<requests, calls>>

NewObjective(o) ==
  /\ Page.module = "objectives"
  /\ Unused(o)
  /\ Render(Created(ui, o), [obj EXCEPT ![o] = Fresh])
  /\ UNCHANGED <<requests, calls>>

SelectObjective(o) ==
  /\ Page.module = "objectives"
  /\ o \in Page.listed /\ o \in ui.listed
  /\ Render([ui EXCEPT !.active = o, !.view = obj[o].view], obj)
  /\ UNCHANGED <<requests, calls>>

(* The sections of the objective, and the buttons that open the next one.  *)
OpenView(v) ==
  /\ Page.module = "objectives" /\ CanView(v, Displayed)
  /\ Render([ui EXCEPT !.view = v], Set([Active EXCEPT !.view = v]))
  /\ UNCHANGED <<requests, calls>>

(* Staging an experiment starts a waiting animation, which completes the   *)
(* simulation if it is still on the page when it ends.                     *)
StageExperiment ==
  /\ Page.module = "objectives" /\ Page.view = "decisions"
  /\ Page.simulation # "loading"
  /\ Render([ui EXCEPT !.simulation = "loading"], obj)
  /\ UNCHANGED <<requests, calls>>

SimulationCompletes ==
  /\ Page.module = "objectives" /\ Page.view = "decisions"
  /\ Page.simulation = "loading" /\ shown.animated
  /\ Render([ui EXCEPT !.simulation = "ready", !.experiment = TRUE,
                       !.module = "experiments"], obj)
  /\ UNCHANGED <<requests, calls>>

-----------------------------------------------------------------------------
(* The brief of an objective.                                              *)

Idle(objective) ==
  [objective EXCEPT !.materializing = "idle", !.materializationError = FALSE,
                    !.materializationFor = None,
                    !.api = "idle", !.apiError = FALSE]

(* A suggested start is offered whatever else goes on.                     *)
ChooseFit(fit) ==
  /\ OnBrief
  /\ Render([ui EXCEPT !.view = "brief"],
            Set([Idle(Active) EXCEPT !.fit = fit, !.confirmed = FALSE,
                                     !.view = "brief"]))
  /\ UNCHANGED <<requests, calls>>

ChooseTask(task) ==
  /\ Offered({"choose", "materialization_error"})
  /\ Render(ui, Set([Idle(Active) EXCEPT !.task = task, !.draft = None,
                                         !.draftFor = None]))
  /\ UNCHANGED <<requests, calls>>

(* compileCustomTask(), from the button or, whatever else goes on, from    *)
(* the form of the brief.                                                  *)
CompileWith(i, objective) ==
  /\ Send(i, Call("compile", ui.active, TRUE))
  /\ Render(ui, Set([Idle(objective) EXCEPT
       !.task = "custom", !.draft = None, !.draftFor = None,
       !.api = "compiling"]))

Compile(i) ==
  /\ Offered({"choose", "api_error"})
  /\ Displayed.task = "custom" /\ Displayed.draft # "draft_ready"
  /\ CompileWith(i, Active)

Compose(i) ==
  /\ OnBrief
  /\ CompileWith(i, [Active EXCEPT !.fit = "supported"])

(* continueCustomTask() keeps the draft until its answer is there.         *)
Clarify(i) ==
  /\ Offered({"needs_clarification"})
  /\ Active.draft = "needs_clarification"
  /\ Send(i, Call("compile", ui.active, TRUE))
  /\ Render(ui, Set([Active EXCEPT !.api = "compiling", !.apiError = FALSE]))

(* A faulty handler whose error branch leaves the status as it was.        *)
CompileReturnsBusy(i) ==
  /\ Answered(i, "compile")
  /\ LET o == Target(i) IN
     \/ \E outcome \in Outcomes :
          Render(ui, [obj EXCEPT ![o].draft = outcome,
                                 ![o].draftFor = requests[i].objective,
                                 ![o].api = "ready"])
     \/ Render(ui, [obj EXCEPT ![o].apiError = TRUE])

CompileReturns(i) ==
  /\ Answered(i, "compile")
  /\ LET o == Target(i) IN
     \/ \E outcome \in Outcomes :
          Render(ui, [obj EXCEPT ![o].draft = outcome,
                                 ![o].draftFor = requests[i].objective,
                                 ![o].api = "ready"])
     \/ Render(ui, [obj EXCEPT ![o].api = "error", ![o].apiError = TRUE])

Launch(i) ==
  /\ \/ Offered({"choose"}) /\ Displayed.task # "custom"
     \/ Offered({"materialization_error"})
  /\ Send(i, Call("launch", ui.active, Active.task # "custom"))
  /\ Render(ui, Set([Active EXCEPT
       !.materializing = "loading", !.materializationError = FALSE,
       !.api = "idle", !.apiError = FALSE]))

(* A faulty handler that does not render, so nothing is saved.             *)
LaunchReturnsSilently(i) ==
  /\ Answered(i, "launch")
  /\ obj' = [obj EXCEPT ![Target(i)].materializationFor = requests[i].objective,
                        ![Target(i)].materializing = "ready"]
  /\ UNCHANGED <<ui, shown>>

LaunchReturns(i) ==
  /\ Answered(i, "launch")
  /\ LET o == Target(i) IN
     \/ /\ requests[i].valid
        /\ Render(ui, [obj EXCEPT ![o].materializationFor = requests[i].objective,
                                  ![o].materializing = "ready"])
     \/ Render(ui, [obj EXCEPT ![o].materializing = "error",
                               ![o].materializationError = TRUE])

(* The simulated inference: after the waiting screen is rendered and       *)
(* before the call, a reviewed default becomes the ready draft; without a  *)
(* ready draft the handler ends in its error branch.                       *)
RunSimulated(i) ==
  /\ \/ Offered({"review", "materialized"})
     \/ /\ Offered({"api_error"})
        /\ Displayed.task # "custom" \/ Displayed.draft = "draft_ready"
  /\ LET ready   == Active.task # "custom" \/ Active.draft = "draft_ready"
         waiting == [Active EXCEPT !.api = "loading", !.apiError = FALSE]
     IN
     /\ Send(i, Call("inference", ui.active, ready))
     /\ Paint(ui, Set(waiting))
     /\ obj' = IF ready
                 THEN Set([waiting EXCEPT !.draft = "draft_ready",
                                          !.api = "ready"])
                 ELSE Set(waiting)

InferenceReturns(i) ==
  /\ Answered(i, "inference")
  /\ LET o == Target(i) IN
     \/ /\ requests[i].valid
        /\ Render([ui EXCEPT !.module = "objectives", !.view = "insights"],
                  [obj EXCEPT ![o].evaluationFor = requests[i].objective,
                              ![o].confirmed = TRUE, ![o].api = "ready",
                              ![o].view = "insights"])
     \/ Render(ui, [obj EXCEPT ![o].api = "error", ![o].apiError = TRUE])

(* The browser reloads the page: what render() saved comes back, calls in  *)
(* flight are lost.                                                        *)
Reload ==
  /\ ui' = shown.ui /\ obj' = shown.obj
  /\ shown' = [shown EXCEPT !.animated = TRUE]
  /\ requests' = [i \in Requests |-> None]
  /\ UNCHANGED calls

-----------------------------------------------------------------------------

Setup == Disconnect \/ SaveKnowledge \/ StageExperiment \/ SimulationCompletes

Click ==
  \/ Setup
  \/ \E m \in {"data", "knowledge", "objectives", "experiments"} : OpenModule(m)
  \/ \E v \in {"brief", "insights", "decisions"} : OpenView(v)
  \/ \E o \in Objectives : NewObjective(o) \/ SelectObjective(o)
  \/ \E fit \in {"supported", "unsupported"} : ChooseFit(fit)
  \/ \E task \in Tasks : ChooseTask(task)

Ask(i) == Connect(i) \/ Compile(i) \/ Compose(i) \/ Clarify(i)
            \/ Launch(i) \/ RunSimulated(i)

Return(i) == ConnectReturns(i) \/ CompileReturns(i) \/ LaunchReturns(i)
               \/ InferenceReturns(i)

Next == Click \/ Reload \/ \E i \in Requests : Ask(i) \/ Return(i)

Spec == Init /\ [][Next]_vars

-----------------------------------------------------------------------------
(* Type invariant: the fields stay in their ranges, and there is a         *)
(* selected objective exactly when there are objectives (app.js takes      *)
(* getActiveObjective(state) without a check).                             *)
WorkspaceTypeOK ==
  /\ ui.module \in {"data", "knowledge", "objectives", "experiments"}
  /\ ui.api \in {"idle", "loading", "ready", "error"}
  /\ ui.listed \subseteq Objectives
  /\ IF ui.listed = {} THEN ui.active = None ELSE ui.active \in ui.listed
  /\ \A o \in Objectives :
       /\ obj[o].task \in Tasks /\ obj[o].draft \in Outcomes \cup {None}
       /\ obj[o].view \in {"brief", "insights", "decisions"}
  /\ calls \in 0 .. MaxCalls

(* "Insights and decisions stay attached to the objective that created     *)
(* them" (app.js:217): whatever the user selects while a call is in        *)
(* flight, a draft, a package or an evaluation lands in its own objective. *)
ResultsStayAttached ==
  \A o \in Objectives :
    {obj[o].draftFor, obj[o].materializationFor, obj[o].evaluationFor}
      \subseteq {None, o}

(* Access follows the prerequisites: without a connection nothing that     *)
(* depends on one is left or comes back, not even by a late answer.        *)
LockedUntilConnected ==
  ~ui.connected => /\ ui.module = "data" /\ ui.listed = {}
                   /\ ~ui.knowledge /\ ~ui.experiment

(* Insights and decisions are open only on an objective that has its       *)
(* evaluation, also when the answer arrives while another one is selected. *)
InsightsNeedEvidence ==
  (ui.module = "objectives" /\ ui.view # "brief") =>
    obj[ui.active].confirmed /\ obj[ui.active].evaluationFor # None

(* "Objective records survive a refresh": a reload brings back the listed  *)
(* objectives with their packages and evaluations, as long as the page     *)
(* could be rendered.                                                      *)
RecordsSurvive ==
  [][Reload /\ ~Throws(ui, obj) =>
       /\ ui'.listed = ui.listed
       /\ \A o \in ui.listed :
            /\ obj'[o].evaluationFor = obj[o].evaluationFor
            /\ obj'[o].materializationFor = obj[o].materializationFor]_vars

HasCall(kind, o) ==
  \E i \in Requests : requests[i] # None /\ requests[i].kind = kind
                       /\ requests[i].objective = o

(* Whatever waits for an answer has a call in flight.                      *)
WaitingHasCall ==
  /\ ui.api = "loading" => HasCall("connect", None)
  /\ \A o \in Objectives :
       /\ obj[o].api = "compiling" => HasCall("compile", o)
       /\ obj[o].api = "loading" => HasCall("inference", o)
       /\ obj[o].materializing = "loading" => HasCall("launch", o)

(* Answers that overtake each other, new choices and disconnecting leave   *)
(* no status waiting for an answer that will not come, which would lock    *)
(* Connect and the forms; a reload in between may (app.js:367, 466).       *)
WaitingEnds == [][WaitingHasCall /\ ~Reload => WaitingHasCall']_vars

(* "An objective that cannot be backed by the connected data branches into *)
(* a data-collection plan instead of unlocking the simulated inference     *)
(* view" (apps/web/README.md).                                             *)
UnsupportedStaysLocked ==
  \A o \in Objectives : obj[o].fit = "unsupported" => ~obj[o].confirmed
=============================================================================
