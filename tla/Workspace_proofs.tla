-------------------------- MODULE Workspace_proofs --------------------------
(***************************************************************************)
(* Proofs about Workspace: for any objectives, default tasks, calls in     *)
(* flight and number of calls.                                             *)
(***************************************************************************)
EXTENDS Workspace, TLAPS

Fields ==
  [connected : BOOLEAN, api : {"idle", "loading", "ready", "error"},
   knowledge : BOOLEAN, simulation : {"idle", "loading", "ready"},
   experiment : BOOLEAN,
   module : {"data", "knowledge", "objectives", "experiments"},
   view : {"brief", "insights", "decisions"},
   active : Objectives \cup {None}, listed : SUBSET Objectives]

ObjectiveRecords ==
  [fit : {None, "supported", "unsupported"}, confirmed : BOOLEAN,
   task : Tasks, draft : Outcomes \cup {None},
   draftFor : Objectives \cup {None}, evaluationFor : Objectives \cup {None},
   materializing : {"idle", "loading", "ready", "error"},
   materializationError : BOOLEAN,
   materializationFor : Objectives \cup {None},
   api : {"idle", "compiling", "loading", "ready", "error"},
   apiError : BOOLEAN, view : {"brief", "insights", "decisions"}]

(* What record r holds was asked for o, and a confirmation has evidence.   *)
Owned(o, r) ==
  /\ r \in ObjectiveRecords
  /\ r.draftFor \in {None, o}
  /\ r.materializationFor \in {None, o}
  /\ r.evaluationFor \in {None, o}
  /\ r.confirmed => r.evaluationFor # None

GoodRecords(os) ==
  /\ os \in [Objectives -> ObjectiveRecords]
  /\ \A o \in Objectives : Owned(o, os[o])

(* The fields as every handler leaves them, wherever it has gone.          *)
GoodFields(u) ==
  /\ u \in Fields
  /\ ~u.connected => u.listed = {} /\ ~u.knowledge /\ ~u.experiment
  /\ IF u.listed = {} THEN u.active = None ELSE u.active \in u.listed
  /\ u.knowledge => u.listed # {}

(* Where the repair in render() leaves it.                                 *)
Reachable(u, os) ==
  /\ CanAccess(u.module, u)
  /\ u.module = "objectives" => CanView(u.view, os[u.active])

Good(u, os) == GoodFields(u) /\ GoodRecords(os) /\ Reachable(u, os)

(* Only a brief that cannot be rendered separates page and memory, and     *)
(* never in what they say of the connection.                               *)
Together ==
  /\ ui = shown.ui \/ ui.module = "objectives"
  /\ ui.connected = shown.ui.connected /\ ui.api = shown.ui.api

Asks(i, kind) == requests[i] # None /\ requests[i].kind = kind

GoodRequests ==
  /\ requests \in [Requests -> CallRecords \cup {None}]
  /\ \A i \in Requests :
       requests[i] # None /\ requests[i].kind # "connect" =>
         requests[i].objective \in Objectives

(* One connection at a time, and only while there is none.                 *)
Connecting ==
  \A i \in Requests : Asks(i, "connect") =>
    /\ ~ui.connected /\ ui.api = "loading"
    /\ \A j \in Requests : Asks(j, "connect") => j = i

Inv ==
  /\ Good(ui, obj) /\ Good(shown.ui, shown.obj)
  /\ shown \in [ui : Fields, obj : [Objectives -> ObjectiveRecords],
                animated : BOOLEAN]
  /\ Together /\ GoodRequests /\ Connecting
  /\ calls \in 0 .. MaxCalls

-----------------------------------------------------------------------------
(* Records.                                                                *)

LEMMA FreshIsOwned ==
  ASSUME NEW o \in Objectives
  PROVE  Owned(o, Fresh)
BY WorkspaceAssumption DEF Owned, Fresh, ObjectiveRecords, Tasks

LEMMA SetRecord ==
  ASSUME NEW os, GoodRecords(os), NEW o \in Objectives, NEW r, Owned(o, r)
  PROVE  GoodRecords([os EXCEPT ![o] = r])
BY DEF GoodRecords, Owned

LEMMA IdleIsOwned ==
  ASSUME NEW o \in Objectives, NEW r, Owned(o, r)
  PROVE  Owned(o, Idle(r))
BY DEF Owned, Idle, ObjectiveRecords

-----------------------------------------------------------------------------
(* render()                                                                *)

LEMMA RepairReaches ==
  ASSUME NEW u, NEW os, GoodFields(u), GoodRecords(os)
  PROVE  /\ Good(Repaired(u, os), os)
         /\ Repaired(u, os).connected = u.connected
         /\ Repaired(u, os).api = u.api
         /\ ~u.connected \/ u.module = "data" =>
              Repaired(u, os).module = "data"
<1> DEFINE m == IF CanAccess(u.module, u) THEN u.module ELSE "data"
           v == IF m = "objectives" /\ ~CanView(u.view, os[u.active])
                  THEN "brief" ELSE u.view
<1>1. Repaired(u, os) = [u EXCEPT !.module = m, !.view = v]
  BY DEF Repaired
<1>2. /\ m \in {"data", "knowledge", "objectives", "experiments"}
      /\ v \in {"brief", "insights", "decisions"}
      /\ u \in Fields
  BY DEF GoodFields, Fields
<1> DEFINE r == [u EXCEPT !.module = m, !.view = v]
<1> HIDE DEF m, v
<1>3. /\ r \in Fields /\ r.module = m /\ r.view = v
      /\ r.connected = u.connected /\ r.api = u.api
      /\ r.knowledge = u.knowledge /\ r.experiment = u.experiment
      /\ r.listed = u.listed /\ r.active = u.active
  BY <1>2 DEF Fields
<1> HIDE DEF r
<1>4. GoodFields(r)
  BY <1>3 DEF GoodFields
<1>5. Reachable(r, os)
  BY <1>3 DEF m, v, Reachable, CanAccess, CanView
<1>6. ~u.connected \/ u.module = "data" => r.module = "data"
  BY <1>3 DEF m, CanAccess, GoodFields
<1> QED  BY <1>1, <1>3, <1>4, <1>5, <1>6 DEF Good, r

(* What a handler hands over to render() need only be good: then memory    *)
(* and page are reachable, and differ by a brief at most.                  *)
LEMMA PaintReaches ==
  ASSUME Inv, NEW u, NEW os, GoodFields(u), GoodRecords(os), Paint(u, os),
         \/ u.connected = ui.connected /\ u.api = ui.api
         \/ ~u.connected \/ u.module = "data"
  PROVE  /\ Good(ui', os) /\ Good(shown.ui, shown.obj)'
         /\ (shown \in [ui : Fields, obj : [Objectives -> ObjectiveRecords],
                        animated : BOOLEAN])'
         /\ Together'
         /\ ui'.connected = u.connected /\ ui'.api = u.api
<1> DEFINE r == Repaired(u, os)
<1>1. /\ Good(r, os) /\ r.connected = u.connected /\ r.api = u.api
      /\ ~u.connected \/ u.module = "data" => r.module = "data"
  BY RepairReaches
<1>2. /\ ui' = r
      /\ shown' = IF Throws(r, os) THEN [shown EXCEPT !.animated = FALSE]
                  ELSE [ui |-> r, obj |-> os, animated |-> TRUE]
  BY DEF Paint
<1>t. shown \in [ui : Fields, obj : [Objectives -> ObjectiveRecords],
                 animated : BOOLEAN]
  BY DEF Inv
<1> HIDE DEF r
<1>3. CASE Throws(r, os)
  <2>1. /\ shown'.ui = shown.ui /\ shown'.obj = shown.obj
        /\ shown' \in [ui : Fields, obj : [Objectives -> ObjectiveRecords],
                       animated : BOOLEAN]
    BY <1>2, <1>3, <1>t
  <2>2. r.module = "objectives"
    BY <1>3 DEF Throws
  <2>3. u.connected = ui.connected /\ u.api = ui.api
    BY <1>1, <2>2
  <2>4. ui.connected = shown.ui.connected /\ ui.api = shown.ui.api
    BY DEF Inv, Together
  <2>5. Good(shown.ui, shown.obj)'
    BY <2>1 DEF Inv
  <2> QED  BY <1>1, <1>2, <2>1, <2>2, <2>3, <2>4, <2>5 DEF Together
<1>4. CASE ~Throws(r, os)
  <2>1. shown'.ui = r /\ shown'.obj = os
    BY <1>2, <1>4
  <2>2. r \in Fields /\ os \in [Objectives -> ObjectiveRecords]
    BY <1>1 DEF Good, GoodFields, GoodRecords
  <2>3. Good(shown.ui, shown.obj)'
    BY <1>1, <2>1
  <2>4. shown' \in [ui : Fields, obj : [Objectives -> ObjectiveRecords],
                    animated : BOOLEAN]
    BY <1>2, <1>4, <2>2
  <2> QED  BY <1>1, <1>2, <2>1, <2>3, <2>4 DEF Together
<1> QED  BY <1>3, <1>4

LEMMA RenderReaches ==
  ASSUME Inv, NEW u, NEW os, GoodFields(u), GoodRecords(os), Render(u, os),
         \/ u.connected = ui.connected /\ u.api = ui.api
         \/ ~u.connected \/ u.module = "data"
  PROVE  /\ Good(ui, obj)' /\ Good(shown.ui, shown.obj)'
         /\ (shown \in [ui : Fields, obj : [Objectives -> ObjectiveRecords],
                        animated : BOOLEAN])'
         /\ Together'
         /\ ui'.connected = u.connected /\ ui'.api = u.api
<1>1. Paint(u, os) /\ obj' = os
  BY DEF Render
<1> QED  BY <1>1, PaintReaches

-----------------------------------------------------------------------------
(* Pages and calls.                                                        *)

(* A page of the connected workspace is one in memory, too.                *)
LEMMA PageIsConnected ==
  ASSUME Inv, Page.module # "data"
  PROVE  ui.connected
<1>1. CanAccess(shown.ui.module, shown.ui) /\ GoodFields(shown.ui)
  BY DEF Inv, Good, Reachable
<1>2. shown.ui.connected
  BY <1>1 DEF Page, CanAccess, GoodFields
<1> QED  BY <1>2 DEF Inv, Together

LEMMA PageHasObjective ==
  ASSUME Inv, Page.module = "objectives"
  PROVE  /\ ui.connected /\ ui.active \in Objectives /\ ui.listed # {}
         /\ Owned(ui.active, Active)
<1>1. ui.module = "objectives"
  BY DEF Inv, Together, Page
<1>2. ui.knowledge /\ GoodFields(ui) /\ GoodRecords(obj)
  BY <1>1 DEF Inv, Good, Reachable, CanAccess
<1>3. ui.listed # {} /\ ui.active \in Objectives
  BY <1>2 DEF GoodFields, Fields
<1>4. ui.connected
  BY PageIsConnected
<1> QED  BY <1>2, <1>3, <1>4 DEF GoodRecords, Active

(* A handler that neither asks nor answers and keeps the connection.       *)
LEMMA RenderKeeps ==
  ASSUME Inv, NEW u, NEW os, GoodFields(u), GoodRecords(os), Render(u, os),
         u.connected = ui.connected, u.api = ui.api,
         UNCHANGED <<requests, calls>>
  PROVE  Inv'
<1>1. /\ Good(ui, obj)' /\ Good(shown.ui, shown.obj)'
      /\ (shown \in [ui : Fields, obj : [Objectives -> ObjectiveRecords],
                     animated : BOOLEAN])'
      /\ Together' /\ ui'.connected = ui.connected /\ ui'.api = ui.api
  BY RenderReaches
<1>2. GoodRequests' /\ Connecting'
  BY <1>1 DEF Inv, GoodRequests, Connecting, Asks
<1> QED  BY <1>1, <1>2 DEF Inv

(* A call for an objective starts.                                         *)
LEMMA SendKeeps ==
  ASSUME Inv, NEW i \in Requests, NEW o \in Objectives,
         NEW kind \in {"compile", "launch", "inference"},
         NEW valid \in BOOLEAN, Send(i, Call(kind, o, valid)),
         ui'.connected = ui.connected, ui'.api = ui.api
  PROVE  GoodRequests' /\ Connecting' /\ calls' \in 0 .. MaxCalls
<1> DEFINE c == Call(kind, o, valid)
<1>1. c \in CallRecords /\ c.kind = kind /\ c.objective = o
  BY DEF Call, CallRecords
<1>2. /\ requests' = [requests EXCEPT ![i] = c] /\ calls' = calls + 1
      /\ calls < MaxCalls
  BY DEF Send
<1>3. /\ requests \in [Requests -> CallRecords \cup {None}]
      /\ \A j \in Requests :
           requests[j] # None /\ requests[j].kind # "connect" =>
             requests[j].objective \in Objectives
  BY DEF Inv, GoodRequests
<1> HIDE DEF c
<1>4. GoodRequests'
  BY <1>1, <1>2, <1>3 DEF GoodRequests
<1>5. Connecting'
  <2>1. \A j \in Requests : Asks(j, "connect")' => Asks(j, "connect")
    BY <1>1, <1>2, <1>3 DEF Asks
  <2> QED  BY <2>1 DEF Inv, Connecting
<1>6. calls' \in 0 .. MaxCalls
  BY <1>2, WorkspaceAssumption DEF Inv
<1> QED  BY <1>4, <1>5, <1>6

(* A call is answered.                                                     *)
LEMMA AnswerKeeps ==
  ASSUME Inv, NEW i \in Requests, NEW kind, Answered(i, kind),
         ui'.connected = ui.connected, ui'.api = ui.api
  PROVE  GoodRequests' /\ Connecting' /\ calls' \in 0 .. MaxCalls
<1>1. requests' = [requests EXCEPT ![i] = None] /\ calls' = calls
  BY DEF Answered
<1>2. GoodRequests'
  BY <1>1 DEF Inv, GoodRequests
<1>3. Connecting'
  <2>1. \A j \in Requests : Asks(j, "connect")' => Asks(j, "connect")
    BY <1>1 DEF Inv, GoodRequests, Asks
  <2> QED  BY <2>1 DEF Inv, Connecting
<1> QED  BY <1>1, <1>2, <1>3 DEF Inv

LEMMA TargetOwned ==
  ASSUME Inv, NEW i \in Requests, NEW kind, kind # "connect",
         Answered(i, kind)
  PROVE  Target(i) \in Objectives /\ Owned(Target(i), obj[Target(i)])
BY DEF Inv, GoodRequests, Answered, Target, Good, GoodRecords

(* A handler that starts or ends a call and renders.                       *)
LEMMA CallKeeps ==
  ASSUME Inv, NEW u, NEW os, GoodFields(u), GoodRecords(os), Render(u, os),
         u.connected = ui.connected, u.api = ui.api,
         \/ \E i \in Requests, o \in Objectives, valid \in BOOLEAN,
               kind \in {"compile", "launch", "inference"} :
              Send(i, Call(kind, o, valid))
         \/ \E i \in Requests, kind \in {"compile", "launch", "inference"} :
              Answered(i, kind)
  PROVE  Inv'
<1>1. /\ Good(ui, obj)' /\ Good(shown.ui, shown.obj)'
      /\ (shown \in [ui : Fields, obj : [Objectives -> ObjectiveRecords],
                     animated : BOOLEAN])'
      /\ Together' /\ ui'.connected = ui.connected /\ ui'.api = ui.api
  BY RenderReaches
<1>2. GoodRequests' /\ Connecting' /\ calls' \in 0 .. MaxCalls
  BY <1>1, SendKeeps, AnswerKeeps
<1> QED  BY <1>1, <1>2 DEF Inv

-----------------------------------------------------------------------------
(* Navigation and setup.                                                   *)

LEMMA InvGood ==
  ASSUME Inv
  PROVE  /\ GoodFields(ui) /\ GoodRecords(obj) /\ ui \in Fields
         /\ obj \in [Objectives -> ObjectiveRecords]
BY DEF Inv, Good, GoodFields, GoodRecords

LEMMA OpenModuleKeeps ==
  ASSUME Inv,
         NEW m \in {"data", "knowledge", "objectives", "experiments"},
         OpenModule(m)
  PROVE  Inv'
<1> DEFINE u == [ui EXCEPT !.module = m]
<1>1. Render(u, obj) /\ UNCHANGED <<requests, calls>>
  BY DEF OpenModule
<1>2. GoodFields(u) /\ u.connected = ui.connected /\ u.api = ui.api
  BY InvGood DEF GoodFields, Fields
<1> QED  BY <1>1, <1>2, InvGood, RenderKeeps

(* No page offers Connect while a connection is asked for.                 *)
LEMMA ConnectKeeps ==
  ASSUME Inv, NEW i \in Requests, Connect(i)
  PROVE  Inv'
<1> DEFINE u == [ui EXCEPT !.api = "loading"]
           c == Call("connect", None, TRUE)
<1>1. /\ Render(u, obj) /\ requests' = [requests EXCEPT ![i] = c]
      /\ calls < MaxCalls /\ calls' = calls + 1
      /\ ~Page.connected /\ Page.api # "loading"
  BY DEF Connect, Send
<1>2. ~ui.connected /\ ui.api # "loading"
  BY <1>1 DEF Inv, Together, Page
<1>3. GoodFields(u) /\ ~u.connected /\ u.api = "loading"
  BY <1>2, InvGood DEF GoodFields, Fields
<1>4. /\ Good(ui, obj)' /\ Good(shown.ui, shown.obj)'
      /\ (shown \in [ui : Fields, obj : [Objectives -> ObjectiveRecords],
                     animated : BOOLEAN])'
      /\ Together' /\ ~ui'.connected /\ ui'.api = "loading"
  BY <1>1, <1>3, InvGood, RenderReaches
<1>5. c \in CallRecords /\ c.kind = "connect"
  BY DEF Call, CallRecords
<1> HIDE DEF c
<1>6. GoodRequests'
  BY <1>1, <1>5 DEF Inv, GoodRequests
<1>7. \A j \in Requests : Asks(j, "connect")' => j = i
  BY <1>1, <1>2 DEF Inv, GoodRequests, Connecting, Asks
<1>8. Connecting'
  BY <1>4, <1>7 DEF Connecting
<1>9. calls' \in 0 .. MaxCalls
  BY <1>1, WorkspaceAssumption DEF Inv
<1> QED  BY <1>4, <1>6, <1>8, <1>9 DEF Inv

LEMMA ConnectReturnsKeeps ==
  ASSUME Inv, NEW i \in Requests, ConnectReturns(i)
  PROVE  Inv'
<1>1. /\ Asks(i, "connect") /\ requests' = [requests EXCEPT ![i] = None]
      /\ calls' = calls
  BY DEF ConnectReturns, Answered, Asks
<1>2. ~ui.connected
  BY <1>1 DEF Inv, Connecting
<1>3. ui.module = "data"
  BY <1>2 DEF Inv, Good, Reachable, CanAccess, GoodFields
<1>4. PICK u : /\ Render(u, obj) /\ GoodFields(u) /\ u.module = "data"
  <2> DEFINE yes == [ui EXCEPT !.connected = TRUE, !.api = "ready"]
             no  == [ui EXCEPT !.connected = FALSE, !.api = "error"]
  <2>1. GoodFields(yes) /\ yes.module = "data"
    BY <1>3, InvGood DEF GoodFields, Fields
  <2>2. GoodFields(no) /\ no.module = "data"
    BY <1>2, <1>3, InvGood DEF GoodFields, Fields
  <2>3. Render(yes, obj) \/ Render(no, obj)
    BY DEF ConnectReturns
  <2> HIDE DEF yes, no
  <2> QED  BY <2>1, <2>2, <2>3
<1>5. /\ Good(ui, obj)' /\ Good(shown.ui, shown.obj)'
      /\ (shown \in [ui : Fields, obj : [Objectives -> ObjectiveRecords],
                     animated : BOOLEAN])'
      /\ Together'
  BY <1>4, InvGood, RenderReaches
<1>6. GoodRequests'
  BY <1>1 DEF Inv, GoodRequests
<1>7. \A j \in Requests : ~Asks(j, "connect")'
  BY <1>1 DEF Inv, Connecting, GoodRequests, Asks
<1> QED  BY <1>1, <1>5, <1>6, <1>7 DEF Inv, Connecting

LEMMA DisconnectKeeps ==
  ASSUME Inv, Disconnect
  PROVE  Inv'
<1> DEFINE u == [Emptied(ui) EXCEPT !.knowledge = FALSE, !.active = None]
<1>1. Render(u, obj) /\ UNCHANGED <<requests, calls>> /\ Page.connected
  BY DEF Disconnect
<1>2. GoodFields(u) /\ u.module = "data"
  BY InvGood DEF GoodFields, Fields, Emptied
<1>3. /\ Good(ui, obj)' /\ Good(shown.ui, shown.obj)'
      /\ (shown \in [ui : Fields, obj : [Objectives -> ObjectiveRecords],
                     animated : BOOLEAN])'
      /\ Together'
  BY <1>1, <1>2, InvGood, RenderReaches
<1>4. \A j \in Requests : ~Asks(j, "connect")
  BY <1>1 DEF Inv, Connecting, Together, Page
<1>5. GoodRequests' /\ Connecting'
  BY <1>1, <1>4 DEF Inv, GoodRequests, Connecting, Asks
<1> QED  BY <1>1, <1>3, <1>5 DEF Inv

LEMMA SaveKnowledgeKeeps ==
  ASSUME Inv, SaveKnowledge
  PROVE  Inv'
<1> DEFINE u == [ui EXCEPT !.knowledge = TRUE, !.module = "objectives",
                           !.view = "brief"]
<1>1. /\ Page.module = "knowledge" /\ UNCHANGED <<requests, calls>>
      /\ IF ui.active # None THEN Render(u, obj)
         ELSE \E o \in Objectives :
                Unused(o) /\ Render(Created(u, o), [obj EXCEPT ![o] = Fresh])
  BY DEF SaveKnowledge
<1>2. ui.connected
  BY <1>1, PageIsConnected
<1>3. u.connected = ui.connected /\ u.api = ui.api
  BY InvGood DEF Fields
<1>4. CASE ui.active # None
  <2>1. GoodFields(u)
    BY <1>2, <1>4, InvGood DEF GoodFields, Fields
  <2> QED  BY <1>1, <1>3, <1>4, <2>1, InvGood, RenderKeeps
<1>5. CASE ui.active = None
  <2>1. PICK o \in Objectives :
          Render(Created(u, o), [obj EXCEPT ![o] = Fresh])
    BY <1>1, <1>5
  <2>2. /\ GoodFields(Created(u, o))
        /\ Created(u, o).connected = ui.connected
        /\ Created(u, o).api = ui.api
    BY <1>2, InvGood DEF GoodFields, Fields, Created
  <2>3. GoodRecords([obj EXCEPT ![o] = Fresh])
    BY InvGood, FreshIsOwned, SetRecord
  <2> QED  BY <1>1, <2>1, <2>2, <2>3, RenderKeeps
<1> QED  BY <1>4, <1>5

LEMMA NewObjectiveKeeps ==
  ASSUME Inv, NEW o \in Objectives, NewObjective(o)
  PROVE  Inv'
<1>1. /\ Render(Created(ui, o), [obj EXCEPT ![o] = Fresh])
      /\ UNCHANGED <<requests, calls>> /\ Page.module = "objectives"
  BY DEF NewObjective
<1>2. ui.connected
  BY <1>1, PageHasObjective
<1>3. /\ GoodFields(Created(ui, o))
      /\ Created(ui, o).connected = ui.connected
      /\ Created(ui, o).api = ui.api
  BY <1>2, InvGood DEF GoodFields, Fields, Created
<1>4. GoodRecords([obj EXCEPT ![o] = Fresh])
  BY InvGood, FreshIsOwned, SetRecord
<1> QED  BY <1>1, <1>3, <1>4, RenderKeeps

LEMMA SelectObjectiveKeeps ==
  ASSUME Inv, NEW o \in Objectives, SelectObjective(o)
  PROVE  Inv'
<1> DEFINE u == [ui EXCEPT !.active = o, !.view = obj[o].view]
<1>1. /\ Render(u, obj) /\ UNCHANGED <<requests, calls>> /\ o \in ui.listed
      /\ Page.module = "objectives"
  BY DEF SelectObjective
<1>2. obj[o].view \in {"brief", "insights", "decisions"}
  BY InvGood DEF ObjectiveRecords
<1>3. GoodFields(u) /\ u.connected = ui.connected /\ u.api = ui.api
  BY <1>1, <1>2, InvGood DEF GoodFields, Fields
<1> QED  BY <1>1, <1>3, InvGood, RenderKeeps

LEMMA OpenViewKeeps ==
  ASSUME Inv, NEW v \in {"brief", "insights", "decisions"}, OpenView(v)
  PROVE  Inv'
<1> DEFINE u == [ui EXCEPT !.view = v]
           r == [Active EXCEPT !.view = v]
<1>1. /\ Render(u, Set(r)) /\ UNCHANGED <<requests, calls>>
      /\ Page.module = "objectives"
  BY DEF OpenView
<1>2. ui.active \in Objectives /\ Owned(ui.active, Active)
  BY <1>1, PageHasObjective
<1>3. Owned(ui.active, r)
  BY <1>2 DEF Owned, ObjectiveRecords
<1>4. GoodRecords(Set(r))
  BY <1>2, <1>3, InvGood, SetRecord DEF Set
<1>5. GoodFields(u) /\ u.connected = ui.connected /\ u.api = ui.api
  BY InvGood DEF GoodFields, Fields
<1> QED  BY <1>1, <1>4, <1>5, RenderKeeps

LEMMA StageExperimentKeeps ==
  ASSUME Inv, StageExperiment
  PROVE  Inv'
<1> DEFINE u == [ui EXCEPT !.simulation = "loading"]
<1>1. Render(u, obj) /\ UNCHANGED <<requests, calls>>
  BY DEF StageExperiment
<1>2. GoodFields(u) /\ u.connected = ui.connected /\ u.api = ui.api
  BY InvGood DEF GoodFields, Fields
<1> QED  BY <1>1, <1>2, InvGood, RenderKeeps

LEMMA SimulationCompletesKeeps ==
  ASSUME Inv, SimulationCompletes
  PROVE  Inv'
<1> DEFINE u == [ui EXCEPT !.simulation = "ready", !.experiment = TRUE,
                           !.module = "experiments"]
<1>1. /\ Render(u, obj) /\ UNCHANGED <<requests, calls>>
      /\ Page.module = "objectives"
  BY DEF SimulationCompletes
<1>2. ui.connected
  BY <1>1, PageHasObjective
<1>3. GoodFields(u) /\ u.connected = ui.connected /\ u.api = ui.api
  BY <1>2, InvGood DEF GoodFields, Fields
<1> QED  BY <1>1, <1>3, InvGood, RenderKeeps

-----------------------------------------------------------------------------
(* The brief of an objective.                                              *)

(* The record that a handler of the brief leaves is owned by the objective *)
(* it works on.                                                            *)
LEMMA BriefHasObjective ==
  ASSUME Inv, OnBrief
  PROVE  ui.active \in Objectives /\ Owned(ui.active, Active)
BY PageHasObjective DEF OnBrief

LEMMA ChooseFitKeeps ==
  ASSUME Inv, NEW fit \in {"supported", "unsupported"}, ChooseFit(fit)
  PROVE  Inv'
<1> DEFINE u == [ui EXCEPT !.view = "brief"]
           r == [Idle(Active) EXCEPT !.fit = fit, !.confirmed = FALSE,
                                     !.view = "brief"]
<1>1. Render(u, Set(r)) /\ UNCHANGED <<requests, calls>> /\ OnBrief
  BY DEF ChooseFit
<1>2. ui.active \in Objectives /\ Owned(ui.active, Idle(Active))
  BY <1>1, BriefHasObjective, IdleIsOwned
<1>3. Owned(ui.active, r)
  BY <1>2 DEF Owned, ObjectiveRecords
<1>4. GoodRecords(Set(r))
  BY <1>2, <1>3, InvGood, SetRecord DEF Set
<1>5. GoodFields(u) /\ u.connected = ui.connected /\ u.api = ui.api
  BY InvGood DEF GoodFields, Fields
<1> QED  BY <1>1, <1>4, <1>5, RenderKeeps

LEMMA ChooseTaskKeeps ==
  ASSUME Inv, NEW t \in Tasks, ChooseTask(t)
  PROVE  Inv'
<1> DEFINE r == [Idle(Active) EXCEPT !.task = t, !.draft = None,
                                     !.draftFor = None]
<1>1. Render(ui, Set(r)) /\ UNCHANGED <<requests, calls>> /\ OnBrief
  BY DEF ChooseTask, Offered
<1>2. ui.active \in Objectives /\ Owned(ui.active, Idle(Active))
  BY <1>1, BriefHasObjective, IdleIsOwned
<1>3. Owned(ui.active, r)
  BY <1>2 DEF Owned, ObjectiveRecords
<1>4. GoodRecords(Set(r))
  BY <1>2, <1>3, InvGood, SetRecord DEF Set
<1> QED  BY <1>1, <1>4, InvGood, RenderKeeps

LEMMA CompileWithKeeps ==
  ASSUME Inv, NEW i \in Requests, NEW r, Owned(ui.active, r),
         ui.active \in Objectives, CompileWith(i, r)
  PROVE  Inv'
<1> DEFINE c == [Idle(r) EXCEPT
                   !.task = "custom", !.draft = None, !.draftFor = None,
                   !.api = "compiling"]
<1>1. Render(ui, Set(c)) /\ Send(i, Call("compile", ui.active, TRUE))
  BY DEF CompileWith
<1>2. Owned(ui.active, Idle(r))
  BY IdleIsOwned
<1>t. "custom" \in Tasks
  BY DEF Tasks
<1>3. Owned(ui.active, c)
  BY <1>2, <1>t DEF Owned, ObjectiveRecords
<1>4. GoodRecords(Set(c))
  BY <1>3, InvGood, SetRecord DEF Set
<1> QED  BY <1>1, <1>4, InvGood, CallKeeps

LEMMA CompileKeeps ==
  ASSUME Inv, NEW i \in Requests, Compile(i)
  PROVE  Inv'
<1>1. OnBrief /\ CompileWith(i, Active)
  BY DEF Compile, Offered
<1> QED  BY <1>1, BriefHasObjective, CompileWithKeeps

LEMMA ComposeKeeps ==
  ASSUME Inv, NEW i \in Requests, Compose(i)
  PROVE  Inv'
<1> DEFINE r == [Active EXCEPT !.fit = "supported"]
<1>1. OnBrief /\ CompileWith(i, r)
  BY DEF Compose
<1>2. ui.active \in Objectives /\ Owned(ui.active, Active)
  BY <1>1, BriefHasObjective
<1>3. Owned(ui.active, r)
  BY <1>2 DEF Owned, ObjectiveRecords
<1> QED  BY <1>1, <1>2, <1>3, CompileWithKeeps

LEMMA ClarifyKeeps ==
  ASSUME Inv, NEW i \in Requests, Clarify(i)
  PROVE  Inv'
<1> DEFINE r == [Active EXCEPT !.api = "compiling", !.apiError = FALSE]
<1>1. /\ OnBrief /\ Render(ui, Set(r))
      /\ Send(i, Call("compile", ui.active, TRUE))
  BY DEF Clarify, Offered
<1>2. ui.active \in Objectives /\ Owned(ui.active, Active)
  BY <1>1, BriefHasObjective
<1>3. Owned(ui.active, r)
  BY <1>2 DEF Owned, ObjectiveRecords
<1>4. GoodRecords(Set(r))
  BY <1>2, <1>3, InvGood, SetRecord DEF Set
<1> QED  BY <1>1, <1>2, <1>4, InvGood, CallKeeps

LEMMA LaunchKeeps ==
  ASSUME Inv, NEW i \in Requests, Launch(i)
  PROVE  Inv'
<1> DEFINE r == [Active EXCEPT
                   !.materializing = "loading", !.materializationError = FALSE,
                   !.api = "idle", !.apiError = FALSE]
<1>1. /\ OnBrief /\ Render(ui, Set(r))
      /\ Send(i, Call("launch", ui.active, Active.task # "custom"))
  BY DEF Launch, Offered
<1>2. ui.active \in Objectives /\ Owned(ui.active, Active)
  BY <1>1, BriefHasObjective
<1>3. Owned(ui.active, r)
  BY <1>2 DEF Owned, ObjectiveRecords
<1>4. GoodRecords(Set(r))
  BY <1>2, <1>3, InvGood, SetRecord DEF Set
<1> QED  BY <1>1, <1>2, <1>4, InvGood, CallKeeps

(* What is rendered is the waiting screen; memory then goes on.            *)
LEMMA RunSimulatedKeeps ==
  ASSUME Inv, NEW i \in Requests, RunSimulated(i)
  PROVE  Inv'
<1> DEFINE ready   == Active.task # "custom" \/ Active.draft = "draft_ready"
           waiting == [Active EXCEPT !.api = "loading", !.apiError = FALSE]
           drafted == [waiting EXCEPT !.draft = "draft_ready", !.api = "ready"]
<1>1. /\ OnBrief /\ Send(i, Call("inference", ui.active, ready))
      /\ Paint(ui, Set(waiting))
      /\ obj' = IF ready THEN Set(drafted) ELSE Set(waiting)
  BY DEF RunSimulated, Offered
<1>2. ui.active \in Objectives /\ Owned(ui.active, Active)
  BY <1>1, BriefHasObjective
<1>3. /\ Owned(ui.active, waiting) /\ Owned(ui.active, drafted)
      /\ waiting.confirmed = drafted.confirmed
  BY <1>2 DEF Owned, ObjectiveRecords, Outcomes
<1> HIDE DEF waiting, drafted
<1>4. GoodRecords(Set(waiting)) /\ GoodRecords(Set(drafted))
  BY <1>2, <1>3, InvGood, SetRecord DEF Set
<1>5. /\ Good(ui', Set(waiting)) /\ Good(shown.ui, shown.obj)'
      /\ (shown \in [ui : Fields, obj : [Objectives -> ObjectiveRecords],
                     animated : BOOLEAN])'
      /\ Together' /\ ui'.connected = ui.connected /\ ui'.api = ui.api
  BY <1>1, <1>4, InvGood, PaintReaches
<1>6. Good(ui', obj')
  <2>1. \A o \in Objectives :
          Set(drafted)[o].confirmed = Set(waiting)[o].confirmed
    BY <1>3, InvGood DEF Set
  <2>2. ui'.module = "objectives" => ui'.active \in Objectives
    BY <1>5 DEF Good, GoodFields, Fields, Reachable, CanAccess
  <2>3. Good(ui', Set(drafted))
    BY <1>4, <1>5, <2>1, <2>2 DEF Good, Reachable, CanView
  <2> QED  BY <1>1, <1>5, <2>3
<1>7. GoodRequests' /\ Connecting' /\ calls' \in 0 .. MaxCalls
  BY <1>1, <1>2, <1>5, SendKeeps
<1> QED  BY <1>5, <1>6, <1>7 DEF Inv

-----------------------------------------------------------------------------
(* Answers: they land in the objective they were asked for.                *)

LEMMA CompileReturnsKeeps ==
  ASSUME Inv, NEW i \in Requests, CompileReturns(i)
  PROVE  Inv'
<1> DEFINE o == Target(i)
           drafted(outcome) == [obj EXCEPT ![o].draft = outcome,
                                           ![o].draftFor = requests[i].objective,
                                           ![o].api = "ready"]
           failed == [obj EXCEPT ![o].api = "error", ![o].apiError = TRUE]
<1>1. Answered(i, "compile")
  BY DEF CompileReturns
<1>2. o \in Objectives /\ Owned(o, obj[o]) /\ requests[i].objective = o
  BY <1>1, TargetOwned DEF Target
<1>3. ASSUME NEW outcome \in Outcomes
      PROVE  GoodRecords(drafted(outcome))
  <2> DEFINE r == [obj[o] EXCEPT !.draft = outcome, !.draftFor = o,
                                 !.api = "ready"]
  <2>1. drafted(outcome) = [obj EXCEPT ![o] = r]
    BY <1>2, InvGood
  <2>2. Owned(o, r)
    BY <1>2 DEF Owned, ObjectiveRecords
  <2> QED  BY <1>2, <2>1, <2>2, InvGood, SetRecord
<1>4. GoodRecords(failed)
  <2> DEFINE r == [obj[o] EXCEPT !.api = "error", !.apiError = TRUE]
  <2>1. failed = [obj EXCEPT ![o] = r]
    BY <1>2, InvGood
  <2>2. Owned(o, r)
    BY <1>2 DEF Owned, ObjectiveRecords
  <2> QED  BY <1>2, <2>1, <2>2, InvGood, SetRecord
<1>5. (\E outcome \in Outcomes : Render(ui, drafted(outcome)))
        \/ Render(ui, failed)
  BY DEF CompileReturns
<1> HIDE DEF drafted, failed
<1> QED  BY <1>1, <1>3, <1>4, <1>5, InvGood, CallKeeps

LEMMA LaunchReturnsKeeps ==
  ASSUME Inv, NEW i \in Requests, LaunchReturns(i)
  PROVE  Inv'
<1> DEFINE o == Target(i)
           made   == [obj EXCEPT ![o].materializationFor = requests[i].objective,
                                 ![o].materializing = "ready"]
           failed == [obj EXCEPT ![o].materializing = "error",
                                 ![o].materializationError = TRUE]
<1>1. Answered(i, "launch")
  BY DEF LaunchReturns
<1>2. o \in Objectives /\ Owned(o, obj[o]) /\ requests[i].objective = o
  BY <1>1, TargetOwned DEF Target
<1>3. GoodRecords(made)
  <2> DEFINE r == [obj[o] EXCEPT !.materializationFor = o,
                                 !.materializing = "ready"]
  <2>1. made = [obj EXCEPT ![o] = r]
    BY <1>2, InvGood
  <2>2. Owned(o, r)
    BY <1>2 DEF Owned, ObjectiveRecords
  <2> QED  BY <1>2, <2>1, <2>2, InvGood, SetRecord
<1>4. GoodRecords(failed)
  <2> DEFINE r == [obj[o] EXCEPT !.materializing = "error",
                                 !.materializationError = TRUE]
  <2>1. failed = [obj EXCEPT ![o] = r]
    BY <1>2, InvGood
  <2>2. Owned(o, r)
    BY <1>2 DEF Owned, ObjectiveRecords
  <2> QED  BY <1>2, <2>1, <2>2, InvGood, SetRecord
<1>5. Render(ui, made) \/ Render(ui, failed)
  BY DEF LaunchReturns
<1> HIDE DEF made, failed
<1> QED  BY <1>1, <1>3, <1>4, <1>5, InvGood, CallKeeps

LEMMA InferenceReturnsKeeps ==
  ASSUME Inv, NEW i \in Requests, InferenceReturns(i)
  PROVE  Inv'
<1> DEFINE o == Target(i)
           u == [ui EXCEPT !.module = "objectives", !.view = "insights"]
           scored == [obj EXCEPT ![o].evaluationFor = requests[i].objective,
                                 ![o].confirmed = TRUE, ![o].api = "ready",
                                 ![o].view = "insights"]
           failed == [obj EXCEPT ![o].api = "error", ![o].apiError = TRUE]
<1>1. Answered(i, "inference")
  BY DEF InferenceReturns
<1>2. o \in Objectives /\ Owned(o, obj[o]) /\ requests[i].objective = o
  BY <1>1, TargetOwned DEF Target
<1>3. GoodRecords(scored)
  <2> DEFINE r == [obj[o] EXCEPT !.evaluationFor = o, !.confirmed = TRUE,
                                 !.api = "ready", !.view = "insights"]
  <2>1. scored = [obj EXCEPT ![o] = r]
    BY <1>2, InvGood
  <2>2. Owned(o, r)
    BY <1>2, WorkspaceAssumption DEF Owned, ObjectiveRecords
  <2> QED  BY <1>2, <2>1, <2>2, InvGood, SetRecord
<1>4. GoodRecords(failed)
  <2> DEFINE r == [obj[o] EXCEPT !.api = "error", !.apiError = TRUE]
  <2>1. failed = [obj EXCEPT ![o] = r]
    BY <1>2, InvGood
  <2>2. Owned(o, r)
    BY <1>2 DEF Owned, ObjectiveRecords
  <2> QED  BY <1>2, <2>1, <2>2, InvGood, SetRecord
<1>5. Render(u, scored) \/ Render(ui, failed)
  BY DEF InferenceReturns
<1>6. GoodFields(u) /\ u.connected = ui.connected /\ u.api = ui.api
  BY InvGood DEF GoodFields, Fields
<1> HIDE DEF scored, failed, u
<1>7. CASE Render(u, scored)
  BY <1>1, <1>3, <1>6, <1>7, CallKeeps
<1>8. CASE Render(ui, failed)
  BY <1>1, <1>4, <1>8, InvGood, CallKeeps
<1> QED  BY <1>5, <1>7, <1>8

LEMMA ReloadKeeps ==
  ASSUME Inv, Reload
  PROVE  Inv'
<1>1. /\ ui' = shown.ui /\ obj' = shown.obj
      /\ shown' = [shown EXCEPT !.animated = TRUE]
      /\ requests' = [i \in Requests |-> None] /\ calls' = calls
  BY DEF Reload
<1>2. /\ shown'.ui = shown.ui /\ shown'.obj = shown.obj
      /\ shown' \in [ui : Fields, obj : [Objectives -> ObjectiveRecords],
                     animated : BOOLEAN]
  BY <1>1 DEF Inv
<1>3. Good(ui, obj)' /\ Good(shown.ui, shown.obj)' /\ Together'
  BY <1>1, <1>2 DEF Inv, Together
<1>4. GoodRequests' /\ Connecting'
  BY <1>1 DEF GoodRequests, Connecting, Asks
<1> QED  BY <1>1, <1>2, <1>3, <1>4 DEF Inv

-----------------------------------------------------------------------------
LEMMA InitInv == Init => Inv
<1> SUFFICES ASSUME Init PROVE Inv
  OBVIOUS
<1>1. \A o \in Objectives : Owned(o, Fresh)
  BY FreshIsOwned
<1>2. GoodRecords(obj)
  BY <1>1 DEF Init, GoodRecords, Owned
<1>3. GoodFields(ui) /\ Reachable(ui, obj)
  BY DEF Init, GoodFields, Fields, Reachable, CanAccess
<1>4. shown = [ui |-> ui, obj |-> obj, animated |-> TRUE]
  BY DEF Init
<1>5. /\ shown.ui = ui /\ shown.obj = obj
      /\ shown \in [ui : Fields, obj : [Objectives -> ObjectiveRecords],
                    animated : BOOLEAN]
  BY <1>2, <1>3, <1>4 DEF GoodFields, GoodRecords
<1>6. GoodRequests /\ Connecting /\ calls \in 0 .. MaxCalls
  BY WorkspaceAssumption DEF Init, GoodRequests, Connecting, Asks
<1> QED  BY <1>2, <1>3, <1>5, <1>6 DEF Inv, Good, Together

LEMMA NextInv == Inv /\ [Next]_vars => Inv'
<1> SUFFICES ASSUME Inv, [Next]_vars PROVE Inv'
  OBVIOUS
<1>1. CASE Setup
  BY <1>1, DisconnectKeeps, SaveKnowledgeKeeps, StageExperimentKeeps,
     SimulationCompletesKeeps DEF Setup
<1>2. ASSUME NEW m \in {"data", "knowledge", "objectives", "experiments"},
             OpenModule(m)
      PROVE  Inv'
  BY <1>2, OpenModuleKeeps
<1>3. ASSUME NEW v \in {"brief", "insights", "decisions"}, OpenView(v)
      PROVE  Inv'
  BY <1>3, OpenViewKeeps
<1>4. ASSUME NEW o \in Objectives, NewObjective(o) \/ SelectObjective(o)
      PROVE  Inv'
  BY <1>4, NewObjectiveKeeps, SelectObjectiveKeeps
<1>5. ASSUME NEW fit \in {"supported", "unsupported"}, ChooseFit(fit)
      PROVE  Inv'
  BY <1>5, ChooseFitKeeps
<1>6. ASSUME NEW t \in Tasks, ChooseTask(t)
      PROVE  Inv'
  BY <1>6, ChooseTaskKeeps
<1>7. ASSUME NEW i \in Requests, Ask(i) PROVE Inv'
  BY <1>7, ConnectKeeps, CompileKeeps, ComposeKeeps, ClarifyKeeps,
     LaunchKeeps, RunSimulatedKeeps DEF Ask
<1>8. ASSUME NEW i \in Requests, Return(i) PROVE Inv'
  BY <1>8, ConnectReturnsKeeps, CompileReturnsKeeps, LaunchReturnsKeeps,
     InferenceReturnsKeeps DEF Return
<1>9. CASE Reload
  BY <1>9, ReloadKeeps
<1>10. CASE UNCHANGED vars
  BY <1>10 DEF vars, Inv, Good, Reachable, GoodFields, GoodRecords, Together,
     GoodRequests, Connecting, Asks
<1> QED
  BY <1>1, <1>2, <1>3, <1>4, <1>5, <1>6, <1>7, <1>8, <1>9, <1>10
  DEF Next, Click

LEMMA InvAlways == Spec => []Inv
BY InitInv, NextInv, PTL DEF Spec

(* The fields of app.js stay in their ranges, and there is a selected      *)
(* objective exactly when there are objectives.                            *)
THEOREM WorkspaceTypeCorrect == Spec => []WorkspaceTypeOK
<1>1. Inv => WorkspaceTypeOK
  <2> SUFFICES ASSUME Inv PROVE WorkspaceTypeOK
    OBVIOUS
  <2>1. \A o \in Objectives : obj[o] \in ObjectiveRecords
    BY InvGood
  <2> QED
    BY <2>1, InvGood DEF WorkspaceTypeOK, Inv, GoodFields, Fields, ObjectiveRecords
<1> QED  BY <1>1, InvAlways, PTL

(* Whatever is selected meanwhile, a draft, a package or an evaluation     *)
(* lands in the objective it was asked for (app.js:217).                   *)
THEOREM ResultsAreAttached == Spec => []ResultsStayAttached
<1>1. Inv => ResultsStayAttached
  BY InvGood DEF GoodRecords, Owned, ResultsStayAttached
<1> QED  BY <1>1, InvAlways, PTL

(* Without a connection nothing that depends on one is left or comes back, *)
(* not even by a late answer (app.js:486-501, 590-607).                    *)
THEOREM AccessFollowsConnection == Spec => []LockedUntilConnected
<1>1. Inv => LockedUntilConnected
  BY DEF Inv, Good, GoodFields, Fields, Reachable, CanAccess, LockedUntilConnected
<1> QED  BY <1>1, InvAlways, PTL

(* Insights and decisions are open only on an objective with its           *)
(* evaluation (app.js:208-213, 590-607).                                   *)
THEOREM InsightsHaveEvidence == Spec => []InsightsNeedEvidence
<1>1. Inv => InsightsNeedEvidence
  <2> SUFFICES ASSUME Inv, ui.module = "objectives", ui.view # "brief"
               PROVE  obj[ui.active].confirmed
                        /\ obj[ui.active].evaluationFor # None
    BY DEF InsightsNeedEvidence
  <2>1. ui.active \in Objectives
    BY DEF Inv, Good, GoodFields, Fields, Reachable, CanAccess
  <2>2. obj[ui.active].confirmed /\ Owned(ui.active, obj[ui.active])
    BY <2>1, InvGood DEF Inv, Good, Reachable, CanView, GoodRecords
  <2> QED  BY <2>2 DEF Owned
<1> QED  BY <1>1, InvAlways, PTL

-----------------------------------------------------------------------------
(* Whatever waits has a call.                                              *)

Kinds == {"compile", "launch", "inference"}

(* Record r waits for an answer of this kind.                              *)
Waits(r, kind) ==
  \/ kind = "compile" /\ r.api = "compiling"
  \/ kind = "inference" /\ r.api = "loading"
  \/ kind = "launch" /\ r.materializing = "loading"

(* Nothing waits that has not waited before.                               *)
NoneWaits(os) ==
  \A o \in Objectives, k \in Kinds : Waits(os[o], k) => Waits(obj[o], k)

(* Nothing waits that has not waited before, but a for such an answer.     *)
OnlyWaits(os, a, kind) ==
  \A o \in Objectives, k \in Kinds :
    Waits(os[o], k) => Waits(obj[o], k) \/ (o = a /\ k = kind)

LEMMA WaitingByKind ==
  WaitingHasCall <=>
    /\ ui.api = "loading" => HasCall("connect", None)
    /\ \A o \in Objectives, k \in Kinds : Waits(obj[o], k) => HasCall(k, o)
BY DEF WaitingHasCall, Waits, Kinds

LEMMA WaitingByKindNext ==
  WaitingHasCall' <=>
    /\ ui'.api = "loading" => HasCall("connect", None)'
    /\ \A o \in Objectives, k \in Kinds : Waits(obj'[o], k) => HasCall(k, o)'
BY DEF WaitingHasCall, Waits, Kinds

LEMMA RenderShows ==
  ASSUME NEW u \in Fields, NEW os, Render(u, os)
  PROVE  ui'.api = u.api /\ obj' = os
<1>1. ui' = Repaired(u, os) /\ obj' = os
  BY DEF Render, Paint
<1>2. Repaired(u, os).api = u.api
  BY DEF Repaired, Fields
<1> QED  BY <1>1, <1>2

LEMMA QuietWaits ==
  ASSUME WaitingHasCall, UNCHANGED requests,
         ui'.api = "loading" => ui.api = "loading", NoneWaits(obj')
  PROVE  WaitingHasCall'
<1>1. \A k, o : HasCall(k, o)' <=> HasCall(k, o)
  BY DEF HasCall
<1> QED  BY <1>1, WaitingByKind, WaitingByKindNext DEF NoneWaits

LEMMA SendWaits ==
  ASSUME Inv, WaitingHasCall, NEW i \in Requests, NEW c \in CallRecords,
         Send(i, c), OnlyWaits(obj', c.objective, c.kind),
         ui'.api = "loading" =>
           ui.api = "loading" \/ (c.kind = "connect" /\ c.objective = None)
  PROVE  WaitingHasCall'
<1>1. requests' = [requests EXCEPT ![i] = c] /\ requests[i] = None
  BY DEF Send
<1>2. requests \in [Requests -> CallRecords \cup {None}]
  BY DEF Inv, GoodRequests
<1>3. \A k, o : HasCall(k, o) => HasCall(k, o)'
  BY <1>1, <1>2 DEF HasCall
<1>4. HasCall(c.kind, c.objective)'
  <2>1. requests'[i] = c
    BY <1>1, <1>2
  <2> QED  BY <2>1, WorkspaceAssumption DEF HasCall
<1> QED  BY <1>3, <1>4, WaitingByKind, WaitingByKindNext DEF OnlyWaits

LEMMA AnswerWaits ==
  ASSUME Inv, WaitingHasCall, NEW i \in Requests, NEW kind \in Kinds,
         Answered(i, kind), ui'.api = ui.api, NoneWaits(obj'),
         ~Waits(obj'[Target(i)], kind)
  PROVE  WaitingHasCall'
<1>1. requests' = [requests EXCEPT ![i] = None] /\ requests[i].kind = kind
  BY DEF Answered
<1>2. requests \in [Requests -> CallRecords \cup {None}]
  BY DEF Inv, GoodRequests
<1>3. ASSUME NEW k, NEW o, HasCall(k, o), k # kind \/ o # Target(i)
      PROVE  HasCall(k, o)'
  BY <1>1, <1>2, <1>3 DEF HasCall, Target
<1>4. ui'.api = "loading" => HasCall("connect", None)'
  BY <1>3, WaitingByKind DEF Kinds
<1> QED  BY <1>3, <1>4, WaitingByKind, WaitingByKindNext DEF NoneWaits

LEMMA SetupKeepsWaiting ==
  ASSUME Inv, WaitingHasCall, Setup
  PROVE  WaitingHasCall'
<1>1. ui \in Fields /\ UNCHANGED requests
  BY InvGood DEF Setup, Disconnect, SaveKnowledge, StageExperiment,
     SimulationCompletes
<1>2. CASE Disconnect
  <2> DEFINE u == [Emptied(ui) EXCEPT !.knowledge = FALSE, !.active = None]
  <2>1. Render(u, obj) /\ u \in Fields /\ u.api = "idle"
    BY <1>1, <1>2 DEF Disconnect, Emptied, Fields
  <2> QED  BY <1>1, <2>1, RenderShows, QuietWaits DEF NoneWaits
<1>3. CASE SaveKnowledge
  <2> DEFINE u == [ui EXCEPT !.knowledge = TRUE, !.module = "objectives",
                             !.view = "brief"]
  <2>1. u \in Fields /\ u.api = ui.api
    BY <1>1 DEF Fields
  <2>2. CASE Render(u, obj)
    BY <1>1, <2>1, <2>2, RenderShows, QuietWaits DEF NoneWaits
  <2>3. ASSUME NEW o \in Objectives,
               Render(Created(u, o), [obj EXCEPT ![o] = Fresh])
        PROVE  WaitingHasCall'
    <3>1. Created(u, o) \in Fields /\ Created(u, o).api = ui.api
      BY <2>1 DEF Created, Fields
    <3>2. NoneWaits([obj EXCEPT ![o] = Fresh])
      BY InvGood DEF NoneWaits, Waits, Fresh
    <3> QED  BY <1>1, <2>3, <3>1, <3>2, RenderShows, QuietWaits
  <2> QED  BY <1>3, <2>2, <2>3 DEF SaveKnowledge
<1>4. CASE StageExperiment
  <2> DEFINE u == [ui EXCEPT !.simulation = "loading"]
  <2>1. Render(u, obj) /\ u \in Fields /\ u.api = ui.api
    BY <1>1, <1>4 DEF StageExperiment, Fields
  <2> QED  BY <1>1, <2>1, RenderShows, QuietWaits DEF NoneWaits
<1>5. CASE SimulationCompletes
  <2> DEFINE u == [ui EXCEPT !.simulation = "ready", !.experiment = TRUE,
                             !.module = "experiments"]
  <2>1. Render(u, obj) /\ u \in Fields /\ u.api = ui.api
    BY <1>1, <1>5 DEF SimulationCompletes, Fields
  <2> QED  BY <1>1, <2>1, RenderShows, QuietWaits DEF NoneWaits
<1> QED  BY <1>2, <1>3, <1>4, <1>5 DEF Setup

(* A record that waits no more than the one it replaces.                   *)
LEMMA SetWaits ==
  ASSUME Inv, NEW r,
         \A k \in Kinds : Waits(r, k) => Waits(Active, k)
  PROVE  NoneWaits(Set(r))
BY InvGood DEF NoneWaits, Set, Active

LEMMA ClickKeepsWaiting ==
  ASSUME Inv, WaitingHasCall, Click
  PROVE  WaitingHasCall'
<1>0. ui \in Fields /\ obj \in [Objectives -> ObjectiveRecords]
  BY InvGood
<1>1. CASE Setup
  BY <1>1, SetupKeepsWaiting
<1>2. ASSUME NEW m \in {"data", "knowledge", "objectives", "experiments"},
             OpenModule(m)
      PROVE  WaitingHasCall'
  <2> DEFINE u == [ui EXCEPT !.module = m]
  <2>1. /\ Render(u, obj) /\ u \in Fields /\ u.api = ui.api
        /\ UNCHANGED requests
    BY <1>0, <1>2 DEF OpenModule, Fields
  <2> QED  BY <2>1, RenderShows, QuietWaits DEF NoneWaits
<1>3. ASSUME NEW v \in {"brief", "insights", "decisions"}, OpenView(v)
      PROVE  WaitingHasCall'
  <2> DEFINE u == [ui EXCEPT !.view = v]
             r == [Active EXCEPT !.view = v]
  <2>1. /\ Render(u, Set(r)) /\ u \in Fields /\ u.api = ui.api
        /\ UNCHANGED requests /\ Page.module = "objectives"
    BY <1>0, <1>3 DEF OpenView, Fields
  <2>2. Active \in ObjectiveRecords
    BY <2>1, PageHasObjective DEF Owned
  <2>3. NoneWaits(Set(r))
    <3>1. \A k \in Kinds : Waits(r, k) => Waits(Active, k)
      BY <2>2 DEF Waits, ObjectiveRecords
    <3> QED  BY <3>1, SetWaits
  <2> QED  BY <2>1, <2>3, RenderShows, QuietWaits
<1>4. ASSUME NEW o \in Objectives, NewObjective(o)
      PROVE  WaitingHasCall'
  <2>1. /\ Render(Created(ui, o), [obj EXCEPT ![o] = Fresh])
        /\ Created(ui, o) \in Fields /\ Created(ui, o).api = ui.api
        /\ UNCHANGED requests
    BY <1>0, <1>4 DEF NewObjective, Created, Fields
  <2>2. NoneWaits([obj EXCEPT ![o] = Fresh])
    BY <1>0 DEF NoneWaits, Waits, Fresh
  <2> QED  BY <2>1, <2>2, RenderShows, QuietWaits
<1>5. ASSUME NEW o \in Objectives, SelectObjective(o)
      PROVE  WaitingHasCall'
  <2> DEFINE u == [ui EXCEPT !.active = o, !.view = obj[o].view]
  <2>1. obj[o].view \in {"brief", "insights", "decisions"}
    BY <1>0 DEF ObjectiveRecords
  <2>2. /\ Render(u, obj) /\ u \in Fields /\ u.api = ui.api
        /\ UNCHANGED requests
    BY <1>0, <1>5, <2>1 DEF SelectObjective, Fields
  <2> QED  BY <2>2, RenderShows, QuietWaits DEF NoneWaits
<1>6. ASSUME NEW fit \in {"supported", "unsupported"}, ChooseFit(fit)
      PROVE  WaitingHasCall'
  <2> DEFINE u == [ui EXCEPT !.view = "brief"]
             r == [Idle(Active) EXCEPT !.fit = fit, !.confirmed = FALSE,
                                       !.view = "brief"]
  <2>1. /\ Render(u, Set(r)) /\ u \in Fields /\ u.api = ui.api
        /\ UNCHANGED requests /\ OnBrief
    BY <1>0, <1>6 DEF ChooseFit, Fields
  <2>2. Active \in ObjectiveRecords
    BY <2>1, BriefHasObjective DEF Owned
  <2>3. NoneWaits(Set(r))
    <3>1. \A k \in Kinds : ~Waits(r, k)
      BY <2>2 DEF Waits, ObjectiveRecords, Idle
    <3> QED  BY <3>1, SetWaits
  <2> QED  BY <2>1, <2>3, RenderShows, QuietWaits
<1>7. ASSUME NEW t \in Tasks, ChooseTask(t)
      PROVE  WaitingHasCall'
  <2> DEFINE r == [Idle(Active) EXCEPT !.task = t, !.draft = None,
                                       !.draftFor = None]
  <2>1. Render(ui, Set(r)) /\ UNCHANGED requests /\ OnBrief
    BY <1>7 DEF ChooseTask, Offered
  <2>2. Active \in ObjectiveRecords
    BY <2>1, BriefHasObjective DEF Owned
  <2>3. NoneWaits(Set(r))
    <3>1. \A k \in Kinds : ~Waits(r, k)
      BY <2>2 DEF Waits, ObjectiveRecords, Idle
    <3> QED  BY <3>1, SetWaits
  <2> QED  BY <1>0, <2>1, <2>3, RenderShows, QuietWaits
<1> QED  BY <1>1, <1>2, <1>3, <1>4, <1>5, <1>6, <1>7 DEF Click

LEMMA CallTyped ==
  ASSUME NEW kind \in {"connect", "compile", "launch", "inference"},
         NEW a \in Objectives \cup {None}, NEW valid \in BOOLEAN
  PROVE  /\ Call(kind, a, valid) \in CallRecords
         /\ Call(kind, a, valid).kind = kind
         /\ Call(kind, a, valid).objective = a
BY DEF Call, CallRecords

(* A record that waits for the call that starts with it.                   *)
LEMMA SetSends ==
  ASSUME Inv, WaitingHasCall, NEW i \in Requests, NEW kind \in Kinds,
         NEW valid \in BOOLEAN, ui.active \in Objectives,
         Send(i, Call(kind, ui.active, valid)), ui'.api = ui.api,
         NEW r, obj' = Set(r),
         \A k \in Kinds : Waits(r, k) => Waits(Active, k) \/ k = kind
  PROVE  WaitingHasCall'
<1>1. OnlyWaits(obj', ui.active, kind)
  BY InvGood DEF Set, Active, OnlyWaits
<1> DEFINE c == Call(kind, ui.active, valid)
<1>2. c \in CallRecords /\ c.kind = kind /\ c.objective = ui.active
  BY CallTyped DEF Kinds
<1>3. Send(i, c)
  OBVIOUS
<1> HIDE DEF c
<1> QED  BY <1>1, <1>2, <1>3, SendWaits

LEMMA CompileWithWaits ==
  ASSUME Inv, WaitingHasCall, NEW i \in Requests, NEW r \in ObjectiveRecords,
         ui.active \in Objectives, CompileWith(i, r)
  PROVE  WaitingHasCall'
<1> DEFINE c == [Idle(r) EXCEPT
                   !.task = "custom", !.draft = None, !.draftFor = None,
                   !.api = "compiling"]
<1>1. Render(ui, Set(c)) /\ Send(i, Call("compile", ui.active, TRUE))
  BY DEF CompileWith
<1>2. ui'.api = ui.api /\ obj' = Set(c)
  BY <1>1, InvGood, RenderShows
<1>3. \A k \in Kinds : Waits(c, k) => k = "compile"
  BY DEF Waits, ObjectiveRecords, Idle
<1> HIDE DEF c
<1>4. "compile" \in Kinds
  BY DEF Kinds
<1> QED  BY <1>1, <1>2, <1>3, <1>4, SetSends

LEMMA AskKeepsWaiting ==
  ASSUME Inv, WaitingHasCall, NEW i \in Requests, Ask(i)
  PROVE  WaitingHasCall'
<1>0. ui \in Fields /\ obj \in [Objectives -> ObjectiveRecords]
  BY InvGood
<1>b. ASSUME OnBrief
      PROVE  ui.active \in Objectives /\ Active \in ObjectiveRecords
  BY <1>b, BriefHasObjective DEF Owned
<1>1. CASE Connect(i)
  <2> DEFINE u == [ui EXCEPT !.api = "loading"]
  <2>1. Render(u, obj) /\ u \in Fields /\ Send(i, Call("connect", None, TRUE))
    BY <1>0, <1>1 DEF Connect, Fields
  <2>2. obj' = obj
    BY <2>1, RenderShows
  <2> DEFINE c == Call("connect", None, TRUE)
  <2>3. c \in CallRecords /\ c.kind = "connect" /\ c.objective = None
    BY CallTyped
  <2>4. OnlyWaits(obj', None, "connect")
    BY <2>2 DEF OnlyWaits
  <2>5. Send(i, c)
    BY <2>1
  <2> HIDE DEF c
  <2> QED  BY <2>3, <2>4, <2>5, SendWaits
<1>2. CASE Compile(i)
  <2>1. OnBrief /\ CompileWith(i, Active)
    BY <1>2 DEF Compile, Offered
  <2> QED  BY <1>b, <2>1, CompileWithWaits
<1>3. CASE Compose(i)
  <2> DEFINE r == [Active EXCEPT !.fit = "supported"]
  <2>1. OnBrief /\ CompileWith(i, r)
    BY <1>3 DEF Compose
  <2>2. r \in ObjectiveRecords
    BY <1>b, <2>1 DEF ObjectiveRecords
  <2> QED  BY <1>b, <2>1, <2>2, CompileWithWaits
<1>4. CASE Clarify(i)
  <2> DEFINE r == [Active EXCEPT !.api = "compiling", !.apiError = FALSE]
  <2>1. /\ OnBrief /\ Render(ui, Set(r))
        /\ Send(i, Call("compile", ui.active, TRUE))
    BY <1>4 DEF Clarify, Offered
  <2>2. ui'.api = ui.api /\ obj' = Set(r)
    BY <1>0, <2>1, RenderShows
  <2>3. \A k \in Kinds : Waits(r, k) => Waits(Active, k) \/ k = "compile"
    BY <1>b, <2>1 DEF Waits, ObjectiveRecords
  <2> HIDE DEF r
  <2>4. "compile" \in Kinds
    BY DEF Kinds
  <2> QED  BY <1>b, <2>1, <2>2, <2>3, <2>4, SetSends
<1>5. CASE Launch(i)
  <2> DEFINE r == [Active EXCEPT
                     !.materializing = "loading",
                     !.materializationError = FALSE,
                     !.api = "idle", !.apiError = FALSE]
             valid == Active.task # "custom"
  <2>1. /\ OnBrief /\ Render(ui, Set(r))
        /\ Send(i, Call("launch", ui.active, valid))
    BY <1>5 DEF Launch, Offered
  <2>2. ui'.api = ui.api /\ obj' = Set(r)
    BY <1>0, <2>1, RenderShows
  <2>3. \A k \in Kinds : Waits(r, k) => Waits(Active, k) \/ k = "launch"
    BY <1>b, <2>1 DEF Waits, ObjectiveRecords
  <2> HIDE DEF r
  <2>4. "launch" \in Kinds
    BY DEF Kinds
  <2> QED  BY <1>b, <2>1, <2>2, <2>3, <2>4, SetSends
<1>6. CASE RunSimulated(i)
  <2> DEFINE ready   == Active.task # "custom" \/ Active.draft = "draft_ready"
             waiting == [Active EXCEPT !.api = "loading", !.apiError = FALSE]
             drafted == [waiting EXCEPT !.draft = "draft_ready",
                                        !.api = "ready"]
  <2>1. /\ OnBrief /\ Send(i, Call("inference", ui.active, ready))
        /\ ui' = Repaired(ui, Set(waiting))
        /\ obj' = Set(drafted) \/ obj' = Set(waiting)
    BY <1>6 DEF RunSimulated, Offered, Paint
  <2>2. ui'.api = ui.api
    BY <1>0, <2>1 DEF Repaired, Fields
  <2>3. \A k \in Kinds :
          Waits(waiting, k) \/ Waits(drafted, k) =>
            Waits(Active, k) \/ k = "inference"
    BY <1>b, <2>1 DEF Waits, ObjectiveRecords
  <2> HIDE DEF waiting, drafted
  <2>4. "inference" \in Kinds
    BY DEF Kinds
  <2> QED  BY <1>b, <2>1, <2>2, <2>3, <2>4, SetSends
<1> QED  BY <1>1, <1>2, <1>3, <1>4, <1>5, <1>6 DEF Ask

(* Every branch of an answer ends the waiting for it.                      *)
LEMMA ReturnKeepsWaiting ==
  ASSUME Inv, WaitingHasCall, NEW i \in Requests, Return(i)
  PROVE  WaitingHasCall'
<1>0. ui \in Fields /\ obj \in [Objectives -> ObjectiveRecords]
  BY InvGood
<1> DEFINE o == Target(i)
<1>s. ASSUME NEW kind \in Kinds, Answered(i, kind), ui'.api = ui.api,
             \A p \in Objectives : p # o => obj'[p] = obj[p],
             ~Waits(obj'[o], kind),
             \A k \in Kinds : Waits(obj'[o], k) => Waits(obj[o], k)
      PROVE  WaitingHasCall'
  <2>1. NoneWaits(obj')
    BY <1>s DEF NoneWaits
  <2> QED  BY <1>s, <2>1, AnswerWaits
<1>t. ASSUME NEW kind \in {"compile", "inference"}, Answered(i, kind),
             ui'.api = ui.api,
             \A p \in Objectives : p # o => obj'[p] = obj[p],
             obj'[o].api \in {"ready", "error"},
             obj'[o].materializing = obj[o].materializing
      PROVE  WaitingHasCall'
  BY <1>s, <1>t DEF Waits, Kinds
<1>1. CASE ConnectReturns(i)
  <2> DEFINE yes == [ui EXCEPT !.connected = TRUE, !.api = "ready"]
             no  == [ui EXCEPT !.connected = FALSE, !.api = "error"]
  <2>1. /\ yes \in Fields /\ yes.api = "ready"
        /\ no \in Fields /\ no.api = "error"
    BY <1>0 DEF Fields
  <2>2. Render(yes, obj) \/ Render(no, obj)
    BY <1>1 DEF ConnectReturns
  <2> HIDE DEF yes, no
  <2>3. ui'.api # "loading" /\ obj' = obj
    BY <2>1, <2>2, RenderShows
  <2>4. /\ requests' = [requests EXCEPT ![i] = None]
        /\ requests[i].kind = "connect"
    BY <1>1 DEF ConnectReturns, Answered
  <2>5. \A k \in Kinds, p \in Objectives : HasCall(k, p) => HasCall(k, p)'
    BY <2>4 DEF HasCall, Kinds, Inv, GoodRequests
  <2> QED  BY <2>3, <2>5, WaitingByKind, WaitingByKindNext
<1>2. CASE CompileReturns(i)
  <2>1. Answered(i, "compile") /\ o \in Objectives
    BY <1>2, TargetOwned DEF CompileReturns
  <2>2. ASSUME NEW outcome \in Outcomes,
               Render(ui, [obj EXCEPT ![o].draft = outcome,
                                      ![o].draftFor = requests[i].objective,
                                      ![o].api = "ready"])
        PROVE  WaitingHasCall'
    <3>1. /\ ui'.api = ui.api
          /\ obj' = [obj EXCEPT ![o].draft = outcome,
                                ![o].draftFor = requests[i].objective,
                                ![o].api = "ready"]
      BY <1>0, <2>2, RenderShows
    <3>2. /\ \A p \in Objectives : p # o => obj'[p] = obj[p]
          /\ obj'[o].api = "ready"
          /\ obj'[o].materializing = obj[o].materializing
      BY <1>0, <2>1, <3>1 DEF ObjectiveRecords
    <3> HIDE DEF o
    <3> QED  BY <1>t, <2>1, <3>1, <3>2
  <2>3. ASSUME Render(ui, [obj EXCEPT ![o].api = "error", ![o].apiError = TRUE])
        PROVE  WaitingHasCall'
    <3>1. /\ ui'.api = ui.api
          /\ obj' = [obj EXCEPT ![o].api = "error", ![o].apiError = TRUE]
      BY <1>0, <2>3, RenderShows
    <3>2. /\ \A p \in Objectives : p # o => obj'[p] = obj[p]
          /\ obj'[o].api = "error"
          /\ obj'[o].materializing = obj[o].materializing
      BY <1>0, <2>1, <3>1 DEF ObjectiveRecords
    <3> HIDE DEF o
    <3> QED  BY <1>t, <2>1, <3>1, <3>2
  <2> QED  BY <1>2, <2>2, <2>3 DEF CompileReturns
<1>3. CASE LaunchReturns(i)
  <2>1. Answered(i, "launch") /\ o \in Objectives
    BY <1>3, TargetOwned DEF LaunchReturns
  <2>2. /\ ui'.api = ui.api
        /\ \/ obj' = [obj EXCEPT
                        ![o].materializationFor = requests[i].objective,
                        ![o].materializing = "ready"]
           \/ obj' = [obj EXCEPT ![o].materializing = "error",
                                 ![o].materializationError = TRUE]
    BY <1>0, <1>3, RenderShows DEF LaunchReturns
  <2>3. /\ \A p \in Objectives : p # o => obj'[p] = obj[p]
        /\ obj'[o].materializing \in {"ready", "error"}
        /\ obj'[o].api = obj[o].api
    BY <1>0, <2>1, <2>2 DEF ObjectiveRecords
  <2> HIDE DEF o
  <2> QED  BY <1>s, <2>1, <2>2, <2>3 DEF Waits, Kinds
<1>4. CASE InferenceReturns(i)
  <2>1. Answered(i, "inference") /\ o \in Objectives
    BY <1>4, TargetOwned DEF InferenceReturns
  <2>2. [ui EXCEPT !.module = "objectives", !.view = "insights"] \in Fields
        /\ [ui EXCEPT !.module = "objectives", !.view = "insights"].api = ui.api
    BY <1>0 DEF Fields
  <2>3. /\ ui'.api = ui.api
        /\ \/ obj' = [obj EXCEPT
                        ![o].evaluationFor = requests[i].objective,
                        ![o].confirmed = TRUE, ![o].api = "ready",
                        ![o].view = "insights"]
           \/ obj' = [obj EXCEPT ![o].api = "error", ![o].apiError = TRUE]
    BY <1>0, <1>4, <2>2, RenderShows DEF InferenceReturns
  <2>4. /\ \A p \in Objectives : p # o => obj'[p] = obj[p]
        /\ obj'[o].api \in {"ready", "error"}
        /\ obj'[o].materializing = obj[o].materializing
    BY <1>0, <2>1, <2>3 DEF ObjectiveRecords
  <2> HIDE DEF o
  <2> QED  BY <1>t, <2>1, <2>3, <2>4
<1> QED  BY <1>1, <1>2, <1>3, <1>4 DEF Return

(* Answers that overtake each other, new choices and disconnecting leave   *)
(* no status waiting without a call; only a reload may (app.js:361-628).   *)
THEOREM WaitingAlwaysEnds == Spec => WaitingEnds
<1>1. Inv /\ [Next]_vars => [WaitingHasCall /\ ~Reload => WaitingHasCall']_vars
  <2> SUFFICES ASSUME Inv, Next, WaitingHasCall, ~Reload
               PROVE  WaitingHasCall'
    OBVIOUS
  <2>1. CASE Click
    BY <2>1, ClickKeepsWaiting
  <2>2. ASSUME NEW i \in Requests, Ask(i) \/ Return(i)
        PROVE  WaitingHasCall'
    BY <2>2, AskKeepsWaiting, ReturnKeepsWaiting
  <2> QED  BY <2>1, <2>2 DEF Next
<1> QED  BY <1>1, InvAlways, PTL DEF Spec, WaitingEnds

-----------------------------------------------------------------------------
(* What is on the page and in storage, unless the page cannot be built.    *)
Saved ==
  Throws(ui, obj) \/
    /\ shown.ui.listed = ui.listed
    /\ \A o \in ui.listed :
         /\ shown.obj[o].evaluationFor = obj[o].evaluationFor
         /\ shown.obj[o].materializationFor = obj[o].materializationFor

LEMMA RenderSaves ==
  ASSUME NEW u, NEW os, Render(u, os)
  PROVE  Saved'
<1>1. ui' = Repaired(u, os) /\ obj' = os
  BY DEF Render, Paint
<1>2. CASE Throws(Repaired(u, os), os)
  <2>1. Throws(ui', obj')
    BY <1>1, <1>2
  <2> QED  BY <2>1 DEF Saved, Throws
<1>3. CASE ~Throws(Repaired(u, os), os)
  <2>1. shown' = [ui |-> ui', obj |-> obj', animated |-> TRUE]
    BY <1>1, <1>3 DEF Render, Paint
  <2> QED  BY <2>1 DEF Saved
<1> QED  BY <1>2, <1>3

(* The waiting screen is no confirmed brief, and what the handler of the   *)
(* simulated inference adds after it is no result.                         *)
LEMMA RunSaves ==
  ASSUME Inv, NEW i \in Requests, RunSimulated(i)
  PROVE  Saved'
<1> DEFINE waiting == [Active EXCEPT !.api = "loading", !.apiError = FALSE]
           os == Set(waiting)
<1>1. OnBrief
  BY DEF RunSimulated, Offered
<1>2. ui' = Repaired(ui, os)
  BY DEF RunSimulated, Paint
<1>3. GoodRecords(obj) /\ ui \in Fields /\ ui.active \in Objectives \cup {None}
  BY DEF Inv, Good, GoodFields, Fields
<1>4. /\ ui'.module = "objectives" => ui.module = "objectives"
      /\ ui'.active = ui.active /\ ui'.listed = ui.listed
  BY <1>2, <1>3 DEF Repaired, Fields
<1>5. ui.module = "objectives" => ui.active \in Objectives
  BY DEF Inv, Good, GoodFields, Fields, Reachable, CanAccess
<1>6. ~Throws(Repaired(ui, os), os)
  <2> SUFFICES ASSUME ui.active \in Objectives
               PROVE  Panel(os[ui.active]) # "confirmed"
    BY <1>2, <1>4, <1>5 DEF Throws
  <2>1. os[ui.active] = waiting /\ waiting.api = "loading"
    BY <1>3 DEF Set, Active, GoodRecords, ObjectiveRecords
  <2>2. waiting.fit \in {None, "supported", "unsupported"}
    BY <1>3 DEF Active, GoodRecords, ObjectiveRecords
  <2> HIDE DEF waiting, os
  <2> QED  BY <2>1, <2>2 DEF Panel
<1>7. shown' = [ui |-> ui', obj |-> os, animated |-> TRUE]
  BY <1>2, <1>6 DEF RunSimulated, Paint
<1>8. \A o \in Objectives :
        /\ os[o].evaluationFor = obj'[o].evaluationFor
        /\ os[o].materializationFor = obj'[o].materializationFor
  BY <1>3 DEF RunSimulated, Set, Active, GoodRecords, ObjectiveRecords
<1>9. ui'.listed \subseteq Objectives
  BY <1>3, <1>4 DEF Fields
<1> HIDE DEF os
<1> QED  BY <1>7, <1>8, <1>9 DEF Saved

LEMMA SavedStep ==
  ASSUME Inv, Saved, [Next]_vars
  PROVE  Saved'
<1>1. CASE Setup
  BY <1>1, RenderSaves
  DEF Setup, Disconnect, SaveKnowledge, StageExperiment, SimulationCompletes
<1>2. ASSUME NEW m, OpenModule(m) PROVE Saved'
  BY <1>2, RenderSaves DEF OpenModule
<1>3. ASSUME NEW v, OpenView(v) PROVE Saved'
  BY <1>3, RenderSaves DEF OpenView
<1>4. ASSUME NEW o, NewObjective(o) \/ SelectObjective(o) PROVE Saved'
  BY <1>4, RenderSaves DEF NewObjective, SelectObjective
<1>5. ASSUME NEW fit, ChooseFit(fit) PROVE Saved'
  BY <1>5, RenderSaves DEF ChooseFit
<1>6. ASSUME NEW task, ChooseTask(task) PROVE Saved'
  BY <1>6, RenderSaves DEF ChooseTask
<1>7. ASSUME NEW i \in Requests, Ask(i) PROVE Saved'
  <2>1. CASE Connect(i)
    BY <2>1, RenderSaves DEF Connect
  <2>2. CASE Compile(i) \/ Compose(i) \/ Clarify(i)
    BY <2>2, RenderSaves DEF Compile, Compose, Clarify, CompileWith
  <2>3. CASE Launch(i)
    BY <2>3, RenderSaves DEF Launch
  <2>4. CASE RunSimulated(i)
    BY <2>4, RunSaves
  <2> QED  BY <1>7, <2>1, <2>2, <2>3, <2>4 DEF Ask
<1>8. ASSUME NEW i \in Requests, Return(i) PROVE Saved'
  <2>1. CASE ConnectReturns(i)
    BY <2>1, RenderSaves DEF ConnectReturns
  <2>2. CASE CompileReturns(i)
    BY <2>2, RenderSaves DEF CompileReturns
  <2>3. CASE LaunchReturns(i)
    BY <2>3, RenderSaves DEF LaunchReturns
  <2>4. CASE InferenceReturns(i)
    BY <2>4, RenderSaves DEF InferenceReturns
  <2> QED  BY <1>8, <2>1, <2>2, <2>3, <2>4 DEF Return
<1>9. CASE Reload
  <2>1. /\ ui' = shown.ui /\ obj' = shown.obj
        /\ shown'.ui = shown.ui /\ shown'.obj = shown.obj
    BY <1>9 DEF Reload, Inv
  <2> QED  BY <2>1 DEF Saved
<1>10. CASE UNCHANGED vars
  BY <1>10 DEF vars, Saved, Throws
<1> QED
  BY <1>1, <1>2, <1>3, <1>4, <1>5, <1>6, <1>7, <1>8, <1>9, <1>10
  DEF Next, Click

(* A reload brings back what was listed, with its results, unless the page *)
(* could not be built (app.js:361-376, workspace-state.js:94-111).         *)
THEOREM RecordsAlwaysSurvive == Spec => RecordsSurvive
<1> DEFINE Kept ==
      Reload /\ ~Throws(ui, obj) =>
        /\ ui'.listed = ui.listed
        /\ \A o \in ui.listed :
             /\ obj'[o].evaluationFor = obj[o].evaluationFor
             /\ obj'[o].materializationFor = obj[o].materializationFor
<1>1. Init => Saved
  BY DEF Init, Saved
<1>2. Inv /\ Saved /\ [Next]_vars => Saved'
  BY SavedStep
<1>3. Saved /\ [Next]_vars => [Kept]_vars
  BY DEF Saved, Reload
<1> QED  BY <1>1, <1>2, <1>3, InvAlways, PTL DEF Spec, RecordsSurvive
=============================================================================
