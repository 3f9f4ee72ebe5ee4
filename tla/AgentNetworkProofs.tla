------------------------ MODULE AgentNetworkProofs ------------------------
(* Proofs about AgentNetwork for any rounds, any tabs and any faults, and,   *)
(* in the second half, about AgentNetworkCommands.                           *)
EXTENDS AgentNetworkCommands, TLAPS

(* Rows locked by a request are applied rows, and locked by it alone; a plan *)
(* has a name in use; a round that is being planned has no plan yet, and one *)
(* tab waits for it.                                                         *)
LockInv ==
    /\ \A p \in Round : status[p] # "none" => p \in used
    /\ \A t \in Tab : \A q \in applying[t].held : status[q] = "applied"
    /\ \A t, u \in Tab : t # u => applying[t].held \cap applying[u].held = {}
    /\ \A t \in Tab : planning[t] # None => planning[t] \in used /\ status[planning[t]] = "none"
    /\ \A t, u \in Tab : planning[t] # None /\ planning[t] = planning[u] => t = u
    /\ \A t \in Tab : applying[t].pc # "idle" => applying[t].plan \in Round

RowTypes ==
    /\ used \subseteq Round /\ asked \subseteq used
    /\ status \in [Round -> {"none", "not_applied", "applied", "apply_failed"}]
    /\ ran \in [Round -> Graph] /\ conv \in Conversation
    /\ \A p \in Round : ran[p] # None => status[p] # "none"
CanvasTypes ==
    /\ draft \in Graph /\ canvas \in [Tab -> Graph] /\ hash \in [Tab -> Graph]
FlowTypes ==
    /\ planning \in [Tab -> Graph] /\ applying \in [Tab -> Applying]
    /\ executing \in [Tab -> Executing] /\ clearing \in [Tab -> Clearing]
    /\ raced \subseteq {"overlap", "outlived"}
ViewTypes == view \in [Tab -> View]

LEMMA TypeParts == TypeOK <=> RowTypes /\ CanvasTypes /\ FlowTypes /\ ViewTypes /\ acts \in 0 .. MaxActs
BY DEF TypeOK, RowTypes, CanvasTypes, FlowTypes, ViewTypes

LEMMA CanvasTypesNext == RowTypes /\ CanvasTypes /\ FlowTypes /\ ViewTypes /\ [Next]_vars => CanvasTypes'
<1>. SUFFICES ASSUME RowTypes, CanvasTypes, FlowTypes, ViewTypes, [Next]_vars PROVE CanvasTypes'
  OBVIOUS
<1>. USE NetworkAssumption DEF CanvasTypes, Graph
<1>1. ASSUME NEW t \in Tab, LoadHistory(t) PROVE CanvasTypes'
  BY <1>1 DEF LoadHistory
<1>2. ASSUME NEW t \in Tab, EditorSaves(t) PROVE CanvasTypes'
  BY <1>2 DEF EditorSaves, Saved, NotSaved
<1>3. ASSUME NEW t \in Tab, Reload(t) PROVE CanvasTypes'
  BY <1>3 DEF Reload
<1>4. ASSUME NEW t \in Tab, Clear(t) PROVE CanvasTypes'
  BY <1>4 DEF Clear
<1>5. ASSUME NEW t \in Tab, ExecuteToolbar(t) PROVE CanvasTypes'
  BY <1>5 DEF ExecuteToolbar
<1>6. ASSUME NEW t \in Tab, NEW p \in Round, Submit(t, p) PROVE CanvasTypes'
  BY <1>6 DEF Submit
<1>7. ASSUME NEW t \in Tab, NEW p \in Round, Apply(t, p) PROVE CanvasTypes'
  BY <1>7 DEF Apply
<1>8. ASSUME NEW t \in Tab, NEW p \in Round, ExecutePanel(t, p) PROVE CanvasTypes'
  BY <1>8 DEF ExecutePanel
<1>9. ASSUME NEW t \in Tab, StorePlan(t) PROVE CanvasTypes'
  BY <1>9 DEF StorePlan
<1>10. ASSUME NEW t \in Tab, SaveApplied(t) PROVE CanvasTypes'
  BY <1>10 DEF SaveApplied, Saved, NotSaved
<1>11. ASSUME NEW t \in Tab, MarkFailed(t) PROVE CanvasTypes'
  BY <1>11 DEF MarkFailed
<1>12. ASSUME NEW t \in Tab, MarkLoad(t) PROVE CanvasTypes'
  BY <1>12 DEF MarkLoad, ApplyUnmarked
<1>f. ASSUME NEW t \in Tab, MarkFind(t) PROVE CanvasTypes'
  BY <1>f DEF MarkFind
<1>13. ASSUME NEW t \in Tab, MarkSweep(t) PROVE CanvasTypes'
  BY <1>13 DEF MarkSweep
<1>14. ASSUME NEW t \in Tab, MarkCommit(t) PROVE CanvasTypes'
  BY <1>14 DEF MarkCommit, MarkRows, ApplyUnmarked
<1>15. ASSUME NEW t \in Tab, ExecuteSaves(t) PROVE CanvasTypes'
  BY <1>15 DEF ExecuteSaves, Saved, NotSaved
<1>16. ASSUME NEW t \in Tab, ExecuteExports(t) PROVE CanvasTypes'
  BY <1>16 DEF ExecuteExports
<1>17. ASSUME NEW t \in Tab, StoreResult(t) PROVE CanvasTypes'
  BY <1>17 DEF StoreResult
<1>18. ASSUME NEW t \in Tab, ClearLoad(t) PROVE CanvasTypes'
  BY <1>18 DEF ClearLoad
<1>g. ASSUME NEW t \in Tab, ClearFind(t) PROVE CanvasTypes'
  BY <1>g DEF ClearFind
<1>19. ASSUME NEW t \in Tab, ClearCommit(t) PROVE CanvasTypes'
  BY <1>19 DEF ClearCommit, Forget
<1>20. CASE UNCHANGED vars
  BY <1>20 DEF vars, rows, flows
<1>. QED
  BY <1>1, <1>2, <1>3, <1>4, <1>5, <1>6, <1>7, <1>8, <1>9, <1>10, <1>11, <1>12, <1>13, <1>14, <1>15, <1>16, <1>17, <1>18, <1>19, <1>20, <1>f, <1>g DEF Next, Act, Flow

(* What each step puts into the state of a flow.                             *)
LEMMA IdleTypes == NotApplying \in Applying /\ NotExecuting \in Executing /\ NotClearing \in Clearing
BY DEF NotApplying, NotExecuting, NotClearing, Applying, Executing, Clearing,
       NoConversation, Conversation, Graph

LEMMA ExecutingTypes ==
    ASSUME NEW e \in Executing, NEW g \in Graph
    PROVE  /\ [e EXCEPT !.pc = "saved"] \in Executing
           /\ [e EXCEPT !.pc = "run", !.code = g] \in Executing
BY DEF Executing

LEMMA FlowTypesNext == RowTypes /\ CanvasTypes /\ FlowTypes /\ ViewTypes /\ [Next]_vars => FlowTypes'
<1>. SUFFICES ASSUME RowTypes, CanvasTypes, FlowTypes, ViewTypes, [Next]_vars PROVE FlowTypes'
  OBVIOUS
<1>. USE NetworkAssumption, IdleTypes DEF rows, flows, FlowTypes
<1>1. ASSUME NEW t \in Tab, LoadHistory(t) PROVE FlowTypes'
  BY <1>1 DEF LoadHistory
<1>2. ASSUME NEW t \in Tab, EditorSaves(t) PROVE FlowTypes'
  BY <1>2 DEF EditorSaves
<1>3. ASSUME NEW t \in Tab, Reload(t) PROVE FlowTypes'
  BY <1>3 DEF Reload, Graph
<1>4. ASSUME NEW t \in Tab, Clear(t) PROVE FlowTypes'
  <2>1. [clearing[t] EXCEPT !.pc = "sent"] \in Clearing
    BY DEF Clearing
  <2>. QED  BY <1>4, <2>1 DEF Clear
<1>5. ASSUME NEW t \in Tab, ExecuteToolbar(t) PROVE FlowTypes'
  <2>1. [pc |-> "save", panel |-> FALSE, id |-> conv.id, task |-> conv.task, code |-> None] \in Executing
    BY DEF Executing, RowTypes, Conversation, Graph
  <2>. QED  BY <1>5, <2>1 DEF ExecuteToolbar
<1>6. ASSUME NEW t \in Tab, NEW p \in Round, Submit(t, p) PROVE FlowTypes'
  BY <1>6 DEF Submit, Graph
<1>7. ASSUME NEW t \in Tab, NEW p \in Round, Apply(t, p) PROVE FlowTypes'
  <2>1. \A c \in {"canvas", "broken"} : [NotApplying EXCEPT !.pc = c, !.plan = p] \in Applying
    BY DEF Applying, NotApplying, NoConversation, Conversation, Graph
  <2>. QED  BY <1>7, <2>1 DEF Apply
<1>8. ASSUME NEW t \in Tab, NEW p \in Round, ExecutePanel(t, p) PROVE FlowTypes'
  <2>1. [pc |-> "save", panel |-> TRUE, id |-> p, task |-> view[t].conv.task, code |-> None] \in Executing
    BY DEF Executing, ViewTypes, View, Conversation, Graph
  <2>. QED  BY <1>8, <2>1 DEF ExecutePanel
<1>9. ASSUME NEW t \in Tab, StorePlan(t) PROVE FlowTypes'
  BY <1>9 DEF StorePlan, Graph
<1>10. ASSUME NEW t \in Tab, SaveApplied(t) PROVE FlowTypes'
  <2>1. [applying[t] EXCEPT !.pc = "mark"] \in Applying
    BY DEF Applying
  <2>. QED  BY <1>10, <2>1 DEF SaveApplied
<1>11. ASSUME NEW t \in Tab, MarkFailed(t) PROVE FlowTypes'
  BY <1>11 DEF MarkFailed
<1>12. ASSUME NEW t \in Tab, MarkLoad(t) PROVE FlowTypes'
  <2>1. [applying[t] EXCEPT !.pc = "loaded", !.seen = conv] \in Applying
    BY DEF Applying, RowTypes
  <2>2. raced' \subseteq {"overlap", "outlived"}
    BY <1>12 DEF MarkLoad, Overlap
  <2>3. applying' \in [Tab -> Applying]
    BY <1>12, <2>1 DEF MarkLoad, ApplyUnmarked
  <2>. QED  BY <1>12, <2>2, <2>3 DEF MarkLoad
<1>f. ASSUME NEW t \in Tab, MarkFind(t) PROVE FlowTypes'
  <2>1. [applying[t] EXCEPT !.pc = "update", !.found = {p \in Round : status[p] = "applied"}] \in Applying
    BY DEF Applying
  <2>. QED  BY <1>f, <2>1 DEF MarkFind
<1>13. ASSUME NEW t \in Tab, MarkSweep(t) PROVE FlowTypes'
  <2>1. [applying[t] EXCEPT !.pc = "swept", !.found = {},
                            !.held = {p \in applying[t].found : status[p] = "applied"}] \in Applying
    BY DEF Applying
  <2>. QED  BY <1>13, <2>1 DEF MarkSweep
<1>14. ASSUME NEW t \in Tab, MarkCommit(t) PROVE FlowTypes'
  BY <1>14 DEF MarkCommit, ApplyUnmarked
<1>15. ASSUME NEW t \in Tab, ExecuteSaves(t) PROVE FlowTypes'
  <2>1. [executing[t] EXCEPT !.pc = "saved"] \in Executing
    BY ExecutingTypes
  <2>. QED  BY <1>15, <2>1 DEF ExecuteSaves
<1>16. ASSUME NEW t \in Tab, ExecuteExports(t) PROVE FlowTypes'
  <2>1. [executing[t] EXCEPT !.pc = "run", !.code = canvas[t]] \in Executing
    BY ExecutingTypes DEF CanvasTypes
  <2>. QED  BY <1>16, <2>1 DEF ExecuteExports
<1>17. ASSUME NEW t \in Tab, StoreResult(t) PROVE FlowTypes'
  BY <1>17 DEF StoreResult
<1>18. ASSUME NEW t \in Tab, ClearLoad(t) PROVE FlowTypes'
  <2>1. [clearing[t] EXCEPT !.pc = "loaded", !.seen = conv.id] \in Clearing
    BY DEF Clearing, RowTypes, Conversation
  <2>. QED  BY <1>18, <2>1 DEF ClearLoad, Overlap
<1>g. ASSUME NEW t \in Tab, ClearFind(t) PROVE FlowTypes'
  <2>1. [clearing[t] EXCEPT !.pc = "delete", !.tasks = asked,
                            !.plans = {p \in Round : status[p] # "none"}] \in Clearing
    BY DEF Clearing, RowTypes
  <2>. QED  BY <1>g, <2>1 DEF ClearFind
<1>19. ASSUME NEW t \in Tab, ClearCommit(t) PROVE FlowTypes'
  BY <1>19 DEF ClearCommit
<1>20. CASE UNCHANGED vars
  BY <1>20 DEF vars
<1>. QED
  BY <1>1, <1>2, <1>3, <1>4, <1>5, <1>6, <1>7, <1>8, <1>9, <1>10, <1>11, <1>12, <1>13, <1>14, <1>15, <1>16, <1>17, <1>18, <1>19, <1>20, <1>f, <1>g DEF Next, Act, Flow

LEMMA ViewUpdates ==
    ASSUME ViewTypes, NEW t \in Tab, NEW p \in Round, NEW x \in {"hidden", "pending", "task", "plan"}
    PROVE  [view EXCEPT ![t].list[p] = x] \in [Tab -> View]
<1>1. view[t] \in View
  BY DEF ViewTypes
<1>2. [view[t].list EXCEPT ![p] = x] \in [Round -> {"hidden", "pending", "task", "plan"}]
  BY <1>1 DEF View
<1>3. [view[t] EXCEPT !.list = [view[t].list EXCEPT ![p] = x]] \in View
  BY <1>1, <1>2 DEF View
<1>. QED
  BY <1>3 DEF ViewTypes

LEMMA ViewLearns ==
    ASSUME ViewTypes, NEW t \in Tab, NEW c \in Conversation
    PROVE  [view EXCEPT ![t].conv = c] \in [Tab -> View]
<1>1. view[t] \in View
  BY DEF ViewTypes
<1>2. [view[t] EXCEPT !.conv = c] \in View
  BY <1>1 DEF View
<1>. QED
  BY <1>2 DEF ViewTypes

LEMMA ViewTypesNext == RowTypes /\ CanvasTypes /\ FlowTypes /\ ViewTypes /\ LockInv /\ [Next]_vars => ViewTypes'
<1>. SUFFICES ASSUME RowTypes, CanvasTypes, FlowTypes, ViewTypes, LockInv, [Next]_vars PROVE ViewTypes'
  OBVIOUS
<1>. USE NetworkAssumption DEF rows, flows, ViewTypes, RowTypes, View, Hidden, Conversation, Graph
<1>1. ASSUME NEW t \in Tab, LoadHistory(t) PROVE ViewTypes'
  BY <1>1 DEF LoadHistory, Stored
<1>2. ASSUME NEW t \in Tab, EditorSaves(t) PROVE ViewTypes'
  BY <1>2 DEF EditorSaves
<1>3. ASSUME NEW t \in Tab, Reload(t) PROVE ViewTypes'
  BY <1>3 DEF Reload, Stored
<1>4. ASSUME NEW t \in Tab, Clear(t) PROVE ViewTypes'
  BY <1>4 DEF Clear
<1>5. ASSUME NEW t \in Tab, ExecuteToolbar(t) PROVE ViewTypes'
  BY <1>5 DEF ExecuteToolbar
<1>6. ASSUME NEW t \in Tab, NEW p \in Round, Submit(t, p) PROVE ViewTypes'
  <2>1. view' = [view EXCEPT ![t].list[p] = "pending"]
    BY <1>6 DEF Submit
  <2>2. [view EXCEPT ![t].list[p] = "pending"] \in [Tab -> View]
    BY ViewUpdates
  <2>. HIDE DEF View
  <2>. QED  BY <2>1, <2>2
<1>7. ASSUME NEW t \in Tab, NEW p \in Round, Apply(t, p) PROVE ViewTypes'
  BY <1>7 DEF Apply
<1>8. ASSUME NEW t \in Tab, NEW p \in Round, ExecutePanel(t, p) PROVE ViewTypes'
  BY <1>8 DEF ExecutePanel
<1>9. ASSUME NEW t \in Tab, StorePlan(t) PROVE ViewTypes'
  <2>1. planning[t] \in Round
    BY <1>9 DEF StorePlan, FlowTypes, Graph
  <2>2. view' = view \/ view' = [view EXCEPT ![t].list[planning[t]] = "plan"]
    BY <1>9 DEF StorePlan
  <2>3. [view EXCEPT ![t].list[planning[t]] = "plan"] \in [Tab -> View]
    BY <2>1, ViewUpdates DEF RowTypes
  <2>. HIDE DEF View
  <2>. QED  BY <2>2, <2>3
<1>10. ASSUME NEW t \in Tab, SaveApplied(t) PROVE ViewTypes'
  BY <1>10 DEF SaveApplied
<1>11. ASSUME NEW t \in Tab, MarkFailed(t) PROVE ViewTypes'
  BY <1>11 DEF MarkFailed
<1>12. ASSUME NEW t \in Tab, MarkLoad(t) PROVE ViewTypes'
  BY <1>12 DEF MarkLoad, ApplyUnmarked, Stored
<1>f. ASSUME NEW t \in Tab, MarkFind(t) PROVE ViewTypes'
  BY <1>f DEF MarkFind
<1>13. ASSUME NEW t \in Tab, MarkSweep(t) PROVE ViewTypes'
  BY <1>13 DEF MarkSweep
<1>14. ASSUME NEW t \in Tab, MarkCommit(t) PROVE ViewTypes'
  <2>1. applying[t].plan \in Graph
    BY DEF FlowTypes, Applying
  <2>2. conv' \in Conversation \/ conv' = conv
    BY <1>14, <2>1 DEF MarkCommit, MarkRows
  <2>3. \/ view' = view \/ view' = [view EXCEPT ![t] = Stored(conv)]
        \/ view' = [view EXCEPT ![t].conv = conv']
    BY <1>14 DEF MarkCommit, ApplyUnmarked
  <2>4. Stored(conv) \in View
    BY DEF Stored
  <2>5. conv' \in Conversation => [view EXCEPT ![t].conv = conv'] \in [Tab -> View]
    BY ViewLearns
  <2>6. conv' \in Conversation
    BY <2>2 DEF RowTypes
  <2>. HIDE DEF View
  <2>. QED  BY <2>3, <2>4, <2>5, <2>6
<1>15. ASSUME NEW t \in Tab, ExecuteSaves(t) PROVE ViewTypes'
  BY <1>15 DEF ExecuteSaves
<1>16. ASSUME NEW t \in Tab, ExecuteExports(t) PROVE ViewTypes'
  BY <1>16 DEF ExecuteExports
<1>17. ASSUME NEW t \in Tab, StoreResult(t) PROVE ViewTypes'
  BY <1>17 DEF StoreResult
<1>18. ASSUME NEW t \in Tab, ClearLoad(t) PROVE ViewTypes'
  BY <1>18 DEF ClearLoad
<1>g. ASSUME NEW t \in Tab, ClearFind(t) PROVE ViewTypes'
  BY <1>g DEF ClearFind
<1>19. ASSUME NEW t \in Tab, ClearCommit(t) PROVE ViewTypes'
  <2>1. conv' \in Conversation
    BY <1>19 DEF ClearCommit, Forget
  <2>2. view' = view \/ view' = [view EXCEPT ![t] = [conv |-> conv', list |-> Hidden]]
    BY <1>19 DEF ClearCommit
  <2>3. Hidden \in [Round -> {"hidden", "pending", "task", "plan"}]
    OBVIOUS
  <2>4. \A c \in Conversation : [conv |-> c, list |-> Hidden] \in View
    BY <2>3
  <2>. HIDE DEF View, Hidden, Conversation
  <2>. QED  BY <2>1, <2>2, <2>4
<1>20. CASE UNCHANGED vars
  BY <1>20 DEF vars
<1>. QED
  BY <1>1, <1>2, <1>3, <1>4, <1>5, <1>6, <1>7, <1>8, <1>9, <1>10, <1>11, <1>12, <1>13, <1>14, <1>15, <1>16, <1>17, <1>18, <1>19, <1>20, <1>f, <1>g DEF Next, Act, Flow

LEMMA RowTypesNext == RowTypes /\ CanvasTypes /\ FlowTypes /\ ViewTypes /\ LockInv /\ [Next]_vars => RowTypes'
<1>. SUFFICES ASSUME RowTypes, CanvasTypes, FlowTypes, ViewTypes, LockInv, [Next]_vars PROVE RowTypes'
  OBVIOUS
<1>. USE NetworkAssumption DEF rows, flows, RowTypes, Conversation, Graph, LockInv, FlowTypes
<1>1. ASSUME NEW t \in Tab, LoadHistory(t) PROVE RowTypes'
  BY <1>1 DEF LoadHistory, Stored
<1>2. ASSUME NEW t \in Tab, EditorSaves(t) PROVE RowTypes'
  BY <1>2 DEF EditorSaves
<1>3. ASSUME NEW t \in Tab, Reload(t) PROVE RowTypes'
  BY <1>3 DEF Reload, Stored
<1>4. ASSUME NEW t \in Tab, Clear(t) PROVE RowTypes'
  BY <1>4 DEF Clear
<1>5. ASSUME NEW t \in Tab, ExecuteToolbar(t) PROVE RowTypes'
  BY <1>5 DEF ExecuteToolbar
<1>6. ASSUME NEW t \in Tab, NEW p \in Round, Submit(t, p) PROVE RowTypes'
  BY <1>6 DEF Submit
<1>7. ASSUME NEW t \in Tab, NEW p \in Round, Apply(t, p) PROVE RowTypes'
  BY <1>7 DEF Apply
<1>8. ASSUME NEW t \in Tab, NEW p \in Round, ExecutePanel(t, p) PROVE RowTypes'
  BY <1>8 DEF ExecutePanel
<1>9. ASSUME NEW t \in Tab, StorePlan(t) PROVE RowTypes'
  <2>1. /\ UNCHANGED <<used, asked, ran, conv>>
        /\ status' = status \/ status' = [status EXCEPT ![planning[t]] = "not_applied"]
    BY <1>9 DEF StorePlan
  <2>2. \A q \in Round : status[q] # "none" => status'[q] # "none"
    BY <2>1
  <2>3. status' \in [Round -> {"none", "not_applied", "applied", "apply_failed"}]
    BY <2>1
  <2>4. \A q \in Round : ran'[q] # None => status'[q] # "none"
    BY <2>1, <2>2
  <2>. HIDE DEF LockInv, FlowTypes, Graph, Conversation
  <2>. QED  BY <2>1, <2>3, <2>4
<1>10. ASSUME NEW t \in Tab, SaveApplied(t) PROVE RowTypes'
  BY <1>10 DEF SaveApplied
<1>11. ASSUME NEW t \in Tab, MarkFailed(t) PROVE RowTypes'
  BY <1>11 DEF MarkFailed
<1>12. ASSUME NEW t \in Tab, MarkLoad(t) PROVE RowTypes'
  BY <1>12 DEF MarkLoad, ApplyUnmarked, Stored
<1>f. ASSUME NEW t \in Tab, MarkFind(t) PROVE RowTypes'
  BY <1>f DEF MarkFind
<1>13. ASSUME NEW t \in Tab, MarkSweep(t) PROVE RowTypes'
  BY <1>13 DEF MarkSweep
<1>14. ASSUME NEW t \in Tab, MarkCommit(t) PROVE RowTypes'
  <2>1. applying[t].plan \in Round => applying[t].plan \in Graph
    OBVIOUS
  <2>2. CASE status[applying[t].plan] = "none"
    BY <1>14, <2>2 DEF MarkCommit
  <2>3. CASE status[applying[t].plan] # "none" /\ applying[t].plan \in Round
    <3>1. MarkRows(t, applying[t].plan) /\ UNCHANGED <<used, asked, ran>>
      BY <1>14, <2>3 DEF MarkCommit
    <3>2. conv' \in Conversation
      BY <2>3, <3>1 DEF MarkRows
    <3>3. /\ status' \in [Round -> {"none", "not_applied", "applied", "apply_failed"}]
          /\ \A q \in Round : (status'[q] # "none") = (status[q] # "none")
      BY <2>3, <3>1 DEF MarkRows
    <3>. QED  BY <3>1, <3>2, <3>3
  <2>4. applying[t].plan \in Round
    BY <1>14 DEF MarkCommit
  <2>. QED  BY <2>2, <2>3, <2>4
<1>15. ASSUME NEW t \in Tab, ExecuteSaves(t) PROVE RowTypes'
  BY <1>15 DEF ExecuteSaves
<1>16. ASSUME NEW t \in Tab, ExecuteExports(t) PROVE RowTypes'
  BY <1>16 DEF ExecuteExports
<1>17. ASSUME NEW t \in Tab, StoreResult(t) PROVE RowTypes'
  <2>1. executing[t].task \in Graph
    BY DEF Executing
  <2>. QED  BY <1>17, <2>1 DEF StoreResult
<1>18. ASSUME NEW t \in Tab, ClearLoad(t) PROVE RowTypes'
  BY <1>18 DEF ClearLoad
<1>g. ASSUME NEW t \in Tab, ClearFind(t) PROVE RowTypes'
  BY <1>g DEF ClearFind
<1>19. ASSUME NEW t \in Tab, ClearCommit(t) PROVE RowTypes'
  BY <1>19 DEF ClearCommit, Forget
<1>20. CASE UNCHANGED vars
  BY <1>20 DEF vars
<1>. QED
  BY <1>1, <1>2, <1>3, <1>4, <1>5, <1>6, <1>7, <1>8, <1>9, <1>10, <1>11, <1>12, <1>13, <1>14, <1>15, <1>16, <1>17, <1>18, <1>19, <1>20, <1>f, <1>g DEF Next, Act, Flow

LEMMA LockInvNext == RowTypes /\ CanvasTypes /\ FlowTypes /\ ViewTypes /\ LockInv /\ [Next]_vars => LockInv'
<1>. SUFFICES ASSUME RowTypes, CanvasTypes, FlowTypes, ViewTypes, LockInv, [Next]_vars PROVE LockInv'
  OBVIOUS
<1>. USE NetworkAssumption DEF rows, flows, LockInv, Locked, RowTypes, FlowTypes, NotApplying
<1>1. ASSUME NEW t \in Tab, LoadHistory(t) PROVE LockInv'
  BY <1>1 DEF LoadHistory, Stored
<1>2. ASSUME NEW t \in Tab, EditorSaves(t) PROVE LockInv'
  BY <1>2 DEF EditorSaves
<1>3. ASSUME NEW t \in Tab, Reload(t) PROVE LockInv'
  BY <1>3 DEF Reload, Stored
<1>4. ASSUME NEW t \in Tab, Clear(t) PROVE LockInv'
  BY <1>4 DEF Clear
<1>5. ASSUME NEW t \in Tab, ExecuteToolbar(t) PROVE LockInv'
  BY <1>5 DEF ExecuteToolbar
<1>6. ASSUME NEW t \in Tab, NEW p \in Round, Submit(t, p) PROVE LockInv'
  <2>1. /\ p \notin used /\ used' = used \cup {p} /\ UNCHANGED <<status, applying>>
        /\ planning' = [planning EXCEPT ![t] = p] \/ UNCHANGED planning
    BY <1>6 DEF Submit
  <2>2. \A u \in Tab : planning'[u] = planning[u] \/ (u = t /\ planning'[u] = p)
    BY <2>1
  <2>. QED  BY <2>1, <2>2
<1>7. ASSUME NEW t \in Tab, NEW p \in Round, Apply(t, p) PROVE LockInv'
  <2>1. PICK c \in {"canvas", "broken"} :
           applying' = [applying EXCEPT ![t] = [NotApplying EXCEPT !.pc = c, !.plan = p]]
    BY <1>7 DEF Apply
  <2>2. applying'[t] = [NotApplying EXCEPT !.pc = c, !.plan = p]
    BY <2>1
  <2>3. applying'[t].held = {} /\ applying'[t].plan = p
    BY <2>2
  <2>4. \A u \in Tab \ {t} : applying'[u] = applying[u]
    BY <2>1
  <2>. QED  BY <1>7, <2>3, <2>4 DEF Apply
<1>8. ASSUME NEW t \in Tab, NEW p \in Round, ExecutePanel(t, p) PROVE LockInv'
  BY <1>8 DEF ExecutePanel
<1>9. ASSUME NEW t \in Tab, StorePlan(t) PROVE LockInv'
  <2>1. planning[t] \in Round /\ status[planning[t]] = "none"
    BY <1>9 DEF StorePlan, Graph
  <2>2. \A q \in Round : q # planning[t] => status'[q] = status[q]
    BY <1>9, <2>1 DEF StorePlan
  <2>3. \A u \in Tab : u # t => planning'[u] = planning[u]
    BY <1>9 DEF StorePlan
  <2>4. planning'[t] = None /\ UNCHANGED <<applying, used>>
    BY <1>9 DEF StorePlan
  <2>5. \A u \in Tab : applying[u].held \subseteq Round
    BY DEF Applying
  <2>. QED  BY <2>1, <2>2, <2>3, <2>4, <2>5 DEF Graph
<1>10. ASSUME NEW t \in Tab, SaveApplied(t) PROVE LockInv'
  BY <1>10 DEF SaveApplied
<1>11. ASSUME NEW t \in Tab, MarkFailed(t) PROVE LockInv'
  <2>1. applying'[t] = NotApplying /\ \A u \in Tab \ {t} : applying'[u] = applying[u]
    BY <1>11 DEF MarkFailed
  <2>2. \/ UNCHANGED status
        \/ /\ status[applying[t].plan] # "none" /\ applying[t].plan \notin Locked
           /\ status' = [status EXCEPT ![applying[t].plan] = "apply_failed"]
    BY <1>11 DEF MarkFailed
  <2>3. \A u \in Tab : applying[u].held \subseteq Round
    BY DEF Applying
  <2>4. UNCHANGED <<planning, used>>
    BY <1>11 DEF MarkFailed
  <2>5. /\ \A q \in Round : status[q] = "none" <=> status'[q] = "none"
        /\ \A q \in Locked \cap Round : status'[q] = status[q]
    BY <2>2
  <2>6. \A u \in Tab : applying'[u].held = {} \/ (applying'[u] = applying[u] /\ applying[u].held \subseteq Locked)
    BY <2>1
  <2>7. \A u, v \in Tab : u # v => applying'[u].held \cap applying'[v].held = {}
    BY <2>1
  <2>8. \A u \in Tab : \A q \in applying'[u].held : status'[q] = "applied"
    BY <2>3, <2>5, <2>6
  <2>9. \A u \in Tab : planning[u] # None => planning[u] \in Round
    BY DEF Graph
  <2>10. \A u \in Tab : applying'[u].pc # "idle" => applying'[u].plan \in Round
    BY <2>1
  <2>. HIDE DEF Locked
  <2>. QED  BY <2>4, <2>5, <2>7, <2>8, <2>9, <2>10
<1>12. ASSUME NEW t \in Tab, MarkLoad(t) PROVE LockInv'
  <2>1. /\ applying'[t].held \subseteq applying[t].held
        /\ applying'[t].pc # "idle" => applying'[t].plan = applying[t].plan /\ applying[t].pc # "idle"
    BY <1>12 DEF MarkLoad, ApplyUnmarked, Applying
  <2>2. UNCHANGED <<status, used, planning>> /\ \A u \in Tab \ {t} : applying'[u] = applying[u]
    BY <1>12 DEF MarkLoad, ApplyUnmarked
  <2>. HIDE DEF Locked
  <2>. QED  BY <2>1, <2>2
<1>f. ASSUME NEW t \in Tab, MarkFind(t) PROVE LockInv'
  BY <1>f DEF MarkFind
<1>13. ASSUME NEW t \in Tab, MarkSweep(t) PROVE LockInv'
  BY <1>13 DEF MarkSweep
<1>14. ASSUME NEW t \in Tab, MarkCommit(t) PROVE LockInv'
  <2>1. applying'[t] = NotApplying /\ \A u \in Tab \ {t} : applying'[u] = applying[u]
    BY <1>14 DEF MarkCommit, ApplyUnmarked
  <2>2. \A q \in Round : q \notin applying[t].held /\ q # applying[t].plan => status'[q] = status[q]
    BY <1>14 DEF MarkCommit, MarkRows
  <2>3. \A u \in Tab \ {t} : applying[t].plan \notin applying[u].held
    BY <1>14 DEF MarkCommit
  <2>4. \A q \in Round : status[q] = "none" => status'[q] = "none"
    <3>1. \A q \in applying[t].held : status[q] = "applied"
      OBVIOUS
    <3>. QED  BY <1>14, <3>1 DEF MarkCommit, MarkRows
  <2>5. \A u \in Tab : applying[u].held \subseteq Round
    BY DEF Applying
  <2>6. UNCHANGED <<planning, used>>
    BY <1>14 DEF MarkCommit
  <2>. QED  BY SMTT(30), <2>1, <2>2, <2>3, <2>4, <2>5, <2>6 DEF Graph
<1>15. ASSUME NEW t \in Tab, ExecuteSaves(t) PROVE LockInv'
  BY <1>15 DEF ExecuteSaves
<1>16. ASSUME NEW t \in Tab, ExecuteExports(t) PROVE LockInv'
  BY <1>16 DEF ExecuteExports
<1>17. ASSUME NEW t \in Tab, StoreResult(t) PROVE LockInv'
  BY <1>17 DEF StoreResult
<1>18. ASSUME NEW t \in Tab, ClearLoad(t) PROVE LockInv'
  BY <1>18 DEF ClearLoad
<1>g. ASSUME NEW t \in Tab, ClearFind(t) PROVE LockInv'
  BY <1>g DEF ClearFind
<1>19. ASSUME NEW t \in Tab, ClearCommit(t) PROVE LockInv'
  <2>1. UNCHANGED <<used, planning, applying>>
    BY <1>19 DEF ClearCommit
  <2>2. \A q \in Round : status'[q] = IF q \in clearing[t].plans THEN "none" ELSE status[q]
    BY <1>19 DEF ClearCommit
  <2>3. \A u \in Tab : \A q \in applying[u].held : q \in Round /\ q \notin clearing[t].plans
    BY <1>19 DEF ClearCommit, Applying
  <2>4. \A u \in Tab : planning[u] # None => planning[u] \in Round
    BY DEF Graph
  <2>. QED  BY <2>1, <2>2, <2>3, <2>4
<1>20. CASE UNCHANGED vars
  BY <1>20 DEF vars
<1>. QED
  BY <1>1, <1>2, <1>3, <1>4, <1>5, <1>6, <1>7, <1>8, <1>9, <1>10, <1>11, <1>12, <1>13, <1>14, <1>15, <1>16, <1>17, <1>18, <1>19, <1>20, <1>f, <1>g DEF Next, Act, Flow

TypeInv == TypeOK /\ LockInv

LEMMA TypeInit == Init => TypeInv
<1>. SUFFICES ASSUME Init PROVE TypeInv
  OBVIOUS
<1>. USE DEF Init
<1>1. RowTypes /\ CanvasTypes
  BY DEF RowTypes, CanvasTypes, Graph, Conversation, NoConversation
<1>2. FlowTypes
  BY IdleTypes DEF FlowTypes, Graph
<1>3. ViewTypes
  <2>1. [conv |-> NoConversation, list |-> Hidden] \in View
    BY DEF View, Hidden, Conversation, NoConversation, Graph
  <2>. QED  BY <2>1 DEF ViewTypes
<1>4. LockInv
  BY DEF LockInv, NotApplying
<1>. QED
  BY <1>1, <1>2, <1>3, <1>4, NetworkAssumption, TypeParts DEF TypeInv

LEMMA TypeNext == TypeInv /\ [Next]_vars => TypeInv'
<1>. SUFFICES ASSUME TypeOK, LockInv, [Next]_vars PROVE TypeInv'
  BY DEF TypeInv
<1>1. RowTypes /\ CanvasTypes /\ FlowTypes /\ ViewTypes /\ acts \in 0 .. MaxActs
  BY TypeParts
<1>2. acts' \in 0 .. MaxActs
  BY <1>1, NetworkAssumption DEF Next, Once, vars
<1>3. RowTypes' /\ CanvasTypes' /\ FlowTypes' /\ ViewTypes' /\ LockInv'
  BY <1>1, RowTypesNext, CanvasTypesNext, FlowTypesNext, ViewTypesNext, LockInvNext
<1>4. TypeOK'
  BY <1>2, <1>3 DEF TypeOK, RowTypes, CanvasTypes, FlowTypes, ViewTypes
<1>. QED
  BY <1>3, <1>4 DEF TypeInv

(* The variables keep their types, and no result is stored without its       *)
(* message.                                                                  *)
THEOREM NetworkTypeCorrect == Spec => []TypeOK
<1>1. TypeInv => TypeOK
  BY DEF TypeInv
<1>. QED
  BY <1>1, TypeInit, TypeNext, PTL DEF Spec

-----------------------------------------------------------------------------
(* Unless a task outlived a clear: a stored id goes with its task, and a     *)
(* task that stands alone is one whose message was deleted, so that it is    *)
(* not linked to a plan any more.  A request that loaded the conversation    *)
(* will therefore write both halves of its plan, or neither.                 *)
Marking(t) == applying[t].pc \in {"loaded", "update", "swept"}
Paired ==
    /\ conv.id # None => conv.task = conv.id
    /\ conv.task # None => conv.task \in used
    /\ conv.id = None => conv.task \notin asked
WritesBoth(t) ==
    /\ applying[t].plan \in used
    /\ applying[t].seen.id = applying[t].plan <=> applying[t].seen.task = applying[t].plan

TaskInv == "outlived" \notin raced => Paired /\ \A t \in Tab : Marking(t) => WritesBoth(t)

LEMMA TaskInit == Init => TaskInv
BY DEF Init, TaskInv, Paired, Marking, NoConversation, NotApplying

(* Steps that leave the conversation, and what a request loaded of it, alone.*)
LEMMA TaskKept ==
    ASSUME TaskInv, UNCHANGED <<conv, asked, raced>>, used \subseteq used',
           \A u \in Tab : Marking(u)' => Marking(u) /\ applying'[u].plan = applying[u].plan
                                                  /\ applying'[u].seen = applying[u].seen
    PROVE  TaskInv'
BY DEF TaskInv, Paired, WritesBoth

LEMMA TaskNext == TypeInv /\ TaskInv /\ [Next]_vars => TaskInv'
<1>. SUFFICES ASSUME RowTypes, FlowTypes, LockInv, TaskInv, [Next]_vars PROVE TaskInv'
  BY TypeParts DEF TypeInv
<1>t. /\ applying \in [Tab -> Applying] /\ asked \subseteq used /\ used \subseteq Round
  BY DEF FlowTypes, RowTypes
<1>0. ASSUME UNCHANGED <<conv, asked, used, applying, raced>> PROVE TaskInv'
  BY <1>0, TaskKept DEF Marking
<1>1. ASSUME NEW t \in Tab, \/ LoadHistory(t) \/ EditorSaves(t) \/ Clear(t) \/ ExecuteToolbar(t) \/ StorePlan(t)
                            \/ ExecuteSaves(t) \/ ExecuteExports(t) \/ StoreResult(t) \/ ClearFind(t)
                            \/ \E p \in Round : ExecutePanel(t, p)
      PROVE  TaskInv'
  BY <1>1, <1>0 DEF LoadHistory, EditorSaves, Clear, ExecuteToolbar, StorePlan, ExecuteSaves, ExecuteExports,
                    StoreResult, ClearFind, ExecutePanel, rows, flows
<1>2. ASSUME NEW t \in Tab, Reload(t) PROVE TaskInv'
  <2>1. applying'[t].pc = "idle" /\ \A u \in Tab \ {t} : applying'[u] = applying[u]
    BY <1>2, <1>t DEF Reload, NotApplying
  <2>. QED  BY <1>2, <2>1, TaskKept DEF Reload, rows, Marking
<1>3. ASSUME NEW t \in Tab, NEW p \in Round, Submit(t, p) PROVE TaskInv'
  <2>1. /\ p \notin used /\ used' = used \cup {p} /\ asked' \in {asked, asked \cup {p}}
        /\ UNCHANGED <<conv, applying, raced>>
    BY <1>3 DEF Submit
  <2>. QED  BY <2>1, NetworkAssumption DEF TaskInv, Paired, Marking, WritesBoth
<1>4. ASSUME NEW t \in Tab, NEW p \in Round, Apply(t, p) PROVE TaskInv'
  <2>1. PICK c \in {"canvas", "broken"} :
           applying' = [applying EXCEPT ![t] = [NotApplying EXCEPT !.pc = c, !.plan = p]]
    BY <1>4 DEF Apply
  <2>2. applying'[t] = [NotApplying EXCEPT !.pc = c, !.plan = p]
    BY <2>1, <1>t
  <2>3. applying'[t].pc = c
    BY <2>2 DEF NotApplying
  <2>4. \A u \in Tab \ {t} : applying'[u] = applying[u]
    BY <2>1, <1>t
  <2>. QED  BY <1>4, <2>3, <2>4, TaskKept DEF Apply, rows, Marking
<1>5. ASSUME NEW t \in Tab, SaveApplied(t) PROVE TaskInv'
  <2>1. applying'[t].pc = "mark" /\ \A u \in Tab \ {t} : applying'[u] = applying[u]
    BY <1>5, <1>t DEF SaveApplied, Applying
  <2>. QED  BY <1>5, <2>1, TaskKept DEF SaveApplied, rows, Marking
<1>6. ASSUME NEW t \in Tab, MarkFailed(t) PROVE TaskInv'
  <2>1. applying'[t].pc = "idle" /\ \A u \in Tab \ {t} : applying'[u] = applying[u]
    BY <1>6, <1>t DEF MarkFailed, NotApplying
  <2>. QED  BY <1>6, <2>1, TaskKept DEF MarkFailed, Marking
<1>7. ASSUME NEW t \in Tab, MarkLoad(t) PROVE TaskInv'
  <2>1. UNCHANGED <<conv, asked, used>> /\ \A u \in Tab \ {t} : applying'[u] = applying[u]
    BY <1>7, <1>t DEF MarkLoad, ApplyUnmarked, rows
  <2>2. CASE applying' = [applying EXCEPT ![t] = NotApplying] /\ UNCHANGED raced
    <3>1. applying'[t].pc = "idle"
      BY <2>2, <1>t DEF NotApplying
    <3>. QED  BY <2>1, <2>2, <3>1, TaskKept DEF Marking
  <2>3. CASE /\ applying' = [applying EXCEPT ![t].pc = "loaded", ![t].seen = conv]
             /\ raced' = raced \cup Overlap /\ applying[t].plan \in asked
    <3>. SUFFICES ASSUME "outlived" \notin raced PROVE Paired' /\ \A u \in Tab : Marking(u)' => WritesBoth(u)'
      BY <2>3 DEF TaskInv
    <3>1. Paired /\ \A u \in Tab : Marking(u) => WritesBoth(u)
      BY DEF TaskInv
    <3>2. applying'[t].seen = conv /\ applying'[t].plan = applying[t].plan
      BY <2>3, <1>t DEF Applying
    <3>3. WritesBoth(t)'
      BY <2>1, <2>3, <3>1, <3>2, <1>t, NetworkAssumption DEF WritesBoth, Paired
    <3>4. \A u \in Tab \ {t} : Marking(u)' => WritesBoth(u)'
      BY <2>1, <3>1 DEF Marking, WritesBoth
    <3>. QED  BY <2>1, <3>1, <3>3, <3>4 DEF Paired
  <2>. QED  BY <1>7, <2>2, <2>3 DEF MarkLoad, ApplyUnmarked
<1>8. ASSUME NEW t \in Tab, MarkFind(t) \/ MarkSweep(t) PROVE TaskInv'
  <2>1. /\ applying'[t].plan = applying[t].plan /\ applying'[t].seen = applying[t].seen /\ Marking(t)
        /\ \A u \in Tab \ {t} : applying'[u] = applying[u]
    BY <1>8, <1>t DEF MarkFind, MarkSweep, Applying, Marking
  <2>. QED  BY <1>8, <2>1, TaskKept DEF MarkFind, MarkSweep, rows, Marking
<1>9. ASSUME NEW t \in Tab, MarkCommit(t) PROVE TaskInv'
  <2>. DEFINE p == applying[t].plan
  <2>1. /\ applying'[t].pc = "idle" /\ UNCHANGED <<used, asked, raced>> /\ Marking(t)
        /\ \A u \in Tab \ {t} : applying'[u] = applying[u]
    BY <1>9, <1>t DEF MarkCommit, ApplyUnmarked, NotApplying, Marking
  <2>2. CASE conv' = conv
    BY <2>1, <2>2, TaskKept DEF Marking
  <2>3. CASE MarkRows(t, p)
    <3>. SUFFICES ASSUME "outlived" \notin raced PROVE Paired' /\ \A u \in Tab : Marking(u)' => WritesBoth(u)'
      BY <2>1 DEF TaskInv
    <3>1. Paired /\ \A u \in Tab : Marking(u) => WritesBoth(u)
      BY DEF TaskInv
    <3>2. /\ conv'.id   = IF applying[t].seen.id # p THEN p ELSE conv.id
          /\ conv'.task = IF applying[t].seen.task # p THEN p ELSE conv.task
      BY <2>3 DEF MarkRows
    <3>3. (conv'.id = p /\ conv'.task = p) \/ (conv'.id = conv.id /\ conv'.task = conv.task)
      BY <2>1, <3>1, <3>2 DEF WritesBoth
    <3>4. p \in used /\ p # None
      BY <2>1, <3>1, <1>t, NetworkAssumption DEF WritesBoth
    <3>5. Paired'
      BY <2>1, <3>1, <3>3, <3>4 DEF Paired
    <3>6. \A u \in Tab : Marking(u)' => WritesBoth(u)'
      BY <2>1, <3>1 DEF Marking, WritesBoth
    <3>. QED  BY <3>5, <3>6
  <2>. QED  BY <1>9, <2>2, <2>3 DEF MarkCommit
<1>10. ASSUME NEW t \in Tab, ClearLoad(t) PROVE TaskInv'
  <2>1. UNCHANGED <<conv, asked, used, applying>> /\ raced' \in {raced, raced \cup Overlap}
    BY <1>10 DEF ClearLoad, rows
  <2>. QED  BY <2>1 DEF TaskInv, Paired, Marking, WritesBoth
<1>11. ASSUME NEW t \in Tab, ClearCommit(t) PROVE TaskInv'
  <2>. SUFFICES ASSUME "outlived" \notin raced' PROVE Paired' /\ \A u \in Tab : Marking(u)' => WritesBoth(u)'
    BY DEF TaskInv
  <2>1. UNCHANGED <<used, applying>> /\ asked' = {} /\ "outlived" \notin raced
    BY <1>11 DEF ClearCommit
  <2>2. conv'.task = conv.task /\ conv'.id \in {None, conv.id}
    BY <1>11 DEF ClearCommit, Forget, RowTypes, Conversation
  <2>3. Paired /\ \A u \in Tab : Marking(u) => WritesBoth(u)
    BY <2>1 DEF TaskInv
  <2>4. Paired'
    BY <2>1, <2>2, <2>3 DEF Paired
  <2>. QED  BY <2>1, <2>3, <2>4 DEF Marking, WritesBoth
<1>12. CASE UNCHANGED vars
  BY <1>12, <1>0 DEF vars, rows, flows
<1>. QED
  BY <1>1, <1>2, <1>3, <1>4, <1>5, <1>6, <1>7, <1>8, <1>9, <1>10, <1>11, <1>12 DEF Next, Act, Flow

(* applied_task is the applied plan's task for any number of tabs and of     *)
(* overlapping requests, unless a task outlived a clear.                     *)
THEOREM TaskFollowsPlan == Spec => []TaskOfAppliedPlan
<1>1. TaskInv => TaskOfAppliedPlan
  BY DEF TaskInv, Paired, TaskOfAppliedPlan
<1>. QED
  BY <1>1, TypeInit, TypeNext, TaskInit, TaskNext, PTL DEF Spec

-----------------------------------------------------------------------------
(* Every copy of the conversation a tab works with is paired too.            *)
Copies ==
    /\ \A t \in Tab : view[t].conv.id # None => view[t].conv.task = view[t].conv.id
    /\ \A t \in Tab : executing[t].pc # "idle" => executing[t].task = executing[t].id
    /\ \A p \in Round : ran[p] # None => ran[p] = p
ResultInv == "outlived" \notin raced => Copies

(* An update of one tab's panel, read back from any tab.                     *)
LEMMA ListUpdate ==
    ASSUME ViewTypes, NEW t \in Tab, NEW u \in Tab, NEW p, NEW x
    PROVE  [view EXCEPT ![t].list[p] = x][u].conv = view[u].conv
<1>1. DOMAIN view = Tab /\ view[t] \in View
  BY DEF ViewTypes
<1>2. [view[t] EXCEPT !.list = [view[t].list EXCEPT ![p] = x]].conv = view[t].conv
  BY <1>1 DEF View
<1>. QED
  BY <1>1, <1>2

LEMMA ConversationUpdate ==
    ASSUME ViewTypes, NEW t \in Tab, NEW u \in Tab, NEW c
    PROVE  [view EXCEPT ![t].conv = c][u].conv = IF u = t THEN c ELSE view[u].conv
<1>1. DOMAIN view = Tab /\ view[t] \in View
  BY DEF ViewTypes
<1>2. [view[t] EXCEPT !.conv = c].conv = c
  BY <1>1 DEF View
<1>. QED
  BY <1>1, <1>2

LEMMA ResultInit == Init => ResultInv
BY DEF Init, ResultInv, Copies, NoConversation, NotExecuting

LEMMA RacedGrows ==
    ASSUME NEW t \in Tab, Act(t) \/ Reload(t) \/ Flow(t)
    PROVE  raced \subseteq raced'
<1>1. ASSUME Act(t) PROVE raced \subseteq raced'
  BY <1>1 DEF Act, LoadHistory, EditorSaves, Clear, ExecuteToolbar, Submit, Apply, ExecutePanel
<1>2. ASSUME Flow(t) PROVE raced \subseteq raced'
  BY <1>2 DEF Flow, StorePlan, SaveApplied, MarkFailed, MarkLoad, MarkFind, MarkSweep, MarkCommit,
     ExecuteSaves, ExecuteExports, StoreResult, ClearLoad, ClearFind, ClearCommit
<1>. QED
  BY <1>1, <1>2 DEF Reload

LEMMA ResultNext == TypeInv /\ TaskInv /\ TaskInv' /\ ResultInv /\ [Next]_vars => ResultInv'
<1>. SUFFICES ASSUME TypeInv, TaskInv, TaskInv', ResultInv, [Next]_vars, "outlived" \notin raced'
              PROVE  Copies'
  BY DEF ResultInv
<1>a. RowTypes /\ FlowTypes /\ ViewTypes
  BY TypeParts DEF TypeInv
<1>b. raced \subseteq raced'
  BY RacedGrows DEF Next, vars
<1>c. Paired /\ Paired' /\ Copies
  BY <1>b DEF TaskInv, ResultInv
<1>. HIDE DEF TypeInv, TaskInv, ResultInv
<1>. USE <1>a, <1>c DEF Paired, Copies, rows, flows, RowTypes, FlowTypes, ViewTypes, NotExecuting
<1>1. ASSUME NEW t \in Tab, LoadHistory(t) PROVE Copies'
  BY <1>1 DEF LoadHistory, Stored
<1>2. ASSUME NEW t \in Tab, EditorSaves(t) PROVE Copies'
  BY <1>2 DEF EditorSaves
<1>3. ASSUME NEW t \in Tab, Reload(t) PROVE Copies'
  BY <1>3 DEF Reload, Stored
<1>4. ASSUME NEW t \in Tab, Clear(t) PROVE Copies'
  BY <1>4 DEF Clear
<1>5. ASSUME NEW t \in Tab, ExecuteToolbar(t) PROVE Copies'
  BY <1>5 DEF ExecuteToolbar
<1>6. ASSUME NEW t \in Tab, NEW p \in Round, Submit(t, p) PROVE Copies'
  BY <1>6 DEF Submit
<1>7. ASSUME NEW t \in Tab, NEW p \in Round, Apply(t, p) PROVE Copies'
  BY <1>7 DEF Apply
<1>8. ASSUME NEW t \in Tab, NEW p \in Round, ExecutePanel(t, p) PROVE Copies'
  <2>1. executing' = [executing EXCEPT ![t] = [pc |-> "save", panel |-> TRUE, id |-> p,
                                                task |-> p, code |-> None]]
    BY <1>8, NetworkAssumption DEF ExecutePanel
  <2>. QED  BY <1>8, <2>1 DEF ExecutePanel
<1>9. ASSUME NEW t \in Tab, StorePlan(t) PROVE Copies'
  <2>1. view' = view \/ view' = [view EXCEPT ![t].list[planning[t]] = "plan"]
    BY <1>9 DEF StorePlan
  <2>2. \A u \in Tab : [view EXCEPT ![t].list[planning[t]] = "plan"][u].conv = view[u].conv
    BY ListUpdate
  <2>3. \A u \in Tab : view'[u].conv = view[u].conv
    BY <2>1, <2>2
  <2>. QED  BY <1>9, <2>3 DEF StorePlan
<1>10. ASSUME NEW t \in Tab, SaveApplied(t) PROVE Copies'
  BY <1>10 DEF SaveApplied
<1>11. ASSUME NEW t \in Tab, MarkFailed(t) PROVE Copies'
  BY <1>11 DEF MarkFailed
<1>12. ASSUME NEW t \in Tab, MarkLoad(t) PROVE Copies'
  BY SMTT(30), <1>12 DEF MarkLoad, ApplyUnmarked, Stored
<1>f. ASSUME NEW t \in Tab, MarkFind(t) PROVE Copies'
  BY <1>f DEF MarkFind
<1>13. ASSUME NEW t \in Tab, MarkSweep(t) PROVE Copies'
  BY <1>13 DEF MarkSweep
<1>14. ASSUME NEW t \in Tab, MarkCommit(t) PROVE Copies'
  <2>1. \/ view' = view \/ view' = [view EXCEPT ![t] = Stored(conv)]
        \/ view' = [view EXCEPT ![t].conv = conv']
    BY <1>14 DEF MarkCommit, ApplyUnmarked
  <2>2. Stored(conv).conv = conv
    BY DEF Stored
  <2>3. \A u \in Tab : [view EXCEPT ![t].conv = conv'][u].conv = IF u = t THEN conv' ELSE view[u].conv
    BY ConversationUpdate
  <2>4. \A u \in Tab : view'[u].conv \in {view[u].conv, conv, conv'}
    BY <2>1, <2>2, <2>3
  <2>5. UNCHANGED <<executing, ran>>
    BY <1>14 DEF MarkCommit
  <2>. QED  BY <2>4, <2>5
<1>15. ASSUME NEW t \in Tab, ExecuteSaves(t) PROVE Copies'
  <2>1. \/ executing' = [executing EXCEPT ![t] = NotExecuting]
        \/ executing' = [executing EXCEPT ![t].pc = "saved"]
    BY <1>15 DEF ExecuteSaves
  <2>2. executing'[t].pc = "idle" \/ (executing'[t].task = executing[t].task /\ executing'[t].id = executing[t].id)
    BY <2>1 DEF Executing
  <2>3. \A u \in Tab \ {t} : executing'[u] = executing[u]
    BY <2>1
  <2>4. executing[t].pc = "save" /\ UNCHANGED <<view, ran>>
    BY <1>15 DEF ExecuteSaves
  <2>. QED  BY <2>2, <2>3, <2>4
<1>16. ASSUME NEW t \in Tab, ExecuteExports(t) PROVE Copies'
  BY <1>16 DEF ExecuteExports
<1>17. ASSUME NEW t \in Tab, StoreResult(t) PROVE Copies'
  BY <1>17 DEF StoreResult
<1>18. ASSUME NEW t \in Tab, ClearLoad(t) PROVE Copies'
  BY <1>18 DEF ClearLoad
<1>g. ASSUME NEW t \in Tab, ClearFind(t) PROVE Copies'
  BY <1>g DEF ClearFind
<1>19. ASSUME NEW t \in Tab, ClearCommit(t) PROVE Copies'
  <2>1. view' = view \/ view' = [view EXCEPT ![t] = [conv |-> conv', list |-> Hidden]]
    BY <1>19 DEF ClearCommit
  <2>2. \A u \in Tab : view'[u].conv \in {view[u].conv, conv'}
    BY <2>1
  <2>3. UNCHANGED executing /\ \A p \in Round : ran'[p] \in {None, ran[p]}
    BY <1>19 DEF ClearCommit
  <2>. QED  BY <2>2, <2>3
<1>20. CASE UNCHANGED vars
  BY <1>20 DEF vars
<1>. QED
  BY <1>1, <1>2, <1>3, <1>4, <1>5, <1>6, <1>7, <1>8, <1>9, <1>10, <1>11, <1>12, <1>13, <1>14, <1>15, <1>16, <1>17, <1>18, <1>19, <1>20, <1>f, <1>g DEF Next, Act, Flow

(* The result stored under a plan is that of the plan's task, with the same  *)
(* exception.                                                                *)
THEOREM ResultsHoldTheirTask == Spec => []ResultForItsTask
<1>1. ResultInv => ResultForItsTask
  BY DEF ResultInv, Copies, ResultForItsTask
<1>2. TypeInv /\ TaskInv /\ ResultInv /\ [Next]_vars => ResultInv'
  BY TaskNext, ResultNext
<1>. QED
  BY <1>1, <1>2, TypeInit, TypeNext, TaskInit, TaskNext, ResultInit, PTL DEF Spec

-----------------------------------------------------------------------------
(* While no two transactions overlapped: at most one is open, what it loaded *)
(* is what is stored, and the rows it found are all that are applied.        *)
Emptying(t) == clearing[t].pc \in {"loaded", "delete"}
AppliedRows == {q \in Round : status[q] = "applied"}
Linked ==
    /\ \A p \in Round : status[p] = "applied" => conv.id = p
    /\ conv.id # None => status[conv.id] \in {"applied", "apply_failed"}
OneOpen ==
    /\ \A t, u \in Tab : InTransaction(t) /\ InTransaction(u) => t = u
    /\ \A t \in Tab : Marking(t) => ~Emptying(t) /\ applying[t].seen = conv
    /\ \A t \in Tab : Emptying(t) => clearing[t].seen = conv.id
    /\ \A t \in Tab : /\ applying[t].pc = "update" => AppliedRows \subseteq applying[t].found
                      /\ applying[t].pc = "swept" => AppliedRows \subseteq applying[t].held
                      /\ clearing[t].pc = "delete" => AppliedRows \subseteq clearing[t].plans
LinkInv == "overlap" \notin raced => Linked /\ OneOpen

LEMMA LinkInit == Init => LinkInv
BY DEF Init, LinkInv, Linked, OneOpen, InTransaction, Marking, Emptying, NoConversation, NotApplying, NotClearing

(* Steps that leave the rows and the transactions as they are.               *)
LEMMA LinkKept ==
    ASSUME LinkInv, UNCHANGED <<status, conv, clearing, raced>>,
           \A u \in Tab : applying'[u] = applying[u] \/ ~Marking(u)'
    PROVE  LinkInv'
BY DEF LinkInv, Linked, OneOpen, InTransaction, Marking, Emptying, AppliedRows

LEMMA LinkNext == TypeInv /\ LinkInv /\ [Next]_vars => LinkInv'
<1>. SUFFICES ASSUME RowTypes, FlowTypes, LockInv, LinkInv, [Next]_vars PROVE LinkInv'
  BY TypeParts DEF TypeInv
<1>t. /\ status \in [Round -> {"none", "not_applied", "applied", "apply_failed"}] /\ conv \in Conversation
      /\ applying \in [Tab -> Applying] /\ clearing \in [Tab -> Clearing]
  BY DEF RowTypes, FlowTypes
<1>0. ASSUME UNCHANGED <<status, conv, applying, clearing, raced>> PROVE LinkInv'
  BY <1>0, LinkKept
<1>1. ASSUME NEW t \in Tab, \/ LoadHistory(t) \/ EditorSaves(t) \/ ExecuteToolbar(t)
                            \/ ExecuteSaves(t) \/ ExecuteExports(t) \/ StoreResult(t)
                            \/ \E p \in Round : Submit(t, p) \/ ExecutePanel(t, p)
      PROVE  LinkInv'
  BY <1>1, <1>0 DEF LoadHistory, EditorSaves, ExecuteToolbar, ExecuteSaves, ExecuteExports, StoreResult,
                    Submit, ExecutePanel, rows, flows
<1>2. ASSUME NEW t \in Tab, Reload(t) PROVE LinkInv'
  <2>1. /\ "overlap" \notin raced => Linked /\ OneOpen
        /\ UNCHANGED <<status, conv, raced>>
    BY <1>2 DEF Reload, rows, LinkInv
  <2>2. /\ applying'[t].pc = "idle" /\ clearing'[t].pc = "idle"
        /\ \A u \in Tab \ {t} : applying'[u] = applying[u] /\ clearing'[u] = clearing[u]
    BY <1>2, <1>t DEF Reload, NotApplying, NotClearing
  <2>. QED
    BY <2>1, <2>2 DEF LinkInv, Linked, OneOpen, InTransaction, Marking, Emptying, AppliedRows
<1>3. ASSUME NEW t \in Tab, Clear(t) PROVE LinkInv'
  <2>1. /\ UNCHANGED <<status, conv, raced, applying>> /\ clearing'[t].pc = "sent" /\ clearing[t].pc = "idle"
        /\ \A u \in Tab \ {t} : clearing'[u] = clearing[u]
    BY <1>3, <1>t DEF Clear, rows, Clearing
  <2>. QED
    BY <2>1 DEF LinkInv, Linked, OneOpen, InTransaction, Marking, Emptying, AppliedRows
<1>4. ASSUME NEW t \in Tab, NEW p \in Round, Apply(t, p) PROVE LinkInv'
  <2>1. PICK c \in {"canvas", "broken"} :
           applying' = [applying EXCEPT ![t] = [NotApplying EXCEPT !.pc = c, !.plan = p]]
    BY <1>4 DEF Apply
  <2>2. applying'[t] = [NotApplying EXCEPT !.pc = c, !.plan = p]
    BY <2>1, <1>t
  <2>3. applying'[t].pc = c
    BY <2>2 DEF NotApplying
  <2>4. \A u \in Tab \ {t} : applying'[u] = applying[u]
    BY <2>1, <1>t
  <2>. QED
    BY <1>4, <2>3, <2>4, LinkKept DEF Apply, rows, Marking
<1>5. ASSUME NEW t \in Tab, SaveApplied(t) PROVE LinkInv'
  <2>1. applying'[t].pc = "mark" /\ \A u \in Tab \ {t} : applying'[u] = applying[u]
    BY <1>5, <1>t DEF SaveApplied, Applying
  <2>. QED
    BY <1>5, <2>1, LinkKept DEF SaveApplied, rows, Marking
<1>6. ASSUME NEW t \in Tab, StorePlan(t) PROVE LinkInv'
  <2>1. UNCHANGED <<conv, applying, clearing, raced>>
    BY <1>6 DEF StorePlan
  <2>2. CASE status' = status
    BY <2>1, <2>2, <1>0
  <2>3. CASE status' = [status EXCEPT ![planning[t]] = "not_applied"]
    <3>1. planning[t] # None /\ status[planning[t]] = "none"
      BY <1>6 DEF StorePlan, LockInv
    <3>2. \A q \in Round : status'[q] \in {"applied", "apply_failed"} <=> status[q] \in {"applied", "apply_failed"}
      BY <2>3, <3>1, <1>t
    <3>3. \A q \in Round : status'[q] = "applied" <=> status[q] = "applied"
      BY <2>3, <3>1, <1>t
    <3>4. conv.id # None => conv.id \in Round
      BY <1>t DEF Conversation, Graph
    <3>. QED
      BY <2>1, <3>2, <3>3, <3>4 DEF LinkInv, Linked, OneOpen, InTransaction, Marking, Emptying, AppliedRows
  <2>. QED
    BY <1>6, <2>2, <2>3 DEF StorePlan
<1>7. ASSUME NEW t \in Tab, MarkFailed(t) PROVE LinkInv'
  <2>. DEFINE p == applying[t].plan
  <2>1. /\ UNCHANGED <<conv, clearing, raced>> /\ applying'[t].pc = "idle"
        /\ \A u \in Tab \ {t} : applying'[u] = applying[u]
    BY <1>7, <1>t DEF MarkFailed, NotApplying
  <2>2. CASE status' = status
    BY <2>1, <2>2, LinkKept DEF Marking
  <2>3. CASE p \notin Locked /\ status' = [status EXCEPT ![p] = "apply_failed"]
    <3>1. \A q \in Round : status'[q] = IF q = p THEN "apply_failed" ELSE status[q]
      BY <2>3, <1>t
    <3>2. conv.id # None => conv.id \in Round
      BY <1>t DEF Conversation, Graph
    <3>. QED
      BY <2>1, <3>1, <3>2 DEF LinkInv, Linked, OneOpen, InTransaction, Marking, Emptying, AppliedRows
  <2>. QED
    BY <1>7, <2>2, <2>3 DEF MarkFailed
<1>8. ASSUME NEW t \in Tab, MarkLoad(t) PROVE LinkInv'
  <2>1. UNCHANGED <<status, conv, clearing>> /\ \A u \in Tab \ {t} : applying'[u] = applying[u]
    BY <1>8, <1>t DEF MarkLoad, ApplyUnmarked, rows
  <2>2. CASE raced' = raced /\ applying'[t] = NotApplying
    <3>1. \A u \in Tab : applying'[u] = applying[u] \/ ~Marking(u)'
      BY <2>1, <2>2 DEF NotApplying, Marking
    <3>. QED
      BY <2>1, <2>2, <3>1, LinkKept
  <2>3. CASE raced' = raced \cup Overlap /\ applying'[t].pc = "loaded" /\ applying'[t].seen = conv
    <3>. SUFFICES ASSUME "overlap" \notin raced' PROVE Linked' /\ OneOpen'
      BY DEF LinkInv
    <3>1. /\ Linked /\ OneOpen
          /\ \A u \in Tab : ~Marking(u) /\ ~Emptying(u)
      BY <2>3, <1>t DEF LinkInv, Overlap, InTransaction, Marking, Emptying
    <3>2. Linked'
      BY <2>1, <3>1 DEF Linked
    <3>3. \A u \in Tab : /\ Marking(u)' => u = t
                         /\ ~Emptying(u)' /\ applying'[u].pc \notin {"update", "swept"}
                         /\ InTransaction(u)' => u = t
      BY <2>1, <2>3, <3>1 DEF Marking, Emptying, InTransaction
    <3>4. \A u \in Tab : clearing'[u].pc # "delete"
      BY <3>3 DEF Emptying
    <3>. QED
      BY <2>1, <2>3, <3>2, <3>3, <3>4 DEF OneOpen
  <2>4. \/ raced' = raced \cup Overlap /\ applying' = [applying EXCEPT ![t].pc = "loaded", ![t].seen = conv]
        \/ raced' = raced /\ applying' = [applying EXCEPT ![t] = NotApplying]
    BY <1>8 DEF MarkLoad, ApplyUnmarked
  <2>5. applying' = [applying EXCEPT ![t].pc = "loaded", ![t].seen = conv]
           => applying'[t].pc = "loaded" /\ applying'[t].seen = conv
    BY <1>t DEF Applying
  <2>. QED
    BY <2>2, <2>3, <2>4, <2>5, <1>t
<1>9. ASSUME NEW t \in Tab, MarkFind(t) \/ MarkSweep(t) PROVE LinkInv'
  <2>1. /\ UNCHANGED <<status, conv, clearing, raced>> /\ \A u \in Tab \ {t} : applying'[u] = applying[u]
    BY <1>9, <1>t DEF MarkFind, MarkSweep, rows
  <2>2. /\ Marking(t) /\ Marking(t)' /\ applying'[t].seen = applying[t].seen
        /\ \/ applying'[t].pc = "update" /\ applying'[t].found = AppliedRows
           \/ /\ applying[t].pc = "update" /\ applying'[t].pc = "swept"
              /\ applying'[t].held = applying[t].found \cap AppliedRows
    <3>1. CASE MarkFind(t)
      <4>1. /\ applying[t].pc = "loaded"
            /\ applying' = [applying EXCEPT ![t].pc = "update", ![t].found = AppliedRows]
        BY <3>1 DEF MarkFind, AppliedRows
      <4>2. /\ applying'[t].pc = "update" /\ applying'[t].found = AppliedRows
            /\ applying'[t].seen = applying[t].seen
        BY <4>1, <1>t DEF Applying
      <4>. QED  BY <4>1, <4>2 DEF Marking
    <3>2. CASE MarkSweep(t)
      <4>. DEFINE held == {q \in applying[t].found : status[q] = "applied"}
      <4>1. /\ applying[t].pc = "update"
            /\ applying' = [applying EXCEPT ![t].pc = "swept", ![t].found = {}, ![t].held = held]
        BY <3>2 DEF MarkSweep
      <4>2. held = applying[t].found \cap AppliedRows
        BY <1>t DEF Applying, AppliedRows
      <4>3. applying'[t].pc = "swept" /\ applying'[t].held = held /\ applying'[t].seen = applying[t].seen
        <5>. HIDE DEF held
        <5>. QED  BY <4>1, <1>t DEF Applying
      <4>. QED  BY <4>1, <4>2, <4>3 DEF Marking
    <3>. QED  BY <1>9, <3>1, <3>2
  <2>3. AppliedRows' = AppliedRows
    BY <2>1 DEF AppliedRows
  <2>. SUFFICES ASSUME "overlap" \notin raced PROVE Linked' /\ OneOpen'
    BY <2>1 DEF LinkInv
  <2>4. Linked /\ OneOpen
    BY DEF LinkInv
  <2>5. \A u \in Tab : /\ InTransaction(u)' <=> InTransaction(u)
                       /\ Marking(u)' <=> Marking(u)
                       /\ Emptying(u)' <=> Emptying(u)
    BY <2>1, <2>2 DEF InTransaction, Marking, Emptying
  <2>6. \A u \in Tab : applying'[u].seen = applying[u].seen
    BY <2>1, <2>2
  <2>7. Linked'
    BY <2>1, <2>4 DEF Linked
  <2>8. ASSUME NEW u \in Tab
        PROVE  /\ applying'[u].pc = "update" => AppliedRows' \subseteq applying'[u].found
               /\ applying'[u].pc = "swept" => AppliedRows' \subseteq applying'[u].held
    <3>1. /\ applying[u].pc = "update" => AppliedRows \subseteq applying[u].found
          /\ applying[u].pc = "swept" => AppliedRows \subseteq applying[u].held
      BY <2>4 DEF OneOpen
    <3>. QED  BY <2>1, <2>2, <2>3, <3>1
  <2>. QED
    BY <2>1, <2>3, <2>4, <2>5, <2>6, <2>7, <2>8 DEF OneOpen
<1>10. ASSUME NEW t \in Tab, MarkCommit(t) PROVE LinkInv'
  <2>. DEFINE p == applying[t].plan
  <2>1. /\ applying'[t].pc = "idle" /\ UNCHANGED <<clearing, raced>> /\ applying[t].pc = "swept"
        /\ \A u \in Tab \ {t} : applying'[u] = applying[u]
    BY <1>10, <1>t DEF MarkCommit, ApplyUnmarked, NotApplying
  <2>2. CASE UNCHANGED <<status, conv>>
    BY <2>1, <2>2, LinkKept DEF Marking
  <2>3. CASE MarkRows(t, p)
    <3>. SUFFICES ASSUME "overlap" \notin raced PROVE Linked' /\ OneOpen'
      BY <2>1 DEF LinkInv
    <3>1. /\ applying[t].seen = conv /\ AppliedRows \subseteq applying[t].held
          /\ \A u \in Tab \ {t} : ~InTransaction(u)
          /\ ~Emptying(t)
      BY <2>1 DEF LinkInv, OneOpen, InTransaction, Marking, Emptying
    <3>2. \A q \in Round : status'[q] = "applied" <=> q = p
      BY <2>3, <3>1, <1>t DEF MarkRows, AppliedRows
    <3>3. p \in Round
      BY <2>1 DEF LockInv
    <3>4. conv'.id = p
      BY <2>3, <3>1 DEF MarkRows
    <3>5. Linked'
      BY <3>2, <3>3, <3>4 DEF Linked
    <3>6. \A u \in Tab : ~Marking(u)' /\ ~Emptying(u)' /\ ~InTransaction(u)'
      BY <2>1, <3>1 DEF Marking, Emptying, InTransaction
    <3>. QED
      BY <3>5, <3>6 DEF OneOpen, Marking, Emptying
  <2>. QED
    BY <1>10, <2>2, <2>3 DEF MarkCommit
<1>11. ASSUME NEW t \in Tab, ClearLoad(t) PROVE LinkInv'
  <2>1. UNCHANGED <<status, conv, applying>> /\ \A u \in Tab \ {t} : clearing'[u] = clearing[u]
    BY <1>11, <1>t DEF ClearLoad, rows
  <2>2. \/ clearing'[t].pc = "loaded" /\ clearing'[t].seen = conv.id /\ raced' = raced \cup Overlap
        \/ clearing'[t].pc = "idle" /\ raced' = raced
    BY <1>11, <1>t DEF ClearLoad, NotClearing, Clearing
  <2>3. CASE clearing'[t].pc = "loaded" /\ clearing'[t].seen = conv.id /\ raced' = raced \cup Overlap
    <3>. SUFFICES ASSUME "overlap" \notin raced' PROVE Linked' /\ OneOpen'
      BY DEF LinkInv
    <3>1. /\ Linked /\ OneOpen
          /\ \A u \in Tab : ~Marking(u) /\ ~Emptying(u)
      BY <2>3, <1>t DEF LinkInv, Overlap, InTransaction, Marking, Emptying
    <3>2. Linked'
      BY <2>1, <3>1 DEF Linked
    <3>3. \A u \in Tab : /\ ~Marking(u)' /\ applying'[u].pc \notin {"update", "swept"}
                         /\ Emptying(u)' => u = t
                         /\ clearing'[u].pc # "delete"
                         /\ InTransaction(u)' => u = t
      BY <2>1, <2>3, <3>1 DEF Marking, Emptying, InTransaction
    <3>. QED
      BY <2>1, <2>3, <3>2, <3>3 DEF OneOpen
  <2>4. CASE clearing'[t].pc = "idle" /\ raced' = raced
    <3>. SUFFICES ASSUME "overlap" \notin raced PROVE Linked' /\ OneOpen'
      BY <2>4 DEF LinkInv
    <3>1. Linked /\ OneOpen
      BY DEF LinkInv
    <3>2. Linked' /\ AppliedRows' = AppliedRows
      BY <2>1, <3>1 DEF Linked, AppliedRows
    <3>3. \A u \in Tab : /\ Marking(u)' <=> Marking(u)
                         /\ Emptying(u)' => u # t /\ Emptying(u)
                         /\ clearing'[u].pc = "delete" => u # t
                         /\ InTransaction(u)' => InTransaction(u)
      BY <2>1, <2>4 DEF Marking, Emptying, InTransaction
    <3>. QED
      BY <2>1, <3>1, <3>2, <3>3 DEF OneOpen
  <2>. QED
    BY <2>2, <2>3, <2>4
<1>f. ASSUME NEW t \in Tab, ClearFind(t) PROVE LinkInv'
  <2>. DEFINE plans == {q \in Round : status[q] # "none"}
  <2>1. /\ UNCHANGED <<status, conv, applying, raced>> /\ clearing[t].pc = "loaded"
        /\ clearing' = [clearing EXCEPT ![t].pc = "delete", ![t].tasks = asked, ![t].plans = plans]
    BY <1>f DEF ClearFind, rows
  <2>2. /\ clearing'[t].pc = "delete" /\ clearing'[t].seen = clearing[t].seen /\ clearing'[t].plans = plans
        /\ \A u \in Tab \ {t} : clearing'[u] = clearing[u]
    <3>. HIDE DEF plans
    <3>. QED  BY <2>1, <1>t DEF Clearing
  <2>3. AppliedRows \subseteq plans /\ AppliedRows' = AppliedRows
    BY <2>1 DEF AppliedRows
  <2>. HIDE DEF plans
  <2>. SUFFICES ASSUME "overlap" \notin raced PROVE Linked' /\ OneOpen'
    BY <2>1 DEF LinkInv
  <2>4. Linked /\ OneOpen
    BY DEF LinkInv
  <2>5. \A u \in Tab : /\ InTransaction(u)' <=> InTransaction(u)
                       /\ Marking(u)' <=> Marking(u)
                       /\ Emptying(u)' <=> Emptying(u)
    BY <2>1, <2>2 DEF InTransaction, Marking, Emptying
  <2>6. Linked'
    BY <2>1, <2>4 DEF Linked
  <2>7. \A u \in Tab : clearing'[u].seen = clearing[u].seen
    BY <2>2
  <2>8. \A u \in Tab : clearing'[u].pc = "delete" => AppliedRows' \subseteq clearing'[u].plans
    BY <2>2, <2>3, <2>4 DEF OneOpen
  <2>. QED
    BY <2>1, <2>3, <2>4, <2>5, <2>6, <2>7, <2>8 DEF OneOpen
<1>12. ASSUME NEW t \in Tab, ClearCommit(t) PROVE LinkInv'
  <2>. SUFFICES ASSUME "overlap" \notin raced' PROVE Linked' /\ OneOpen'
    BY DEF LinkInv
  <2>1. /\ UNCHANGED applying /\ clearing[t].pc = "delete" /\ clearing'[t].pc = "idle"
        /\ \A u \in Tab \ {t} : clearing'[u] = clearing[u]
        /\ Forget(clearing[t].seen) /\ "overlap" \notin raced
        /\ \A q \in Round : status'[q] = IF q \in clearing[t].plans THEN "none" ELSE status[q]
    BY <1>12, <1>t DEF ClearCommit, NotClearing
  <2>2. /\ \A u \in Tab \ {t} : ~InTransaction(u)
        /\ ~Marking(t) /\ clearing[t].seen = conv.id /\ AppliedRows \subseteq clearing[t].plans
    BY <2>1 DEF LinkInv, OneOpen, InTransaction, Marking, Emptying
  <2>3. conv'.id = None
    BY <2>1, <2>2, <1>t DEF Forget, Conversation
  <2>4. \A q \in Round : status'[q] # "applied"
    BY <2>1, <2>2 DEF AppliedRows
  <2>5. Linked'
    BY <2>3, <2>4 DEF Linked
  <2>6. \A u \in Tab : ~Marking(u)' /\ ~Emptying(u)' /\ ~InTransaction(u)'
    BY <2>1, <2>2 DEF Marking, Emptying, InTransaction
  <2>. QED
    BY <2>5, <2>6 DEF OneOpen, Marking, Emptying
<1>13. CASE UNCHANGED vars
  BY <1>13, <1>0 DEF vars, rows, flows
<1>. QED
  BY <1>1, <1>2, <1>3, <1>4, <1>5, <1>6, <1>7, <1>8, <1>9, <1>10, <1>11, <1>12, <1>13, <1>f DEF Next, Act, Flow

(* As long as requests do not overlap, the conversation and the messages     *)
(* agree on the one applied plan, for any number of tabs and rounds.         *)
THEOREM AppliedPlanIsLinked == Spec => []OneAppliedPlan
<1>1. LinkInv => OneAppliedPlan
  BY DEF LinkInv, Linked, OneAppliedPlan
<1>. QED
  BY <1>1, TypeInit, TypeNext, LinkInit, LinkNext, PTL DEF Spec

-----------------------------------------------------------------------------
(* The panel composed with commands from outside: the steps of AgentNetwork  *)
(* keep the invariants above, and a command touches what they speak of only  *)
(* by taking a name out of use.                                              *)
NetworkInv == TypeInv /\ TaskInv /\ ResultInv /\ LinkInv

CommandTypes ==
    /\ row \in [Round -> Row] /\ posted \in Seq(used)
    /\ handling \in [Round -> Handling] /\ polled \in [Tab -> Graph]

(* A command that waits was handed to nobody, nor was one never posted; only *)
(* a command that was handed out has a tab, and it is the tab that may       *)
(* remember it.                                                              *)
CommandInv ==
    /\ CommandTypes
    /\ \A c \in Round :
         /\ row[c].status = "pending" => handling[c].pc = "none"
         /\ c \notin used => row[c].status = "absent" /\ handling[c].pc = "none"
         /\ handling[c].pc = "none" <=> handling[c].tab = None
    /\ \A t \in Tab : polled[t] # None => handling[polled[t]].tab = t

AllInv == NetworkInv /\ CommandInv

LEMMA NetworkStep ==
    ASSUME NEW t \in Tab, NetworkInv,
           \/ Once /\ (Act(t) \/ Reload(t))
           \/ UNCHANGED acts /\ Flow(t)
    PROVE  NetworkInv'
BY TypeNext, TaskNext, ResultNext, LinkNext DEF NetworkInv, Next

LEMMA NetworkStutters == ASSUME NetworkInv, UNCHANGED networkVars PROVE NetworkInv'
BY TypeNext, TaskNext, ResultNext, LinkNext DEF NetworkInv, networkVars

(* Commands leave the rows, what tabs are doing and their views alone.       *)
LEMMA CommandTouches ==
    ASSUME NetworkInv, used \subseteq used', used' \subseteq Round, acts' \in 0 .. MaxActs,
           draft' \in Graph, canvas' \in [Tab -> Graph], hash' \in [Tab -> Graph],
           UNCHANGED <<asked, status, ran, conv, view, flows, raced>>
    PROVE  NetworkInv'
<1>. USE DEF NetworkInv, flows
<1>1. TypeOK'
  BY DEF TypeInv, TypeOK
<1>2. LockInv'
  BY DEF TypeInv, LockInv
<1>3. TaskInv'
  BY TaskKept DEF Marking
<1>4. ResultInv'
  BY DEF ResultInv, Copies
<1>5. LinkInv'
  BY LinkKept
<1>. QED
  BY <1>1, <1>2, <1>3, <1>4, <1>5 DEF TypeInv

LEMMA NetworkTypes ==
    ASSUME NetworkInv
    PROVE  /\ used \subseteq Round /\ acts \in 0 .. MaxActs /\ draft \in Graph
           /\ canvas \in [Tab -> Graph] /\ hash \in [Tab -> Graph]
BY DEF NetworkInv, TypeInv, TypeOK

LEMMA SaveTypes ==
    ASSUME NetworkInv, NEW t \in Tab, Saved(t) \/ NotSaved(t)
    PROVE  draft' \in Graph /\ hash' \in [Tab -> Graph]
BY NetworkTypes DEF Saved, NotSaved

LEMMA CommandsKeepNetwork == AllInv /\ CommandStep => NetworkInv'
<1>. SUFFICES ASSUME NetworkInv, CommandStep PROVE NetworkInv'
  BY DEF AllInv
<1>1. ASSUME UNCHANGED networkVars PROVE NetworkInv'
  BY <1>1, NetworkStutters
<1>2. ASSUME NEW c \in Round, Age(c) PROVE NetworkInv'
  BY <1>2, CommandTouches, NetworkTypes, NetworkAssumption DEF Age, Once, rows
<1>3. ASSUME NEW c \in Round, Post(c) PROVE NetworkInv'
  BY <1>3, CommandTouches, NetworkTypes, NetworkAssumption DEF Post, Once
<1>4. ASSUME NEW t \in Tab, NEW c \in Round, ApplyCommand(t, c) PROVE NetworkInv'
  <2>1. canvas' \in [Tab -> Graph]
    BY <1>4, NetworkTypes DEF ApplyCommand, Graph
  <2>. QED  BY <1>4, <2>1, CommandTouches, NetworkTypes DEF ApplyCommand, rows
<1>5. ASSUME NEW t \in Tab, NEW c \in Round, SaveCommand(t, c) PROVE NetworkInv'
  BY <1>5, SaveTypes, CommandTouches, NetworkTypes DEF SaveCommand, rows
<1>. QED
  BY <1>1, <1>2, <1>3, <1>4, <1>5 DEF CommandStep, Query, Claim, Report

-----------------------------------------------------------------------------
(* What the store and the consumer write.                                    *)
LEMMA Kinds ==
    /\ NoRow \in Row /\ NoRow.status = "absent"
    /\ \A s \in {"pending", "processing", "completed", "failed"} : [status |-> s, old |-> FALSE] \in Row
    /\ \A t \in Tab : \A pc \in {"claimed", "over"} : [pc |-> pc, tab |-> t] \in Handling
    /\ Unhandled \in Handling
BY DEF NoRow, Row, Handling, Unhandled

LEMMA KeptRows ==
    ASSUME CommandTypes
    PROVE  /\ Kept \in [Round -> Row]
           /\ \A c \in Round : Kept[c] = row[c] \/ Kept[c] = NoRow
BY Kinds DEF CommandTypes, Kept

LEMMA PostedGrows ==
    ASSUME posted \in Seq(used), used \subseteq used'
    PROVE  /\ posted \in Seq(used')
           /\ \A c \in used' : Append(posted, c) \in Seq(used')
<1>1. posted \in Seq(used')
  OBVIOUS
<1>. QED  BY <1>1

(* AgentNetwork names rounds and never gives a name back.                    *)
LEMMA UsedGrows ==
    ASSUME NetworkInv, NEW t \in Tab, Act(t) \/ Reload(t) \/ Flow(t)
    PROVE  used \subseteq used'
<1>. USE DEF rows
<1>1. ASSUME Act(t) PROVE used \subseteq used'
  BY <1>1 DEF Act, LoadHistory, EditorSaves, Clear, ExecuteToolbar, Submit, Apply, ExecutePanel
<1>2. ASSUME Flow(t) PROVE used \subseteq used'
  BY <1>2 DEF Flow, StorePlan, SaveApplied, MarkFailed, MarkLoad, ApplyUnmarked, MarkFind, MarkSweep, MarkCommit,
     MarkRows, ExecuteSaves, ExecuteExports, StoreResult, ClearLoad, ClearFind, ClearCommit, Forget
<1>. QED
  BY <1>1, <1>2 DEF Reload

LEMMA TabsKeepCommands ==
    ASSUME AllInv, NEW t \in Tab,
           \/ (Act(t) \/ Flow(t)) /\ UNCHANGED commands
           \/ Reload(t) /\ Forgotten(t) /\ UNCHANGED store
           \/ Reopen(t) /\ UNCHANGED store
    PROVE  CommandInv'
<1>1. used \subseteq used'
  BY UsedGrows DEF AllInv, Reopen
<1>2. CommandInv
  BY DEF AllInv
<1>. USE NetworkAssumption, CommandsAssumption DEF CommandInv, CommandTypes, commands, store, tabs
<1>3. posted \in Seq(used')
  BY <1>1, <1>2, PostedGrows
<1>4. ASSUME UNCHANGED commands PROVE CommandInv'
  BY <1>1, <1>2, <1>3, <1>4
<1>5. ASSUME Forgotten(t), UNCHANGED store PROVE CommandInv'
  <2>1. /\ handling' \in [Round -> Handling]
        /\ \A c \in Round : /\ handling'[c].tab = handling[c].tab
                            /\ handling'[c].pc = "none" <=> handling[c].pc = "none"
    BY <1>2, <1>5 DEF Forgotten, Handling
  <2>2. polled' \in [Tab -> Graph] /\ \A u \in Tab : polled'[u] # None => polled'[u] = polled[u]
    BY <1>2, <1>5 DEF Forgotten, Graph
  <2>. QED  BY <1>1, <1>2, <1>3, <1>5, <2>1, <2>2 DEF Graph
<1>6. ASSUME Reopen(t), UNCHANGED store PROVE CommandInv'
  <2>1. polled[t] \in Round /\ handling[polled[t]].pc # "none"
    BY <1>2, <1>6 DEF Reopen, Graph
  <2>2. /\ handling' \in [Round -> Handling]
        /\ \A c \in Round : /\ handling'[c].tab = handling[c].tab
                            /\ handling'[c].pc = "none" <=> handling[c].pc = "none"
    BY <1>2, <1>6, <2>1 DEF Reopen, Handling
  <2>. QED  BY <1>1, <1>2, <1>3, <1>6, <2>2 DEF Reopen, Graph
<1>. QED
  BY <1>4, <1>5, <1>6

LEMMA CommandsKeepCommands == AllInv /\ CommandStep => CommandInv'
<1>. SUFFICES ASSUME NetworkInv, CommandInv, CommandStep PROVE CommandInv'
  BY DEF AllInv
<1>. USE NetworkAssumption, CommandsAssumption DEF CommandInv, CommandTypes, tabs, store, networkVars, vars, rows
<1>1. used \subseteq Round
  BY NetworkTypes
<1>k. /\ Kept \in [Round -> Row]
      /\ \A c \in Round : Kept[c] = row[c] \/ Kept[c].status = "absent"
  BY KeptRows, Kinds
<1>2. CASE Query
  BY <1>2, <1>k DEF Query
<1>3. ASSUME NEW c \in Round, Age(c) PROVE CommandInv'
  BY <1>3 DEF Age, Row
<1>4. ASSUME NEW c \in Round, Post(c) PROVE CommandInv'
  <2>1. posted' \in Seq(used')
    BY <1>4, PostedGrows DEF Post
  <2>. QED  BY <1>4, <1>k, <2>1, Kinds DEF Post
<1>5. ASSUME NEW c \in Round, Report(c) PROVE CommandInv'
  <2>1. /\ handling' \in [Round -> Handling] /\ handling[c].pc # "none"
        /\ \A d \in Round : /\ handling'[d].tab = handling[d].tab
                            /\ handling'[d].pc = "none" <=> handling[d].pc = "none"
    BY <1>5 DEF Report, Handling, Outcome
  <2>2. c \in used /\ posted' = posted /\ polled' = polled /\ used' = used
    BY <1>5, <2>1 DEF Report
  <2>3. \/ row' = row
        \/ \E s \in Outcome : row' = [row EXCEPT ![c] = [status |-> s, old |-> FALSE]]
    BY <1>5 DEF Report
  <2>4. row' \in [Round -> Row]
    BY <2>3, Kinds DEF Outcome
  <2>5. \A d \in Round : row'[d] = row[d] \/ (row'[d].status \in Outcome /\ d = c)
    BY <2>3 DEF Outcome
  <2>6. \A d \in Round :
          /\ row'[d].status = "pending" => handling'[d].pc = "none"
          /\ d \notin used => row'[d].status = "absent" /\ handling'[d].pc = "none"
    BY <2>1, <2>2, <2>5 DEF Outcome
  <2>. QED  BY <2>1, <2>2, <2>4, <2>6 DEF Graph
<1>6. ASSUME NEW t \in Tab, Claim(t) PROVE CommandInv'
  <2>1. ASSUME NEW c \in Round, FirstPending(c),
               row' = [Kept EXCEPT ![c] = [status |-> "processing", old |-> FALSE]],
               NEW pc \in {"claimed", "over"}, handling' = [handling EXCEPT ![c] = [pc |-> pc, tab |-> t]],
               polled' \in [Tab -> Graph],
               \A u \in Tab : polled'[u] = polled[u] \/ (u = t /\ polled'[u] = c)
        PROVE  CommandInv'
    <3>1. row[c].status = "pending" /\ c \in used /\ handling[c].tab = None
      BY <2>1, <1>k DEF FirstPending
    <3>2. \A u \in Tab : polled[u] # c
      BY <3>1
    <3>3. /\ row' \in [Round -> Row] /\ handling' \in [Round -> Handling]
          /\ handling'[c].pc # "none" /\ handling'[c].tab = t /\ row'[c].status = "processing"
      BY <2>1, <1>k, Kinds
    <3>4. \A d \in Round \ {c} : handling'[d] = handling[d] /\ row'[d] = Kept[d]
      BY <2>1, <1>k
    <3>5. \A u \in Tab : polled'[u] # None => handling'[polled'[u]].tab = u
      BY <2>1, <3>2, <3>3, <3>4 DEF Graph
    <3>6. \A d \in Round :
            /\ row'[d].status = "pending" => handling'[d].pc = "none"
            /\ d \notin used => row'[d].status = "absent" /\ handling'[d].pc = "none"
            /\ handling'[d].pc = "none" <=> handling'[d].tab = None
      BY <1>k, <3>1, <3>3, <3>4
    <3>. QED  BY <1>6, <2>1, <3>3, <3>5, <3>6 DEF Claim
  <2>2. ASSUME NEW c \in Round, polled' = [polled EXCEPT ![t] = c]
        PROVE  /\ polled' \in [Tab -> Graph]
               /\ \A u \in Tab : polled'[u] = polled[u] \/ (u = t /\ polled'[u] = c)
    BY <2>2 DEF Graph
  <2>3. ASSUME row' = Kept, UNCHANGED handling, polled' = [polled EXCEPT ![t] = None] \/ UNCHANGED polled
        PROVE  CommandInv'
    BY <2>3, <1>6, <1>k DEF Claim, Graph
  <2>. QED  BY <1>6, <2>1, <2>2, <2>3 DEF Claim
<1>7. ASSUME NEW t \in Tab, NEW c \in Round, ApplyCommand(t, c) \/ SaveCommand(t, c) PROVE CommandInv'
  <2>1. /\ handling' \in [Round -> Handling]
        /\ \A d \in Round : /\ handling'[d].tab = handling[d].tab
                            /\ handling'[d].pc = "none" <=> handling[d].pc = "none"
    BY <1>7 DEF ApplyCommand, SaveCommand, Handling
  <2>2. row' = row /\ posted' = posted /\ polled' = polled /\ used' = used
    BY <1>7 DEF ApplyCommand, SaveCommand
  <2>. QED  BY <2>1, <2>2 DEF Graph
<1>. QED
  BY <1>2, <1>3, <1>4, <1>5, <1>6, <1>7 DEF CommandStep

LEMMA AllInit == CommandsInit => AllInv
<1>. SUFFICES ASSUME CommandsInit PROVE AllInv
  OBVIOUS
<1>1. NetworkInv
  BY TypeInit, TaskInit, ResultInit, LinkInit DEF NetworkInv, CommandsInit
<1>2. CommandInv
  BY Kinds, NetworkAssumption, CommandsAssumption DEF CommandsInit, CommandInv, CommandTypes, Unhandled, NoRow, Graph
<1>. QED
  BY <1>1, <1>2 DEF AllInv

LEMMA AllNext == AllInv /\ [CommandsNext]_commandsVars => AllInv'
<1>. SUFFICES ASSUME AllInv, [CommandsNext]_commandsVars PROVE AllInv'
  OBVIOUS
<1>1. ASSUME NEW t \in Tab,
             \/ Once /\ Act(t) /\ UNCHANGED commands
             \/ UNCHANGED acts /\ Flow(t) /\ UNCHANGED commands
             \/ Once /\ Reload(t) /\ Forgotten(t) /\ UNCHANGED store
             \/ Once /\ Reopen(t) /\ UNCHANGED store
      PROVE  AllInv'
  <2>1. NetworkInv'
    BY <1>1, NetworkStep DEF AllInv, Reopen
  <2>2. CommandInv'
    BY <1>1, TabsKeepCommands
  <2>. QED  BY <2>1, <2>2 DEF AllInv
<1>2. CASE CommandStep
  BY <1>2, CommandsKeepNetwork, CommandsKeepCommands DEF AllInv
<1>3. CASE UNCHANGED commandsVars
  <2>1. NetworkInv'
    BY <1>3, NetworkStutters DEF AllInv, commandsVars, networkVars
  <2>2. CommandInv'
    BY <1>3 DEF AllInv, CommandInv, CommandTypes, commandsVars, networkVars, vars, rows, commands, store, tabs
  <2>. QED  BY <2>1, <2>2 DEF AllInv
<1>. QED
  BY <1>1, <1>2, <1>3 DEF CommandsNext

-----------------------------------------------------------------------------
(* Types of panel, store and consumer; what is pending in the store is in    *)
(* nobody's hands.                                                           *)
THEOREM CommandsTypeCorrect == CommandsSpec => []AllTypesOK
<1>1. AllInv => AllTypesOK
  BY DEF AllInv, NetworkInv, TypeInv, CommandInv, CommandTypes, AllTypesOK
<1>. QED
  BY <1>1, AllInit, AllNext, PTL DEF CommandsSpec

(* With commands from outside, applied_task is still that of the applied     *)
(* plan, unless a task outlived a clear.                                     *)
THEOREM TaskFollowsPlanWithCommands == CommandsSpec => []TaskOfAppliedPlan
<1>1. AllInv => TaskOfAppliedPlan
  BY DEF AllInv, NetworkInv, TaskInv, Paired, TaskOfAppliedPlan
<1>. QED
  BY <1>1, AllInit, AllNext, PTL DEF CommandsSpec

(* With commands from outside, a result is still stored under a plan of the  *)
(* task it was computed for, with the same exception.                        *)
THEOREM ResultsHoldTheirTaskWithCommands == CommandsSpec => []ResultForItsTask
<1>1. AllInv => ResultForItsTask
  BY DEF AllInv, NetworkInv, ResultInv, Copies, ResultForItsTask
<1>. QED
  BY <1>1, AllInit, AllNext, PTL DEF CommandsSpec

(* Commands from outside do not break the link between the conversation and  *)
(* the applied plan.                                                         *)
THEOREM AppliedPlanIsLinkedWithCommands == CommandsSpec => []OneAppliedPlan
<1>1. AllInv => OneAppliedPlan
  BY DEF AllInv, NetworkInv, LinkInv, Linked, OneAppliedPlan
<1>. QED
  BY <1>1, AllInit, AllNext, PTL DEF CommandsSpec

(* However many tabs poll, a command stays with the tab it was handed to.    *)
THEOREM CommandStaysWithItsTab == CommandsSpec => HandedToOneTab
<1>1. AllInv /\ [CommandsNext]_commandsVars =>
        [\A c \in Round : handling[c].tab # None => handling'[c].tab = handling[c].tab]_commandsVars
  <2>. SUFFICES ASSUME CommandInv, CommandsNext, NEW c \in Round, handling[c].tab # None
                PROVE  handling'[c].tab = handling[c].tab
    BY DEF AllInv
  <2>. USE DEF CommandInv, CommandTypes
  <2>0. handling[c].pc # "none" /\ row[c].status # "pending" /\ handling \in [Round -> Handling]
    OBVIOUS
  <2>1. ASSUME NEW t \in Tab, Forgotten(t) PROVE handling'[c].tab = handling[c].tab
    BY <2>1, <2>0 DEF Forgotten, Handling
  <2>2. ASSUME NEW t \in Tab, Reopen(t) PROVE handling'[c].tab = handling[c].tab
    BY <2>2, <2>0 DEF Reopen, Handling
  <2>3. ASSUME NEW t \in Tab, Claim(t) PROVE handling'[c].tab = handling[c].tab
    <3>1. ~FirstPending(c)
      BY <2>0, KeptRows, Kinds DEF FirstPending
    <3>. QED  BY <2>3, <3>1 DEF Claim
  <2>4. ASSUME NEW d \in Round, Report(d) PROVE handling'[c].tab = handling[c].tab
    BY <2>4, <2>0 DEF Report, Handling
  <2>5. ASSUME NEW t \in Tab, NEW d \in Round, ApplyCommand(t, d) \/ SaveCommand(t, d)
        PROVE  handling'[c].tab = handling[c].tab
    BY <2>5, <2>0 DEF ApplyCommand, SaveCommand, Handling
  <2>. QED  BY <2>1, <2>2, <2>3, <2>4, <2>5 DEF CommandsNext, CommandStep, Query, Age, Post, commands, tabs
<1>. QED
  BY <1>1, AllInit, AllNext, PTL DEF CommandsSpec, HandedToOneTab

(* Whoever has read an outcome, or that a command is gone, never reads that  *)
(* it is at work.                                                            *)
THEOREM SettledStaysSettled == CommandsSpec => NeverReopened
<1>1. AllInv /\ [CommandsNext]_commandsVars =>
        [\A c \in Round :
           /\ row[c].status \in Outcome => row'[c].status \in Outcome \cup {"absent"}
           /\ c \in used /\ row[c].status = "absent" => row'[c].status = "absent"]_commandsVars
  <2>. SUFFICES ASSUME CommandInv, CommandsNext, NEW c \in Round
                PROVE  /\ row[c].status \in Outcome => row'[c].status \in Outcome \cup {"absent"}
                       /\ c \in used /\ row[c].status = "absent" => row'[c].status = "absent"
    BY DEF AllInv
  <2>. USE DEF CommandInv, CommandTypes, Outcome
  <2>k. /\ Kept \in [Round -> Row] /\ \A d \in Round : Kept[d] = row[d] \/ Kept[d].status = "absent"
    BY KeptRows, Kinds
  <2>1. CASE row' = row \/ row' = Kept
    BY <2>1, <2>k
  <2>2. ASSUME NEW d \in Round, Age(d)
        PROVE  /\ row[c].status \in Outcome => row'[c].status \in Outcome \cup {"absent"}
               /\ c \in used /\ row[c].status = "absent" => row'[c].status = "absent"
    BY <2>2 DEF Age, Row
  <2>3. ASSUME NEW d \in Round, Post(d)
        PROVE  /\ row[c].status \in Outcome => row'[c].status \in Outcome \cup {"absent"}
               /\ c \in used /\ row[c].status = "absent" => row'[c].status = "absent"
    BY <2>3, <2>k DEF Post
  <2>4. ASSUME NEW d \in Round, FirstPending(d), row' = [Kept EXCEPT ![d] = [status |-> "processing", old |-> FALSE]]
        PROVE  /\ row[c].status \in Outcome => row'[c].status \in Outcome \cup {"absent"}
               /\ c \in used /\ row[c].status = "absent" => row'[c].status = "absent"
    BY <2>4, <2>k DEF FirstPending
  <2>5. ASSUME NEW d \in Round, Report(d)
        PROVE  /\ row[c].status \in Outcome => row'[c].status \in Outcome \cup {"absent"}
               /\ c \in used /\ row[c].status = "absent" => row'[c].status = "absent"
    BY <2>5 DEF Report
  <2>. QED  BY <2>1, <2>2, <2>3, <2>4, <2>5 DEF CommandsNext, CommandStep, Query, Claim, ApplyCommand, SaveCommand, commands, store
<1>. QED
  BY <1>1, AllInit, AllNext, PTL DEF CommandsSpec, NeverReopened
=============================================================================
