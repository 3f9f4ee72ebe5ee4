---------------------------- MODULE AgentNetwork ----------------------------
(* The Agent Network panel of one App: tasks are planned into pseudocode, a  *)
(* plan is applied to the workflow canvas, the canvas is executed.  Several  *)
(* browser tabs share the App's conversation rows and its workflow draft.    *)
(*                                                                           *)
(* A round is a user message and the assistant message planned for it; the   *)
(* round names its task, its pseudocode and the graph compiled from that.    *)
(* The conversation's endpoints are database transactions: they load rows,   *)
(* and at commit write the columns that changed since, nothing else.         *)
EXTENDS Naturals, FiniteSets

CONSTANTS Round,   \* rounds that may be submitted
          Tab,     \* browser tabs with the App's workflow open
          MaxActs, \* bound: things the people at the tabs do
          Faulty,  \* TRUE: requests and replies may be lost, an apply may throw
          None

ASSUME NetworkAssumption == MaxActs \in Nat /\ Faulty \in BOOLEAN /\ None \notin Round

VARIABLES
  used,      \* rounds ever submitted
  asked,     \* user messages in agent_network_messages
  status,    \* apply_status of the assistant messages, "none" without a row
  ran,       \* task of the execution result stored in a message's meta
  conv,      \* applied_message_id and applied_task of the conversation
  draft,     \* graph of the workflow draft; its content is its hash
  view,      \* the panel's copy of the conversation, and what it lists
  canvas,    \* the graph on the tab's canvas
  hash,      \* syncWorkflowDraftHash
  planning,  \* submit: the round it waits for
  applying,  \* applyMessageToCanvas and its mark_message_applied request
  executing, \* executeCurrentCanvas, or handleExecute of the toolbar
  clearing,  \* clearHistory and its clear_messages request
  raced,     \* history: "overlap" of two transactions that write the
             \* conversation, a task that "outlived" a clear
  acts       \* bound: things people have done

rows  == <<used, asked, status, ran, conv>>
flows == <<planning, applying, executing, clearing>>
vars  == <<rows, draft, view, canvas, hash, flows, raced, acts>>

Graph == Round \cup {None}
Conversation == [id : Graph, task : Graph]
NoConversation == [id |-> None, task |-> None]
Hidden == [p \in Round |-> "hidden"]
View == [conv : Conversation, list : [Round -> {"hidden", "pending", "task", "plan"}]]

Applying == [pc : {"idle", "canvas", "broken", "mark", "loaded", "update", "swept"}, plan : Graph,
             seen : Conversation, found : SUBSET Round, held : SUBSET Round]
NotApplying == [pc |-> "idle", plan |-> None, seen |-> NoConversation, found |-> {}, held |-> {}]
Executing == [pc : {"idle", "save", "saved", "run"}, panel : BOOLEAN,
              id : Graph, task : Graph, code : Graph]
NotExecuting == [pc |-> "idle", panel |-> FALSE, id |-> None, task |-> None, code |-> None]
Clearing == [pc : {"idle", "sent", "loaded", "delete"}, seen : Graph,
             tasks : SUBSET Round, plans : SUBSET Round]
NotClearing == [pc |-> "idle", seen |-> None, tasks |-> {}, plans |-> {}]

(* Types; and a result is stored with its message only.                      *)
TypeOK ==
    /\ used \subseteq Round /\ asked \subseteq used
    /\ status \in [Round -> {"none", "not_applied", "applied", "apply_failed"}]
    /\ ran \in [Round -> Graph] /\ conv \in Conversation /\ draft \in Graph
    /\ \A p \in Round : ran[p] # None => status[p] # "none"
    /\ view \in [Tab -> View] /\ canvas \in [Tab -> Graph] /\ hash \in [Tab -> Graph]
    /\ planning \in [Tab -> Graph] /\ applying \in [Tab -> Applying]
    /\ executing \in [Tab -> Executing] /\ clearing \in [Tab -> Clearing]
    /\ raced \subseteq {"overlap", "outlived"} /\ acts \in 0 .. MaxActs

Init ==
    /\ used = {} /\ asked = {}
    /\ status = [p \in Round |-> "none"] /\ ran = [p \in Round |-> None]
    /\ conv = NoConversation /\ draft = None
    /\ view = [t \in Tab |-> [conv |-> NoConversation, list |-> Hidden]]
    /\ canvas = [t \in Tab |-> None] /\ hash = [t \in Tab |-> None]
    /\ planning = [t \in Tab |-> None] /\ applying = [t \in Tab |-> NotApplying]
    /\ executing = [t \in Tab |-> NotExecuting] /\ clearing = [t \in Tab |-> NotClearing]
    /\ raced = {} /\ acts = 0

-----------------------------------------------------------------------------
(* Rows locked by a mark_message_applied that has not committed, and the     *)
(* tabs with an open transaction on the conversation.                        *)
Locked == UNION {applying[t].held : t \in Tab}
InTransaction(t) == \/ applying[t].pc \in {"loaded", "update", "swept"}
                    \/ clearing[t].pc \in {"loaded", "delete"}
Overlap == IF \E t \in Tab : InTransaction(t) THEN {"overlap"} ELSE {}

(* What a page that reads the conversation and its messages gets.            *)
Stored(c) == [conv |-> c,
              list |-> [p \in Round |-> IF status[p] # "none" THEN "plan"
                                        ELSE IF p \in asked THEN "task" ELSE "hidden"]]

(* loadHistory: when the panel opens.                                        *)
LoadHistory(t) ==
    /\ view' = [view EXCEPT ![t] = Stored(conv)]
    /\ UNCHANGED <<rows, draft, canvas, hash, flows, raced>>

(* performSync: the draft is replaced if the hash the tab knows is still its *)
(* hash.  Every failure is swallowed; a conflict reads the new hash and not  *)
(* the new graph.                                                            *)
Saved(t) ==
    /\ hash[t] = draft
    /\ draft' = canvas[t] /\ hash' = [hash EXCEPT ![t] = canvas[t]]

NotSaved(t) ==
    \/ hash[t] # draft /\ UNCHANGED draft
       /\ \E h \in {hash[t], draft} : hash' = [hash EXCEPT ![t] = h]
    \/ Faulty /\ UNCHANGED hash
       /\ (UNCHANGED draft \/ (hash[t] = draft /\ draft' = canvas[t]))

(* The editor's own save after an edit.                                      *)
EditorSaves(t) ==
    /\ Saved(t) \/ NotSaved(t)
    /\ UNCHANGED <<rows, view, canvas, flows, raced>>

(* The page is loaded again.  When it closes it posts its canvas, which may  *)
(* reach the server before or after the new page reads the draft.            *)
Reload(t) ==
    /\ ~InTransaction(t)
    /\ draft' = draft \/ (hash[t] = draft /\ draft' = canvas[t])
    /\ \E g \in {draft, draft'} : /\ canvas' = [canvas EXCEPT ![t] = g]
                                  /\ hash' = [hash EXCEPT ![t] = g]
    /\ view' = [view EXCEPT ![t] = Stored(conv)]
    /\ planning' = [planning EXCEPT ![t] = None]
    /\ applying' = [applying EXCEPT ![t] = NotApplying]
    /\ executing' = [executing EXCEPT ![t] = NotExecuting]
    /\ clearing' = [clearing EXCEPT ![t] = NotClearing]
    /\ UNCHANGED <<rows, raced>>

-----------------------------------------------------------------------------
(* submit: create_message stores the task.                                   *)
Submit(t, p) ==
    /\ planning[t] = None /\ p \notin used
    /\ used' = used \cup {p}
    /\ \/ asked' = asked \cup {p} /\ planning' = [planning EXCEPT ![t] = p]
       \/ Faulty /\ asked' \in {asked, asked \cup {p}} /\ UNCHANGED planning
    /\ view' = [view EXCEPT ![t].list[p] = "pending"]
    /\ UNCHANGED <<status, ran, conv, draft, canvas, hash, applying, executing, clearing, raced>>

(* plan_code returned: create_message refuses the plan of a task that is     *)
(* gone.  From the INSERT to the commit it keeps the task's row locked, so   *)
(* it is one step, at the commit; a DELETE that began before does not see    *)
(* the new row.  The panel shows the plan in its bubble, if that is there.   *)
StorePlan(t) ==
    LET p == planning[t] IN
    /\ p # None
    /\ planning' = [planning EXCEPT ![t] = None]
    /\ \/ /\ p \in asked
          /\ status' = [status EXCEPT ![p] = "not_applied"]
          /\ \/ view[t].list[p] = "pending" /\ view' = [view EXCEPT ![t].list[p] = "plan"]
             \/ (Faulty \/ view[t].list[p] # "pending") /\ UNCHANGED view
       \/ (Faulty \/ p \notin asked) /\ UNCHANGED <<status, view>>
    /\ UNCHANGED <<used, asked, ran, conv, draft, canvas, hash, applying, executing, clearing, raced>>

-----------------------------------------------------------------------------
(* applyMessageToCanvas *)

(* applyPseudocode: the plan is compiled onto the canvas, or it throws.      *)
Apply(t, p) ==
    /\ view[t].list[p] = "plan" /\ applying[t].pc = "idle"
    /\ \/ /\ canvas' = [canvas EXCEPT ![t] = p]
          /\ applying' = [applying EXCEPT ![t] = [NotApplying EXCEPT !.pc = "canvas", !.plan = p]]
       \/ /\ Faulty /\ \E g \in {canvas[t], p} : canvas' = [canvas EXCEPT ![t] = g]
          /\ applying' = [applying EXCEPT ![t] = [NotApplying EXCEPT !.pc = "broken", !.plan = p]]
    /\ UNCHANGED <<rows, draft, view, hash, planning, executing, clearing, raced>>

(* applyCompiledGraph awaits the save and goes on, whatever became of it.    *)
SaveApplied(t) ==
    /\ applying[t].pc = "canvas"
    /\ Saved(t) \/ NotSaved(t)
    /\ applying' = [applying EXCEPT ![t].pc = "mark"]
    /\ UNCHANGED <<rows, view, canvas, planning, executing, clearing, raced>>

(* mark_message_apply_failed; its errors are only shown.                     *)
MarkFailed(t) ==
    LET p == applying[t].plan IN
    /\ applying[t].pc = "broken"
    /\ applying' = [applying EXCEPT ![t] = NotApplying]
    /\ \/ status[p] # "none" /\ p \notin Locked /\ status' = [status EXCEPT ![p] = "apply_failed"]
       \/ (Faulty \/ status[p] = "none") /\ UNCHANGED status
    /\ UNCHANGED <<used, asked, ran, conv, draft, view, canvas, hash, planning, executing, clearing, raced>>

(* The panel ends an apply whose state was not saved: it loads the history,  *)
(* if it can.                                                                *)
ApplyUnmarked(t) ==
    /\ applying' = [applying EXCEPT ![t] = NotApplying]
    /\ view' = [view EXCEPT ![t] = Stored(conv)] \/ (Faulty /\ UNCHANGED view)

(* mark_message_applied loads the conversation, the message and its task; a  *)
(* plan whose task is gone is not linked to it any more and is refused.      *)
MarkLoad(t) ==
    LET p == applying[t].plan
        linked == status[p] # "none" /\ p \in asked IN
    /\ applying[t].pc = "mark"
    /\ \/ /\ linked
          /\ applying' = [applying EXCEPT ![t].pc = "loaded", ![t].seen = conv]
          /\ raced' = raced \cup Overlap
          /\ UNCHANGED view
       \/ (Faulty \/ ~linked) /\ ApplyUnmarked(t) /\ UNCHANGED raced
    /\ UNCHANGED <<rows, draft, canvas, hash, planning, executing, clearing>>

(* Its UPDATE of the messages that are applied finds them when it begins     *)
MarkFind(t) ==
    /\ applying[t].pc = "loaded"
    /\ applying' = [applying EXCEPT ![t].pc = "update",
                                    ![t].found = {p \in Round : status[p] = "applied"}]
    /\ UNCHANGED <<rows, draft, view, canvas, hash, planning, executing, clearing, raced>>

(* and waits for the locked ones: it locks those that are applied still, and *)
(* misses a row that became applied meanwhile.                               *)
MarkSweep(t) ==
    LET found == applying[t].found IN
    /\ applying[t].pc = "update" /\ found \cap Locked = {}
    /\ applying' = [applying EXCEPT ![t].pc = "swept", ![t].found = {},
                                    ![t].held = {p \in found : status[p] = "applied"}]
    /\ UNCHANGED <<rows, draft, view, canvas, hash, planning, executing, clearing, raced>>

(* MUTANTS of MarkRows.                                                      *)
MarkKeepsOthers(t, p) ==
    /\ status' = [status EXCEPT ![p] = "applied"]
    /\ conv' = [id |-> p, task |-> p]
MarkKeepsFirstTask(t, p) ==
    /\ status' = [q \in Round |-> IF q = p THEN "applied"
                                  ELSE IF q \in applying[t].held THEN "not_applied" ELSE status[q]]
    /\ conv' = [id |-> p, task |-> IF conv.task = None THEN p ELSE conv.task]

(* The commit: a column of the conversation is written if it differs from    *)
(* what was loaded.                                                          *)
MarkRows(t, p) ==
    LET seen == applying[t].seen IN
    /\ status' = [q \in Round |-> IF q = p THEN "applied"
                                  ELSE IF q \in applying[t].held THEN "not_applied" ELSE status[q]]
    /\ conv' = [id   |-> IF seen.id # p THEN p ELSE conv.id,
                task |-> IF seen.task # p THEN p ELSE conv.task]

MarkCommit(t) ==
    LET p == applying[t].plan IN
    /\ applying[t].pc = "swept" /\ p \notin Locked \ applying[t].held
    /\ IF status[p] = "none"
       THEN ApplyUnmarked(t) /\ UNCHANGED <<status, conv>>
       ELSE /\ MarkRows(t, p)
            /\ applying' = [applying EXCEPT ![t] = NotApplying]
            /\ view' = [view EXCEPT ![t].conv = conv'] \/ (Faulty /\ UNCHANGED view)
    /\ UNCHANGED <<used, asked, ran, draft, canvas, hash, planning, executing, clearing, raced>>

-----------------------------------------------------------------------------
Busy(t) == planning[t] # None \/ applying[t].pc # "idle" \/ executing[t].panel

(* executeCurrentCanvas: the panel's copy of the conversation names the task.*)
ExecutePanel(t, p) ==
    /\ ~Busy(t) /\ executing[t].pc = "idle"
    /\ view[t].list[p] = "plan" /\ view[t].conv.id = p /\ view[t].conv.task # None
    /\ executing' = [executing EXCEPT ![t] =
           [pc |-> "save", panel |-> TRUE, id |-> p, task |-> view[t].conv.task, code |-> None]]
    /\ UNCHANGED <<rows, draft, view, canvas, hash, planning, applying, clearing, raced>>

(* handleExecute: the toolbar fetches the conversation.                      *)
ExecuteToolbar(t) ==
    /\ executing[t].pc = "idle" /\ conv.id # None /\ conv.task # None
    /\ executing' = [executing EXCEPT ![t] =
           [pc |-> "save", panel |-> FALSE, id |-> conv.id, task |-> conv.task, code |-> None]]
    /\ UNCHANGED <<rows, draft, view, canvas, hash, planning, applying, clearing, raced>>

(* The draft is saved first, and an execution whose save failed ends.        *)
ExecuteSaves(t) ==
    /\ executing[t].pc = "save"
    /\ \/ Saved(t) /\ executing' = [executing EXCEPT ![t].pc = "saved"]
       \/ NotSaved(t) /\ executing' = [executing EXCEPT ![t] = NotExecuting]
    /\ UNCHANGED <<rows, view, canvas, planning, applying, clearing, raced>>

(* exportPseudocode reads the canvas; an empty one has no source.            *)
ExecuteExports(t) ==
    /\ executing[t].pc = "saved"
    /\ executing' = [executing EXCEPT ![t] = IF canvas[t] = None THEN NotExecuting
                     ELSE [@ EXCEPT !.pc = "run", !.code = canvas[t]]]
    /\ UNCHANGED <<rows, draft, view, canvas, hash, planning, applying, clearing, raced>>

(* MUTANT of StoreResult: the result goes to the plan that is applied now.   *)
StoreOnApplied(t) ==
    LET e == executing[t] IN
    /\ e.pc = "run"
    /\ executing' = [executing EXCEPT ![t] = NotExecuting]
    /\ \/ /\ conv.id # None /\ status[conv.id] # "none"
          /\ ran' = [ran EXCEPT ![conv.id] = e.task]
       \/ UNCHANGED ran
    /\ UNCHANGED <<used, asked, status, conv, draft, view, canvas, hash, planning, applying, clearing, raced>>

(* execute_code returned, and save_execution_result takes the result of the  *)
(* message that is applied.                                                  *)
StoreResult(t) ==
    LET e == executing[t]
        accepted == status[e.id] # "none" /\ conv.id = e.id IN
    /\ e.pc = "run"
    /\ executing' = [executing EXCEPT ![t] = NotExecuting]
    /\ \/ accepted /\ e.id \notin Locked /\ ran' = [ran EXCEPT ![e.id] = e.task]
       \/ (Faulty \/ ~accepted) /\ UNCHANGED ran
    /\ UNCHANGED <<used, asked, status, conv, draft, view, canvas, hash, planning, applying, clearing, raced>>

-----------------------------------------------------------------------------
(* clearHistory *)
Clear(t) ==
    /\ ~Busy(t) /\ clearing[t].pc = "idle" /\ view[t].list # Hidden
    /\ clearing' = [clearing EXCEPT ![t].pc = "sent"]
    /\ UNCHANGED <<rows, draft, view, canvas, hash, planning, applying, executing, raced>>

ClearLoad(t) ==
    /\ clearing[t].pc = "sent"
    /\ \/ /\ clearing' = [clearing EXCEPT ![t].pc = "loaded", ![t].seen = conv.id]
          /\ raced' = raced \cup Overlap
       \/ Faulty /\ clearing' = [clearing EXCEPT ![t] = NotClearing] /\ UNCHANGED raced
    /\ UNCHANGED <<rows, draft, view, canvas, hash, planning, applying, executing>>

(* clear_messages: the DELETE finds the messages when it begins.             *)
ClearFind(t) ==
    /\ clearing[t].pc = "loaded"
    /\ clearing' = [clearing EXCEPT ![t].pc = "delete", ![t].tasks = asked,
                                    ![t].plans = {p \in Round : status[p] # "none"}]
    /\ UNCHANGED <<rows, draft, view, canvas, hash, planning, applying, executing, raced>>

(* MUTANT of Forget: the pointer to the applied message stays.               *)
ForgetKeepsPointer(seen) == conv' = conv

(* The canvas and its task stay; the pointer is written if it was set.       *)
Forget(seen) == conv' = [conv EXCEPT !.id = IF seen # None THEN None ELSE @]

(* It waits for locked rows, the plans that lose their parent_message_id     *)
(* among them, and removes what it found; what was stored since survives.    *)
ClearCommit(t) ==
    LET gone == clearing[t] IN
    /\ gone.pc = "delete" /\ Locked \cap (gone.tasks \cup gone.plans) = {}
    /\ asked' = asked \ gone.tasks
    /\ status' = [p \in Round |-> IF p \in gone.plans THEN "none" ELSE status[p]]
    /\ ran' = [p \in Round |-> IF p \in gone.plans THEN None ELSE ran[p]]
    /\ Forget(gone.seen)
    /\ raced' = raced \cup (IF asked \subseteq gone.tasks THEN {} ELSE {"outlived"})
    /\ clearing' = [clearing EXCEPT ![t] = NotClearing]
    /\ \/ view' = [view EXCEPT ![t] = [conv |-> conv', list |-> Hidden]]
       \/ Faulty /\ UNCHANGED view
    /\ UNCHANGED <<used, draft, canvas, hash, planning, applying, executing>>

-----------------------------------------------------------------------------
Act(t) ==
    \/ LoadHistory(t) \/ EditorSaves(t) \/ Clear(t) \/ ExecuteToolbar(t)
    \/ \E p \in Round : Submit(t, p) \/ Apply(t, p) \/ ExecutePanel(t, p)

Flow(t) ==
    \/ StorePlan(t) \/ SaveApplied(t) \/ MarkFailed(t)
    \/ MarkLoad(t) \/ MarkFind(t) \/ MarkSweep(t) \/ MarkCommit(t)
    \/ ExecuteSaves(t) \/ ExecuteExports(t) \/ StoreResult(t)
    \/ ClearLoad(t) \/ ClearFind(t) \/ ClearCommit(t)

Once == acts < MaxActs /\ acts' = acts + 1

Next ==
    \E t \in Tab : \/ Once /\ (Act(t) \/ Reload(t))
                   \/ UNCHANGED acts /\ Flow(t)

Spec == Init /\ [][Next]_vars

-----------------------------------------------------------------------------
(* While the requests come one after the other, the conversation points to   *)
(* the one plan that is marked applied, and to a plan that is still there.   *)
OneAppliedPlan ==
    "overlap" \notin raced =>
      /\ \A p \in Round : status[p] = "applied" => conv.id = p
      /\ conv.id # None => status[conv.id] \in {"applied", "apply_failed"}

(* applied_task is the task of the plan applied_message_id points to, even   *)
(* when transactions of several tabs overlap and each writes half of it, and *)
(* a plan stored meanwhile loses its task.  (A task that is submitted while  *)
(* the messages are cleared, and outlives that, is excepted: if it is        *)
(* planned and applied before the clear commits, the pointer is taken from   *)
(* it but not its task, and a further overlap can then separate the two.)    *)
TaskOfAppliedPlan == "outlived" \notin raced /\ conv.id # None => conv.task = conv.id

(* The result stored under a plan was computed for that plan's task, however *)
(* stale the tab that ran it; with the same exception.                       *)
ResultForItsTask == "outlived" \notin raced => \A p \in Round : ran[p] # None => ran[p] = p

(* "execute_code must reuse the plan_code task that produced the active      *)
(* canvas."                                                                  *)
ExecutesTaskOfCanvas == \A t \in Tab : executing[t].pc = "run" => executing[t].task = executing[t].code
=============================================================================
