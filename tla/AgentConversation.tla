------------------------- MODULE AgentConversation -------------------------
(* One Agent App conversation: chat turns, the ask_human forms they pause    *)
(* on, and the turns that a settled form resumes.                            *)
(*                                                                           *)
(* A turn is identified by its message.  A turn that ends with a deferred    *)
(* dify.ask_human call creates one form, so the form, the tool call and the  *)
(* session snapshot suspended on that call all carry the turn's name; the    *)
(* snapshot a run returns is named by the turn that saved it.                *)
(*                                                                           *)
(* A row of agent_runtime_sessions is named by the turn that inserted it and *)
(* has a scope: the published snapshot of the agent's configuration, or      *)
(* NULL, of which the unique index admits several rows.  The load, the run   *)
(* and the save of a turn are separate steps and nothing in the code keeps   *)
(* two turns apart; the save is a READ COMMITTED transaction of three steps. *)
EXTENDS Naturals, FiniteSets

CONSTANTS Turn,        \* message ids, for user turns and resumed turns
          Submitter,   \* people (browser tabs) that may answer a form
          MaxSnapshot, \* bound: configurations published while we look
          Debug,       \* TRUE: console preview; FALSE: a published app
          Orderly,     \* TRUE: people and deadlines act one by one, at rest
          Faulty,      \* TRUE: saves, enqueues and worker threads may fail
          None

ASSUME ConversationAssumption ==
    /\ MaxSnapshot \in Nat \ {0}
    /\ {Debug, Orderly, Faulty} \subseteq BOOLEAN
    /\ None \notin Turn \cup Submitter

NullScope == 0
Scope == 0 .. MaxSnapshot

VARIABLES published, \* Agent.active_config_snapshot_id
          row,       \* agent_runtime_sessions, as committed
          turn,      \* the worker thread of each message
          form,      \* human_input_forms of this conversation
          submit,    \* requests inside submit_form_by_token
          scan,      \* forms mark_timeout has read as WAITING
          overlap    \* history: turns whose save was open together with another one

vars == <<published, row, turn, form, submit, scan, overlap>>

Settled == {"submitted", "timeout"}
Over == {"idle", "done", "failed"}

(* A worker thread: what it resumes, the scope it looks its session up in,   *)
(* what it loaded, and the call its run was given an answer for; of its save *)
(* the row it writes (its own if it inserts one), the columns that an UPDATE *)
(* sets besides the snapshot, and the other rows it will retire.             *)
Thread == [pc : {"idle", "queued", "ready", "loaded", "running", "asking",
                 "saving", "selected", "flushed", "done", "failed"},
           resumes : Turn \cup {None}, scope : Scope,
           base : Turn \cup {None}, pending : Turn \cup {None},
           answer : Turn \cup {None},
           row : Turn \cup {None}, sets : SUBSET {"status", "pending"}, others : SUBSET Turn]

NoThread == [pc |-> "idle", resumes |-> None, scope |-> NullScope,
             base |-> None, pending |-> None, answer |-> None,
             row |-> None, sets |-> {}, others |-> {}]

Row == [status : {"absent", "active", "cleaned"}, scope : Scope,
        snapshot : Turn \cup {None}, pending : Turn \cup {None}]

(* Types; and an active row has a snapshot to resume from.                   *)
TypeOK ==
    /\ published \in Scope \ {NullScope}
    /\ row \in [Turn -> Row]
    /\ \A r \in Turn : row[r].status = "active" => row[r].snapshot \in Turn
    /\ turn \in [Turn -> Thread]
    /\ form \in [Turn -> [status : Settled \cup {"none", "waiting"},
                          by : Submitter \cup {None}, due : BOOLEAN]]
    /\ submit \in [Submitter -> [pc : {"idle", "checked", "over"},
                                 form : Turn \cup {None}]]
    /\ \A h \in Submitter : submit[h].pc = "checked" => submit[h].form \in Turn
    /\ \A t \in Turn : turn[t].pc \in {"selected", "flushed"} => turn[t].row \in Turn
    /\ scan \in SUBSET Turn /\ overlap \in SUBSET Turn

Init ==
    /\ published = 1
    /\ row = [t \in Turn |-> [status |-> "absent", scope |-> NullScope,
                              snapshot |-> None, pending |-> None]]
    /\ turn = [t \in Turn |-> NoThread]
    /\ form = [t \in Turn |-> [status |-> "none", by |-> None, due |-> FALSE]]
    /\ submit = [h \in Submitter |-> [pc |-> "idle", form |-> None]]
    /\ scan = {} /\ overlap = {}

-----------------------------------------------------------------------------
(* MUTANTS of SessionScope and ResumeScope: the preview keys its session by  *)
(* configuration; the resume does.                                           *)
PreviewScopedBySnapshot == published
ResumeScopedBySnapshot == published

(* The scope a user's turn is given; a resume does not pass one and gets the *)
(* entity's default, NULL.                                                   *)
SessionScope == IF Debug THEN NullScope ELSE published
ResumeScope == NullScope

AtRest ==
    /\ \A t \in Turn : turn[t].pc \in Over
    /\ \A f \in Turn : form[f].status # "waiting"

(* The Agent Soul is saved and published again.                              *)
Publish ==
    /\ published < MaxSnapshot
    /\ published' = published + 1
    /\ UNCHANGED <<row, turn, form, submit, scan, overlap>>

(* AgentAppGenerator.generate: a message arrives and a worker thread starts. *)
Send(t) ==
    /\ turn[t].pc = "idle"
    /\ Orderly => AtRest
    /\ turn' = [turn EXCEPT ![t] = [NoThread EXCEPT !.pc = "ready", !.scope = SessionScope]]
    /\ UNCHANGED <<published, row, form, submit, scan, overlap>>

(* The celery task reaches resume_after_form_submission.                     *)
TakeResume(t) ==
    /\ turn[t].pc = "queued"
    /\ turn' = [turn EXCEPT ![t].pc = "ready", ![t].scope = ResumeScope]
    /\ UNCHANGED <<published, row, form, submit, scan, overlap>>

(* _run_input_guards: moderation or an annotation answers a user's turn.     *)
InputGuardAnswers(t) ==
    /\ turn[t].pc = "ready" /\ turn[t].resumes = None
    /\ turn' = [turn EXCEPT ![t].pc = "done"]
    /\ UNCHANGED <<published, row, form, submit, scan, overlap>>

(* load_active_session: an active row of the scope, any if there are several.*)
Load(t) ==
    LET found == {r \in Turn : row[r].status = "active" /\ row[r].scope = turn[t].scope} IN
    /\ turn[t].pc = "ready"
    /\ \/ \E r \in found :
            turn' = [turn EXCEPT ![t].pc = "loaded", ![t].base = row[r].snapshot,
                                 ![t].pending = row[r].pending]
       \/ found = {} /\ turn' = [turn EXCEPT ![t].pc = "loaded"]
    /\ UNCHANGED <<published, row, form, submit, scan, overlap>>

(* MUTANT of StartRun: a form that timed out has no result status.           *)
TimeoutHasNoResult(t) ==
    LET f == turn[t].pending IN
    /\ turn[t].pc = "loaded"
    /\ turn' = [turn EXCEPT ![t].pc = "running",
                            ![t].answer = IF f # None /\ form[f].status = "submitted"
                                          THEN f ELSE None]
    /\ UNCHANGED <<published, row, form, submit, scan, overlap>>

(* _resolve_pending_ask_human reads the form, then create_run.               *)
StartRun(t) ==
    LET f == turn[t].pending IN
    /\ turn[t].pc = "loaded"
    /\ turn' = [turn EXCEPT ![t].pc = "running",
                            ![t].answer = IF f # None /\ form[f].status \in Settled
                                          THEN f ELSE None]
    /\ UNCHANGED <<published, row, form, submit, scan, overlap>>

(* _consume_stream returns run_succeeded: with an output, or with a deferred *)
(* ask_human call.                                                           *)
RunSucceeds(t) ==
    /\ turn[t].pc = "running"
    /\ \E next \in {"saving", "asking"} : turn' = [turn EXCEPT ![t].pc = next]
    /\ UNCHANGED <<published, row, form, submit, scan, overlap>>

(* The turn ends, and what it has not committed is gone.                      *)
Ended(t, pc) == turn' = [turn EXCEPT ![t].pc = pc, ![t].row = None, ![t].sets = {}, ![t].others = {}]

(* The run failed or was cancelled, the user stopped the turn, or its worker *)
(* died between two steps: nothing is saved.                                 *)
TurnFails(t) ==
    /\ \/ turn[t].pc = "running"
       \/ Faulty /\ turn[t].pc \notin Over
    /\ Ended(t, "failed")
    /\ UNCHANGED <<published, row, form, submit, scan, overlap>>

(* create_ask_human_form commits and delivers the form.                      *)
CreateForm(t) ==
    /\ turn[t].pc = "asking" /\ form[t].status = "none"
    /\ form' = [form EXCEPT ![t].status = "waiting"]
    /\ UNCHANGED <<published, row, turn, submit, scan, overlap>>

Paused(t) == turn[t].pc = "asking" /\ form[t].status # "none"

(* The pause correlation a save writes: a turn that asked made a form.       *)
Correlation(t) == IF form[t].status = "none" THEN None ELSE t

Saving(t) == turn[t].pc \in {"selected", "flushed"}

(* MUTANT of Columns: a turn without a pause leaves the old correlation.     *)
ColumnsKeepCorrelation(t, r) ==
    {c \in {"status", "pending"} : c = "pending" => Correlation(t) # None}

(* The ORM sets the columns whose value differs from the one it selected.    *)
Columns(t, r) ==
    {c \in {"status", "pending"} : IF c = "status" THEN row[r].status # "active"
                                                 ELSE row[r].pending # Correlation(t)}

(* save_active_snapshot opens its transaction: it selects a row of the scope,*)
(* or makes a new one.                                                       *)
SelectRow(t) ==
    LET found == {r \in Turn : row[r].status # "absent" /\ row[r].scope = turn[t].scope}
        open == {o \in Turn : Saving(o)} IN
    /\ Paused(t) \/ turn[t].pc = "saving"
    /\ \/ \E r \in found :
            turn' = [turn EXCEPT ![t].pc = "selected", ![t].row = r, ![t].sets = Columns(t, r)]
       \/ found = {} /\ turn' = [turn EXCEPT ![t].pc = "selected", ![t].row = t]
    /\ overlap' = IF open = {} THEN overlap ELSE overlap \cup open \cup {t}
    /\ UNCHANGED <<published, row, form, submit, scan>>

(* Another open transaction has written the row and holds its lock.          *)
Locked(t, r) == \E o \in Turn \ {t} : turn[o].pc = "flushed" /\ turn[o].row = r

(* The unique index refuses a second row of a configuration's scope, or      *)
(* waits for the transaction that is inserting it; NULLs are all different.  *)
Duplicate(t) ==
    /\ turn[t].scope # NullScope
    /\ \E o \in Turn \ {t} :
          \/ row[o].status # "absent" /\ row[o].scope = turn[t].scope
          \/ turn[o].pc = "flushed" /\ turn[o].row = o /\ turn[o].scope = turn[t].scope

(* MUTANT of FlushRow: only rows of its own scope are retired.               *)
FlushKeepsOtherScopes(t) ==
    LET r == turn[t].row IN
    /\ turn[t].pc = "selected"
    /\ IF r = t THEN ~Duplicate(t) ELSE ~Locked(t, r)
    /\ turn' = [turn EXCEPT ![t].pc = "flushed",
                            ![t].others = {o \in Turn \ {r} : /\ row[o].status = "active"
                                                             /\ row[o].scope = turn[t].scope}]
    /\ UNCHANGED <<published, row, form, submit, scan, overlap>>

(* flush writes the row, once nobody else has it locked, and the other       *)
(* active rows are selected: those committed.  (Between the two only saves   *)
(* that do not touch the row can commit, so these are one step.)             *)
FlushRow(t) ==
    LET r == turn[t].row IN
    /\ turn[t].pc = "selected"
    /\ IF r = t THEN ~Duplicate(t) ELSE ~Locked(t, r)
    /\ turn' = [turn EXCEPT ![t].pc = "flushed",
                            ![t].others = {o \in Turn \ {r} : row[o].status = "active"}]
    /\ UNCHANGED <<published, row, form, submit, scan, overlap>>

(* MUTANT of Written: a run without a snapshot is saved all the same.        *)
WrittenWithoutSnapshot(t) ==
    [status |-> "active", scope |-> turn[t].scope, snapshot |-> None, pending |-> Correlation(t)]

(* The row as this save leaves it: an INSERT, or an UPDATE of the columns    *)
(* that it changed, over whatever was committed since it selected the row.   *)
Written(t) ==
    LET r == turn[t].row
        old == row[r] IN
    IF r = t THEN [status |-> "active", scope |-> turn[t].scope, snapshot |-> t,
                   pending |-> Correlation(t)]
    ELSE [old EXCEPT !.snapshot = t,
                     !.status = IF "status" \in turn[t].sets THEN "active" ELSE @,
                     !.pending = IF "pending" \in turn[t].sets THEN Correlation(t) ELSE @]

(* The other rows are retired, once nobody has them locked, and it commits.  *)
CommitSave(t) ==
    /\ turn[t].pc = "flushed"
    /\ \A o \in turn[t].others : ~Locked(t, o)
    /\ row' = [r \in Turn |-> IF r = turn[t].row THEN Written(t)
                              ELSE IF r \in turn[t].others THEN [row[r] EXCEPT !.status = "cleaned"]
                              ELSE row[r]]
    /\ Ended(t, "done")
    /\ UNCHANGED <<published, form, submit, scan, overlap>>

(* _save_session: a save that fails (the victim of a deadlock, a duplicate   *)
(* row, any error) is rolled back and logged, and the turn still ends.       *)
SaveFails(t) ==
    /\ Faulty
    /\ Paused(t) \/ turn[t].pc \in {"saving", "selected", "flushed"}
    /\ Ended(t, "done")
    /\ UNCHANGED <<published, row, form, submit, scan, overlap>>

-----------------------------------------------------------------------------
(* enqueue_agent_app_resume: the task becomes a turn of its own.  A broker   *)
(* error is logged and the resume never happens.  Bound: a form is settled   *)
(* while a message id is left for its resume.                                *)
EnqueueResume(f) ==
    \/ \E t \in Turn :
         /\ turn[t].pc = "idle"
         /\ turn' = [turn EXCEPT ![t].pc = "queued", ![t].resumes = f]
    \/ Faulty /\ UNCHANGED turn

(* The form's expiration_time passes.                                        *)
Deadline(f) ==
    /\ form[f].status = "waiting" /\ ~form[f].due
    /\ Orderly => turn[f].pc \in Over /\ \A h \in Submitter : submit[h].pc # "checked"
    /\ form' = [form EXCEPT ![f].due = TRUE]
    /\ UNCHANGED <<published, row, turn, submit, scan, overlap>>

(* submit_form_by_token up to ensure_form_active and the validation.         *)
CheckForm(h, f) ==
    /\ submit[h].pc = "idle"
    /\ form[f].status = "waiting" /\ ~form[f].due
    /\ Orderly => turn[f].pc \in Over /\ \A g \in Submitter : submit[g].pc # "checked"
    /\ submit' = [submit EXCEPT ![h] = [pc |-> "checked", form |-> f]]
    /\ UNCHANGED <<published, row, turn, form, scan, overlap>>

(* mark_submitted: a fresh transaction that does not look at the status.     *)
MarkSubmitted(h) ==
    LET f == submit[h].form IN
    /\ submit[h].pc = "checked"
    /\ submit' = [submit EXCEPT ![h].pc = "over"]
    /\ form' = [form EXCEPT ![f].status = "submitted", ![f].by = h]
    /\ EnqueueResume(f)
    /\ UNCHANGED <<published, row, scan, overlap>>

(* check_and_handle_human_input_timeouts: mark_timeout reads the form.       *)
ReadTimeout(f) ==
    /\ form[f].status = "waiting" /\ form[f].due
    /\ scan' = scan \cup {f}
    /\ UNCHANGED <<published, row, turn, form, submit, overlap>>

(* mark_timeout's UPDATE carries the status alone, the columns it clears     *)
(* were read as NULL; then the resume is enqueued.                           *)
WriteTimeout(f) ==
    /\ f \in scan
    /\ scan' = scan \ {f}
    /\ form' = [form EXCEPT ![f].status = "timeout"]
    /\ EnqueueResume(f)
    /\ UNCHANGED <<published, row, submit, overlap>>

TurnStep(t) ==
    \/ TakeResume(t) \/ InputGuardAnswers(t) \/ Load(t) \/ StartRun(t)
    \/ RunSucceeds(t) \/ TurnFails(t) \/ CreateForm(t)
    \/ SelectRow(t) \/ FlushRow(t) \/ CommitSave(t) \/ SaveFails(t)

Next ==
    \/ Publish
    \/ \E t \in Turn : Send(t) \/ TurnStep(t)
    \/ \E f \in Turn : Deadline(f) \/ ReadTimeout(f) \/ WriteTimeout(f)
    \/ \E h \in Submitter : MarkSubmitted(h) \/ \E f \in Turn : CheckForm(h, f)

(* Worker threads run, celery delivers queued tasks and the agent backend    *)
(* ends every run; no person is obliged to send, publish or answer.          *)
Fairness == \A t \in Turn : WF_vars(TurnStep(t))

Spec == Init /\ [][Next]_vars /\ Fairness

-----------------------------------------------------------------------------
(* The answer a run is given is for the call its session snapshot is         *)
(* suspended on: the correlation and the snapshot of a session never drift   *)
(* apart, whoever saved last, whatever failed and whichever answer came      *)
(* twice.  Only a snapshot that was saved while another save was open may    *)
(* carry the other's correlation: the two transactions write columns, not    *)
(* rows.                                                                     *)
Matches(snapshot, call) == call # None => snapshot = call \/ snapshot \in overlap

AnswerMatchesSnapshot ==
    /\ \A r \in Turn : Matches(row[r].snapshot, row[r].pending)
    /\ \A t \in Turn : Matches(turn[t].base, turn[t].answer)

ActiveRows == {r \in Turn : row[r].status = "active"}

(* A save that no other overlapped leaves the conversation one active        *)
(* session, its own, however many configurations were published and          *)
(* whichever scopes its turns used, and also when earlier saves that         *)
(* overlapped had left several: the conversation maps to one Agent session.  *)
SaveLeavesOneSession ==
    [][\A t \in Turn :
         turn[t].pc = "flushed" /\ row' # row /\ turn'[t].pc = "done" /\ t \notin overlap
            => ActiveRows' = {turn[t].row} /\ row'[turn[t].row].snapshot = t]_vars

(* The turn that a settled form resumes carries that form's answer to the    *)
(* agent: the resume task's docstring promises it.                           *)
ResumeCarriesAnswer ==
    \A t \in Turn :
        turn[t].resumes # None /\ turn[t].pc \in {"running", "asking", "saving", "selected", "flushed", "done"}
            => turn[t].answer = turn[t].resumes

ActiveSnapshots == {row[r].snapshot : r \in ActiveRows}

(* Each saved turn continues the session the conversation had: a preview     *)
(* conversation keeps its context while its configuration is republished and *)
(* across a pause.                                                           *)
KeepsContext ==
    [][\A t \in Turn :
         row' # row /\ turn[t].pc # "done" /\ turn'[t].pc = "done"
            => ActiveSnapshots \subseteq {turn[t].base}]_vars

(* Once a form is settled, by a person or by its deadline, some run is       *)
(* started with its answer.                                                  *)
AnswerDelivered ==
    \A f \in Turn :
        form[f].status \in Settled ~> \E t \in Turn : turn[t].answer = f
=============================================================================
