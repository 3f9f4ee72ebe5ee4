------------------------ MODULE AgentNetworkCommands ------------------------
(* AgentNetwork together with the commands an outside client posts: the web  *)
(* server compiles pseudocode and keeps the graph in its command store, and  *)
(* every open tab polls the store, applies what it is given and reports.     *)
(* A command's graph is named by a round that the panel does not use.        *)
EXTENDS AgentNetwork, Sequences

ASSUME CommandsAssumption == None \notin Tab

VARIABLES
  row,      \* AgentNetworkCompiledCommand: its status, and whether its TTL is over
  posted,   \* the commands in the order of the store's Map
  handling, \* what the tab that was handed a command does with it
  polled    \* the last answer to the tab's poll, in the page's query cache

store        == <<row, posted>>
tabs         == <<handling, polled>>
commands     == <<store, tabs>>
networkVars  == vars
commandsVars == <<vars, commands>>

NoRow  == [status |-> "absent", old |-> FALSE]
Row    == [status : {"absent", "pending", "processing", "completed", "failed"}, old : BOOLEAN]
Unhandled == [pc |-> "none", tab |-> None]
Handling  == [pc : {"none", "claimed", "canvas", "completed", "failed", "over"}, tab : Tab \cup {None}]
Outcome   == {"completed", "failed"}

CommandsInit ==
    /\ Init
    /\ row = [c \in Round |-> NoRow] /\ posted = <<>>
    /\ handling = [c \in Round |-> Unhandled] /\ polled = [t \in Tab |-> None]

-----------------------------------------------------------------------------
(* command-store.ts *)

(* MUTANT of Kept: a claimed command that was never reported waits again.    *)
KeptGivesBack ==
    [c \in Round |-> IF ~row[c].old THEN row[c]
                     ELSE IF row[c].status = "processing" THEN [status |-> "pending", old |-> FALSE]
                     ELSE NoRow]

(* removeExpiredCommands *)
Kept == [c \in Round |-> IF row[c].old THEN NoRow ELSE row[c]]

(* COMMAND_TTL_MS pass without an update of the command.  Counted as an act. *)
Age(c) ==
    /\ Once /\ row[c].status # "absent" /\ ~row[c].old
    /\ row' = [row EXCEPT ![c].old = TRUE]
    /\ UNCHANGED <<rows, draft, view, canvas, hash, flows, raced, posted, tabs>>

(* POST: the compiled graph is stored under a new command id.                *)
Post(c) ==
    /\ Once /\ c \notin used /\ used' = used \cup {c}
    /\ row' = [Kept EXCEPT ![c] = [status |-> "pending", old |-> FALSE]]
    /\ posted' = Append(posted, c)
    /\ UNCHANGED <<tabs, asked, status, ran, conv, draft, view, canvas, hash, flows, raced>>

(* GET with a command_id: the outside client asks for the status.            *)
Query ==
    /\ row' = Kept /\ UNCHANGED <<networkVars, posted, tabs>>

(* MUTANT of FirstPending: the first command that is not settled.            *)
FirstOpen(c) ==
    \E i \in DOMAIN posted :
       /\ posted[i] = c /\ Kept[c].status \in {"pending", "processing"}
       /\ \A j \in 1 .. i - 1 : Kept[posted[j]].status \notin {"pending", "processing"}

(* The pending command that was posted first.                                *)
FirstPending(c) ==
    \E i \in DOMAIN posted :
       /\ posted[i] = c /\ Kept[c].status = "pending"
       /\ \A j \in 1 .. i - 1 : Kept[posted[j]].status # "pending"

(* GET with an app_id, polled by tab t: the command is processing from now   *)
(* on, whether or not the answer reaches the tab; nothing gives it back.  A  *)
(* poll that fails leaves the last answer in the cache.                      *)
Claim(t) ==
    /\ \/ \E c \in Round :
            /\ FirstPending(c)
            /\ row' = [Kept EXCEPT ![c] = [status |-> "processing", old |-> FALSE]]
            /\ \/ /\ handling' = [handling EXCEPT ![c] = [pc |-> "claimed", tab |-> t]]
                  /\ polled' = [polled EXCEPT ![t] = c]
               \/ /\ Faulty /\ UNCHANGED polled
                  /\ handling' = [handling EXCEPT ![c] = [pc |-> "over", tab |-> t]]
       \/ /\ \A c \in Round : ~FirstPending(c)
          /\ row' = Kept /\ UNCHANGED handling
          /\ polled' = [polled EXCEPT ![t] = None] \/ (Faulty /\ UNCHANGED polled)
    /\ UNCHANGED <<networkVars, posted>>

-----------------------------------------------------------------------------
(* AgentNetworkCommandConsumer *)

(* applyCompiledGraph puts the graph on the canvas and saves the draft if    *)
(* the command says so; it throws in a tab that follows another one, and     *)
(* when the canvas does not take the graph.                                  *)
ApplyCommand(t, c) ==
    /\ handling[c].pc = "claimed" /\ handling[c].tab = t
    /\ \/ /\ canvas' = [canvas EXCEPT ![t] = c]
          /\ \E pc \in {"canvas", "completed"} : handling' = [handling EXCEPT ![c].pc = pc]
       \/ /\ \E g \in {canvas[t], c} : canvas' = [canvas EXCEPT ![t] = g]
          /\ handling' = [handling EXCEPT ![c].pc = "failed"]
    /\ UNCHANGED <<rows, draft, view, hash, flows, raced, acts, store, polled>>

(* The save of the draft is awaited; the command completes whatever became   *)
(* of it, and whatever the canvas holds by now.                              *)
SaveCommand(t, c) ==
    /\ handling[c].pc = "canvas" /\ handling[c].tab = t
    /\ Saved(t) \/ NotSaved(t)
    /\ handling' = [handling EXCEPT ![c].pc = "completed"]
    /\ UNCHANGED <<rows, view, canvas, flows, raced, acts, store, polled>>

(* MUTANT of Report: a command that is gone is stored again.                 *)
ReportStoresAgain(c) ==
    /\ handling[c].pc \in Outcome
    /\ handling' = [handling EXCEPT ![c].pc = "over"]
    /\ row' = [row EXCEPT ![c] = [status |-> handling[c].pc, old |-> FALSE]]
    /\ UNCHANGED <<networkVars, posted, polled>>

(* PATCH: completeAgentNetworkCommand looks at no status and no age; a       *)
(* command that is gone is a 404.  The consumer does not try again.          *)
Report(c) ==
    /\ handling[c].pc \in Outcome
    /\ handling' = [handling EXCEPT ![c].pc = "over"]
    /\ \/ /\ row[c].status # "absent"
          /\ row' = [row EXCEPT ![c] = [status |-> handling[c].pc, old |-> FALSE]]
       \/ (Faulty \/ row[c].status = "absent") /\ UNCHANGED row
    /\ UNCHANGED <<networkVars, posted, polled>>

(* The page of tab t is loaded again and forgets what it was handed.         *)
Forgotten(t) ==
    /\ handling' = [c \in Round |-> IF handling[c].tab = t /\ handling[c].pc # "none"
                                    THEN [handling[c] EXCEPT !.pc = "over"] ELSE handling[c]]
    /\ polled' = [polled EXCEPT ![t] = None]

(* The person leaves the editor for another page of the console and comes    *)
(* back, which happens here only while nothing of the tab is under way.  If  *)
(* the query cache still holds the last answer, the new consumer remembers   *)
(* no command and takes that one as handed to it; if not, this is a Reload.  *)
Idle(t) ==
    /\ planning[t] = None /\ applying[t].pc = "idle"
    /\ executing[t].pc = "idle" /\ clearing[t].pc = "idle"
    /\ \A c \in Round : handling[c].tab = t => handling[c].pc = "over"
Reopen(t) ==
    /\ Idle(t) /\ polled[t] # None /\ Reload(t)
    /\ handling' = [handling EXCEPT ![polled[t]].pc = "claimed"]
    /\ UNCHANGED polled

-----------------------------------------------------------------------------
CommandStep ==
    \/ Query
    \/ \E c \in Round : Age(c) \/ Post(c) \/ Report(c)
    \/ \E t \in Tab : Claim(t) \/ \E c \in Round : ApplyCommand(t, c) \/ SaveCommand(t, c)

CommandsNext ==
    \/ \E t \in Tab : \/ Once /\ Act(t) /\ UNCHANGED commands
                      \/ UNCHANGED acts /\ Flow(t) /\ UNCHANGED commands
                      \/ Once /\ Reload(t) /\ Forgotten(t) /\ UNCHANGED store
                      \/ Once /\ Reopen(t) /\ UNCHANGED store
    \/ CommandStep

CommandsSpec == CommandsInit /\ [][CommandsNext]_commandsVars

-----------------------------------------------------------------------------
(* Types; and a command that waits in the store was handed to nobody.        *)
AllTypesOK ==
    /\ TypeOK
    /\ row \in [Round -> Row] /\ posted \in Seq(used)
    /\ handling \in [Round -> Handling] /\ polled \in [Tab -> Graph]
    /\ \A c \in Round :
         /\ row[c].status = "pending" => handling[c].pc = "none"
         /\ c \notin used => row[c].status = "absent" /\ handling[c].pc = "none"

(* Of two tabs that poll the store, and after lost answers, reloads and the  *)
(* TTL, only the tab that was handed a command first is ever handed it.      *)
HandedToOneTab ==
    [][\A c \in Round : handling[c].tab # None => handling'[c].tab = handling[c].tab]_commandsVars

(* A client that polls a command and has read an outcome, or a 404, never    *)
(* sees it at work again: a PATCH that comes after the TTL brings nothing    *)
(* back, and no claim takes a command that is settled.                       *)
NeverReopened ==
    [][\A c \in Round :
         /\ row[c].status \in Outcome => row'[c].status \in Outcome \cup {"absent"}
         /\ c \in used /\ row[c].status = "absent" => row'[c].status = "absent"]_commandsVars
=============================================================================
