------------------------------- MODULE Panel -------------------------------
(***************************************************************************)
(* The alpha.panel handler (src/agent/handlers/alpha-panel.js) and the     *)
(* sketch on the board it talks to (firmware/crowpanel/crowpanel.ino).     *)
(*                                                                         *)
(* "The board is reset by the act of opening the port": the handler asks   *)
(* for the status until something answers, so answers to earlier questions *)
(* may still be under way when it goes on to the commands that matter.     *)
(* Deadlines may pass at any moment.  What a task stores on the board is   *)
(* the task's number; one task drives the panel at a time.                 *)
(*                                                                         *)
(* A board that nobody has flashed with this sketch yet may run an older   *)
(* one, whose replies do not name their command; the handler takes those   *)
(* as they come.                                                           *)
(***************************************************************************)
EXTENDS Naturals, Sequences

CONSTANTS MaxJobs, MaxAsked, MaxResets, MaxSketches   \* bounds

ASSUME PanelAssumption == {MaxJobs, MaxAsked, MaxResets, MaxSketches} \subseteq Nat \ {0}

VARIABLES
  job,      \* the tasks so far
  talk,     \* what the handler is doing for the last of them
  told,     \* its result: "" until there is one
  toBoard, toHost,   \* the two directions of the serial line
  panel,    \* the board; what it keeps in NVS survives a reset
  resets,   \* of the board, of its own accord
  sketch, built      \* the version of the source; of the image last compiled

panelVars == <<job, talk, told, toBoard, toHost, panel, resets, sketch, built>>

Jobs == 0 .. MaxJobs
Commands == {"status", "scan", "alpha", "wifi"}
\* asked counts the probes that reached the board.
NoTalk == [at |-> "idle", expects |-> "", left |-> <<>>, asked |-> 0, whole |-> FALSE]

PanelTypeOK ==
  /\ job \in Jobs /\ resets \in 0 .. MaxResets
  /\ talk \in [at : {"idle", "probing", "sending", "uploading"},
               expects : Commands \cup {""}, left : Seq(Commands),
               asked : 0 .. MaxAsked, whole : BOOLEAN]
  /\ told \in {"", "silent", "timed out", "refused", "provisioned", "scanned", "flashed", "failed"}
  /\ toBoard \in Seq([cmd : Commands, of : Jobs])
  /\ toHost \in Seq([cmd : Commands \cup {""}, ok : BOOLEAN])
  /\ panel \in [at : {"starting", "listening", "dead"}, doing : Commands \cup {""},
                nets : Jobs, alpha : Jobs, image : 0 .. MaxSketches]
  /\ sketch \in 1 .. MaxSketches /\ built \in 0 .. MaxSketches

PanelInit ==
  /\ job = 0 /\ talk = NoTalk /\ told = "" /\ toBoard = <<>> /\ toHost = <<>>
  /\ \E image \in {0, 1} :   \* 0 is the older sketch
       panel = [at |-> "listening", doing |-> "", nets |-> 0, alpha |-> 0, image |-> image]
  /\ resets = 0 /\ sketch = 1 /\ built = 0

Told(result) == told' = result /\ talk' = NoTalk

\* The board starts again, from an image and what its NVS holds.
Rebooted(at, image) ==
  /\ panel' = [panel EXCEPT !.at = at, !.doing = "", !.image = image]
  /\ toBoard' = <<>>
----------------------------------------------------------------------------
(* converse, converseOver.                                                 *)

\* A payload that is refused touches neither the port nor the source.
Rejects ==
  /\ talk.at = "idle" /\ job < MaxJobs
  /\ job' = job + 1 /\ Told("failed")
  /\ UNCHANGED <<toBoard, toHost, panel, resets, sketch, built>>

\* buildProvisionCommands, and the Scan action.
Conversations == {<<"scan">>, <<"wifi">>, <<"alpha", "wifi">>}

\* The port is opened: the board starts again, if it can, and what the last
\* reader left unread is gone.
Open(commands) ==
  /\ talk.at = "idle" /\ job < MaxJobs
  /\ job' = job + 1 /\ told' = ""
  /\ talk' = [NoTalk EXCEPT !.at = "probing", !.left = commands, !.whole = Len(commands) = 2]
  /\ Rebooted(IF panel.at = "dead" THEN "dead" ELSE "starting", panel.image)
  /\ toHost' = <<>>
  /\ UNCHANGED <<resets, sketch, built>>

\* The readiness probe.  A board that is still starting may not hear it.
Asks(heard) ==
  /\ talk.at = "probing" /\ talk.expects = ""
  /\ IF heard THEN talk.asked < MaxAsked ELSE panel.at # "listening"
  /\ talk' = [talk EXCEPT !.expects = "status", !.asked = IF heard THEN @ + 1 ELSE @]
  /\ toBoard' = IF heard THEN Append(toBoard, [cmd |-> "status", of |-> job]) ELSE toBoard
  /\ UNCHANGED <<job, told, toHost, panel, resets, sketch, built>>

\* Slip: any reply is the one that is waited for.
AcceptsAny(reply, expected) == TRUE

\* nextReply: an answer to a command that is no longer waited on is stepped
\* over, one that names no command is taken as it is.
Accepts(reply, expected) == reply.cmd \in {"", expected}

\* The next command of the sequence.
Sends ==
  /\ talk' = [talk EXCEPT !.at = "sending", !.expects = Head(talk.left), !.left = Tail(@)]
  /\ toBoard' = Append(toBoard, [cmd |-> Head(talk.left), of |-> job])
  /\ told' = told

\* awaitReply.  The first command that fails ends the conversation.
Reads ==
  /\ talk.expects # "" /\ toHost # <<>>
  /\ toHost' = Tail(toHost)
  /\ LET reply == Head(toHost) IN
       \/ ~Accepts(reply, talk.expects) /\ UNCHANGED <<talk, told, toBoard>>
       \/ /\ Accepts(reply, talk.expects)
          /\ talk.at = "probing" \/ (reply.ok /\ talk.left # <<>>)
          /\ Sends
       \/ /\ Accepts(reply, talk.expects) /\ talk.at = "sending"
          /\ ~reply.ok \/ talk.left = <<>>
          /\ UNCHANGED toBoard
          /\ Told(CASE ~reply.ok -> "refused"
                    [] talk.expects = "scan" -> "scanned"
                    [] OTHER -> "provisioned")
  /\ UNCHANGED <<job, panel, resets, sketch, built>>

\* The window of one probe passes, or that of all of them.
NotAnswering ==
  /\ talk.at = "probing" /\ talk.expects = "status"
  /\ \/ talk' = [talk EXCEPT !.expects = ""] /\ told' = told
     \/ Told("silent")
  /\ UNCHANGED <<job, toBoard, toHost, panel, resets, sketch, built>>

\* No reply to a command within its time.
NoReply == talk.at = "sending" /\ Told("timed out")
           /\ UNCHANGED <<job, toBoard, toHost, panel, resets, sketch, built>>

\* The task is aborted, or the port goes away: the handler throws.
Throws == talk.at # "idle" /\ Told("failed")
          /\ UNCHANGED <<job, toBoard, toHost, panel, resets, sketch, built>>
----------------------------------------------------------------------------
(* Compile and Flash: arduino-cli, then arduino-cli again.                 *)

Compile(works, flash) ==
  /\ talk.at = "idle" /\ job < MaxJobs
  /\ job' = job + 1
  /\ built' = IF works THEN sketch ELSE built
  /\ IF works /\ flash THEN told' = "" /\ talk' = [NoTalk EXCEPT !.at = "uploading"]
     ELSE Told(IF works THEN "" ELSE "refused")
  /\ UNCHANGED <<toBoard, toHost, panel, resets, sketch>>

\* A board that is being written starts again: with the image, or, if the
\* upload failed, with what it had, or not at all until the next one.
Upload(works) ==
  /\ talk.at = "uploading"
  /\ IF works THEN Rebooted("starting", built)
     ELSE \E at \in {"starting", "dead"} : Rebooted(at, panel.image)
  /\ Told(IF works THEN "flashed" ELSE "failed")
  /\ UNCHANGED <<job, toHost, resets, sketch, built>>

Edits == /\ sketch < MaxSketches /\ sketch' = sketch + 1
         /\ UNCHANGED <<job, talk, told, toBoard, toHost, panel, resets, built>>
----------------------------------------------------------------------------
(* The sketch: setup, handleCommand, and a reset of its own.               *)

Boots == /\ panel.at = "starting" /\ panel' = [panel EXCEPT !.at = "listening"]
         /\ UNCHANGED <<job, talk, told, toBoard, toHost, resets, sketch, built>>

\* A command is taken off the line, and what it brings is stored.
Takes ==
  /\ panel.at = "listening" /\ panel.doing = "" /\ toBoard # <<>>
  /\ toBoard' = Tail(toBoard)
  /\ LET c == Head(toBoard) IN
       panel' = [panel EXCEPT !.doing = c.cmd,
                              !.nets = IF c.cmd = "wifi" THEN c.of ELSE @,
                              !.alpha = IF c.cmd = "alpha" THEN c.of ELSE @]
  /\ UNCHANGED <<job, talk, told, toHost, resets, sketch, built>>

\* The reply, once the board has joined a network, or has looked for them.
Replies(works) ==
  /\ panel.doing # ""
  /\ works \/ panel.doing \in {"wifi", "scan"}
  /\ panel' = [panel EXCEPT !.doing = ""]
  /\ toHost' = Append(toHost, [cmd |-> IF panel.image = 0 THEN "" ELSE panel.doing, ok |-> works])
  /\ UNCHANGED <<job, talk, told, toBoard, resets, sketch, built>>

ResetsItself ==
  /\ panel.at = "listening" /\ resets < MaxResets
  /\ resets' = resets + 1
  /\ Rebooted("starting", panel.image)
  /\ UNCHANGED <<job, talk, told, toHost, sketch, built>>

PanelNext ==
  \/ Rejects \/ Reads \/ NotAnswering \/ NoReply \/ Throws
  \/ Edits \/ Boots \/ Takes \/ ResetsItself
  \/ \E commands \in Conversations : Open(commands)
  \/ \E b \in BOOLEAN : Asks(b) \/ Upload(b) \/ Replies(b)
  \/ \E works, flash \in BOOLEAN : Compile(works, flash)

PanelSpec == PanelInit /\ [][PanelNext]_panelVars
----------------------------------------------------------------------------
(* Properties.                                                             *)

\* "Naming the command is what lets a stale reply be recognised and
\* dropped": a result that says the panel was provisioned is about this
\* task's networks, and about its host too if it named one, whatever was
\* asked before, answered late, lost in a reset or left by an aborted task.
\* Of a board with the older sketch this is true only if one probe reached
\* it: the answer to a second one is taken for that to the command after it.
\* (The Provision action of run, nextReply, and the sketch's replies.)
ReportTrue ==
  [][talk.at = "sending" /\ told' = "provisioned" /\ (panel.image > 0 \/ talk.asked = 1)
       => panel.nets = job /\ (talk.whole => panel.alpha = job)]_panelVars
=============================================================================
