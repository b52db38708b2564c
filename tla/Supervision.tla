----------------------------- MODULE Supervision -----------------------------
(***************************************************************************)
(* How the worker runs a child: run_process of process.py (mode "batch"),  *)
(* run_interactive_process of terminal.py (mode "terminal"), and the       *)
(* question confirm_phase asks between two sessions (mode "confirm").      *)
(*                                                                         *)
(* The child is a group of two processes, the leader and a helper it may   *)
(* start, which inherits its output; either may ignore SIGTERM.  Two       *)
(* reader threads carry a batch child's output through a bounded queue to  *)
(* the loop; in a terminal the loop reads it itself.  The loop looks at    *)
(* its clocks only between two steps, and whatever it calls may raise.     *)
(***************************************************************************)
EXTENDS Naturals, Sequences

CONSTANTS
  Modes,         \* what is supervised: subset of {"batch", "terminal", "confirm"}
  PipeSize,      \* bound: lines a pipe holds
  QueueSize      \* places of the message queue (128)

ASSUME SupervisionAssumption ==
  /\ Modes \subseteq {"batch", "terminal", "confirm"}
  /\ PipeSize \in Nat \ {0} /\ QueueSize \in Nat \ {0}

VARIABLES
  mode,
  at,        \* where the call is; "before" it, or "over"
  answer,    \* "none", a "result", or that it was "stopped"
  leader, helper,  \* "none", "alive", "stubborn" (ignores SIGTERM) or "dead"
  pipe,      \* by channel: lines written and not read
  reader,    \* by channel: "off", "reads", "holds" a line, "ends" or "gone"
  queue,     \* the messages: "text", or "end" of a channel
  ended,     \* done: channels whose end was received; in a terminal, whether at EOF
  clock,     \* what has run out: of {"absolute", "idle", "tick"}
  screen,    \* "cooked" or "raw"
  hurt       \* whether the cleanup itself was interrupted

supervisionVars ==
  <<mode, at, answer, leader, helper, pipe, reader, queue, ended, clock, screen, hurt>>
process == <<leader, helper>>
stream  == <<pipe, reader, queue, ended>>
outcome == <<answer, screen, hurt>>

Channels == {"stdout", "stderr"}
Living == {"alive", "stubborn"}

SupervisionInit ==
  /\ mode = "none" /\ at = "before" /\ answer = "none"
  /\ leader = "none" /\ helper = "none"
  /\ pipe = [c \in Channels |-> 0] /\ reader = [c \in Channels |-> "off"]
  /\ queue = << >> /\ ended = 0
  /\ clock = {} /\ screen = "cooked" /\ hurt = FALSE

At(place) == at' = place
\* What follows an exception: kill_tree, or the finally of the terminal.
Stops(place) == At(place) /\ answer' = "stopped" /\ UNCHANGED <<screen, hurt>>
Stop == Stops(CASE mode = "batch" -> "kill" [] mode = "terminal" -> "term" [] OTHER -> "over")
On(place) == At(place) /\ UNCHANGED outcome

-----------------------------------------------------------------------------
(* The child *)

\* Output reaches the loop for as long as a process of the group holds it.
Closed == leader \notin Living /\ helper \notin Living

Writes(c) ==
  /\ ~Closed /\ pipe[c] < PipeSize
  /\ pipe' = [pipe EXCEPT ![c] = @ + 1]
  /\ UNCHANGED <<mode, at, outcome, process, reader, queue, ended, clock>>
StartsHelper ==
  /\ leader \in Living /\ helper = "none" /\ helper' \in Living
  /\ UNCHANGED <<mode, at, outcome, leader, stream, clock>>
Exits ==
  /\ \/ leader \in Living /\ leader' = "dead" /\ UNCHANGED helper
     \/ helper \in Living /\ helper' = "dead" /\ UNCHANGED leader
  /\ UNCHANGED <<mode, at, outcome, stream, clock>>
Elapses ==
  /\ at \notin {"before", "over"} /\ \E k \in {"absolute", "idle", "tick"} : clock' = clock \cup {k}
  /\ UNCHANGED <<mode, at, outcome, process, stream>>

\* SIGTERM, and SIGKILL.
Terminated(p) == IF p = "alive" THEN "dead" ELSE p
Killed(p) == IF p \in Living THEN "dead" ELSE p

-----------------------------------------------------------------------------
(* run_process *)

\* The child may not start: then nothing has to be undone.
StartBatch ==
  /\ "batch" \in Modes /\ at = "before" /\ mode' = "batch"
  /\ \/ On("loop") /\ leader' \in Living /\ reader' = [c \in Channels |-> "reads"]
     \/ Stops("over") /\ UNCHANGED <<leader, reader>>
  /\ UNCHANGED <<helper, pipe, queue, ended, clock>>

\* A reader thread: one line, put when the queue has a place; at the end, None.
Reads(c) ==
  /\ \/ reader[c] = "reads" /\ pipe[c] > 0
        /\ pipe' = [pipe EXCEPT ![c] = @ - 1] /\ reader' = [reader EXCEPT ![c] = "holds"]
        /\ UNCHANGED queue
     \/ reader[c] = "reads" /\ pipe[c] = 0 /\ Closed
        /\ reader' = [reader EXCEPT ![c] = "ends"] /\ UNCHANGED <<pipe, queue>>
     \/ reader[c] \in {"holds", "ends"} /\ Len(queue) < QueueSize
        /\ queue' = Append(queue, IF reader[c] = "ends" THEN "end" ELSE "text")
        /\ reader' = [reader EXCEPT ![c] = IF @ = "ends" THEN "gone" ELSE "reads"]
        /\ UNCHANGED pipe
  /\ UNCHANGED <<mode, at, outcome, process, ended, clock>>

\* Mutant: the loop ends with the leader.
GoesOnWithLeader == leader \in Living
\* "while done < 2 or process.poll() is None"
GoesOn == ended < 2 \/ leader \in Living

\* Mutant: ticks are made when there is nothing to read.
TicksWhenQuiet(next) ==
  \/ clock \cap {"absolute", "idle"} # {} /\ Stop /\ UNCHANGED clock
  \/ clock \cap {"absolute", "idle"} = {} /\ "tick" \in clock /\ queue = << >>
     /\ (Stop \/ On(next)) /\ clock' = clock \ {"tick"}
  \/ clock \cap {"absolute", "idle"} = {} /\ ("tick" \notin clock \/ queue # << >>)
     /\ On(next) /\ UNCHANGED clock
\* The watchdogs, then a tick that is due; on_tick may raise.
Ticks(next) ==
  \/ clock \cap {"absolute", "idle"} # {} /\ Stop /\ UNCHANGED clock
  \/ clock = {"tick"} /\ (Stop \/ On(next)) /\ clock' = {}
  \/ clock = {} /\ On(next) /\ UNCHANGED clock

BatchLoop ==
  /\ mode = "batch" /\ at = "loop"
  /\ IF GoesOn THEN Ticks("get") ELSE On("last") /\ UNCHANGED clock
  /\ UNCHANGED <<mode, process, stream>>

\* One message, or none within 0.2 s; on_output may raise.
BatchGet ==
  /\ mode = "batch" /\ at = "get"
  /\ \/ queue = << >> /\ On("loop") /\ UNCHANGED <<queue, ended, clock>>
     \/ /\ queue # << >> /\ queue' = Tail(queue)
        /\ \/ Head(queue) = "end" /\ ended' = ended + 1 /\ On("loop") /\ UNCHANGED clock
           \/ Head(queue) = "text" /\ clock' = clock \ {"idle"} /\ (On("loop") \/ Stop)
              /\ UNCHANGED ended
  /\ UNCHANGED <<mode, process, pipe, reader>>

\* The last tick, and the result.
BatchLast ==
  /\ mode = "batch" /\ at = "last"
  /\ \/ Stop
     \/ At("over") /\ answer' = "result" /\ UNCHANGED <<screen, hurt>>
  /\ UNCHANGED <<mode, process, stream, clock>>

\* kill_tree: nothing if the leader has exited; SIGTERM to the group; if the leader is
\* there after three seconds, SIGKILL.
KillTree ==
  /\ mode = "batch" /\ at \in {"kill", "waited"}
  /\ \/ leader = "dead" /\ On("over") /\ UNCHANGED process
     \/ /\ leader # "dead" /\ at = "kill" /\ On("waited")
        /\ leader' = Terminated(leader) /\ helper' = Terminated(helper)
     \/ /\ leader # "dead" /\ at = "waited" /\ On("over")
        /\ leader' = Killed(leader) /\ helper' = Killed(helper)
  /\ UNCHANGED <<mode, stream, clock>>

-----------------------------------------------------------------------------
(* run_interactive_process *)

\* The terminal's settings are saved; starting the child may fail.
StartTerminal ==
  /\ "terminal" \in Modes /\ at = "before" /\ mode' = "terminal"
  /\ \/ leader' \in Living /\ On("raw")
     \/ UNCHANGED leader /\ Stops("term")
  /\ UNCHANGED <<helper, stream, clock>>

\* tty.setraw, then on_start; both may raise.
MakeRaw ==
  /\ mode = "terminal" /\ at = "raw"
  /\ \/ At("loop") /\ screen' = "raw" /\ UNCHANGED <<answer, hurt>>
     \/ At("term") /\ screen' \in {"cooked", "raw"} /\ answer' = "stopped" /\ UNCHANGED hurt
  /\ UNCHANGED <<mode, process, stream, clock>>

TerminalLoop ==
  /\ mode = "terminal" /\ at = "loop" /\ Ticks("poll")
  /\ UNCHANGED <<mode, process, stream>>

\* The leader has exited, and its output has ended or 0.3 seconds have passed.
TerminalPoll ==
  /\ mode = "terminal" /\ at = "poll"
  /\ \/ leader = "dead" /\ On("last")
     \/ ~(leader = "dead" /\ ended = 1) /\ On("relay")
  /\ UNCHANGED <<mode, process, stream, clock>>

\* Keys are passed on; the user may disconnect, press Ctrl+], or type to a child that
\* does not read.  Output is shown and kept; the display may not take it.
Relay ==
  /\ mode = "terminal" /\ at = "relay"
  /\ \/ clock' = clock \ {"idle"} /\ (On("loop") \/ Stop) /\ UNCHANGED <<pipe, ended>>
     \/ /\ ended = 0 /\ pipe["stdout"] > 0
        /\ pipe' = [pipe EXCEPT !["stdout"] = @ - 1] /\ UNCHANGED ended
        /\ clock' = clock \ {"idle"} /\ (On("loop") \/ Stop)
     \/ /\ ended = 0 /\ pipe["stdout"] = 0 /\ Closed
        /\ ended' = 1 /\ On("loop") /\ UNCHANGED <<pipe, clock>>
     \/ On("loop") /\ UNCHANGED <<pipe, ended, clock>>
  /\ UNCHANGED <<mode, process, reader, queue>>

\* The last flush and tick; the finally comes after either outcome.
TerminalLast ==
  /\ mode = "terminal" /\ at = "last" /\ At("term")
  /\ answer' \in {"result", "stopped"} /\ UNCHANGED <<screen, hurt>>
  /\ UNCHANGED <<mode, process, stream, clock>>

\* Mutant: the group of a leader that has exited is left alone, as in kill_tree.
StopGroupOfLeader ==
  /\ mode = "terminal"
  /\ \/ at = "term" /\ leader \notin Living /\ On("restore") /\ UNCHANGED process
     \/ /\ at = "term" /\ leader \in Living /\ On("wait")
        /\ leader' = Terminated(leader) /\ helper' = Terminated(helper)
     \/ /\ at = "wait" /\ On("restore")
        /\ leader' = Killed(leader) /\ helper' = Killed(helper)
  /\ UNCHANGED <<mode, stream, clock>>

\* _stop_group: SIGTERM, two seconds, then SIGKILL in any case.
StopGroup ==
  /\ mode = "terminal"
  /\ \/ at = "term" /\ leader = "none" /\ On("restore") /\ UNCHANGED process
     \/ /\ at = "term" /\ leader # "none" /\ On("wait")
        /\ leader' = Terminated(leader) /\ helper' = Terminated(helper)
     \/ /\ at = "wait" /\ On("restore")
        /\ leader' = Killed(leader) /\ helper' = Killed(helper)
  /\ UNCHANGED <<mode, stream, clock>>

Restore ==
  /\ mode = "terminal" /\ at = "restore"
  /\ At("over") /\ screen' = "cooked" /\ UNCHANGED <<answer, hurt>>
  /\ UNCHANGED <<mode, process, stream, clock>>

\* A signal interrupts the cleanup.
Interrupted ==
  /\ \/ mode = "batch" /\ at \in {"kill", "waited"} /\ At("over")
     \/ mode = "terminal" /\ at \in {"term", "wait"} /\ At("restore")
  /\ hurt' = TRUE /\ answer' = "stopped" /\ UNCHANGED screen
  /\ UNCHANGED <<mode, process, stream, clock>>

-----------------------------------------------------------------------------
(* confirm_phase *)

Ask ==
  /\ "confirm" \in Modes /\ at = "before" /\ mode' = "confirm"
  /\ \/ On("loop")
     \/ Stops("over")
  /\ UNCHANGED <<process, stream, clock>>
\* Its own watchdog is absolute.
AwaitLine ==
  /\ mode = "confirm" /\ at = "loop"
  /\ \/ "absolute" \in clock /\ Stop /\ UNCHANGED clock
     \/ "absolute" \notin clock /\ "tick" \in clock
        /\ (Stop \/ On("read")) /\ clock' = clock \ {"tick"}
     \/ clock \cap {"absolute", "tick"} = {} /\ On("read") /\ UNCHANGED clock
  /\ UNCHANGED <<mode, process, stream>>
\* "continue", anything else, the end of the input, or nothing yet.
ReadLine ==
  /\ mode = "confirm" /\ at = "read"
  /\ \/ On("loop")
     \/ At("over") /\ answer' \in {"result", "stopped"} /\ UNCHANGED <<screen, hurt>>
  /\ UNCHANGED <<mode, process, stream, clock>>

Loop ==
  \/ BatchLoop \/ BatchGet \/ BatchLast \/ KillTree
  \/ MakeRaw \/ TerminalLoop \/ TerminalPoll \/ Relay \/ TerminalLast \/ StopGroup \/ Restore
  \/ AwaitLine \/ ReadLine

SupervisionNext ==
  \/ \E c \in Channels : Writes(c) \/ Reads(c)
  \/ StartsHelper \/ Exits \/ Elapses
  \/ StartBatch \/ StartTerminal \/ Ask \/ Loop \/ Interrupted

SupervisionSpec == SupervisionInit /\ [][SupervisionNext]_supervisionVars
\* Only the worker's own thread is relied on: not the child, nor the readers.
LoopRuns == WF_supervisionVars(Loop)
-----------------------------------------------------------------------------
(* Properties *)

SupervisionTypeOK ==
  /\ mode \in {"none", "batch", "terminal", "confirm"}
  /\ at \in {"before", "loop", "get", "last", "kill", "waited", "raw", "poll", "relay",
             "term", "wait", "restore", "read", "over"}
  /\ answer \in {"none", "result", "stopped"}
  /\ {leader, helper} \subseteq Living \cup {"none", "dead"}
  /\ pipe \in [Channels -> 0..PipeSize]
  /\ reader \in [Channels -> {"off", "reads", "holds", "ends", "gone"}]
  /\ queue \in Seq({"text", "end"}) /\ Len(queue) <= QueueSize
  /\ ended \in 0..2 /\ clock \subseteq {"absolute", "idle", "tick"}
  /\ screen \in {"cooked", "raw"} /\ hurt \in BOOLEAN

\* A result of run_process is given when everything the child wrote was received: no
\* line is left in a pipe, in a reader's hands or in the queue, although the leader may
\* exit before its helper, its readers or the queue are done.
OutputIsComplete ==
  mode = "batch" /\ answer = "result" =>
    \A c \in Channels : pipe[c] = 0 /\ reader[c] = "gone" /\ queue = << >>

\* However the call ends, the leader does not outlive it; after a terminal session
\* neither does its helper, nor the raw mode of the terminal: not even when the cleanup
\* is interrupted ("Restore the user's terminal even if cancellation itself encounters
\* an error", terminal.py:208).
NothingLeftBehind ==
  at = "over" =>
    /\ screen = "cooked"
    /\ hurt \/ leader \notin Living
    /\ mode = "terminal" => hurt \/ helper \notin Living

\* A child that never stops writing, or never writes, delays no heartbeat and outlives
\* no deadline: a tick that is due is made or the call ends, and it ends once its
\* absolute limit has passed.
TicksGoOn ==
  /\ "tick" \in clock ~> ("tick" \notin clock \/ at = "over")
  /\ "absolute" \in clock ~> at = "over"
=============================================================================
