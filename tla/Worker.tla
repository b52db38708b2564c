------------------------------- MODULE Worker -------------------------------
(***************************************************************************)
(* The supervisor that a contributor runs on a device (worker.py), while   *)
(* it executes one lease: the phase machine with its state file, the local *)
(* transcript and its copy at the server, the checkout a coding agent (the *)
(* "harness") edits, the usage it reports, and what the server keeps of    *)
(* all that (the heartbeat, events, checkpoint, complete and blocked       *)
(* handlers of app.py behind Coordinator.fence).                           *)
(*                                                                         *)
(* A process may be killed between any two steps; then self.state is lost  *)
(* and only state.json, the transcript and the checkout remain.  Any call  *)
(* may fail, before or after the server acted on it.                       *)
(*                                                                         *)
(* Commands run in a session of their own: nobody signals them when the    *)
(* worker is killed, and what they start may outlive the run (loose) and   *)
(* go on editing, whatever the worker does then.                           *)
(*                                                                         *)
(* A tree is told apart by what the checks of the code tell apart: whether *)
(* the specification artifacts are there (spec), the version of the tests, *)
(* the version of the production code, and files a test run leaves behind  *)
(* (junk).  A commit is a tree and the number of commits below it.         *)
(***************************************************************************)
EXTENDS Integers, Sequences

CONSTANTS
  Kinds,        \* kinds of lease to execute: subset of {"initial", "revision"}
  Edits,        \* trees the agent may leave: set of [spec, tests, code : Nat]
  Reserved,     \* lease.token_reservation
  MaxTokens,    \* bound: tokens one invocation of the harness may report
  MaxCommits,   \* bound: commits below which periodic checkpoints are made
  MaxEvents,    \* bound: events written to the transcript
  MaxErrors,    \* bound: failures that are not the worker's own refusals, and processes
                \* that outlive their run
  MaxKills,     \* bound: processes killed
  MaxStrays,    \* bound: edits outside the runs of the agent
  MayLeave,     \* whether test runs leave files behind: subset of {0, 1}
  MayOutlive    \* what a command's processes outlive: subset of {"kill", "run"}

ASSUME WorkerAssumption ==
  /\ Kinds \subseteq {"initial", "revision"}
  /\ Edits \subseteq [spec : 0..1, tests : 0..1, code : 0..2]
  /\ Reserved \in Nat \ {0}
  /\ {MaxTokens, MaxCommits, MaxEvents, MaxErrors, MaxKills, MaxStrays} \subseteq Nat
  /\ MayLeave \subseteq {0, 1} /\ MayOutlive \subseteq {"kill", "run"}

VARIABLES
  kind,      \* lease.kind
  pc,        \* where execute() is; "off" when no process executes the lease
  back,      \* where a checkpoint in progress returns to
  sending,   \* how far event() is: "no", "written" (to the transcript), "saved"
  mem,       \* Worker.state
  disk,      \* state.json
  meter,     \* tokens the running invocation has reported
  log,       \* transcript.enc.jsonl: the sequence number of each event
  cloned,    \* whether the checkout's directory exists
  tree,      \* the checkout's files
  head,      \* the commit checked out
  lease,     \* the server's Lease row
  trace,     \* the server's Event rows: which local event is stored at a number
  recovered, \* whether the contributor recovered the lease since it was stopped
  loose,     \* whether a process of the agent or of a test has outlived its run
  strays,    \* edits such a process made while no agent was running
  errors, kills

fixed  == <<kind, loose, strays, kills>>
local  == <<mem, disk, meter>>
files  == <<cloned, tree, head>>
server == <<lease, trace, recovered>>
vars   == <<fixed, pc, back, sending, local, log, files, server, errors>>
-----------------------------------------------------------------------------
Phases == 0..5   \* baseline, spec, red, green, verify, ready
SpecPhase == 1
RedPhase == 2
GreenPhase == 3
VerifyPhase == 4
ReadyPhase == 5

None == -1       \* a token count nobody has reported
Tokens == Nat \cup {None}
Trees == [spec : 0..1, tests : 0..1, code : 0..2, junk : 0..1]
Commits == [below : Nat, tree : Trees]
Places == {"off", "replay", "clone", "open", "next", "ping", "attest", "harness", "check",
           "test", "scope", "push", "post", "close", "submit", "stopping"}

\* The commit the lease starts from; a revision starts from approved work.
Base(k) == [below |-> 0, tree |-> [spec  |-> IF k = "revision" THEN 1 ELSE 0,
                                   tests |-> 0, code |-> 0, junk |-> 0]]

\* The test command: only code 1 is right for tests 1; code 2 is another change.
Fails(t) == t.tests = 1 /\ t.code # 1

\* Mutant: who did not report counts as a number.
SumOfUnknown(a, b) == a + b
\* aggregate(): a sum in which nothing is invented for who did not report.
Sum(a, b) == IF a = None THEN b ELSE IF b = None THEN a ELSE a + b

\* The total the worker would report now.
Usage == Sum(mem.usage, meter)

\* The state.json of a lease not executed yet.
Fresh(k) ==
  [phase |-> 0, done |-> 0, prepared |-> FALSE, blocked |-> FALSE, usage |-> None,
   sequence |-> 0, ack |-> 0, guard |-> 0, before |-> Base(k).tree,
   baselineTests |-> 0, tests |-> 0, spec |-> 0, redExit |-> 0,
   red |-> Base(k), green |-> Base(k), checkpoint |-> Base(k)]

Init ==
  /\ kind \in Kinds
  /\ pc = "off" /\ back = "off" /\ sending = "no"
  /\ disk = Fresh(kind) /\ mem = disk /\ meter = None
  /\ log = << >>
  /\ cloned = FALSE /\ head = Base(kind) /\ tree = head.tree
  /\ lease = [state |-> "running", phase |-> 0, tokens |-> None, checkpoint |-> Base(kind),
              evidence |-> [redExit |-> 0, red |-> Base(kind), green |-> Base(kind)]]
  /\ trace = [s \in 1..MaxEvents |-> 0]
  /\ recovered = FALSE
  /\ loose = FALSE /\ strays = 0 /\ errors = 0 /\ kills = 0
-----------------------------------------------------------------------------
(* The worker's own bookkeeping.                                           *)

\* self.state changes and is saved at once.
Save(state) == mem' = state /\ disk' = state

\* Mutant: what the running invocation reported is dropped.
RaisingForgetful(state) == [state EXCEPT !.blocked = TRUE]
Raising(state) == [state EXCEPT !.blocked = TRUE, !.usage = Sum(@, meter)]

\* The exception handler of execute(): what the running invocation has
\* reported is kept, then the server is told (Stopping).
Raise ==
  /\ pc' = "stopping" /\ back' = "off" /\ sending' = "no" /\ meter' = None
  /\ Save(Raising(mem))

Go(place) == pc' = place /\ UNCHANGED <<back, sending>>

\* A checkpoint is made, then execution goes on at the place.
CheckpointThen(place) == pc' = "scope" /\ back' = place /\ UNCHANGED sending

\* The call succeeds, or its answer is lost after the server acted on it.
Answered(go) ==
  \/ go /\ UNCHANGED errors
  \/ errors < MaxErrors /\ errors' = errors + 1 /\ Raise

\* The server refuses a call: the fence, or a check of the handler.
Refused == Raise /\ UNCHANGED <<errors, server>>

\* Mutant: the tree is compared with the last commit.
InScopeSinceCommit ==
  LET allowed(f) == f = (IF mem.phase = SpecPhase THEN "spec" ELSE "tests")
  IN  (mem.phase \in {SpecPhase, RedPhase} /\ mem.guard = mem.phase) =>
        \A f \in DOMAIN tree : tree[f] = head.tree[f] \/ allowed(f)

\* check_phase_scope: only the specification may change in the spec phase,
\* only tests in the red phase, compared with the tree the phase began on.
InScope ==
  LET allowed(f) == f = (IF mem.phase = SpecPhase THEN "spec" ELSE "tests")
  IN  (mem.phase \in {SpecPhase, RedPhase} /\ mem.guard = mem.phase) =>
        \A f \in DOMAIN tree : tree[f] = mem.before[f] \/ allowed(f)

\* verify_artifacts
ArtifactsHold == tree.tests = mem.tests /\ tree.spec = mem.spec
-----------------------------------------------------------------------------
(* Starting, and what a restart resends.                                   *)

\* The poll answers with a running lease; state.json is loaded and its
\* blocked mark is cleared (in memory: the next save writes it).
Begin ==
  /\ pc = "off" /\ lease.state = "running"
  /\ Go("replay") /\ mem' = [disk EXCEPT !.blocked = FALSE] /\ meter' = None
  /\ recovered' = FALSE
  /\ UNCHANGED <<fixed, disk, log, files, lease, trace, errors>>

\* The server stores an event once; the same number with another text is refused.  (Two
\* events of one number differ here; if their texts happen to agree, the second is
\* answered "duplicate", as if it were the first.)
Stores(i) == lease.state = "running" /\ trace[log[i]] \in {0, i}
Store(i) == trace' = [trace EXCEPT ![log[i]] = i] /\ UNCHANGED <<lease, recovered>>

Unsent(i) == i \in DOMAIN log /\ log[i] > mem.ack

\* replay_events(): what was written and never acknowledged is sent again, in order.
ReplayEvents ==
  /\ pc = "replay" /\ UNCHANGED <<fixed, log, files>>
  /\ \/ /\ \A i \in DOMAIN log : ~Unsent(i)
        /\ Save(mem) /\ Go(IF mem.prepared THEN "next" ELSE "clone")
        /\ UNCHANGED <<meter, server, errors>>
     \/ \E i \in DOMAIN log :
          /\ Unsent(i) /\ \A j \in 1..i - 1 : ~Unsent(j)
          /\ IF Stores(i)
               THEN /\ Store(i)
                    /\ Answered(/\ Go("replay") /\ mem' = [mem EXCEPT !.ack = log[i]]
                                /\ UNCHANGED <<disk, meter>>)
               ELSE Refused

\* Repository.prepare refuses a checkout it finds; it is on disk from the
\* clone on, and known to be complete when the state says so.
Clone ==
  /\ pc = "clone"
  /\ \/ ~cloned /\ cloned' = TRUE /\ Go("open") /\ UNCHANGED <<local, server, errors>>
     \/ cloned /\ Refused /\ UNCHANGED cloned
  /\ UNCHANGED <<fixed, log, tree, head>>

Open ==
  /\ pc = "open" /\ Save([mem EXCEPT !.prepared = TRUE]) /\ CheckpointThen("next")
  /\ UNCHANGED <<fixed, meter, log, files, server, errors>>
-----------------------------------------------------------------------------
(* Heartbeats and checkpoints.                                             *)

\* Mutant: a smaller cumulative usage is accepted.
MayBeatWithLess ==
  lease.state = "running" /\ mem.phase \in {lease.phase, lease.phase + 1}

\* What the heartbeat handler accepts behind the fence.
MayBeat ==
  /\ lease.state = "running"
  /\ mem.phase \in {lease.phase, lease.phase + 1}
  /\ lease.tokens # None => Usage >= lease.tokens

\* ping(); an exhausted reservation blocks the lease and stops the worker.
Ping(go) ==
  \/ /\ MayBeat /\ UNCHANGED <<trace, recovered>>
     /\ lease' = [lease EXCEPT !.phase = mem.phase, !.tokens = Usage,
                               !.state = IF Usage >= Reserved THEN "blocked" ELSE @]
     /\ IF Usage >= Reserved THEN Raise /\ UNCHANGED errors ELSE Answered(go)
  \/ ~MayBeat /\ Refused

\* tick() while a child process runs.
Supervising == pc \in {"harness", "test"} /\ sending = "no"
\* Mutant: a heartbeat that is refused does not stop the worker.
TickOffline ==
  /\ Supervising /\ MayBeat /\ Ping(Go(pc) /\ UNCHANGED local)
  /\ UNCHANGED <<fixed, log, files>>
Tick ==
  /\ Supervising /\ Ping(Go(pc) /\ UNCHANGED local)
  /\ UNCHANGED <<fixed, log, files>>
TickCheckpoint ==
  /\ Supervising /\ head.below < MaxCommits
  /\ CheckpointThen(pc)
  /\ UNCHANGED <<fixed, local, log, files, server, errors>>

\* checkpoint(): the scope and the lease are checked, the tree is committed and
\* pushed, the server is told.
CheckScope ==
  /\ pc = "scope"
  /\ IF InScope THEN Ping(Go("push") /\ UNCHANGED local) ELSE Refused
  /\ UNCHANGED <<fixed, log, files>>
Push ==
  /\ pc = "push" /\ Go("post")
  /\ head' = IF tree = head.tree THEN head ELSE [below |-> head.below + 1, tree |-> tree]
  /\ UNCHANGED <<fixed, local, log, cloned, tree, server, errors>>
PostCheckpoint ==
  /\ pc = "post"
  /\ IF lease.state = "running"
       THEN /\ lease' = [lease EXCEPT !.checkpoint = head] /\ UNCHANGED <<trace, recovered>>
            /\ Answered(/\ pc' = back /\ back' = "off" /\ UNCHANGED sending
                     /\ Save([mem EXCEPT !.checkpoint = head]) /\ UNCHANGED meter)
       ELSE Refused
  /\ UNCHANGED <<fixed, log, files>>
-----------------------------------------------------------------------------
(* event(): the transcript is written, then the state, then the server is  *)
(* told, then the acknowledgement is saved.                                *)
WriteEvent ==
  /\ Supervising /\ Len(log) < MaxEvents
  /\ mem' = [mem EXCEPT !.sequence = @ + 1]
  /\ log' = Append(log, mem'.sequence)
  /\ sending' = "written"
  /\ UNCHANGED <<fixed, pc, back, disk, meter, files, server, errors>>
\* Mutant: an event counts as acknowledged before it is sent.
SaveEventAcked ==
  /\ sending = "written" /\ sending' = "saved" /\ Save([mem EXCEPT !.ack = mem.sequence])
  /\ UNCHANGED <<fixed, pc, back, meter, log, files, server, errors>>
SaveEvent ==
  /\ sending = "written" /\ sending' = "saved" /\ Save(mem)
  /\ UNCHANGED <<fixed, pc, back, meter, log, files, server, errors>>
PostEvent ==
  /\ sending = "saved"
  /\ IF Stores(Len(log))
       THEN /\ Store(Len(log))
            /\ Answered(/\ Save([mem EXCEPT !.ack = mem.sequence]) /\ sending' = "no"
                        /\ UNCHANGED <<pc, back, meter>>)
       ELSE Refused
  /\ UNCHANGED <<fixed, log, files>>
-----------------------------------------------------------------------------
(* The phases.                                                             *)

Completed(state) == [state EXCEPT !.done = @ + 1]

\* Mutant: a revision attests the specification without entering its phase.
NextPhaseAttests ==
  /\ pc = "next"
  /\ Go(IF kind = "revision" /\ mem.done = SpecPhase THEN "attest" ELSE "ping")
  /\ Save([mem EXCEPT !.phase = mem.done])
  /\ UNCHANGED <<fixed, meter, log, files, server, errors>>

\* phase(): the first unfinished phase; the tree it begins on is remembered
\* once, whatever restarts follow.
NextPhase ==
  LET guarded == mem.done \in {SpecPhase, RedPhase} /\ mem.guard # mem.done
  IN  /\ pc = "next" /\ Go("ping")
      /\ Save([mem EXCEPT !.phase = mem.done,
                          !.guard = IF guarded THEN mem.done ELSE @,
                          !.before = IF guarded THEN tree ELSE @])
      /\ UNCHANGED <<fixed, meter, log, files, server, errors>>

WorkOf(phase) ==
  IF phase = 0 THEN "test"
  ELSE IF phase = SpecPhase /\ kind = "revision" THEN "attest"
  ELSE IF phase <= GreenPhase THEN "harness"
  ELSE IF phase = VerifyPhase THEN "check" ELSE "submit"

PhasePing ==
  /\ pc = "ping" /\ Ping(Go(WorkOf(mem.phase)) /\ UNCHANGED local)
  /\ UNCHANGED <<fixed, log, files>>

\* A revision keeps the specification of the approved commit.
Attest ==
  /\ pc = "attest"
  /\ \/ /\ tree.spec = 1 /\ Go("next") /\ Save(Completed([mem EXCEPT !.spec = tree.spec]))
        /\ UNCHANGED <<meter, server, errors>>
     \/ tree.spec # 1 /\ Refused
  /\ UNCHANGED <<fixed, log, files>>

\* A command runs, also while the supervisor makes a checkpoint.
Runs(place) == pc = place \/ (pc \in {"scope", "push", "post"} /\ back = place)

\* The agent edits what it likes.
EditsTree ==
  /\ \E e \in Edits : tree' = [tree EXCEPT !.spec = e.spec, !.tests = e.tests, !.code = e.code]
  /\ tree' # tree
  /\ UNCHANGED <<kind, loose, kills, pc, back, sending, local, log, cloned, head, server, errors>>
HarnessEdits == Runs("harness") /\ EditsTree /\ UNCHANGED strays

\* So does what is left of it or of the tests, whatever the worker does meanwhile.
StrayEdits ==
  /\ loose /\ ~Runs("harness") /\ strays < MaxStrays
  /\ EditsTree /\ strays' = strays + 1
\* A command starts a process that neither its exit nor kill_tree will end: one that holds
\* none of its pipes, is deaf to SIGTERM, or has a session of its own.
Detach ==
  /\ "run" \in MayOutlive /\ ~loose
  /\ Runs("harness") \/ Runs("test")
  /\ loose' = TRUE /\ errors < MaxErrors /\ errors' = errors + 1
  /\ UNCHANGED <<kind, strays, kills, pc, back, sending, local, log, files, server>>
HarnessReports ==
  /\ Supervising /\ pc = "harness"
  /\ meter' \in {n \in 0..MaxTokens : n > meter}
  /\ UNCHANGED <<fixed, pc, back, sending, mem, disk, log, files, server, errors>>
HarnessExits ==
  /\ Supervising /\ pc = "harness" /\ Go("check")
  /\ Save([mem EXCEPT !.usage = Sum(@, meter)]) /\ meter' = None
  /\ UNCHANGED <<fixed, log, files, server, errors>>

\* What follows the harness, before the tests are run.
Check ==
  LET sound == CASE mem.phase = SpecPhase -> InScope /\ tree.spec = 1
                                               /\ tree.tests = mem.baselineTests
                 [] mem.phase = RedPhase  -> InScope /\ (tree.tests # mem.baselineTests
                                                          \/ kind = "revision")
                 [] OTHER                 -> ArtifactsHold
      unchanged == mem.phase = RedPhase /\ tree.tests = mem.baselineTests
  IN  /\ pc = "check"
      /\ \/ /\ sound /\ mem.phase = SpecPhase
            /\ CheckpointThen("close")
            /\ mem' = [mem EXCEPT !.spec = tree.spec] /\ UNCHANGED <<disk, meter>>
         \/ /\ sound /\ unchanged
            /\ Go("next") /\ UNCHANGED meter
            /\ Save(Completed([mem EXCEPT !.redExit = 0, !.tests = tree.tests,
                                          !.red = Base(kind)]))
         \/ /\ sound /\ mem.phase # SpecPhase /\ ~unchanged
            /\ Go("test") /\ UNCHANGED local
         \/ ~sound /\ Raise
      /\ UNCHANGED <<fixed, log, files, server, errors>>

\* The test command ran; it may have left files.
Tests ==
  LET expected == Fails(tree) = (mem.phase = RedPhase)
  IN  /\ pc = "test" /\ sending = "no"
      /\ \E j \in MayLeave : tree' = [tree EXCEPT !.junk = IF j = 1 THEN 1 ELSE @]
      /\ \/ /\ expected /\ mem.phase = 0
            /\ Go("next") /\ Save(Completed([mem EXCEPT !.baselineTests = tree.tests]))
            /\ UNCHANGED meter
         \/ /\ expected /\ mem.phase # 0
            /\ CheckpointThen("close") /\ UNCHANGED <<disk, meter>>
            /\ mem' = IF mem.phase = RedPhase
                        THEN [mem EXCEPT !.redExit = 1, !.tests = tree.tests] ELSE mem
         \/ ~expected /\ Raise
      /\ UNCHANGED <<fixed, log, cloned, head, server, errors>>

\* The checkpoint of the phase is made: the phase is complete.
Close ==
  /\ pc = "close"
  /\ IF mem.phase = VerifyPhase /\ mem.checkpoint # mem.green
       THEN Raise
       ELSE /\ Go("next") /\ UNCHANGED meter
            /\ Save(Completed([mem EXCEPT
                 !.red = IF mem.phase = RedPhase THEN mem.checkpoint ELSE @,
                 !.green = IF mem.phase = GreenPhase THEN mem.checkpoint ELSE @]))
  /\ UNCHANGED <<fixed, log, files, server, errors>>

\* The complete request and Coordinator.complete.
MayComplete ==
  /\ lease.state = "running" /\ lease.phase = ReadyPhase
  /\ mem.redExit = 1 \/ kind = "revision"
  /\ mem.checkpoint = mem.green
Submit ==
  /\ pc = "submit"
  /\ IF MayComplete
       THEN /\ lease' = [lease EXCEPT !.state = "awaiting_review", !.tokens = Usage,
                 !.checkpoint = mem.checkpoint,
                 !.evidence = [redExit |-> mem.redExit, red |-> mem.red, green |-> mem.green]]
            /\ UNCHANGED <<trace, recovered>>
            /\ Answered(Go("off") /\ Save(mem) /\ UNCHANGED meter)
       ELSE Refused
  /\ UNCHANGED <<fixed, log, files>>
-----------------------------------------------------------------------------
(* Failures, and what people do.                                           *)

\* Anything else that raises: a deadline, the harness's exit code, Git, the
\* network before the server acted, Ctrl-C.
Interrupt ==
  /\ pc \notin {"off", "stopping"} /\ errors < MaxErrors
  /\ errors' = errors + 1 /\ Raise
  /\ UNCHANGED <<fixed, log, files, server>>

\* The stop is reported if the server can be reached; every error is ignored.
ReportStop ==
  /\ pc = "stopping" /\ Go("off") /\ UNCHANGED <<fixed, local, log, files, trace, recovered>>
  /\ \/ /\ lease.state = "running" /\ lease' = [lease EXCEPT !.state = "blocked"]
        /\ UNCHANGED errors
     \/ lease.state # "running" /\ UNCHANGED <<lease, errors>>
     \/ errors < MaxErrors /\ errors' = errors + 1 /\ UNCHANGED lease

\* Nobody signals the command that runs then: it dies of its broken pipes, or goes on.
Kill ==
  /\ pc # "off" /\ kills < MaxKills /\ kills' = kills + 1
  /\ \/ UNCHANGED loose
     \/ "kill" \in MayOutlive /\ (Runs("harness") \/ Runs("test")) /\ loose' = TRUE
  /\ pc' = "off" /\ back' = "off" /\ sending' = "no" /\ mem' = disk /\ meter' = None
  /\ UNCHANGED <<kind, strays, disk, log, files, server, errors>>

\* The contributor recovers the blocked lease.
Recover ==
  /\ lease.state = "blocked"
  /\ lease' = [lease EXCEPT !.state = "running"] /\ recovered' = TRUE
  /\ UNCHANGED <<fixed, pc, back, sending, local, log, files, trace, errors>>

\* The lease is cancelled, reclaimed or handed over.
Revoke ==
  /\ lease.state \in {"running", "blocked"}
  /\ lease' = [lease EXCEPT !.state = "over"]
  /\ UNCHANGED <<fixed, pc, back, sending, local, log, files, trace, recovered, errors>>

Supervise ==
  \/ ReplayEvents \/ Clone \/ Open \/ CheckScope \/ Push \/ PostCheckpoint
  \/ SaveEvent \/ PostEvent \/ NextPhase \/ PhasePing \/ Attest
  \/ Check \/ Tests \/ Close \/ Submit \/ ReportStop

Next ==
  \/ Begin \/ Supervise \/ Tick \/ TickCheckpoint \/ WriteEvent
  \/ HarnessEdits \/ HarnessReports \/ HarnessExits \/ Detach \/ StrayEdits
  \/ Interrupt \/ Kill \/ Recover \/ Revoke

Spec == Init /\ [][Next]_vars

\* The supervisor goes on; run_process calls on_tick at least every tick_seconds,
\* however long the child runs and whatever it prints.
SupervisorRuns == WF_vars(Supervise) /\ SF_vars(Tick)
FairSpec == Spec /\ SupervisorRuns
-----------------------------------------------------------------------------
(* Properties.                                                             *)

States ==
  [phase : Phases, done : Phases, prepared : BOOLEAN, blocked : BOOLEAN, usage : Tokens,
   sequence : 0..MaxEvents, ack : 0..MaxEvents, guard : Phases, before : Trees,
   baselineTests : 0..1, tests : 0..1, spec : 0..1, redExit : 0..1,
   red : Commits, green : Commits, checkpoint : Commits]

\* The variables' types.
WorkerTypeOK ==
  /\ kind \in Kinds
  /\ pc \in Places /\ back \in Places /\ sending \in {"no", "written", "saved"}
  /\ {mem, disk} \subseteq States
  /\ meter \in None..MaxTokens
  /\ log \in Seq(1..MaxEvents)
  /\ cloned \in BOOLEAN /\ tree \in Trees /\ head \in Commits
  /\ lease \in [state : {"running", "blocked", "awaiting_review", "over"}, phase : Phases,
                tokens : Tokens, checkpoint : Commits,
                evidence : [redExit : 0..1, red : Commits, green : Commits]]
  /\ trace \in [1..MaxEvents -> 0..MaxEvents]
  /\ recovered \in BOOLEAN /\ loose \in BOOLEAN /\ strays \in 0..MaxStrays
  /\ errors \in 0..MaxErrors /\ kills \in 0..MaxKills

\* What the trees of the commits under review must be: the tests pass; they are the tests
\* that failed on the production code as it was; the specification is the attested one;
\* and a revision without new tests has the old ones.
TreesAreAsShown(e) ==
  LET red == e.red.tree  green == e.green.tree  base == Base(kind).tree
  IN  /\ ~Fails(green) /\ green.tests = red.tests
      /\ red.spec = 1 /\ green.spec = 1 /\ red.code = base.code
      /\ IF e.redExit = 1 THEN Fails(red) /\ red.tests # base.tests
                          ELSE green.tests = base.tests

\* What reviewers are shown is true of the commits it names, wherever the worker was
\* killed, stopped or cut off: the commit under review is the last one made and the one
\* called green, and only a revision comes without failing tests; and the trees are as
\* shown, whatever the agent edits in its runs, as long as nothing that outlived a run
\* edits between them (EvidenceSurvives).
EvidenceIsTrue ==
  lease.state = "awaiting_review" =>
    /\ lease.checkpoint = lease.evidence.green /\ head = lease.evidence.green
    /\ lease.evidence.redExit = 1 \/ kind = "revision"
    /\ strays = 0 => TreesAreAsShown(lease.evidence)

\* The same of the trees, whatever goes on editing the checkout: docs/workflow.md says
\* that changed production code stops the red phase.
EvidenceSurvives ==
  lease.state = "awaiting_review" => TreesAreAsShown(lease.evidence)

\* The worker never reports a phase the server refuses as skipped or undone: a
\* restart resumes where the server stands.
PhasesInStep == pc = "ping" => mem.phase \in {lease.phase, lease.phase + 1}

\* The server holds only events that were in the transcript before, each under its
\* own number, and all that the worker counts as acknowledged.
TraceFollowsTranscript ==
  /\ \A s \in 1..MaxEvents :
       trace[s] # 0 => trace[s] \in DOMAIN log /\ log[trace[s]] = s
  /\ \A s \in 1..disk.ack : trace[s] # 0

\* An exception, whatever raises it, loses no usage that was reported before: the
\* worker's next report is not below the server's.
StopsKeepUsage == kills = 0 => Usage >= lease.tokens

\* What the lease is charged for never falls, not even with the report of a
\* restarted worker or the final one.
UsageNeverFalls == [][lease'.tokens >= lease.tokens]_vars

\* A worker whose lease has been taken away stops, even if its agent runs on.
StopsWhenRevoked == lease.state = "over" ~> pc = "off"

\* A worker that stopped itself is started again only on the contributor's explicit
\* recovery, never by a restart alone.
RetryIsAuthorised == [][pc = "off" /\ pc' # "off" /\ disk.blocked => recovered]_vars
=============================================================================
