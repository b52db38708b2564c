---------------------------- MODULE WorkerProofs ----------------------------
(***************************************************************************)
(* Proofs about Worker, for every number of events, errors and kills,      *)
(* every reservation and everything an agent may leave, in its runs or     *)
(* after them.                                                             *)
(*                                                                         *)
(* The inductive invariant has three parts besides the types.  PhasesOK:   *)
(* the server stands at the phase the worker is in, or at the one before;  *)
(* state.json has the same phase as memory, since every assignment to it   *)
(* is saved in the same step.  EventsOK: the numbers of the transcript     *)
(* rise by at most one, so that replay_events, which sends the first       *)
(* unacknowledged event, leaves no gap below what is acknowledged.         *)
(* UsageOK: what a child reported is in the meter while it runs and in the *)
(* state otherwise, and Raise moves it from one to the other.              *)
(*                                                                         *)
(* What reviewers are shown needs a second invariant on top (EvidenceInv): *)
(* what is saved with the step that changes it, what the tree looked like  *)
(* when a phase began, what is known of the tree between the check, the    *)
(* tests and the commit, and of the commits that are named, phase by phase.*)
(* What it says of trees it says as long as nothing edits the checkout     *)
(* between the runs (Quiet); what it says of commits, always.              *)
(***************************************************************************)
EXTENDS Worker, TLAPS

AtWork == {"attest", "harness", "check", "test", "close"}
Checkpointing == {"scope", "push", "post"}

\* Where a phase, its checkpoints and its report may be, memory against disk and server.
PhasesOK ==
  /\ disk.done = mem.done /\ disk.phase = mem.phase /\ disk.prepared = mem.prepared
  /\ mem.phase \in {mem.done - 1, mem.done}
  /\ lease.phase \in {mem.done - 1, mem.done}
  /\ ~mem.prepared => mem.done = 0
  /\ pc \in {"clone", "open"} => ~mem.prepared
  /\ pc \notin {"off", "replay", "clone", "open", "stopping"} => mem.prepared
  /\ pc \in {"ping", "submit"} \cup AtWork \cup Checkpointing => mem.phase = mem.done
  /\ pc \in AtWork \cup Checkpointing => lease.phase = mem.done
  /\ pc \in AtWork => mem.done < ReadyPhase
  /\ pc \in Checkpointing => back \in {"next"} \cup AtWork
  /\ pc \in Checkpointing /\ back \in AtWork => mem.done < ReadyPhase

Last == log[Len(log)]

\* A state's numbers are at most one behind the transcript.
Counts(state) ==
  IF Len(log) = 0 THEN state.sequence = 0 /\ state.ack = 0
                  ELSE state.sequence \in {Last - 1, Last} /\ state.ack <= Last

\* Everything a state counts as acknowledged is at the server.
Acknowledges(state) == \A s \in 1..state.ack : trace[s] # 0

\* How the transcript is numbered, and how far the worker and the server know it.
EventsOK ==
  /\ Len(log) <= MaxEvents
  /\ \A i \in DOMAIN log : log[i] \in 1..i /\ log[i] <= Last
  /\ \A i \in 2..Len(log) : log[i] <= log[i - 1] + 1
  /\ Counts(mem) /\ Counts(disk)
  /\ Acknowledges(mem) /\ Acknowledges(disk)
  /\ \A s \in 1..MaxEvents : trace[s] # 0 => trace[s] \in DOMAIN log /\ log[trace[s]] = s
  /\ sending # "written" => disk.sequence = mem.sequence
  /\ sending # "no" => Len(log) > 0 /\ mem.sequence = Last /\ pc \in {"harness", "test"}
  /\ pc \notin {"off", "replay", "stopping"} =>
       \A i \in DOMAIN log : log[i] <= mem.ack \/ (sending # "no" /\ i = Len(log))

\* A child's tokens are in the meter while it runs; otherwise all are in the state.
UsageOK ==
  /\ disk.usage = mem.usage
  /\ meter # None => pc = "harness" \/ (pc \in Checkpointing /\ back = "harness")
  /\ kills = 0 => Usage >= lease.tokens
  /\ pc = "submit" => lease.tokens = Usage

IInv == WorkerTypeOK /\ PhasesOK /\ EventsOK /\ UsageOK
-----------------------------------------------------------------------------
(* Types *)

LeaseRows ==
  [state : {"running", "blocked", "awaiting_review", "over"}, phase : Phases,
   tokens : Tokens, checkpoint : Commits,
   evidence : [redExit : 0..1, red : Commits, green : Commits]]

\* A total is unknown or a number, and at least each of its parts.
LEMMA SumOfTokens ==
  ASSUME NEW a \in Tokens, NEW b \in Tokens
  PROVE  Sum(a, b) \in Tokens /\ Sum(a, b) >= a /\ Sum(a, b) >= b /\ Sum(a, None) = a
BY DEF Sum, Tokens, None

LEMMA MeterIsTokens ==
  ASSUME NEW m \in None..MaxTokens PROVE m \in Tokens
BY WorkerAssumption DEF Tokens, None

\* What the failure of a call or a check does to the state.
LEMMA RaisingState ==
  ASSUME NEW s \in States, meter \in None..MaxTokens
  PROVE  LET r == Raising(s) IN
         /\ r \in States
         /\ r.done = s.done /\ r.phase = s.phase /\ r.prepared = s.prepared
         /\ r.sequence = s.sequence /\ r.ack = s.ack
         /\ r.usage = Sum(s.usage, meter)
<1>1. Sum(s.usage, meter) \in Tokens
  BY MeterIsTokens, SumOfTokens DEF States
<1> QED BY <1>1 DEF Raising, States

\* What a step may do to the server's rows, and to the count of errors.
ServerStep ==
  /\ lease' \in LeaseRows
  /\ lease'.phase \in {mem.done - 1, mem.done}
  /\ lease'.tokens \in {lease.tokens, Usage}
  /\ trace' \in [1..MaxEvents -> 0..MaxEvents]
  /\ \A s \in 1..MaxEvents :
       trace'[s] = trace[s] \/ (trace'[s] \in DOMAIN log /\ log[trace'[s]] = s)
  /\ recovered' \in BOOLEAN /\ errors' \in 0..MaxErrors

FilesStep == cloned' \in BOOLEAN /\ tree' \in Trees /\ head' \in Commits

\* The transcript's numbers, and the states', are natural numbers.
LEMMA LogNumbers ==
  ASSUME IInv
  PROVE  /\ Len(log) \in 0..MaxEvents /\ DOMAIN log = 1..Len(log) /\ MaxEvents \in Nat
         /\ \A i \in DOMAIN log : log[i] \in 1..MaxEvents /\ log[i] \in Nat
         /\ Len(log) # 0 => Last \in Nat
         /\ mem \in States /\ mem.ack \in Nat /\ mem.sequence \in Nat
         /\ disk \in States /\ disk.ack \in Nat /\ disk.sequence \in Nat
<1>1. MaxEvents \in Nat /\ log \in Seq(1..MaxEvents) /\ {mem, disk} \subseteq States
  BY WorkerAssumption DEF IInv, WorkerTypeOK
<1>2. \A i \in DOMAIN log : log[i] \in 1..MaxEvents
  BY <1>1
<1>3. Len(log) \in 0..MaxEvents /\ DOMAIN log = 1..Len(log)
  BY <1>1 DEF IInv, EventsOK
<1>4. Len(log) # 0 => Last \in Nat
  BY <1>2, <1>3 DEF Last
<1> QED BY <1>1, <1>2, <1>3, <1>4 DEF States

\* What a step may do to the events without sending or writing any.
QuietEvents ==
  /\ UNCHANGED log
  /\ mem'.sequence = mem.sequence /\ mem'.ack = mem.ack
  /\ disk' = disk \/ disk' = mem'
  /\ sending' = sending \/ (sending' = "no" /\ disk' = mem')
  /\ sending' # "no" => pc' = pc
  /\ \/ pc' \in {"stopping", "off"}
     \/ pc \notin {"off", "replay", "stopping"} /\ sending' = sending

LEMMA QuietEventsKeep ==
  ASSUME IInv, ServerStep, QuietEvents
  PROVE  EventsOK'
<1>1. Counts(mem)' /\ Counts(disk)'
  BY DEF IInv, EventsOK, QuietEvents, Counts, Last
<1>2. \A s \in 1..MaxEvents : trace'[s] # 0 => trace'[s] \in DOMAIN log /\ log[trace'[s]] = s
  BY DEF IInv, EventsOK, ServerStep
<1>3. \A s \in 1..MaxEvents : trace[s] # 0 => trace'[s] # 0
  BY DEF IInv, WorkerTypeOK, EventsOK, ServerStep
<1>4. Acknowledges(mem)' /\ Acknowledges(disk)'
  <2>1. mem.ack <= MaxEvents /\ disk.ack <= MaxEvents /\ MaxEvents \in Nat /\ mem.ack \in Nat /\ disk.ack \in Nat
    BY WorkerAssumption DEF IInv, WorkerTypeOK, States
  <2> QED BY <1>3, <2>1 DEF IInv, EventsOK, QuietEvents, Acknowledges
<1>5. sending' # "written" => disk'.sequence = mem'.sequence
  BY DEF IInv, EventsOK, QuietEvents
<1>6. sending' # "no" => Len(log) > 0 /\ mem'.sequence = Last /\ pc' \in {"harness", "test"}
  BY DEF IInv, EventsOK, QuietEvents
<1>7. pc' \notin {"off", "replay", "stopping"} =>
       \A i \in DOMAIN log : log[i] <= mem'.ack \/ (sending' # "no" /\ i = Len(log))
  BY DEF IInv, EventsOK, QuietEvents
<1>8. UNCHANGED log
  BY DEF QuietEvents
<1> QED BY <1>1, <1>2, <1>4, <1>5, <1>6, <1>7, <1>8 DEF IInv, EventsOK, Last

\* A failure keeps the invariant, whatever the server and the agent did before it.
LEMMA RaiseKeeps ==
  ASSUME IInv, Raise, ServerStep, FilesStep, UNCHANGED <<fixed, log>>
  PROVE  IInv'
<1>1. mem' = Raising(mem) /\ disk' = mem' /\ mem \in States /\ meter \in None..MaxTokens
  BY DEF IInv, WorkerTypeOK, Raise, Save
<1>2. /\ mem' \in States
      /\ mem'.done = mem.done /\ mem'.phase = mem.phase /\ mem'.prepared = mem.prepared
      /\ mem'.sequence = mem.sequence /\ mem'.ack = mem.ack
      /\ mem'.usage = Sum(mem.usage, meter)
  BY <1>1, RaisingState
<1>3. pc' = "stopping" /\ back' = "off" /\ sending' = "no" /\ meter' = None
  BY DEF Raise
<1>4. meter' \in None..MaxTokens
  BY <1>3, WorkerAssumption DEF None
<1>5. WorkerTypeOK'
  BY <1>1, <1>2, <1>3, <1>4 DEF IInv, WorkerTypeOK, ServerStep, FilesStep, LeaseRows, Places, fixed
<1>6. PhasesOK'
  BY <1>1, <1>2, <1>3 DEF IInv, PhasesOK, ServerStep, AtWork, Checkpointing
<1>7. EventsOK'
  BY <1>1, <1>2, <1>3, QuietEventsKeep DEF QuietEvents
<1>8. UsageOK'
  <2>1. Usage' = Usage /\ Usage \in Tokens
    BY <1>1, <1>2, <1>3, MeterIsTokens, SumOfTokens DEF Usage, States
  <2>2. kills' = 0 => Usage' >= lease'.tokens
    BY <2>1 DEF IInv, UsageOK, ServerStep, fixed, Tokens, None
  <2> QED BY <1>1, <1>3, <2>2 DEF UsageOK
<1> QED BY <1>5, <1>6, <1>7, <1>8 DEF IInv
-----------------------------------------------------------------------------
(* Steps in general *)

\* A step that leaves the server alone.
LEMMA IdleServer ==
  ASSUME IInv, UNCHANGED server,
         errors' = errors \/ (errors < MaxErrors /\ errors' = errors + 1)
  PROVE  ServerStep
<1>1. errors' \in 0..MaxErrors
  BY WorkerAssumption DEF IInv, WorkerTypeOK
<1> QED BY <1>1 DEF IInv, WorkerTypeOK, PhasesOK, ServerStep, server, LeaseRows

LEMMA IdleFiles == IInv /\ UNCHANGED files => FilesStep
BY DEF IInv, WorkerTypeOK, FilesStep, files

LEMMA UsageIsTokens == IInv => Usage \in Tokens
BY MeterIsTokens, SumOfTokens DEF IInv, WorkerTypeOK, States, Usage

\* A call that is refused stops the worker.
LEMMA RefusedKeeps ==
  ASSUME IInv, Refused, FilesStep, UNCHANGED <<fixed, log>>
  PROVE  IInv'
BY IdleServer, RaiseKeeps DEF Refused

\* A step that neither sends nor writes events, from the parts of the invariant it
\* has to show.
LEMMA StepKeeps ==
  ASSUME IInv, UNCHANGED fixed, ServerStep, FilesStep, QuietEvents,
         mem' \in States, meter' \in None..MaxTokens,
         pc' \in Places, back' \in Places, sending' \in {"no", "written", "saved"},
         PhasesOK', UsageOK'
  PROVE  IInv'
<1>1. WorkerTypeOK'
  BY DEF IInv, WorkerTypeOK, ServerStep, FilesStep, LeaseRows, fixed, QuietEvents
<1> QED BY <1>1, QuietEventsKeep DEF IInv

\* One that only moves on, and leaves memory, state.json and the meter alone.
LEMMA MoveKeeps ==
  ASSUME IInv, UNCHANGED <<fixed, local, log, sending>>, ServerStep, FilesStep,
         pc' \in Places, back' \in Places, PhasesOK',
         sending # "no" => pc' = pc,
         pc' = "off" \/ pc \notin {"off", "replay", "stopping"},
         meter # None => pc' = "harness" \/ (pc' \in Checkpointing /\ back' = "harness"),
         pc' = "submit" => lease'.tokens = Usage
  PROVE  IInv'
<1>1. mem' \in States /\ meter' \in None..MaxTokens /\ sending' \in {"no", "written", "saved"}
  BY DEF IInv, WorkerTypeOK, local
<1>2. QuietEvents
  BY DEF QuietEvents, local
<1>3. Usage' = Usage /\ Usage \in Tokens
  BY UsageIsTokens DEF Usage, local
<1>4. UsageOK'
  BY <1>3 DEF IInv, UsageOK, ServerStep, local, fixed, Tokens, None
<1> QED BY <1>1, <1>2, <1>4, StepKeeps

\* ping() either stops the worker or writes the phase and the total to the lease.
LEMMA PingKeeps ==
  ASSUME IInv, mem.phase = mem.done, NEW ACTION go, Ping(go),
         UNCHANGED <<fixed, log, files>>
  PROVE  \/ IInv'
         \/ go /\ ServerStep /\ lease'.phase = mem.done /\ lease'.tokens = Usage
<1>1. Usage \in Tokens /\ FilesStep /\ lease \in LeaseRows /\ mem.phase \in Phases
  BY UsageIsTokens, IdleFiles DEF IInv, WorkerTypeOK, LeaseRows, States
<1>2. CASE ~MayBeat /\ Refused
  BY <1>1, <1>2, RefusedKeeps
<1>3. ASSUME UNCHANGED <<trace, recovered>>,
             lease' = [lease EXCEPT !.phase = mem.phase, !.tokens = Usage,
                               !.state = IF Usage >= Reserved THEN "blocked" ELSE @],
             errors' = errors \/ (errors < MaxErrors /\ errors' = errors + 1)
      PROVE  ServerStep /\ lease'.phase = mem.done /\ lease'.tokens = Usage
  <2>1. lease' \in LeaseRows /\ lease'.phase = mem.phase /\ lease'.tokens = Usage
    BY <1>1, <1>3 DEF LeaseRows
  <2>2. errors' \in 0..MaxErrors
    BY <1>3, WorkerAssumption DEF IInv, WorkerTypeOK
  <2> QED BY <1>3, <2>1, <2>2 DEF IInv, WorkerTypeOK, ServerStep
<1>4. ASSUME ServerStep, Raise PROVE IInv'
  BY <1>1, <1>4, RaiseKeeps
<1> QED BY <1>2, <1>3, <1>4 DEF Ping, Answered

\* A step of the phase machine: memory may change, and may be saved, while no child runs.
LEMMA AdvanceKeeps ==
  ASSUME IInv, UNCHANGED <<fixed, log, server, errors, meter>>, FilesStep,
         sending = "no", sending' = "no", meter = None,
         pc \notin {"off", "replay", "stopping"}, pc' \in Places \ {"submit"}, back' \in Places,
         mem' \in States, disk' = disk \/ disk' = mem',
         mem'.sequence = mem.sequence, mem'.ack = mem.ack, mem'.usage = mem.usage,
         PhasesOK'
  PROVE  IInv'
<1>1. QuietEvents /\ ServerStep
  BY IdleServer DEF QuietEvents
<1>2. Usage' = Usage
  BY DEF Usage
<1>3. UsageOK'
  BY <1>2 DEF IInv, UsageOK, fixed, server
<1>4. meter' \in None..MaxTokens
  BY DEF IInv, WorkerTypeOK
<1> QED BY <1>1, <1>3, <1>4, StepKeeps

\* A phase that is complete goes on to the next one.
LEMMA CompletedKeeps ==
  ASSUME IInv, UNCHANGED <<fixed, log, server, errors, meter>>, FilesStep,
         pc \in AtWork \ {"harness"}, sending = "no", Go("next"),
         NEW s \in States, Save(Completed(s)),
         s.done = mem.done, s.phase = mem.phase, s.prepared = mem.prepared,
         s.sequence = mem.sequence, s.ack = mem.ack, s.usage = mem.usage
  PROVE  IInv'
<1> DEFINE t == Completed(s)
<1>1. mem.done \in Phases /\ mem.done < ReadyPhase
  BY DEF IInv, PhasesOK, WorkerTypeOK, States
<1>2. mem.done + 1 \in Phases
  BY <1>1 DEF Phases, ReadyPhase
<1>3. /\ t \in States /\ t.done = mem.done + 1 /\ t.phase = mem.phase /\ t.prepared = mem.prepared
      /\ t.sequence = mem.sequence /\ t.ack = mem.ack /\ t.usage = mem.usage
  BY <1>2 DEF Completed, States
<1>4. mem' = t /\ disk' = t
  BY DEF Save
<1> HIDE DEF t
<1>5. pc' = "next" /\ back' = back /\ sending' = "no"
  BY DEF Go
<1>6. PhasesOK'
  BY <1>1, <1>3, <1>4, <1>5 DEF IInv, PhasesOK, AtWork, Checkpointing, server, Phases
<1>7. meter = None
  BY DEF IInv, UsageOK, AtWork, Checkpointing
<1> QED BY <1>3, <1>4, <1>5, <1>6, <1>7, AdvanceKeeps DEF IInv, WorkerTypeOK, Places, AtWork
-----------------------------------------------------------------------------
(* Starting *)

LEMMA BeginKeeps == IInv /\ Begin => IInv'
<1> SUFFICES ASSUME IInv, Begin PROVE IInv'
  OBVIOUS
<1>1. disk \in States
  BY DEF IInv, WorkerTypeOK
<1>2. /\ mem' \in States
      /\ mem'.done = disk.done /\ mem'.phase = disk.phase /\ mem'.prepared = disk.prepared
      /\ mem'.sequence = disk.sequence /\ mem'.ack = disk.ack /\ mem'.usage = disk.usage
  BY <1>1 DEF Begin, States
<1>3. pc = "off" /\ pc' = "replay" /\ back' = back /\ sending' = sending /\ meter' = None
  BY DEF Begin, Go
<1>4. meter = None /\ sending = "no" /\ None \in None..MaxTokens
  BY <1>3, WorkerAssumption DEF IInv, UsageOK, EventsOK, Checkpointing, None
<1>5. UNCHANGED <<fixed, disk, log, files, lease, trace, errors>> /\ recovered' = FALSE
  BY DEF Begin
<1>6. WorkerTypeOK'
  BY <1>2, <1>3, <1>4, <1>5 DEF IInv, WorkerTypeOK, Places, fixed, files
<1>7. PhasesOK'
  BY <1>2, <1>3, <1>5 DEF IInv, PhasesOK, AtWork, Checkpointing
<1>8. EventsOK'
  BY <1>2, <1>3, <1>4, <1>5 DEF IInv, EventsOK, Counts, Acknowledges, Last
<1>9. UsageOK'
  BY <1>2, <1>3, <1>4, <1>5 DEF IInv, UsageOK, Usage, Checkpointing, fixed
<1> QED BY <1>6, <1>7, <1>8, <1>9 DEF IInv

\* What is stored under a number that was free, or stored already, is that event.
LEMMA StoreIsServerStep ==
  ASSUME IInv, NEW i \in DOMAIN log, Stores(i), Store(i),
         errors' = errors \/ (errors < MaxErrors /\ errors' = errors + 1)
  PROVE  ServerStep /\ trace'[log[i]] # 0
<1>1. log[i] \in 1..MaxEvents /\ i \in 1..MaxEvents /\ i \in 0..MaxEvents
  BY WorkerAssumption DEF IInv, WorkerTypeOK, EventsOK
<1>2. trace' = [trace EXCEPT ![log[i]] = i] /\ trace \in [1..MaxEvents -> 0..MaxEvents]
  BY DEF Store, IInv, WorkerTypeOK
<1>3. trace' \in [1..MaxEvents -> 0..MaxEvents] /\ trace'[log[i]] = i
  BY <1>1, <1>2
<1>4. \A s \in 1..MaxEvents :
        trace'[s] = trace[s] \/ (trace'[s] \in DOMAIN log /\ log[trace'[s]] = s)
  BY <1>1, <1>2
<1>5. errors' \in 0..MaxErrors
  BY WorkerAssumption DEF IInv, WorkerTypeOK
<1> QED BY <1>1, <1>3, <1>4, <1>5 DEF IInv, WorkerTypeOK, PhasesOK, ServerStep, Store, LeaseRows

\* The first event that is not acknowledged has the number after the last that is.
LEMMA FirstUnsent ==
  ASSUME IInv, NEW i \in DOMAIN log, Unsent(i), \A j \in 1..i - 1 : ~Unsent(j)
  PROVE  log[i] = mem.ack + 1
<1>1. mem.ack \in Nat /\ i \in 1..Len(log) /\ Len(log) \in Nat /\ \A j \in DOMAIN log : log[j] \in Nat
  BY LogNumbers
<1>2. CASE i = 1
  BY <1>1, <1>2 DEF IInv, EventsOK, Unsent
<1>3. CASE i # 1
  <2>1. i - 1 \in DOMAIN log /\ i - 1 \in 1..i - 1 /\ i \in 2..Len(log)
    BY <1>1, <1>3
  <2>2. log[i - 1] <= mem.ack
    BY <1>1, <2>1 DEF Unsent
  <2> QED BY <1>1, <2>1, <2>2 DEF IInv, EventsOK, Unsent
<1> QED BY <1>2, <1>3

LEMMA ReplayEventsKeeps == IInv /\ ReplayEvents => IInv'
<1> SUFFICES ASSUME IInv, ReplayEvents PROVE IInv'
  OBVIOUS
<1>0. pc = "replay" /\ UNCHANGED <<fixed, log, files>> /\ FilesStep
  BY IdleFiles DEF ReplayEvents
<1>a. meter = None /\ sending = "no" /\ mem \in States /\ disk \in States /\ None \in None..MaxTokens
  BY <1>0, WorkerAssumption DEF IInv, WorkerTypeOK, UsageOK, EventsOK, Checkpointing, None
<1>1. CASE /\ \A i \in DOMAIN log : ~Unsent(i)
           /\ Save(mem) /\ Go(IF mem.prepared THEN "next" ELSE "clone")
           /\ UNCHANGED <<meter, server, errors>>
  <2>1. mem' = mem /\ disk' = mem /\ back' = back /\ sending' = sending /\ UNCHANGED <<meter, server, errors>>
    BY <1>1 DEF Save, Go
  <2>2. (pc' = "next" /\ mem.prepared) \/ (pc' = "clone" /\ ~mem.prepared)
    BY <1>1, <1>a DEF Go, States
  <2>3. \A i \in DOMAIN log : log[i] <= mem.ack
    BY <1>1, LogNumbers DEF Unsent
  <2>4. WorkerTypeOK'
    BY <1>0, <1>a, <2>1, <2>2 DEF IInv, WorkerTypeOK, Places, fixed, files, server
  <2>5. PhasesOK'
    BY <2>1, <2>2 DEF IInv, PhasesOK, AtWork, Checkpointing, server
  <2>6. EventsOK'
    BY <1>0, <1>a, <2>1, <2>2, <2>3 DEF IInv, EventsOK, Counts, Acknowledges, Last, server
  <2>7. UsageOK'
    BY <1>0, <1>a, <2>1, <2>2 DEF IInv, UsageOK, Usage, Checkpointing, fixed, server
  <2> QED BY <2>4, <2>5, <2>6, <2>7 DEF IInv
<1>2. ASSUME NEW i \in DOMAIN log, Unsent(i), \A j \in 1..i - 1 : ~Unsent(j), Stores(i), Store(i),
             errors' = errors \/ (errors < MaxErrors /\ errors' = errors + 1)
      PROVE  ServerStep /\ trace'[log[i]] # 0 /\ log[i] = mem.ack + 1
  BY <1>2, StoreIsServerStep, FirstUnsent
<1>3. ASSUME NEW i \in DOMAIN log, ServerStep, trace'[log[i]] # 0, log[i] = mem.ack + 1,
             Go("replay"), mem' = [mem EXCEPT !.ack = log[i]], UNCHANGED <<disk, meter>>
      PROVE  IInv'
  <2>1. log[i] \in 0..MaxEvents /\ log[i] <= Last /\ Len(log) # 0
    BY WorkerAssumption DEF IInv, WorkerTypeOK, EventsOK
  <2>2. /\ mem' \in States /\ mem'.ack = log[i]
        /\ mem'.done = mem.done /\ mem'.phase = mem.phase /\ mem'.prepared = mem.prepared
        /\ mem'.sequence = mem.sequence /\ mem'.usage = mem.usage
    BY <1>a, <1>3, <2>1 DEF States
  <2>3. pc' = "replay" /\ back' = back /\ sending' = "no" /\ meter' = None /\ disk' = disk
    BY <1>a, <1>3 DEF Go
  <2>4. WorkerTypeOK'
    BY <1>0, <1>a, <1>3, <2>2, <2>3
       DEF IInv, WorkerTypeOK, Places, ServerStep, FilesStep, fixed, LeaseRows
  <2>5. PhasesOK'
    BY <1>3, <2>2, <2>3 DEF IInv, PhasesOK, AtWork, Checkpointing, ServerStep
  <2>6. \A s \in 1..MaxEvents : trace[s] # 0 => trace'[s] # 0
    BY <1>3 DEF IInv, WorkerTypeOK, EventsOK, ServerStep
  <2>7. Acknowledges(mem)' /\ Acknowledges(disk)'
    <3>1. mem.ack \in 0..MaxEvents /\ disk.ack \in 0..MaxEvents /\ MaxEvents \in Nat
      BY <1>a, WorkerAssumption DEF States
    <3> QED BY <1>3, <2>1, <2>2, <2>3, <2>6, <3>1 DEF IInv, EventsOK, Acknowledges
  <2>8. Counts(mem)' /\ Counts(disk)'
    BY <1>0, <2>1, <2>2, <2>3 DEF IInv, EventsOK, Counts, Last
  <2>9. \A s \in 1..MaxEvents : trace'[s] # 0 => trace'[s] \in DOMAIN log /\ log[trace'[s]] = s
    BY <1>3 DEF IInv, EventsOK, ServerStep
  <2>10. EventsOK'
    BY <1>0, <1>a, <2>2, <2>3, <2>7, <2>8, <2>9 DEF IInv, EventsOK, Last
  <2>11. UsageOK'
    BY <1>0, <1>a, <1>3, <2>2, <2>3, UsageIsTokens
       DEF IInv, UsageOK, Usage, ServerStep, fixed, Tokens, None
  <2> QED BY <2>4, <2>5, <2>10, <2>11 DEF IInv
<1>4. ASSUME ServerStep, Raise PROVE IInv'
  BY <1>0, <1>4, RaiseKeeps
<1>5. CASE Refused
  BY <1>0, <1>5, RefusedKeeps
<1> QED BY <1>1, <1>2, <1>3, <1>4, <1>5 DEF ReplayEvents, Answered

LEMMA CloneKeeps == IInv /\ Clone => IInv'
<1> SUFFICES ASSUME IInv, Clone PROVE IInv'
  OBVIOUS
<1>1. pc = "clone" /\ UNCHANGED <<fixed, log, tree, head>>
  BY DEF Clone
<1>2. CASE cloned /\ Refused /\ UNCHANGED cloned
  BY <1>1, <1>2, RefusedKeeps DEF IInv, WorkerTypeOK, FilesStep
<1>3. CASE ~cloned /\ cloned' = TRUE /\ Go("open") /\ UNCHANGED <<local, server, errors>>
  <2>1. FilesStep /\ ServerStep
    BY <1>1, <1>3, IdleServer DEF IInv, WorkerTypeOK, FilesStep
  <2>2. pc' = "open" /\ UNCHANGED <<back, sending>>
    BY <1>3 DEF Go
  <2>3. PhasesOK'
    BY <1>1, <1>3, <2>2 DEF IInv, PhasesOK, AtWork, Checkpointing, local, server
  <2>4. meter = None /\ back \in Places /\ sending = "no"
    BY <1>1 DEF IInv, WorkerTypeOK, UsageOK, EventsOK, Checkpointing
  <2> QED BY <1>1, <1>3, <2>1, <2>2, <2>3, <2>4, MoveKeeps DEF Places
<1> QED BY <1>2, <1>3 DEF Clone

LEMMA OpenKeeps == IInv /\ Open => IInv'
<1> SUFFICES ASSUME IInv, Open PROVE IInv'
  OBVIOUS
<1>1. /\ pc = "open" /\ mem' = [mem EXCEPT !.prepared = TRUE] /\ disk' = mem'
      /\ pc' = "scope" /\ back' = "next" /\ sending' = sending
      /\ UNCHANGED <<fixed, meter, log, files, server, errors>>
  BY DEF Open, Save, CheckpointThen
<1>2. /\ mem' \in States /\ mem'.prepared = TRUE
      /\ mem'.done = mem.done /\ mem'.phase = mem.phase
      /\ mem'.sequence = mem.sequence /\ mem'.ack = mem.ack /\ mem'.usage = mem.usage
  BY <1>1, LogNumbers DEF States
<1>3. meter = None /\ sending = "no"
  BY <1>1 DEF IInv, UsageOK, EventsOK, Checkpointing
<1>4. mem.done = 0 /\ mem.phase = 0 /\ lease.phase = 0
  BY <1>1 DEF IInv, PhasesOK, WorkerTypeOK, States, Phases
<1>5. PhasesOK'
  BY <1>1, <1>2, <1>4 DEF PhasesOK, AtWork, Checkpointing, server
<1> QED BY <1>1, <1>2, <1>3, <1>5, AdvanceKeeps, IdleFiles DEF Places
-----------------------------------------------------------------------------
(* Heartbeats and checkpoints *)

LEMMA TickKeeps == IInv /\ Tick => IInv'
<1> SUFFICES ASSUME IInv, Tick PROVE IInv'
  OBVIOUS
<1>1. /\ pc \in {"harness", "test"} /\ sending = "no" /\ mem.phase = mem.done
      /\ Ping(Go(pc) /\ UNCHANGED local) /\ UNCHANGED <<fixed, log, files>>
  BY DEF IInv, PhasesOK, Tick, Supervising, AtWork
<1>2. \/ IInv'
      \/ (Go(pc) /\ UNCHANGED local) /\ ServerStep /\ lease'.phase = mem.done /\ lease'.tokens = Usage
  BY <1>1, PingKeeps
<1>3. CASE (Go(pc) /\ UNCHANGED local) /\ ServerStep /\ lease'.phase = mem.done /\ lease'.tokens = Usage
  <2>1. PhasesOK'
    BY <1>1, <1>3 DEF IInv, PhasesOK, AtWork, Checkpointing, local, Go
  <2>2. pc' = pc /\ back' = back /\ sending' = sending
    BY <1>3 DEF Go
  <2>3. meter # None => pc' = "harness"
    BY <1>1, <2>2 DEF IInv, UsageOK, Checkpointing
  <2> QED BY <1>1, <1>3, <2>1, <2>2, <2>3, MoveKeeps, IdleFiles DEF IInv, WorkerTypeOK
<1> QED BY <1>2, <1>3

LEMMA TickCheckpointKeeps == IInv /\ TickCheckpoint => IInv'
<1> SUFFICES ASSUME IInv, TickCheckpoint PROVE IInv'
  OBVIOUS
<1>1. /\ pc \in {"harness", "test"} /\ sending = "no"
      /\ pc' = "scope" /\ back' = pc /\ sending' = sending
      /\ UNCHANGED <<fixed, local, log, files, server, errors>>
  BY DEF TickCheckpoint, Supervising, CheckpointThen
<1>2. PhasesOK'
  BY <1>1 DEF IInv, PhasesOK, AtWork, Checkpointing, local, server
<1>3. ServerStep /\ FilesStep
  BY <1>1, IdleServer, IdleFiles
<1>4. meter # None => back' = "harness"
  BY <1>1 DEF IInv, UsageOK, Checkpointing
<1> QED BY <1>1, <1>2, <1>3, <1>4, MoveKeeps DEF Places, Checkpointing

LEMMA CheckScopeKeeps == IInv /\ CheckScope => IInv'
<1> SUFFICES ASSUME IInv, CheckScope PROVE IInv'
  OBVIOUS
<1>1. /\ pc = "scope" /\ mem.phase = mem.done /\ UNCHANGED <<fixed, log, files>> /\ FilesStep
  BY IdleFiles DEF IInv, PhasesOK, CheckScope, Checkpointing
<1>2. CASE Refused
  BY <1>1, <1>2, RefusedKeeps
<1>3. CASE Ping(Go("push") /\ UNCHANGED local)
  <2>1. \/ IInv'
        \/ (Go("push") /\ UNCHANGED local) /\ ServerStep /\ lease'.phase = mem.done
             /\ lease'.tokens = Usage
    BY <1>1, <1>3, PingKeeps
  <2>2. CASE (Go("push") /\ UNCHANGED local) /\ ServerStep /\ lease'.phase = mem.done
               /\ lease'.tokens = Usage
    <3>1. pc' = "push" /\ back' = back /\ sending' = sending /\ UNCHANGED local
      BY <2>2 DEF Go
    <3>2. PhasesOK'
      BY <1>1, <2>2, <3>1 DEF IInv, PhasesOK, AtWork, Checkpointing, local
    <3>3. (meter # None => back = "harness") /\ sending = "no"
      BY <1>1 DEF IInv, UsageOK, EventsOK
    <3> QED BY <1>1, <2>2, <3>1, <3>2, <3>3, MoveKeeps
            DEF IInv, WorkerTypeOK, Places, Checkpointing
  <2> QED BY <2>1, <2>2
<1> QED BY <1>2, <1>3 DEF CheckScope

LEMMA PushKeeps == IInv /\ Push => IInv'
<1> SUFFICES ASSUME IInv, Push PROVE IInv'
  OBVIOUS
<1>1. /\ pc = "push" /\ pc' = "post" /\ back' = back /\ sending' = sending
      /\ UNCHANGED <<fixed, local, log, cloned, tree, server, errors>>
  BY DEF Push, Go
<1>2. head' \in Commits
  <2>1. head \in Commits /\ tree \in Trees
    BY DEF IInv, WorkerTypeOK
  <2>2. [below |-> head.below + 1, tree |-> tree] \in Commits
    BY <2>1 DEF Commits
  <2> QED BY <2>1, <2>2 DEF Push
<1>3. FilesStep /\ ServerStep
  BY <1>1, <1>2, IdleServer DEF IInv, WorkerTypeOK, FilesStep
<1>4. PhasesOK'
  BY <1>1 DEF IInv, PhasesOK, AtWork, Checkpointing, local, server
<1>5. (meter # None => back = "harness") /\ sending = "no"
  BY <1>1 DEF IInv, UsageOK, EventsOK
<1> QED BY <1>1, <1>3, <1>4, <1>5, MoveKeeps DEF IInv, WorkerTypeOK, Places, Checkpointing

LEMMA PostCheckpointKeeps == IInv /\ PostCheckpoint => IInv'
<1> SUFFICES ASSUME IInv, PostCheckpoint PROVE IInv'
  OBVIOUS
<1>1. pc = "post" /\ UNCHANGED <<fixed, log, files>> /\ FilesStep /\ mem \in States
  BY IdleFiles, LogNumbers DEF PostCheckpoint
<1>2. CASE Refused
  BY <1>1, <1>2, RefusedKeeps
<1>3. ASSUME lease' = [lease EXCEPT !.checkpoint = head], UNCHANGED <<trace, recovered>>,
             errors' = errors \/ (errors < MaxErrors /\ errors' = errors + 1)
      PROVE  ServerStep /\ lease'.phase = lease.phase /\ lease'.tokens = lease.tokens
  <2>1. /\ lease' \in LeaseRows /\ lease'.phase = lease.phase /\ lease'.tokens = lease.tokens
    BY <1>3 DEF IInv, WorkerTypeOK, LeaseRows
  <2>2. errors' \in 0..MaxErrors
    BY <1>3, WorkerAssumption DEF IInv, WorkerTypeOK
  <2> QED BY <1>3, <2>1, <2>2 DEF IInv, WorkerTypeOK, PhasesOK, ServerStep
<1>4. ASSUME ServerStep, Raise PROVE IInv'
  BY <1>1, <1>4, RaiseKeeps
<1>5. ASSUME ServerStep, lease'.phase = lease.phase, lease'.tokens = lease.tokens,
             pc' = back, back' = "off", UNCHANGED sending,
             Save([mem EXCEPT !.checkpoint = head]), UNCHANGED meter
      PROVE  IInv'
  <2>1. /\ mem' \in States /\ disk' = mem'
        /\ mem'.done = mem.done /\ mem'.phase = mem.phase /\ mem'.prepared = mem.prepared
        /\ mem'.sequence = mem.sequence /\ mem'.ack = mem.ack /\ mem'.usage = mem.usage
    BY <1>1, <1>5 DEF Save, States, IInv, WorkerTypeOK
  <2>2. sending = "no" /\ back \in {"next"} \cup AtWork
    BY <1>1 DEF IInv, EventsOK, PhasesOK, Checkpointing
  <2>3. PhasesOK'
    BY <1>1, <1>5, <2>1, <2>2 DEF IInv, PhasesOK, AtWork, Checkpointing
  <2>4. UsageOK'
    BY <1>1, <1>5, <2>1, <2>2 DEF IInv, UsageOK, Usage, AtWork, Checkpointing, fixed
  <2>5. QuietEvents
    BY <1>1, <1>5, <2>1, <2>2 DEF QuietEvents
  <2>6. meter' \in None..MaxTokens /\ sending' \in {"no", "written", "saved"}
    BY <1>5 DEF IInv, WorkerTypeOK
  <2> QED BY <1>1, <1>5, <2>1, <2>2, <2>3, <2>4, <2>5, <2>6, StepKeeps DEF Places, AtWork
<1> QED BY <1>2, <1>3, <1>4, <1>5 DEF PostCheckpoint, Answered
-----------------------------------------------------------------------------
(* Events *)

LEMMA WriteEventKeeps == IInv /\ WriteEvent => IInv'
<1> SUFFICES ASSUME IInv, WriteEvent PROVE IInv'
  OBVIOUS
<1> DEFINE n == mem.sequence + 1
<1>1. /\ pc \in {"harness", "test"} /\ sending = "no" /\ Len(log) < MaxEvents
      /\ mem' = [mem EXCEPT !.sequence = n] /\ log' = Append(log, mem'.sequence)
      /\ sending' = "written"
      /\ UNCHANGED <<fixed, pc, back, disk, meter, files, server, errors>>
  BY DEF WriteEvent, Supervising
<1>2. /\ Len(log) \in Nat /\ MaxEvents \in Nat /\ mem \in States
      /\ mem.sequence \in Nat /\ mem.ack \in Nat /\ disk.sequence \in Nat /\ disk.ack \in Nat
      /\ \A i \in 1..Len(log) : log[i] \in Nat /\ log[i] \in 1..i /\ log[i] <= Last
      /\ DOMAIN log = 1..Len(log) /\ (Len(log) # 0 => Last \in Nat) /\ log \in Seq(1..MaxEvents)
  BY LogNumbers DEF IInv, EventsOK, WorkerTypeOK
<1>3. n <= Len(log) + 1
  <2>1. Len(log) # 0 => Last <= Len(log)
    BY <1>2 DEF Last
  <2> QED BY <1>2, <2>1 DEF IInv, EventsOK, Counts
<1>4. n \in 1..MaxEvents
  BY <1>1, <1>2, <1>3
<1>5. /\ mem' \in States /\ mem'.sequence = n
      /\ mem'.done = mem.done /\ mem'.phase = mem.phase /\ mem'.prepared = mem.prepared
      /\ mem'.ack = mem.ack /\ mem'.usage = mem.usage
  BY <1>1, <1>2, <1>4 DEF States
<1>6. /\ log' \in Seq(1..MaxEvents) /\ Len(log') = Len(log) + 1
      /\ log'[Len(log) + 1] = n
      /\ \A i \in 1..Len(log) : log'[i] = log[i]
  BY <1>1, <1>2, <1>4, <1>5
<1>7. Last' = n /\ (Len(log) # 0 => n \in {Last, Last + 1})
  BY <1>2, <1>6 DEF IInv, EventsOK, Counts, Last
<1> HIDE DEF n
<1>8. WorkerTypeOK'
  BY <1>1, <1>5, <1>6 DEF IInv, WorkerTypeOK, fixed, files, server
<1>9. PhasesOK'
  BY <1>1, <1>5 DEF IInv, PhasesOK, AtWork, Checkpointing, server
<1>10. EventsOK'
  <2>1. DOMAIN log' = 1..Len(log) + 1
    BY <1>6
  <2>2. \A i \in DOMAIN log' : log'[i] \in 1..i /\ log'[i] <= Last'
    <3> SUFFICES ASSUME NEW i \in 1..Len(log) + 1 PROVE log'[i] \in 1..i /\ log'[i] <= Last'
      BY <2>1
    <3>1. CASE i = Len(log) + 1
      BY <1>2, <1>3, <1>4, <1>6, <1>7, <3>1
    <3>2. CASE i \in 1..Len(log)
      <4>1. log'[i] = log[i] /\ log[i] \in Nat /\ log[i] \in 1..i /\ log[i] <= Last
        BY <1>2, <1>6, <3>2
      <4>2. Last \in Nat /\ n \in Nat /\ Last <= n
        BY <1>2, <1>4, <1>7, <3>2
      <4> QED BY <1>7, <4>1, <4>2
    <3> QED BY <1>2, <3>1, <3>2
  <2>3. \A i \in 2..Len(log') : log'[i] <= log'[i - 1] + 1
    <3> SUFFICES ASSUME NEW i \in 2..Len(log') PROVE log'[i] <= log'[i - 1] + 1
      OBVIOUS
    <3>1. CASE i \in 2..Len(log)
      <4>1. i \in 1..Len(log) /\ i - 1 \in 1..Len(log)
        BY <1>2, <3>1
      <4>2. log'[i] = log[i] /\ log'[i - 1] = log[i - 1]
        BY <1>6, <4>1
      <4> QED BY <3>1, <4>2 DEF IInv, EventsOK
    <3>2. CASE i = Len(log) + 1
      BY <1>2, <1>4, <1>6, <1>7, <3>2 DEF Last
    <3> QED BY <1>2, <1>6, <3>1, <3>2
  <2>4. Counts(mem)' /\ Counts(disk)'
    <3>1. Len(log') # 0 /\ disk' = disk /\ n \in Nat
      BY <1>1, <1>2, <1>4, <1>6
    <3>2. disk.sequence = mem.sequence /\ mem.ack <= n /\ disk.ack <= n
      BY <1>1, <1>2, <1>7, <3>1 DEF IInv, EventsOK, Counts
    <3>3. mem.sequence = n - 1
      BY <1>2 DEF n
    <3> QED BY <1>5, <1>7, <3>1, <3>2, <3>3 DEF Counts
  <2>5. Acknowledges(mem)' /\ Acknowledges(disk)'
    BY <1>1, <1>5 DEF IInv, EventsOK, Acknowledges, server
  <2>6. \A s \in 1..MaxEvents : trace'[s] # 0 => trace'[s] \in DOMAIN log' /\ log'[trace'[s]] = s
    BY <1>1, <1>2, <1>6, <2>1 DEF IInv, EventsOK, server
  <2>7. \A i \in DOMAIN log' : log'[i] <= mem'.ack \/ i = Len(log')
    BY <1>1, <1>2, <1>5, <1>6, <2>1 DEF IInv, EventsOK
  <2>8. Len(log') <= MaxEvents /\ Len(log') > 0
    BY <1>1, <1>2, <1>6
  <2>9. sending' = "written" /\ pc' \in {"harness", "test"} /\ mem'.sequence = Last'
    BY <1>1, <1>5, <1>7
  <2> QED BY <2>2, <2>3, <2>4, <2>5, <2>6, <2>7, <2>8, <2>9 DEF EventsOK
<1>11. UsageOK'
  BY <1>1, <1>5 DEF IInv, UsageOK, Usage, fixed, server
<1> QED BY <1>8, <1>9, <1>10, <1>11 DEF IInv

LEMMA SaveEventKeeps == IInv /\ SaveEvent => IInv'
<1> SUFFICES ASSUME IInv, SaveEvent PROVE IInv'
  OBVIOUS
<1>1. /\ sending = "written" /\ sending' = "saved" /\ mem' = mem /\ disk' = mem
      /\ UNCHANGED <<fixed, pc, back, meter, log, files, server, errors>>
  BY DEF SaveEvent, Save
<1>2. WorkerTypeOK'
  BY <1>1 DEF IInv, WorkerTypeOK, fixed, files, server
<1>3. PhasesOK'
  BY <1>1 DEF IInv, PhasesOK, server
<1>4. EventsOK'
  BY <1>1 DEF IInv, EventsOK, Counts, Acknowledges, Last, server
<1>5. UsageOK'
  BY <1>1 DEF IInv, UsageOK, Usage, fixed, server
<1> QED BY <1>2, <1>3, <1>4, <1>5 DEF IInv

LEMMA PostEventKeeps == IInv /\ PostEvent => IInv'
<1> SUFFICES ASSUME IInv, PostEvent PROVE IInv'
  OBVIOUS
<1> DEFINE n == Len(log)
<1>1. /\ sending = "saved" /\ UNCHANGED <<fixed, log, files>> /\ FilesStep
      /\ pc \in {"harness", "test"} /\ n > 0 /\ mem.sequence = Last
  BY IdleFiles DEF PostEvent, IInv, EventsOK
<1>2. /\ n \in DOMAIN log /\ DOMAIN log = 1..n /\ n \in Nat /\ log[n] = Last /\ mem \in States /\ MaxEvents \in Nat
      /\ mem.ack \in Nat /\ disk.ack \in Nat /\ Last \in 1..MaxEvents
      /\ \A i \in DOMAIN log : log[i] \in Nat /\ i \in Nat
  BY <1>1, LogNumbers DEF Last
<1>3. CASE Refused
  BY <1>1, <1>3, RefusedKeeps
<1>4. ASSUME Stores(n), Store(n),
             errors' = errors \/ (errors < MaxErrors /\ errors' = errors + 1)
      PROVE  ServerStep /\ trace'[Last] # 0
  BY <1>2, <1>4, StoreIsServerStep
<1>5. ASSUME ServerStep, Raise PROVE IInv'
  BY <1>1, <1>5, RaiseKeeps
<1>6. ASSUME ServerStep, trace'[Last] # 0, Store(n),
             Save([mem EXCEPT !.ack = mem.sequence]), sending' = "no",
             UNCHANGED <<pc, back, meter>>
      PROVE  IInv'
  <2>1. /\ mem' \in States /\ disk' = mem' /\ mem'.ack = Last
        /\ mem'.done = mem.done /\ mem'.phase = mem.phase /\ mem'.prepared = mem.prepared
        /\ mem'.sequence = mem.sequence /\ mem'.usage = mem.usage
    BY <1>1, <1>2, <1>6 DEF Save, States
  <2>2. WorkerTypeOK'
    BY <1>1, <1>6, <2>1
       DEF IInv, WorkerTypeOK, ServerStep, FilesStep, LeaseRows, fixed
  <2>3. PhasesOK'
    BY <1>6, <2>1 DEF IInv, PhasesOK, Store
  <2>4. EventsOK'
    <3>1. \A s \in 1..MaxEvents : trace[s] # 0 => trace'[s] # 0
      BY <1>6 DEF IInv, WorkerTypeOK, EventsOK, ServerStep
    <3>2. Last <= mem.ack + 1
      <4>1. CASE n = 1
        BY <1>2, <4>1 DEF IInv, EventsOK
      <4>2. CASE n # 1
        <5>1. n \in 2..Len(log) /\ n - 1 \in DOMAIN log
          BY <1>1, <1>2, <4>2
        <5>2. \A i \in DOMAIN log : log[i] <= mem.ack \/ i = n
          BY <1>1 DEF IInv, EventsOK
        <5>3. log[n] <= log[n - 1] + 1
          BY <5>1 DEF IInv, EventsOK
        <5> HIDE DEF n
        <5>4. log[n - 1] \in Nat /\ n - 1 # n
          BY <1>2, <5>1
        <5> QED BY <1>2, <5>1, <5>2, <5>3, <5>4
      <4> QED BY <4>1, <4>2
    <3>3. \A s \in 1..Last : trace'[s] # 0
      BY <1>2, <1>6, <3>1, <3>2 DEF IInv, EventsOK, Acknowledges
    <3>4. \A s \in 1..MaxEvents : trace'[s] # 0 => trace'[s] \in DOMAIN log /\ log[trace'[s]] = s
      BY <1>6 DEF IInv, EventsOK, ServerStep
    <3>5. Counts(mem)' /\ Counts(disk)' /\ Acknowledges(mem)' /\ Acknowledges(disk)'
      BY <1>1, <1>2, <2>1, <3>3 DEF Counts, Acknowledges, Last
    <3> QED BY <1>1, <1>2, <1>6, <2>1, <3>4, <3>5 DEF IInv, EventsOK, Last
  <2>5. UsageOK'
    BY <1>1, <1>6, <2>1 DEF IInv, UsageOK, Usage, Store, fixed
  <2> QED BY <2>2, <2>3, <2>4, <2>5 DEF IInv
<1> QED BY <1>3, <1>4, <1>5, <1>6 DEF PostEvent, Answered
-----------------------------------------------------------------------------
(* Phases *)

LEMMA NextPhaseKeeps == IInv /\ NextPhase => IInv'
<1> SUFFICES ASSUME IInv, NextPhase PROVE IInv'
  OBVIOUS
<1>1. /\ pc = "next" /\ pc' = "ping" /\ UNCHANGED <<back, sending>> /\ disk' = mem'
      /\ UNCHANGED <<fixed, meter, log, files, server, errors>>
  BY DEF NextPhase, Go, Save
<1>2. mem \in States /\ mem.done \in Phases /\ tree \in Trees
  BY DEF IInv, WorkerTypeOK, States
<1>3. /\ mem' \in States /\ mem'.phase = mem.done
      /\ mem'.done = mem.done /\ mem'.prepared = mem.prepared
      /\ mem'.sequence = mem.sequence /\ mem'.ack = mem.ack /\ mem'.usage = mem.usage
  BY <1>2 DEF NextPhase, Save, States
<1>4. PhasesOK'
  BY <1>1, <1>3 DEF IInv, PhasesOK, AtWork, Checkpointing, server
<1>5. sending = "no" /\ meter = None
  BY <1>1 DEF IInv, UsageOK, EventsOK, Checkpointing
<1> QED BY <1>1, <1>3, <1>4, <1>5, AdvanceKeeps, IdleFiles DEF IInv, WorkerTypeOK, Places

LEMMA PhasePingKeeps == IInv /\ PhasePing => IInv'
<1> SUFFICES ASSUME IInv, PhasePing PROVE IInv'
  OBVIOUS
<1>1. /\ pc = "ping" /\ mem.phase = mem.done /\ UNCHANGED <<fixed, log, files>>
      /\ Ping(Go(WorkOf(mem.phase)) /\ UNCHANGED local)
  BY DEF IInv, PhasesOK, PhasePing
<1>2. \/ IInv'
      \/ (Go(WorkOf(mem.phase)) /\ UNCHANGED local) /\ ServerStep /\ lease'.phase = mem.done
           /\ lease'.tokens = Usage
  BY <1>1, PingKeeps
<1>3. CASE (Go(WorkOf(mem.phase)) /\ UNCHANGED local) /\ ServerStep /\ lease'.phase = mem.done
             /\ lease'.tokens = Usage
  <2>1. pc' = WorkOf(mem.phase) /\ back' = back /\ sending' = sending /\ UNCHANGED local
    BY <1>3 DEF Go
  <2>2. mem.done \in Phases
    BY DEF IInv, WorkerTypeOK, States
  <2>3. \/ pc' \in {"test", "attest", "harness", "check"} /\ mem.done < ReadyPhase
        \/ pc' = "submit"
    BY <1>1, <2>1, <2>2
       DEF WorkOf, Phases, SpecPhase, GreenPhase, VerifyPhase, ReadyPhase
  <2>4. PhasesOK'
    BY <1>1, <1>3, <2>1, <2>3 DEF IInv, PhasesOK, AtWork, Checkpointing, local
  <2>5. meter = None /\ sending = "no"
    BY <1>1 DEF IInv, UsageOK, EventsOK, Checkpointing
  <2> QED BY <1>1, <1>3, <2>1, <2>3, <2>4, <2>5, MoveKeeps, IdleFiles
          DEF IInv, WorkerTypeOK, Places
<1> QED BY <1>2, <1>3

LEMMA AttestKeeps == IInv /\ Attest => IInv'
<1> SUFFICES ASSUME IInv, Attest PROVE IInv'
  OBVIOUS
<1>1. pc = "attest" /\ UNCHANGED <<fixed, log, files>> /\ FilesStep /\ sending = "no"
  BY IdleFiles DEF Attest, IInv, EventsOK
<1>2. CASE tree.spec # 1 /\ Refused
  BY <1>1, <1>2, RefusedKeeps
<1>3. CASE /\ tree.spec = 1 /\ Go("next") /\ Save(Completed([mem EXCEPT !.spec = tree.spec]))
           /\ UNCHANGED <<meter, server, errors>>
  <2> DEFINE s == [mem EXCEPT !.spec = tree.spec]
  <2>1. /\ s \in States /\ s.done = mem.done /\ s.phase = mem.phase /\ s.prepared = mem.prepared
        /\ s.sequence = mem.sequence /\ s.ack = mem.ack /\ s.usage = mem.usage
    BY <1>3, LogNumbers DEF States
  <2>2. Save(Completed(s))
    BY <1>3
  <2> HIDE DEF s
  <2> QED BY <1>1, <1>3, <2>1, <2>2, CompletedKeeps DEF AtWork
<1> QED BY <1>2, <1>3 DEF Attest

\* A tree is edited, by whatever process.
LEMMA EditsTreeKeeps ==
  ASSUME IInv, EditsTree, strays' \in 0..MaxStrays
  PROVE  IInv'
<1>1. UNCHANGED <<kind, loose, kills, pc, back, sending, local, log, cloned, head, server, errors>>
  BY DEF EditsTree
<1>2. tree' \in Trees
  <2>1. tree \in Trees /\ Edits \subseteq [spec : 0..1, tests : 0..1, code : 0..2]
    BY WorkerAssumption DEF IInv, WorkerTypeOK
  <2> QED BY <2>1 DEF EditsTree, Trees
<1>3. WorkerTypeOK'
  BY <1>1, <1>2 DEF IInv, WorkerTypeOK, local, server
<1>4. PhasesOK' /\ UsageOK'
  BY <1>1 DEF IInv, PhasesOK, UsageOK, Usage, local, server
<1>5. EventsOK'
  BY <1>1 DEF IInv, EventsOK, Counts, Acknowledges, Last, local, server
<1> QED BY <1>3, <1>4, <1>5 DEF IInv

LEMMA HarnessEditsKeeps == IInv /\ HarnessEdits => IInv'
<1> SUFFICES ASSUME IInv, HarnessEdits PROVE IInv'
  OBVIOUS
<1>1. EditsTree /\ strays' \in 0..MaxStrays
  BY DEF HarnessEdits, IInv, WorkerTypeOK
<1> QED BY <1>1, EditsTreeKeeps

LEMMA StrayEditsKeeps == IInv /\ StrayEdits => IInv'
<1> SUFFICES ASSUME IInv, StrayEdits PROVE IInv'
  OBVIOUS
<1>1. EditsTree /\ strays' \in 0..MaxStrays
  BY WorkerAssumption DEF StrayEdits, IInv, WorkerTypeOK
<1> QED BY <1>1, EditsTreeKeeps

\* A process outlives its run: nothing else changes.
LEMMA DetachKeeps == IInv /\ Detach => IInv'
<1> SUFFICES ASSUME IInv, Detach PROVE IInv'
  OBVIOUS
<1>1. /\ UNCHANGED <<kind, strays, kills, pc, back, sending, local, log, files, server>>
      /\ loose' = TRUE /\ errors' \in 0..MaxErrors
  BY WorkerAssumption DEF Detach, IInv, WorkerTypeOK
<1>2. WorkerTypeOK'
  BY <1>1 DEF IInv, WorkerTypeOK, local, files, server
<1>3. PhasesOK' /\ UsageOK'
  BY <1>1 DEF IInv, PhasesOK, UsageOK, Usage, local, server
<1>4. EventsOK'
  BY <1>1 DEF IInv, EventsOK, Counts, Acknowledges, Last, local, server
<1> QED BY <1>2, <1>3, <1>4 DEF IInv

LEMMA HarnessReportsKeeps == IInv /\ HarnessReports => IInv'
<1> SUFFICES ASSUME IInv, HarnessReports PROVE IInv'
  OBVIOUS
<1>1. /\ pc = "harness" /\ sending = "no"
      /\ UNCHANGED <<fixed, pc, back, sending, mem, disk, log, files, server, errors>>
  BY DEF HarnessReports, Supervising
<1>2. meter' \in None..MaxTokens /\ meter' \in Nat /\ meter' > meter
  BY WorkerAssumption DEF HarnessReports, None
<1>3. ServerStep /\ FilesStep
  BY <1>1, IdleServer, IdleFiles
<1>4. Usage' >= Usage /\ Usage \in Tokens /\ Usage' \in Tokens
  <2>1. mem.usage \in Tokens /\ meter \in Tokens
    BY MeterIsTokens DEF IInv, WorkerTypeOK, States
  <2>2. Sum(mem.usage, meter') >= Sum(mem.usage, meter)
    BY <1>2, <2>1 DEF Sum, Tokens, None
  <2>3. Sum(mem.usage, meter') \in Tokens
    BY <1>2, <2>1, SumOfTokens DEF Tokens
  <2> QED BY <1>1, <2>2, <2>3, UsageIsTokens DEF Usage
<1>5. PhasesOK'
  BY <1>1 DEF IInv, PhasesOK, server
<1>6. UsageOK'
  <2>1. lease' = lease /\ kills' = kills /\ lease.tokens \in Tokens
    BY <1>1 DEF server, fixed, IInv, WorkerTypeOK
  <2>2. kills' = 0 => Usage' >= lease'.tokens
    BY <1>4, <2>1 DEF IInv, UsageOK, Tokens, None
  <2> QED BY <1>1, <2>2 DEF IInv, UsageOK
<1>7. QuietEvents
  BY <1>1 DEF QuietEvents
<1> QED BY <1>1, <1>2, <1>3, <1>5, <1>6, <1>7, StepKeeps DEF IInv, WorkerTypeOK

LEMMA HarnessExitsKeeps == IInv /\ HarnessExits => IInv'
<1> SUFFICES ASSUME IInv, HarnessExits PROVE IInv'
  OBVIOUS
<1>1. /\ pc = "harness" /\ sending = "no" /\ pc' = "check" /\ UNCHANGED <<back, sending>>
      /\ mem' = [mem EXCEPT !.usage = Sum(@, meter)] /\ disk' = mem' /\ meter' = None
      /\ UNCHANGED <<fixed, log, files, server, errors>>
  BY DEF HarnessExits, Supervising, Go, Save
<1>2. mem \in States /\ meter \in Tokens /\ mem.usage \in Tokens
  BY MeterIsTokens DEF IInv, WorkerTypeOK, States
<1>3. Sum(mem.usage, meter) \in Tokens
  BY <1>2, SumOfTokens
<1>4. /\ mem' \in States /\ mem'.usage = Sum(mem.usage, meter)
      /\ mem'.done = mem.done /\ mem'.phase = mem.phase /\ mem'.prepared = mem.prepared
      /\ mem'.sequence = mem.sequence /\ mem'.ack = mem.ack
  BY <1>1, <1>2, <1>3 DEF States
<1>5. Usage' = Usage
  BY <1>1, <1>3, <1>4, SumOfTokens, <1>2 DEF Usage
<1>6. PhasesOK'
  BY <1>1, <1>4 DEF IInv, PhasesOK, AtWork, Checkpointing, server
<1>7. UsageOK'
  BY <1>1, <1>5 DEF IInv, UsageOK, fixed, server
<1>8. QuietEvents /\ None \in None..MaxTokens
  BY <1>1, <1>4, WorkerAssumption DEF QuietEvents, None
<1> QED BY <1>1, <1>4, <1>6, <1>7, <1>8, StepKeeps, IdleServer, IdleFiles
        DEF IInv, WorkerTypeOK, Places

LEMMA CheckKeeps == IInv /\ Check => IInv'
<1> SUFFICES ASSUME IInv, Check PROVE IInv'
  OBVIOUS
<1>1. pc = "check" /\ UNCHANGED <<fixed, log, files, server, errors>> /\ FilesStep
  BY IdleFiles DEF Check
<1>2. /\ sending = "no" /\ meter = None /\ mem \in States /\ tree \in Trees /\ kind \in Kinds
      /\ back \in Places
  BY <1>1 DEF IInv, EventsOK, UsageOK, Checkpointing, WorkerTypeOK
<1>3. CASE Raise
  BY <1>1, <1>3, RaiseKeeps, IdleServer
<1>4. CASE /\ CheckpointThen("close") /\ mem' = [mem EXCEPT !.spec = tree.spec]
           /\ UNCHANGED <<disk, meter>>
  <2>1. /\ mem' \in States /\ pc' = "scope" /\ back' = "close" /\ sending' = sending
        /\ mem'.done = mem.done /\ mem'.phase = mem.phase /\ mem'.prepared = mem.prepared
        /\ mem'.sequence = mem.sequence /\ mem'.ack = mem.ack /\ mem'.usage = mem.usage
    BY <1>2, <1>4 DEF States, Trees, CheckpointThen
  <2>2. PhasesOK'
    BY <1>1, <1>4, <2>1 DEF IInv, PhasesOK, AtWork, Checkpointing, server
  <2> QED BY <1>1, <1>2, <1>4, <2>1, <2>2, AdvanceKeeps DEF Places
<1>5. CASE /\ Go("next") /\ UNCHANGED meter
           /\ Save(Completed([mem EXCEPT !.redExit = 0, !.tests = tree.tests, !.red = Base(kind)]))
  <2> DEFINE s == [mem EXCEPT !.redExit = 0, !.tests = tree.tests, !.red = Base(kind)]
  <2>1. Base(kind) \in Commits /\ tree.tests \in 0..1 /\ 0 \in 0..1
    BY <1>2 DEF Base, Commits, Trees
  <2>2. /\ s \in States /\ s.done = mem.done /\ s.phase = mem.phase /\ s.prepared = mem.prepared
        /\ s.sequence = mem.sequence /\ s.ack = mem.ack /\ s.usage = mem.usage
    BY <1>2, <2>1 DEF States
  <2>3. Save(Completed(s))
    BY <1>5
  <2> HIDE DEF s
  <2> QED BY <1>1, <1>2, <1>5, <2>2, <2>3, CompletedKeeps DEF AtWork
<1>6. CASE Go("test") /\ UNCHANGED local
  <2>1. PhasesOK'
    BY <1>1, <1>6 DEF IInv, PhasesOK, AtWork, Checkpointing, server, local, Go
  <2> QED BY <1>1, <1>2, <1>6, <2>1, MoveKeeps, IdleServer DEF Go, Places
<1> QED BY <1>3, <1>4, <1>5, <1>6 DEF Check

LEMMA TestsKeeps == IInv /\ Tests => IInv'
<1> SUFFICES ASSUME IInv, Tests PROVE IInv'
  OBVIOUS
<1>1. pc = "test" /\ sending = "no" /\ UNCHANGED <<fixed, log, cloned, head, server, errors>>
  BY DEF Tests
<1>2. /\ meter = None /\ mem \in States /\ tree \in Trees /\ back \in Places
  BY <1>1 DEF IInv, UsageOK, Checkpointing, WorkerTypeOK
<1>3. FilesStep
  <2>1. tree' \in Trees
    BY <1>2 DEF Tests, Trees
  <2> QED BY <1>1, <2>1 DEF FilesStep, IInv, WorkerTypeOK
<1>4. CASE Raise
  BY <1>1, <1>3, <1>4, RaiseKeeps, IdleServer
<1>5. CASE /\ Go("next") /\ Save(Completed([mem EXCEPT !.baselineTests = tree.tests]))
           /\ UNCHANGED meter
  <2> DEFINE s == [mem EXCEPT !.baselineTests = tree.tests]
  <2>1. /\ s \in States /\ s.done = mem.done /\ s.phase = mem.phase /\ s.prepared = mem.prepared
        /\ s.sequence = mem.sequence /\ s.ack = mem.ack /\ s.usage = mem.usage
    BY <1>2 DEF States, Trees
  <2>2. Save(Completed(s))
    BY <1>5
  <2> HIDE DEF s
  <2> QED BY <1>1, <1>2, <1>3, <1>5, <2>1, <2>2, CompletedKeeps DEF AtWork
<1>6. CASE /\ CheckpointThen("close") /\ UNCHANGED <<disk, meter>>
           /\ mem' = IF mem.phase = RedPhase
                       THEN [mem EXCEPT !.redExit = 1, !.tests = tree.tests] ELSE mem
  <2>0. tree.tests \in 0..1 /\ 1 \in 0..1
    BY <1>2 DEF Trees
  <2>1. /\ mem' \in States /\ pc' = "scope" /\ back' = "close" /\ sending' = sending
        /\ mem'.done = mem.done /\ mem'.phase = mem.phase /\ mem'.prepared = mem.prepared
        /\ mem'.sequence = mem.sequence /\ mem'.ack = mem.ack /\ mem'.usage = mem.usage
    BY <1>2, <1>6, <2>0 DEF States, CheckpointThen
  <2>2. PhasesOK'
    BY <1>1, <1>6, <2>1 DEF IInv, PhasesOK, AtWork, Checkpointing, server
  <2> QED BY <1>1, <1>2, <1>3, <1>6, <2>1, <2>2, AdvanceKeeps DEF Places
<1> QED BY <1>4, <1>5, <1>6 DEF Tests

LEMMA CloseKeeps == IInv /\ Close => IInv'
<1> SUFFICES ASSUME IInv, Close PROVE IInv'
  OBVIOUS
<1>1. pc = "close" /\ UNCHANGED <<fixed, log, files, server, errors>> /\ FilesStep
  BY IdleFiles DEF Close
<1>2. sending = "no" /\ mem \in States
  BY <1>1 DEF IInv, EventsOK, WorkerTypeOK
<1>3. CASE Raise
  BY <1>1, <1>3, RaiseKeeps, IdleServer
<1> DEFINE s == [mem EXCEPT !.red = IF mem.phase = RedPhase THEN mem.checkpoint ELSE @,
                            !.green = IF mem.phase = GreenPhase THEN mem.checkpoint ELSE @]
<1>4. CASE Go("next") /\ UNCHANGED meter /\ Save(Completed(s))
  <2>1. /\ s \in States /\ s.done = mem.done /\ s.phase = mem.phase /\ s.prepared = mem.prepared
        /\ s.sequence = mem.sequence /\ s.ack = mem.ack /\ s.usage = mem.usage
    BY <1>2 DEF States
  <2>2. Save(Completed(s))
    BY <1>4
  <2> HIDE DEF s
  <2> QED BY <1>1, <1>2, <1>4, <2>1, <2>2, CompletedKeeps DEF AtWork
<1> QED BY <1>3, <1>4 DEF Close

LEMMA SubmitKeeps == IInv /\ Submit => IInv'
<1> SUFFICES ASSUME IInv, Submit PROVE IInv'
  OBVIOUS
<1>1. pc = "submit" /\ UNCHANGED <<fixed, log, files>> /\ FilesStep
  BY IdleFiles DEF Submit
<1>2. meter = None /\ sending = "no" /\ mem \in States
  BY <1>1 DEF IInv, UsageOK, EventsOK, Checkpointing, WorkerTypeOK
<1>3. CASE Refused
  BY <1>1, <1>3, RefusedKeeps
<1>4. ASSUME UNCHANGED <<trace, recovered>>,
             lease' = [lease EXCEPT !.state = "awaiting_review", !.tokens = Usage,
                 !.checkpoint = mem.checkpoint,
                 !.evidence = [redExit |-> mem.redExit, red |-> mem.red, green |-> mem.green]],
             errors' = errors \/ (errors < MaxErrors /\ errors' = errors + 1)
      PROVE  ServerStep
  <2>1. [redExit |-> mem.redExit, red |-> mem.red, green |-> mem.green]
          \in [redExit : 0..1, red : Commits, green : Commits]
    BY <1>2 DEF States
  <2>2. mem.checkpoint \in Commits /\ lease \in LeaseRows
    BY <1>2 DEF States, IInv, WorkerTypeOK, LeaseRows
  <2>3. lease' \in LeaseRows /\ lease'.phase = lease.phase /\ lease'.tokens = Usage
    BY <1>4, <2>1, <2>2, UsageIsTokens DEF LeaseRows
  <2>4. errors' \in 0..MaxErrors
    BY <1>4, WorkerAssumption DEF IInv, WorkerTypeOK
  <2> QED BY <1>4, <2>3, <2>4 DEF IInv, WorkerTypeOK, PhasesOK, ServerStep
<1>5. ASSUME ServerStep, Raise PROVE IInv'
  BY <1>1, <1>5, RaiseKeeps
<1>6. ASSUME ServerStep, Go("off"), Save(mem), UNCHANGED meter
      PROVE  IInv'
  <2>1. mem' = mem /\ disk' = mem /\ pc' = "off" /\ back' = back /\ sending' = sending
    BY <1>6 DEF Save, Go
  <2>2. PhasesOK'
    BY <1>6, <2>1 DEF IInv, PhasesOK, AtWork, Checkpointing, ServerStep
  <2>3. UsageOK'
    BY <1>1, <1>2, <1>6, <2>1, UsageIsTokens
       DEF IInv, UsageOK, Usage, Checkpointing, ServerStep, fixed, Tokens, None
  <2>4. QuietEvents
    BY <1>1, <1>2, <2>1 DEF QuietEvents
  <2> QED BY <1>1, <1>2, <1>6, <2>1, <2>2, <2>3, <2>4, StepKeeps
          DEF IInv, WorkerTypeOK, Places
<1> QED BY <1>3, <1>4, <1>5, <1>6 DEF Submit, Answered
-----------------------------------------------------------------------------
(* Failures, and what people do *)

LEMMA InterruptKeeps == IInv /\ Interrupt => IInv'
BY RaiseKeeps, IdleServer, IdleFiles DEF Interrupt

\* What happens to the lease's state alone changes nothing the worker relies on.
LEMMA LeaseStateStep ==
  ASSUME IInv, NEW q \in {"running", "blocked", "awaiting_review", "over"},
         lease' = lease \/ lease' = [lease EXCEPT !.state = q],
         trace' = trace, recovered' \in BOOLEAN,
         errors' = errors \/ (errors < MaxErrors /\ errors' = errors + 1)
  PROVE  ServerStep /\ lease'.phase = lease.phase /\ lease'.tokens = lease.tokens
<1>1. lease' \in LeaseRows /\ lease'.phase = lease.phase /\ lease'.tokens = lease.tokens
  BY DEF IInv, WorkerTypeOK, LeaseRows
<1>2. errors' \in 0..MaxErrors
  BY WorkerAssumption DEF IInv, WorkerTypeOK
<1> QED BY <1>1, <1>2 DEF IInv, WorkerTypeOK, PhasesOK, ServerStep

LEMMA ReportStopKeeps == IInv /\ ReportStop => IInv'
<1> SUFFICES ASSUME IInv, ReportStop PROVE IInv'
  OBVIOUS
<1>1. /\ pc = "stopping" /\ pc' = "off" /\ back' = back /\ sending' = sending
      /\ UNCHANGED <<fixed, local, log, files, trace, recovered>>
  BY DEF ReportStop, Go
<1>2. ServerStep /\ lease'.phase = lease.phase /\ lease'.tokens = lease.tokens
  <2>1. \/ lease' = lease \/ lease' = [lease EXCEPT !.state = "blocked"]
    BY DEF ReportStop
  <2>2. errors' = errors \/ (errors < MaxErrors /\ errors' = errors + 1)
    BY DEF ReportStop
  <2>3. recovered' \in BOOLEAN /\ trace' = trace
    BY <1>1 DEF IInv, WorkerTypeOK
  <2> QED BY <2>1, <2>2, <2>3, LeaseStateStep
<1>3. PhasesOK'
  BY <1>1, <1>2 DEF IInv, PhasesOK, AtWork, Checkpointing, local
<1>4. meter = None /\ sending = "no"
  BY <1>1 DEF IInv, UsageOK, EventsOK, Checkpointing
<1> QED BY <1>1, <1>2, <1>3, <1>4, MoveKeeps, IdleFiles DEF IInv, WorkerTypeOK, Places

LEMMA KillKeeps == IInv /\ Kill => IInv'
<1> SUFFICES ASSUME IInv, Kill PROVE IInv'
  OBVIOUS
<1>1. /\ pc' = "off" /\ back' = "off" /\ sending' = "no" /\ mem' = disk /\ meter' = None
      /\ kills < MaxKills /\ kills' = kills + 1
      /\ UNCHANGED <<kind, strays, disk, log, files, server, errors>> /\ loose' \in BOOLEAN
  BY DEF Kill, IInv, WorkerTypeOK
<1>2. kills \in Nat /\ kills' \in 0..MaxKills /\ None \in None..MaxTokens
  BY <1>1, WorkerAssumption DEF IInv, WorkerTypeOK, None
<1>3. WorkerTypeOK'
  BY <1>1, <1>2 DEF IInv, WorkerTypeOK, Places, files, server
<1>4. PhasesOK'
  BY <1>1 DEF IInv, PhasesOK, AtWork, Checkpointing, server
<1>5. EventsOK'
  BY <1>1 DEF IInv, EventsOK, Counts, Acknowledges, Last, server
<1>6. UsageOK'
  BY <1>1, <1>2 DEF UsageOK
<1> QED BY <1>3, <1>4, <1>5, <1>6 DEF IInv

\* A step of the server's lease state, whatever the worker is doing.
LEMMA ServerOnlyKeeps ==
  ASSUME IInv, UNCHANGED <<fixed, pc, back, sending, local, log, files, errors>>,
         ServerStep, lease'.phase = lease.phase, lease'.tokens = lease.tokens, trace' = trace
  PROVE  IInv'
<1>1. WorkerTypeOK'
  BY DEF IInv, WorkerTypeOK, ServerStep, LeaseRows, fixed, local, files
<1>2. PhasesOK' /\ UsageOK'
  BY DEF IInv, PhasesOK, UsageOK, Usage, fixed, local
<1>3. EventsOK'
  BY DEF IInv, EventsOK, Counts, Acknowledges, Last, local
<1> QED BY <1>1, <1>2, <1>3 DEF IInv

LEMMA RecoverKeeps == IInv /\ Recover => IInv'
<1> SUFFICES ASSUME IInv, Recover PROVE IInv'
  OBVIOUS
<1>1. ServerStep /\ lease'.phase = lease.phase /\ lease'.tokens = lease.tokens
  BY LeaseStateStep DEF Recover
<1> QED BY <1>1, ServerOnlyKeeps DEF Recover

LEMMA RevokeKeeps == IInv /\ Revoke => IInv'
<1> SUFFICES ASSUME IInv, Revoke PROVE IInv'
  OBVIOUS
<1>1. recovered' \in BOOLEAN
  BY DEF Revoke, IInv, WorkerTypeOK
<1>2. ServerStep /\ lease'.phase = lease.phase /\ lease'.tokens = lease.tokens
  BY <1>1, LeaseStateStep DEF Revoke
<1> QED BY <1>2, ServerOnlyKeeps DEF Revoke
-----------------------------------------------------------------------------
(* The invariant of the specification *)

\* A lease that no worker executed yet satisfies the invariant.
LEMMA InitIsSafe == Init => IInv
<1> SUFFICES ASSUME Init PROVE IInv
  OBVIOUS
<1>1. {MaxEvents, MaxErrors, MaxKills, MaxStrays, MaxTokens} \subseteq Nat
  BY WorkerAssumption
<1>2. kind \in Kinds /\ Base(kind) \in Commits /\ Base(kind).tree \in Trees
  BY DEF Init, Base, Commits, Trees
<1>3. 0 \in Phases /\ None \in Tokens /\ 0 \in 0..MaxEvents /\ 0 \in 0..1
  BY <1>1 DEF Phases, Tokens
<1>4. /\ Fresh(kind) \in States
      /\ Fresh(kind).done = 0 /\ Fresh(kind).phase = 0 /\ Fresh(kind).prepared = FALSE
      /\ Fresh(kind).sequence = 0 /\ Fresh(kind).ack = 0 /\ Fresh(kind).usage = None
  BY <1>2, <1>3 DEF Fresh, States
<1>5. /\ pc = "off" /\ back = "off" /\ sending = "no"
      /\ mem = Fresh(kind) /\ disk = Fresh(kind) /\ meter = None /\ log = << >>
      /\ cloned = FALSE /\ recovered = FALSE /\ loose = FALSE
      /\ strays = 0 /\ errors = 0 /\ kills = 0
      /\ trace = [s \in 1..MaxEvents |-> 0] /\ head = Base(kind) /\ tree = head.tree
  BY DEF Init
<1>6. lease \in LeaseRows /\ lease.phase = 0 /\ lease.tokens = None
  BY <1>2, <1>3 DEF Init, LeaseRows
<1>7. WorkerTypeOK
  <2>1. log \in Seq(1..MaxEvents)
    BY <1>5
  <2>2. trace \in [1..MaxEvents -> 0..MaxEvents]
    BY <1>3, <1>5
  <2>3. /\ meter \in None..MaxTokens /\ strays \in 0..MaxStrays
        /\ errors \in 0..MaxErrors /\ kills \in 0..MaxKills
    BY <1>1, <1>5 DEF None
  <2>4. {mem, disk} \subseteq States
    BY <1>4, <1>5
  <2>5. kind \in Kinds /\ tree \in Trees /\ head \in Commits
    BY <1>2, <1>5
  <2> QED BY <1>5, <1>6, <2>1, <2>2, <2>3, <2>4, <2>5 DEF WorkerTypeOK, Places, LeaseRows
<1>8. PhasesOK
  BY <1>4, <1>5, <1>6 DEF PhasesOK, AtWork, Checkpointing
<1>9. EventsOK
  BY <1>1, <1>4, <1>5 DEF EventsOK, Counts, Acknowledges, Last
<1>10. UsageOK
  BY <1>4, <1>5, <1>6 DEF UsageOK, Usage, Sum, None
<1> QED BY <1>7, <1>8, <1>9, <1>10 DEF IInv

LEMMA NextKeeps == IInv /\ [Next]_vars => IInv'
<1> SUFFICES ASSUME IInv, [Next]_vars PROVE IInv'
  OBVIOUS
<1>1. CASE Supervise
  BY <1>1, ReplayEventsKeeps, CloneKeeps, OpenKeeps, CheckScopeKeeps, PushKeeps,
     PostCheckpointKeeps, SaveEventKeeps, PostEventKeeps, NextPhaseKeeps, PhasePingKeeps,
     AttestKeeps, CheckKeeps, TestsKeeps, CloseKeeps, SubmitKeeps, ReportStopKeeps
     DEF Supervise
<1>2. CASE UNCHANGED vars
  <2>1. UNCHANGED <<kind, loose, strays, kills, pc, back, sending, mem, disk, meter, log, cloned,
                    tree, head, lease, trace, recovered, errors>>
    BY <1>2 DEF vars, fixed, local, files, server
  <2>2. WorkerTypeOK' /\ PhasesOK' /\ UsageOK'
    BY <2>1 DEF IInv, WorkerTypeOK, PhasesOK, UsageOK, Usage
  <2>3. EventsOK'
    BY <2>1 DEF IInv, EventsOK, Counts, Acknowledges, Last
  <2> QED BY <2>2, <2>3 DEF IInv
<1> QED BY <1>1, <1>2, BeginKeeps, TickKeeps, TickCheckpointKeeps, WriteEventKeeps,
           HarnessEditsKeeps, StrayEditsKeeps, DetachKeeps, HarnessReportsKeeps,
           HarnessExitsKeeps, InterruptKeeps, KillKeeps, RecoverKeeps, RevokeKeeps
           DEF Next

\* A heartbeat never lowers the lease's total.
LEMMA PingCharges ==
  ASSUME IInv, NEW ACTION go, Ping(go)
  PROVE  lease'.tokens >= lease.tokens
<1>1. Usage \in Tokens /\ lease.tokens \in Tokens /\ lease \in LeaseRows
  BY UsageIsTokens DEF IInv, WorkerTypeOK, LeaseRows
<1>2. CASE ~MayBeat /\ Refused
  BY <1>1, <1>2 DEF Refused, server, Tokens, None
<1>3. CASE MayBeat /\ lease' = [lease EXCEPT !.phase = mem.phase, !.tokens = Usage,
                               !.state = IF Usage >= Reserved THEN "blocked" ELSE @]
  <2>1. lease'.tokens = Usage
    BY <1>1, <1>3 DEF LeaseRows
  <2> QED BY <1>1, <1>3, <2>1 DEF MayBeat, Tokens, None
<1> QED BY <1>2, <1>3 DEF Ping

LEMMA NextCharges == IInv /\ [Next]_vars => lease'.tokens >= lease.tokens
<1> SUFFICES ASSUME IInv, [Next]_vars PROVE lease'.tokens >= lease.tokens
  OBVIOUS
<1>1. lease.tokens \in Tokens /\ lease \in LeaseRows /\ Usage \in Tokens
  BY UsageIsTokens DEF IInv, WorkerTypeOK, LeaseRows
<1>2. lease.tokens >= lease.tokens
  BY <1>1 DEF Tokens, None
<1>3. CASE Tick \/ CheckScope \/ PhasePing
  <2>1. CASE Tick
    BY <2>1, PingCharges DEF Tick
  <2>2. CASE CheckScope
    BY <1>2, <2>2, PingCharges DEF CheckScope, Refused, server
  <2>3. CASE PhasePing
    BY <2>3, PingCharges DEF PhasePing
  <2> QED BY <1>3, <2>1, <2>2, <2>3
<1>4. CASE Submit
  <2>1. CASE Refused
    BY <1>2, <2>1 DEF Refused, server
  <2>2. CASE lease' = [lease EXCEPT !.state = "awaiting_review", !.tokens = Usage,
                 !.checkpoint = mem.checkpoint,
                 !.evidence = [redExit |-> mem.redExit, red |-> mem.red, green |-> mem.green]]
    <3>1. lease'.tokens = Usage /\ lease.tokens = Usage
      BY <1>1, <1>4, <2>2 DEF LeaseRows, Submit, IInv, UsageOK
    <3> QED BY <1>2, <3>1
  <2> QED BY <1>4, <2>1, <2>2 DEF Submit
<1>5. CASE PostCheckpoint \/ ReportStop \/ Recover \/ Revoke
  <2>1. \/ lease' = lease
        \/ lease' = [lease EXCEPT !.checkpoint = head]
        \/ \E q \in {"blocked", "running", "over"} : lease' = [lease EXCEPT !.state = q]
    BY <1>5 DEF PostCheckpoint, ReportStop, Recover, Revoke, Refused, server
  <2>2. lease'.tokens = lease.tokens
    BY <1>1, <2>1 DEF LeaseRows
  <2> QED BY <1>2, <2>2
<1>6. CASE \/ Begin \/ ReplayEvents \/ Clone \/ Open \/ Push \/ SaveEvent \/ PostEvent
           \/ NextPhase \/ Attest \/ Check \/ Tests \/ Close \/ TickCheckpoint \/ WriteEvent
           \/ HarnessEdits \/ StrayEdits \/ Detach \/ HarnessReports \/ HarnessExits
           \/ Interrupt \/ Kill \/ UNCHANGED vars
  <2>1. lease' = lease
    BY <1>6 DEF Begin, ReplayEvents, Store, Clone, Open, Push, SaveEvent, PostEvent, NextPhase,
                Attest, Check, Tests, Close, TickCheckpoint, WriteEvent, HarnessEdits,
                StrayEdits, EditsTree, Detach, HarnessReports, HarnessExits, Interrupt, Kill,
                Refused, server, vars
  <2> QED BY <1>2, <2>1
<1> QED BY <1>3, <1>4, <1>5, <1>6 DEF Next, Supervise

\* The inductive invariant holds of every behaviour.
THEOREM WorkerInvariance == Spec => []IInv
<1>1. IInv /\ [Next]_vars => IInv'
  BY NextKeeps
<1> QED BY InitIsSafe, <1>1, PTL DEF Spec

\* Every variable keeps its type: no number the worker or the server counts with
\* leaves its range.
THEOREM WorkerTypeCorrect == Spec => []WorkerTypeOK
BY WorkerInvariance, PTL DEF IInv

\* However often a worker is killed or stopped, it resumes at the server's phase or
\* the next one: the heartbeat handler never refuses a phase as skipped or undone.
THEOREM ResumesInStep == Spec => []PhasesInStep
<1>1. IInv => PhasesInStep
  BY DEF IInv, PhasesOK, PhasesInStep, WorkerTypeOK, States, LeaseRows, Phases
<1> QED BY WorkerInvariance, <1>1, PTL

\* What the server stores was in the transcript first, under its own number, and
\* nothing that counts as acknowledged is missing.
THEOREM TraceIsTranscript == Spec => []TraceFollowsTranscript
<1>1. IInv => TraceFollowsTranscript
  BY DEF IInv, EventsOK, Acknowledges, TraceFollowsTranscript
<1> QED BY WorkerInvariance, <1>1, PTL

\* Without a kill, no usage that was reported is forgotten, whatever is raised.
THEOREM NothingReportedIsLost == Spec => []StopsKeepUsage
<1>1. IInv => StopsKeepUsage
  BY DEF IInv, UsageOK, StopsKeepUsage
<1> QED BY WorkerInvariance, <1>1, PTL

\* The lease's total never falls, not even after a kill.
THEOREM ChargesNeverFall == Spec => UsageNeverFalls
<1>1. IInv /\ [Next]_vars => [lease'.tokens >= lease.tokens]_vars
  BY NextCharges
<1> QED BY WorkerInvariance, <1>1, PTL DEF Spec, UsageNeverFalls
-----------------------------------------------------------------------------
(* The evidence *)

\* The tree the lease starts from, and what the phases make of it as long as nothing
\* that outlived a run has edited it between the runs.
Start == Base(kind).tree
Quiet == strays = 0
AtStart(t) == Quiet => t.spec = Start.spec /\ t.tests = Start.tests /\ t.code = Start.code
Specified(t) == Quiet => t.spec = 1 /\ t.code = Start.code
Attested(t) == Quiet => t.spec = mem.spec /\ t.tests = mem.tests
Failing(t) == Quiet => Fails(t)
Passing(t) == Quiet => ~Fails(t)

\* In the midst of it, or in a checkpoint that returns to it.
Doing(place) == pc = place \/ (pc \in Checkpointing /\ back = place)

\* A state that says the same as memory, as far as evidence rests on it.
Agrees(state) ==
  /\ state.done = mem.done /\ state.phase = mem.phase
  /\ state.guard = mem.guard /\ state.before = mem.before
  /\ state.baselineTests = mem.baselineTests
  /\ state.red = mem.red /\ state.green = mem.green /\ state.checkpoint = mem.checkpoint
  /\ mem.done > SpecPhase => state.spec = mem.spec
  /\ mem.done > RedPhase => state.tests = mem.tests /\ state.redExit = mem.redExit

\* Which phase is worked on where.
PlacesOK ==
  /\ Doing("next") => pc = "next" \/ mem.done = 0
  /\ Doing("harness") => /\ mem.done \in {SpecPhase, RedPhase, GreenPhase}
                         /\ mem.done = SpecPhase => kind # "revision"
  /\ Doing("attest") => mem.done = SpecPhase /\ kind = "revision"
  /\ Doing("check") \/ Doing("close") => mem.done \in SpecPhase..VerifyPhase
  /\ Doing("test") => mem.done # SpecPhase
  /\ pc = "submit" => mem.done = ReadyPhase
  /\ pc \in {"ping"} \cup AtWork \cup Checkpointing /\ mem.done \in {SpecPhase, RedPhase} =>
       mem.guard = mem.done

\* What a phase begins on.
BeginningsOK ==
  /\ mem.done = 0 \/ (mem.done = SpecPhase /\ kind = "revision") => AtStart(tree)
  /\ mem.done = SpecPhase => AtStart(IF mem.guard = SpecPhase THEN mem.before ELSE tree)
  /\ mem.done = RedPhase => Specified(IF mem.guard = RedPhase THEN mem.before ELSE tree)
  /\ mem.done = 0 => mem.guard = 0
  /\ mem.done > 0 /\ Quiet => mem.baselineTests = Start.tests
  /\ mem.done > SpecPhase => mem.spec = 1

\* What is known of the tree while it is tested and committed.
TestedOK ==
  /\ Doing("test") => /\ mem.done = RedPhase => Specified(tree)
                      /\ mem.done > RedPhase => Attested(tree)
  /\ Doing("close") =>
       /\ mem.done = SpecPhase => Specified(tree) /\ mem.spec = 1
       /\ mem.done = RedPhase => /\ Specified(tree) /\ Failing(tree)
                                 /\ mem.redExit = 1 /\ (Quiet => mem.tests = tree.tests)
       /\ mem.done > RedPhase => Attested(tree) /\ Passing(tree)
  /\ pc = "post" /\ back = "close" /\ Quiet => head.tree = tree
  /\ pc = "close" => mem.checkpoint = head /\ (Quiet => head.tree = tree)

\* What is known of the commits that are named.
ShownOK ==
  /\ mem.done > RedPhase =>
       /\ Specified(mem.red.tree) /\ (Quiet => mem.tests = mem.red.tree.tests)
       /\ IF mem.redExit = 1 THEN Failing(mem.red.tree)
                             ELSE kind = "revision" /\ (Quiet => mem.tests = Start.tests)
  /\ mem.done > GreenPhase => Attested(mem.green.tree) /\ Passing(mem.green.tree)
  /\ mem.done = ReadyPhase => mem.checkpoint = mem.green /\ head = mem.green

\* What is under review is what the worker knows, and it changes nothing any more.
ReviewedOK ==
  lease.state = "awaiting_review" =>
    /\ pc \in {"off", "stopping"} /\ mem.done = ReadyPhase
    /\ lease.checkpoint = mem.green
    /\ lease.evidence = [redExit |-> mem.redExit, red |-> mem.red, green |-> mem.green]

EvidenceInv ==
  Agrees(disk) /\ PlacesOK /\ BeginningsOK /\ TestedOK /\ ShownOK /\ ReviewedOK

LEMMA StartKnown ==
  ASSUME IInv
  PROVE  /\ Start.tests = 0 /\ Start.code = 0 /\ Start.spec \in 0..1
         /\ kind = "revision" => Start.spec = 1
         /\ Base(kind) \in Commits /\ Base(kind).tree = Start
BY DEF Start, Base, Commits, Trees

\* The phases by number.
LEMMA PhaseNumbers ==
  ASSUME IInv
  PROVE  /\ mem.done \in 0..5 /\ lease.state \in {"running", "blocked", "awaiting_review", "over"}
         /\ mem \in States /\ disk \in States /\ tree \in Trees /\ head \in Commits
BY DEF IInv, WorkerTypeOK, States, Phases

\* What a step may do to the checkout without touching what the checks look at.
SameSources ==
  /\ tree'.spec = tree.spec /\ tree'.tests = tree.tests /\ tree'.code = tree.code
  /\ head' = head /\ kind' = kind /\ strays' = strays

\* A step that learns nothing keeps what is known.
LEMMA StateShows ==
  ASSUME IInv, EvidenceInv, SameSources, Agrees(mem'), disk' = disk \/ disk' = mem'
  PROVE  Agrees(disk)' /\ BeginningsOK' /\ ShownOK'
<1>1. /\ mem'.done = mem.done /\ mem'.guard = mem.guard /\ mem'.before = mem.before
      /\ mem'.baselineTests = mem.baselineTests
      /\ mem'.red = mem.red /\ mem'.green = mem.green /\ mem'.checkpoint = mem.checkpoint
      /\ mem.done > SpecPhase => mem'.spec = mem.spec
      /\ mem.done > RedPhase => mem'.tests = mem.tests /\ mem'.redExit = mem.redExit
  BY DEF Agrees
<1>2. Agrees(disk)'
  <2>1. CASE disk' = mem'
    BY <2>1 DEF Agrees
  <2>2. CASE disk' = disk
    BY <2>2 DEF Agrees, EvidenceInv
  <2> QED BY <2>1, <2>2
<1>3. Start' = Start /\ kind' = kind
  BY DEF SameSources, Start, Base
<1>4. BeginningsOK'
  BY <1>1, <1>3 DEF SameSources, EvidenceInv, BeginningsOK, AtStart, Specified, Quiet
<1>5. mem.done \in 0..5
  BY PhaseNumbers
<1>6. ShownOK'
  BY <1>1, <1>3, <1>5
     DEF SameSources, EvidenceInv, ShownOK, Specified, Attested, Fails, RedPhase, GreenPhase,
         ReadyPhase, SpecPhase, Quiet, Failing, Passing
<1> QED BY <1>2, <1>4, <1>6

Idle == {"off", "stopping", "replay", "clone", "open", "next"}

\* A worker that stops, or is between its phases, has no tree under test.
LEMMA IdleShows ==
  ASSUME pc' \in Idle PROVE PlacesOK' /\ TestedOK'
BY DEF Idle, PlacesOK, TestedOK, Doing, Checkpointing, AtWork, Quiet

\* A step that learns nothing and leaves the worker there.
LEMMA StopShows ==
  ASSUME IInv, EvidenceInv, SameSources, Agrees(mem'), disk' = disk \/ disk' = mem',
         pc' \in Idle, ReviewedOK'
  PROVE  EvidenceInv'
BY StateShows, IdleShows DEF EvidenceInv

\* One that leaves it where it is, or moves it as the assumptions say.
LEMMA MoveShows ==
  ASSUME IInv, EvidenceInv, SameSources, UNCHANGED mem, disk' = disk \/ disk' = mem',
         PlacesOK', TestedOK', ReviewedOK'
  PROVE  EvidenceInv'
<1>1. Agrees(mem')
  BY DEF Agrees
<1> QED BY <1>1, StateShows DEF EvidenceInv

\* What is not under review need not be shown.
LEMMA UnreviewedShows == lease'.state # "awaiting_review" => ReviewedOK'
BY DEF ReviewedOK

\* An exception learns nothing.
LEMMA RaiseAgrees ==
  ASSUME IInv, Raise
  PROVE  Agrees(mem') /\ disk' = mem' /\ pc' = "stopping"
BY PhaseNumbers DEF Raise, Save, Raising, Agrees, States

LEMMA RaiseShows ==
  ASSUME IInv, EvidenceInv, SameSources, Raise,
         lease'.state = "awaiting_review" => lease' = lease
  PROVE  EvidenceInv'
<1>1. Agrees(mem') /\ disk' = mem' /\ pc' = "stopping"
  BY RaiseAgrees
<1>2. ReviewedOK'
  BY <1>1, PhaseNumbers DEF EvidenceInv, ReviewedOK, Agrees, RedPhase, ReadyPhase
<1> QED BY <1>1, <1>2, StopShows DEF Idle

LEMMA RefusedShows ==
  ASSUME IInv, EvidenceInv, SameSources, Refused
  PROVE  EvidenceInv'
BY RaiseShows DEF Refused, server

LEMMA FilesAreSources == UNCHANGED <<fixed, files>> => SameSources
BY DEF fixed, files, SameSources

\* A heartbeat stops the worker or lets it go on, with a lease that is not under review.
LEMMA PingShows ==
  ASSUME IInv, EvidenceInv, SameSources, NEW ACTION go, Ping(go)
  PROVE  EvidenceInv' \/ (go /\ lease'.state # "awaiting_review")
<1>1. CASE ~MayBeat /\ Refused
  BY <1>1, RefusedShows
<1>2. CASE /\ MayBeat
           /\ lease' = [lease EXCEPT !.phase = mem.phase, !.tokens = Usage,
                                     !.state = IF Usage >= Reserved THEN "blocked" ELSE @]
           /\ IF Usage >= Reserved THEN Raise /\ UNCHANGED errors ELSE Answered(go)
  <2>1. lease'.state # "awaiting_review"
    <3>1. lease \in LeaseRows /\ lease.state = "running"
      BY <1>2 DEF IInv, WorkerTypeOK, LeaseRows, MayBeat
    <3> QED BY <1>2, <3>1 DEF LeaseRows
  <2>2. CASE Raise
    BY <2>1, <2>2, RaiseShows
  <2> QED BY <1>2, <2>1, <2>2 DEF Answered
<1> QED BY <1>1, <1>2 DEF Ping
-----------------------------------------------------------------------------
(* The evidence, step by step *)

LEMMA BeginShows == IInv /\ EvidenceInv /\ Begin => EvidenceInv'
<1> SUFFICES ASSUME IInv, EvidenceInv, Begin PROVE EvidenceInv'
  OBVIOUS
<1>1. /\ pc' = "replay" /\ mem' = [disk EXCEPT !.blocked = FALSE] /\ disk' = disk
      /\ lease.state = "running" /\ lease' = lease /\ UNCHANGED <<fixed, files>>
  BY DEF Begin, Go
<1>2. Agrees(mem')
  BY <1>1, PhaseNumbers DEF EvidenceInv, Agrees, States
<1> QED BY <1>1, <1>2, StopShows, FilesAreSources, UnreviewedShows DEF Idle

\* A step in which memory may change what evidence does not rest on, and the worker
\* stays where it is.
LEMMA StayShows ==
  ASSUME IInv, EvidenceInv, SameSources, Agrees(mem'), disk' = disk \/ disk' = mem',
         mem'.spec = mem.spec, mem'.tests = mem.tests, mem'.redExit = mem.redExit,
         pc' = pc, back' = back,
         tree' = tree,
         lease'.state = "awaiting_review" => lease' = lease
  PROVE  EvidenceInv'
<1>1. /\ mem'.done = mem.done /\ mem'.phase = mem.phase /\ mem'.guard = mem.guard
      /\ mem'.red = mem.red /\ mem'.green = mem.green /\ mem'.checkpoint = mem.checkpoint
  BY DEF Agrees
<1>2. PlacesOK'
  BY <1>1 DEF EvidenceInv, PlacesOK, Doing, SameSources
<1>3. Start' = Start
  BY DEF SameSources, Start, Base
<1>4. TestedOK'
  BY <1>1, <1>3
     DEF EvidenceInv, TestedOK, Doing, SameSources, Specified, Attested, Fails, Quiet, Failing,
         Passing
<1>5. ReviewedOK'
  BY <1>1 DEF EvidenceInv, ReviewedOK
<1> QED BY <1>2, <1>4, <1>5, StateShows DEF EvidenceInv

LEMMA ReplayEventsShows == IInv /\ EvidenceInv /\ ReplayEvents => EvidenceInv'
<1> SUFFICES ASSUME IInv, EvidenceInv, ReplayEvents PROVE EvidenceInv'
  OBVIOUS
<1>1. pc = "replay" /\ SameSources /\ lease.state # "awaiting_review"
  BY FilesAreSources DEF ReplayEvents, EvidenceInv, ReviewedOK
<1>2. CASE Save(mem) /\ Go(IF mem.prepared THEN "next" ELSE "clone") /\ UNCHANGED server
  <2>1. Agrees(mem') /\ disk' = mem' /\ pc' \in Idle /\ lease' = lease
    BY <1>2 DEF Save, Go, Agrees, Idle, server
  <2> QED BY <1>1, <2>1, StopShows, UnreviewedShows
<1>3. ASSUME NEW i \in DOMAIN log, lease' = lease, Go("replay"), mem' = [mem EXCEPT !.ack = log[i]],
             UNCHANGED <<disk, meter>>
      PROVE  EvidenceInv'
  <2>1. Agrees(mem') /\ pc' \in Idle
    BY <1>3, PhaseNumbers DEF Go, Agrees, Idle, States
  <2> QED BY <1>1, <1>3, <2>1, StopShows, UnreviewedShows
<1>4. CASE lease' = lease /\ Raise
  BY <1>1, <1>4, RaiseShows
<1>5. CASE Refused
  BY <1>1, <1>5, RefusedShows
<1> QED BY <1>2, <1>3, <1>4, <1>5 DEF ReplayEvents, Answered, Store

LEMMA CloneShows == IInv /\ EvidenceInv /\ Clone => EvidenceInv'
<1> SUFFICES ASSUME IInv, EvidenceInv, Clone PROVE EvidenceInv'
  OBVIOUS
<1>1. pc = "clone" /\ SameSources /\ lease.state # "awaiting_review"
  BY DEF Clone, EvidenceInv, ReviewedOK, SameSources, fixed
<1>2. CASE Refused
  BY <1>1, <1>2, RefusedShows
<1>3. CASE Go("open") /\ UNCHANGED <<local, server>>
  <2>1. Agrees(mem') /\ disk' = disk /\ pc' \in Idle /\ lease' = lease
    BY <1>3 DEF Go, Agrees, Idle, local, server
  <2> QED BY <1>1, <2>1, StopShows, UnreviewedShows
<1> QED BY <1>2, <1>3 DEF Clone

LEMMA OpenShows == IInv /\ EvidenceInv /\ Open => EvidenceInv'
<1> SUFFICES ASSUME IInv, EvidenceInv, Open PROVE EvidenceInv'
  OBVIOUS
<1>1. /\ pc = "open" /\ pc' = "scope" /\ back' = "next" /\ SameSources /\ lease' = lease
      /\ mem' = [mem EXCEPT !.prepared = TRUE] /\ disk' = mem'
  BY FilesAreSources DEF Open, Save, CheckpointThen, server
<1>2. Agrees(mem')
  BY <1>1, PhaseNumbers DEF Agrees, States
<1>3. mem'.done = 0
  BY <1>1, <1>2 DEF Agrees, IInv, PhasesOK
<1>4. PlacesOK' /\ TestedOK'
  BY <1>1, <1>3 DEF PlacesOK, TestedOK, Doing, Checkpointing, AtWork, SpecPhase, RedPhase, Quiet
<1>5. lease.state # "awaiting_review"
  BY <1>1 DEF EvidenceInv, ReviewedOK
<1> QED BY <1>1, <1>2, <1>4, <1>5, StateShows, UnreviewedShows DEF EvidenceInv

LEMMA TickShows == IInv /\ EvidenceInv /\ Tick => EvidenceInv'
<1> SUFFICES ASSUME IInv, EvidenceInv, Tick PROVE EvidenceInv'
  OBVIOUS
<1>1. SameSources /\ tree' = tree /\ Ping(Go(pc) /\ UNCHANGED local)
  BY FilesAreSources DEF Tick, files
<1>2. CASE (Go(pc) /\ UNCHANGED local) /\ lease'.state # "awaiting_review"
  <2>1. Agrees(mem') /\ disk' = disk /\ mem' = mem /\ pc' = pc /\ back' = back
    BY <1>2 DEF Go, Agrees, local
  <2> QED BY <1>1, <1>2, <2>1, StayShows
<1> QED BY <1>1, <1>2, PingShows

LEMMA TickCheckpointShows == IInv /\ EvidenceInv /\ TickCheckpoint => EvidenceInv'
<1> SUFFICES ASSUME IInv, EvidenceInv, TickCheckpoint PROVE EvidenceInv'
  OBVIOUS
<1>1. /\ pc \in {"harness", "test"} /\ pc' = "scope" /\ back' = pc /\ SameSources
      /\ UNCHANGED <<mem, disk, tree, head, lease, kind, strays>>
  BY FilesAreSources DEF TickCheckpoint, Supervising, CheckpointThen, local, files, server, fixed
<1>2. PlacesOK'
  BY <1>1 DEF EvidenceInv, PlacesOK, Doing, Checkpointing, AtWork
<1>3. TestedOK'
  BY <1>1
     DEF EvidenceInv, TestedOK, Doing, Checkpointing, Specified, Attested, Fails, Start, Base,
         Quiet, Failing, Passing
<1>4. ReviewedOK'
  BY <1>1 DEF EvidenceInv, ReviewedOK
<1> QED BY <1>1, <1>2, <1>3, <1>4, MoveShows

LEMMA CheckScopeShows == IInv /\ EvidenceInv /\ CheckScope => EvidenceInv'
<1> SUFFICES ASSUME IInv, EvidenceInv, CheckScope PROVE EvidenceInv'
  OBVIOUS
<1>1. pc = "scope" /\ SameSources /\ UNCHANGED <<kind, strays, tree, head>>
  BY FilesAreSources DEF CheckScope, fixed, files
<1>2. CASE Refused
  BY <1>1, <1>2, RefusedShows
<1>3. CASE (Go("push") /\ UNCHANGED local) /\ lease'.state # "awaiting_review"
  <2>1. pc' = "push" /\ UNCHANGED <<back, mem, disk>>
    BY <1>3 DEF Go, local
  <2>2. PlacesOK'
    BY <1>1, <2>1 DEF EvidenceInv, PlacesOK, Doing, Checkpointing, AtWork
  <2>3. TestedOK'
    BY <1>1, <2>1
       DEF EvidenceInv, TestedOK, Doing, Checkpointing, Specified, Attested, Fails, Start, Base,
           Quiet, Failing, Passing
  <2> QED BY <1>1, <1>3, <2>1, <2>2, <2>3, MoveShows, UnreviewedShows
<1> QED BY <1>1, <1>2, <1>3, PingShows DEF CheckScope

\* The last commit moves: nothing under review rests on it yet.
LEMMA PushShows == IInv /\ EvidenceInv /\ Push => EvidenceInv'
<1> SUFFICES ASSUME IInv, EvidenceInv, Push PROVE EvidenceInv'
  OBVIOUS
<1>1. /\ pc = "push" /\ pc' = "post" /\ UNCHANGED <<kind, strays, back, mem, disk, tree, lease>>
      /\ head' = IF tree = head.tree THEN head ELSE [below |-> head.below + 1, tree |-> tree]
  BY DEF Push, Go, fixed, local, server
<1>2. head'.tree = tree
  BY <1>1
<1>3. PlacesOK'
  BY <1>1 DEF EvidenceInv, PlacesOK, Doing, Checkpointing, AtWork
<1>4. TestedOK'
  BY <1>1, <1>2
     DEF EvidenceInv, TestedOK, Doing, Checkpointing, Specified, Attested, Fails, Start, Base,
         Quiet, Failing, Passing
<1>5. Agrees(disk)' /\ BeginningsOK'
  BY <1>1 DEF EvidenceInv, Agrees, BeginningsOK, AtStart, Specified, Start, Base, Quiet
<1>6. mem.done # ReadyPhase
  BY <1>1 DEF EvidenceInv, PlacesOK, Doing, Checkpointing, IInv, PhasesOK, ReadyPhase
<1>7. ShownOK'
  BY <1>1, <1>6
     DEF EvidenceInv, ShownOK, Attested, Fails, Specified, Start, Base, Quiet, Failing, Passing
<1>8. ReviewedOK'
  BY <1>1 DEF EvidenceInv, ReviewedOK
<1> QED BY <1>3, <1>4, <1>5, <1>7, <1>8 DEF EvidenceInv

\* The commit that is posted is the one the tree was tested in.
LEMMA PostCheckpointShows == IInv /\ EvidenceInv /\ PostCheckpoint => EvidenceInv'
<1> SUFFICES ASSUME IInv, EvidenceInv, PostCheckpoint PROVE EvidenceInv'
  OBVIOUS
<1>1. pc = "post" /\ SameSources /\ UNCHANGED <<kind, strays, tree, head>> /\ mem \in States
  BY FilesAreSources, PhaseNumbers DEF PostCheckpoint, fixed, files
<1>2. CASE Refused
  BY <1>1, <1>2, RefusedShows
<1>3. ASSUME lease.state = "running", lease' = [lease EXCEPT !.checkpoint = head]
      PROVE  lease'.state # "awaiting_review"
  BY <1>3 DEF IInv, WorkerTypeOK
<1>4. CASE lease'.state # "awaiting_review" /\ Raise
  BY <1>1, <1>4, RaiseShows
<1>5. CASE /\ lease'.state # "awaiting_review"
           /\ pc' = back /\ back' = "off" /\ UNCHANGED sending
           /\ Save([mem EXCEPT !.checkpoint = head]) /\ UNCHANGED meter
  <2>1. /\ disk' = mem' /\ mem'.checkpoint = head
        /\ mem'.done = mem.done /\ mem'.guard = mem.guard /\ mem'.before = mem.before
        /\ mem'.baselineTests = mem.baselineTests /\ mem'.spec = mem.spec
        /\ mem'.tests = mem.tests /\ mem'.redExit = mem.redExit
        /\ mem'.red = mem.red /\ mem'.green = mem.green
    BY <1>1, <1>5 DEF Save, States
  <2>2. Agrees(disk)'
    BY <2>1 DEF Agrees
  <2>3. back \in {"next"} \cup AtWork /\ (back = "next" => mem.done = 0)
    BY <1>1 DEF IInv, PhasesOK, EvidenceInv, PlacesOK, Doing, Checkpointing
  <2>4. mem.done # ReadyPhase
    BY <1>1, <2>3 DEF IInv, PhasesOK, ReadyPhase, Checkpointing
  <2>5. PlacesOK'
    BY <1>1, <1>5, <2>1, <2>3 DEF EvidenceInv, PlacesOK, Doing, Checkpointing, AtWork
  <2>6. TestedOK'
    BY <1>1, <1>5, <2>1, <2>3
       DEF EvidenceInv, TestedOK, Doing, Checkpointing, AtWork, Specified, Attested, Fails,
           Start, Base, Quiet, Failing, Passing
  <2>7. BeginningsOK' /\ ShownOK'
    BY <1>1, <2>1, <2>4
       DEF EvidenceInv, BeginningsOK, ShownOK, AtStart, Attested, Fails, Specified, Start, Base,
           Quiet, Failing, Passing
  <2> QED BY <1>5, <2>2, <2>5, <2>6, <2>7, UnreviewedShows DEF EvidenceInv
<1> QED BY <1>2, <1>3, <1>4, <1>5 DEF PostCheckpoint, Answered

LEMMA WriteEventShows == IInv /\ EvidenceInv /\ WriteEvent => EvidenceInv'
<1> SUFFICES ASSUME IInv, EvidenceInv, WriteEvent PROVE EvidenceInv'
  OBVIOUS
<1>1. /\ mem' = [mem EXCEPT !.sequence = @ + 1] /\ SameSources
      /\ UNCHANGED <<pc, back, disk, tree, lease>>
  BY FilesAreSources DEF WriteEvent, files, server
<1>2. Agrees(mem') /\ mem'.spec = mem.spec /\ mem'.tests = mem.tests /\ mem'.redExit = mem.redExit
  BY <1>1, PhaseNumbers DEF Agrees, States
<1> QED BY <1>1, <1>2, StayShows

LEMMA SaveEventShows == IInv /\ EvidenceInv /\ SaveEvent => EvidenceInv'
<1> SUFFICES ASSUME IInv, EvidenceInv, SaveEvent PROVE EvidenceInv'
  OBVIOUS
<1>1. /\ mem' = mem /\ disk' = mem /\ SameSources /\ UNCHANGED <<pc, back, tree, lease>>
  BY FilesAreSources DEF SaveEvent, Save, files, server
<1>2. Agrees(mem')
  BY <1>1 DEF Agrees
<1> QED BY <1>1, <1>2, StayShows

LEMMA PostEventShows == IInv /\ EvidenceInv /\ PostEvent => EvidenceInv'
<1> SUFFICES ASSUME IInv, EvidenceInv, PostEvent PROVE EvidenceInv'
  OBVIOUS
<1>1. SameSources /\ tree' = tree
  BY FilesAreSources DEF PostEvent, files
<1>2. CASE Refused
  BY <1>1, <1>2, RefusedShows
<1>3. CASE lease' = lease /\ Raise
  BY <1>1, <1>3, RaiseShows
<1>4. CASE /\ lease' = lease /\ Save([mem EXCEPT !.ack = mem.sequence])
           /\ UNCHANGED <<pc, back, meter>>
  <2>1. /\ Agrees(mem') /\ mem'.spec = mem.spec /\ mem'.tests = mem.tests
        /\ mem'.redExit = mem.redExit /\ disk' = mem'
    BY <1>4, PhaseNumbers DEF Save, Agrees, States
  <2> QED BY <1>1, <1>4, <2>1, StayShows
<1> QED BY <1>2, <1>3, <1>4 DEF PostEvent, Answered, Store

\* A phase begins: what the tree is compared with is what the phase before it left.
LEMMA NextPhaseShows == IInv /\ EvidenceInv /\ NextPhase => EvidenceInv'
<1> SUFFICES ASSUME IInv, EvidenceInv, NextPhase PROVE EvidenceInv'
  OBVIOUS
<1> DEFINE guarded == mem.done \in {SpecPhase, RedPhase} /\ mem.guard # mem.done
<1>1. /\ pc = "next" /\ pc' = "ping" /\ disk' = mem'
      /\ UNCHANGED <<kind, strays, back, tree, head, lease>>
      /\ mem' = [mem EXCEPT !.phase = mem.done,
                            !.guard = IF guarded THEN mem.done ELSE @,
                            !.before = IF guarded THEN tree ELSE @]
  BY DEF NextPhase, Go, Save, fixed, files, server
<1>2. /\ mem'.done = mem.done /\ mem'.phase = mem.done
      /\ mem'.guard = (IF guarded THEN mem.done ELSE mem.guard)
      /\ mem'.before = (IF guarded THEN tree ELSE mem.before)
      /\ mem'.baselineTests = mem.baselineTests /\ mem'.spec = mem.spec
      /\ mem'.tests = mem.tests /\ mem'.redExit = mem.redExit
      /\ mem'.red = mem.red /\ mem'.green = mem.green /\ mem'.checkpoint = mem.checkpoint
  BY <1>1, PhaseNumbers DEF States
<1> HIDE DEF guarded
<1>3. Agrees(disk)'
  BY <1>1 DEF Agrees
<1>4. PlacesOK' /\ TestedOK'
  BY <1>1, <1>2
     DEF guarded, PlacesOK, TestedOK, Doing, Checkpointing, AtWork, SpecPhase, RedPhase, Quiet
<1>5. Start' = Start
  BY <1>1 DEF Start, Base
<1>6. BeginningsOK'
  BY <1>1, <1>2, <1>5
     DEF guarded, EvidenceInv, BeginningsOK, AtStart, Specified, SpecPhase, RedPhase, Quiet
<1>7. ShownOK'
  BY <1>1, <1>2, <1>5
     DEF EvidenceInv, ShownOK, Specified, Attested, Fails, Quiet, Failing, Passing
<1>8. ReviewedOK'
  BY <1>1 DEF EvidenceInv, ReviewedOK
<1> QED BY <1>3, <1>4, <1>6, <1>7, <1>8 DEF EvidenceInv

LEMMA PhasePingShows == IInv /\ EvidenceInv /\ PhasePing => EvidenceInv'
<1> SUFFICES ASSUME IInv, EvidenceInv, PhasePing PROVE EvidenceInv'
  OBVIOUS
<1>1. /\ pc = "ping" /\ mem.phase = mem.done /\ SameSources
      /\ UNCHANGED <<kind, strays, tree, head>>
      /\ Ping(Go(WorkOf(mem.phase)) /\ UNCHANGED local)
  BY FilesAreSources DEF PhasePing, fixed, files, IInv, PhasesOK
<1>2. CASE (Go(WorkOf(mem.phase)) /\ UNCHANGED local) /\ lease'.state # "awaiting_review"
  <2>1. pc' = WorkOf(mem.done) /\ UNCHANGED <<back, mem, disk>>
    BY <1>1, <1>2 DEF Go, local
  <2>2. mem.done \in 0..5
    BY PhaseNumbers
  <2>3. \/ pc' = "test" /\ mem.done = 0
        \/ pc' = "attest" /\ mem.done = 1 /\ kind = "revision"
        \/ pc' = "harness" /\ mem.done \in {1, 2, 3} /\ (mem.done = 1 => kind # "revision")
        \/ pc' = "check" /\ mem.done = 4
        \/ pc' = "submit" /\ mem.done = 5
    BY <2>1, <2>2 DEF WorkOf, SpecPhase, GreenPhase, VerifyPhase
  <2>4. PlacesOK'
    BY <1>1, <2>1, <2>3
       DEF EvidenceInv, PlacesOK, Doing, Checkpointing, AtWork,
           SpecPhase, RedPhase, GreenPhase, VerifyPhase, ReadyPhase
  <2>5. TestedOK'
    BY <2>1, <2>3 DEF TestedOK, Doing, Checkpointing, RedPhase, Quiet
  <2> QED BY <1>1, <1>2, <2>1, <2>4, <2>5, MoveShows, UnreviewedShows
<1> QED BY <1>1, <1>2, PingShows

LEMMA AttestShows == IInv /\ EvidenceInv /\ Attest => EvidenceInv'
<1> SUFFICES ASSUME IInv, EvidenceInv, Attest PROVE EvidenceInv'
  OBVIOUS
<1>1. pc = "attest" /\ SameSources /\ UNCHANGED <<kind, strays, tree, head>>
  BY FilesAreSources DEF Attest, fixed, files
<1>2. CASE Refused
  BY <1>1, <1>2, RefusedShows
<1>3. CASE /\ tree.spec = 1 /\ Go("next") /\ Save(Completed([mem EXCEPT !.spec = tree.spec]))
           /\ UNCHANGED server
  <2>1. mem.done = 1 /\ kind = "revision" /\ mem.guard = 1
    BY <1>1 DEF EvidenceInv, PlacesOK, Doing, AtWork, SpecPhase
  <2>2. /\ disk' = mem' /\ mem'.done = 2 /\ mem'.guard = mem.guard /\ mem'.spec = 1
        /\ mem'.baselineTests = mem.baselineTests
    BY <1>3, <2>1, PhaseNumbers DEF Save, Completed, States
  <2>3. Agrees(disk)'
    BY <2>2 DEF Agrees
  <2>4. AtStart(tree) /\ (Quiet => mem.baselineTests = Start.tests) /\ Start' = Start
    BY <1>1, <2>1 DEF EvidenceInv, BeginningsOK, SpecPhase, Start, Base, Quiet
  <2>5. BeginningsOK'
    BY <1>1, <1>3, <2>1, <2>2, <2>4, StartKnown
       DEF BeginningsOK, AtStart, Specified, SpecPhase, RedPhase, Quiet
  <2>6. ShownOK'
    BY <2>2 DEF ShownOK, RedPhase, GreenPhase, ReadyPhase, Quiet
  <2>7. pc' \in Idle /\ lease'.state # "awaiting_review"
    BY <1>1, <1>3 DEF Go, Idle, server, EvidenceInv, ReviewedOK
  <2> QED BY <2>3, <2>5, <2>6, <2>7, IdleShows, UnreviewedShows DEF EvidenceInv
<1> QED BY <1>2, <1>3 DEF Attest

\* While the agent runs, what it may have to answer for is remembered.
LEMMA HarnessEditsShows == IInv /\ EvidenceInv /\ HarnessEdits => EvidenceInv'
<1> SUFFICES ASSUME IInv, EvidenceInv, HarnessEdits PROVE EvidenceInv'
  OBVIOUS
<1>1. Doing("harness") /\ UNCHANGED <<kind, strays, pc, back, mem, disk, head, lease>>
  BY DEF HarnessEdits, EditsTree, Runs, Doing, Checkpointing, fixed, local, server
<1>2. /\ mem.done \in {1, 2, 3} /\ (mem.done = 1 => kind # "revision")
      /\ (mem.done \in {1, 2} => mem.guard = mem.done)
      /\ ~Doing("test") /\ ~Doing("close")
  BY <1>1 DEF EvidenceInv, PlacesOK, Doing, Checkpointing, AtWork, SpecPhase, RedPhase, GreenPhase
<1>3. ~Doing("test")' /\ ~Doing("close")'
  BY <1>1, <1>2 DEF Doing
<1>4. Start' = Start
  BY <1>1 DEF Start, Base
<1>5. BeginningsOK'
  BY <1>1, <1>2, <1>4
     DEF EvidenceInv, BeginningsOK, AtStart, Specified, SpecPhase, RedPhase, Quiet
<1>6. TestedOK'
  BY <1>3, <1>1 DEF TestedOK, Doing, Checkpointing, Quiet
<1>7. Agrees(disk)' /\ PlacesOK' /\ ShownOK' /\ ReviewedOK'
  BY <1>1, <1>4
     DEF EvidenceInv, Agrees, PlacesOK, Doing, ShownOK, Specified, Attested, Fails, ReviewedOK,
         Quiet, Failing, Passing
<1> QED BY <1>5, <1>6, <1>7 DEF EvidenceInv

\* An edit between the runs: of the trees nothing is claimed any more.
LEMMA StrayEditsShows == IInv /\ EvidenceInv /\ StrayEdits => EvidenceInv'
<1> SUFFICES ASSUME IInv, EvidenceInv, StrayEdits PROVE EvidenceInv'
  OBVIOUS
<1>1. UNCHANGED <<kind, pc, back, mem, disk, head, lease>>
  BY DEF StrayEdits, EditsTree, local, server
<1>2. ~Quiet'
  BY DEF StrayEdits, Quiet, IInv, WorkerTypeOK
<1>3. BeginningsOK'
  BY <1>1, <1>2 DEF EvidenceInv, BeginningsOK, AtStart, Specified
<1>4. TestedOK'
  BY <1>1, <1>2 DEF EvidenceInv, TestedOK, Doing, Specified, Attested, Failing, Passing
<1>5. ShownOK'
  BY <1>1, <1>2 DEF EvidenceInv, ShownOK, Specified, Attested, Failing, Passing
<1>6. Agrees(disk)' /\ PlacesOK' /\ ReviewedOK'
  BY <1>1 DEF EvidenceInv, Agrees, PlacesOK, Doing, ReviewedOK
<1> QED BY <1>3, <1>4, <1>5, <1>6 DEF EvidenceInv

LEMMA DetachShows == IInv /\ EvidenceInv /\ Detach => EvidenceInv'
<1> SUFFICES ASSUME IInv, EvidenceInv, Detach PROVE EvidenceInv'
  OBVIOUS
<1>1. SameSources /\ UNCHANGED <<pc, back, mem, disk, tree, lease>>
  BY DEF Detach, SameSources, local, files, server
<1>2. Agrees(mem')
  BY <1>1 DEF Agrees
<1> QED BY <1>1, <1>2, StayShows

LEMMA HarnessReportsShows == IInv /\ EvidenceInv /\ HarnessReports => EvidenceInv'
<1> SUFFICES ASSUME IInv, EvidenceInv, HarnessReports PROVE EvidenceInv'
  OBVIOUS
<1>1. SameSources /\ Agrees(mem') /\ UNCHANGED <<pc, back, mem, disk, tree, lease>>
  BY FilesAreSources DEF HarnessReports, Agrees, files, server
<1> QED BY <1>1, StayShows

LEMMA HarnessExitsShows == IInv /\ EvidenceInv /\ HarnessExits => EvidenceInv'
<1> SUFFICES ASSUME IInv, EvidenceInv, HarnessExits PROVE EvidenceInv'
  OBVIOUS
<1>1. /\ pc = "harness" /\ pc' = "check" /\ SameSources
      /\ UNCHANGED <<kind, strays, back, tree, head, lease>>
      /\ mem' = [mem EXCEPT !.usage = Sum(@, meter)] /\ disk' = mem'
  BY FilesAreSources DEF HarnessExits, Go, Save, fixed, files, server
<1>2. Agrees(mem')
  BY <1>1, PhaseNumbers DEF Agrees, States
<1>3. mem'.done = mem.done /\ mem'.guard = mem.guard
  BY <1>2 DEF Agrees
<1>4. PlacesOK'
  BY <1>1, <1>3, PhaseNumbers
     DEF EvidenceInv, PlacesOK, Doing, Checkpointing, AtWork, SpecPhase, RedPhase, GreenPhase,
         VerifyPhase
<1>5. TestedOK'
  BY <1>1 DEF TestedOK, Doing, Checkpointing, Quiet
<1>6. lease'.state # "awaiting_review"
  BY <1>1 DEF EvidenceInv, ReviewedOK
<1> QED BY <1>1, <1>2, <1>4, <1>5, <1>6, StateShows, UnreviewedShows DEF EvidenceInv

\* What check_phase_scope leaves of the tree.
LEMMA ScopeKeeps ==
  ASSUME IInv, InScope, mem.guard = mem.phase
  PROVE  /\ mem.phase = SpecPhase => tree.tests = mem.before.tests /\ tree.code = mem.before.code
         /\ mem.phase = RedPhase => tree.spec = mem.before.spec /\ tree.code = mem.before.code
<1>1. {"spec", "tests", "code"} \subseteq DOMAIN tree
  BY PhaseNumbers DEF Trees
<1>2. ASSUME mem.phase \in {SpecPhase, RedPhase}, NEW f \in {"spec", "tests", "code"},
             f # (IF mem.phase = SpecPhase THEN "spec" ELSE "tests")
      PROVE  tree[f] = mem.before[f]
  BY <1>1, <1>2 DEF InScope
<1>3. SpecPhase # RedPhase
  BY DEF SpecPhase, RedPhase
<1> QED BY <1>2, <1>3

LEMMA CheckShows == IInv /\ EvidenceInv /\ Check => EvidenceInv'
<1> SUFFICES ASSUME IInv, EvidenceInv, Check PROVE EvidenceInv'
  OBVIOUS
<1>1. /\ pc = "check" /\ SameSources /\ UNCHANGED <<kind, strays, tree, head, lease>>
      /\ mem.phase = mem.done /\ mem.done \in 1..4 /\ kind \in {"initial", "revision"}
      /\ (mem.done \in {1, 2} => mem.guard = mem.done)
  BY FilesAreSources, WorkerAssumption
     DEF Check, fixed, files, server, IInv, PhasesOK, WorkerTypeOK, AtWork, EvidenceInv, PlacesOK,
         Doing, SpecPhase, RedPhase, VerifyPhase
<1>2. lease'.state # "awaiting_review"
  BY <1>1 DEF EvidenceInv, ReviewedOK
<1>3. CASE Raise
  BY <1>1, <1>2, <1>3, RaiseShows
<1> DEFINE sound == CASE mem.phase = SpecPhase -> InScope /\ tree.spec = 1
                                               /\ tree.tests = mem.baselineTests
                 [] mem.phase = RedPhase  -> InScope /\ (tree.tests # mem.baselineTests
                                                          \/ kind = "revision")
                 [] OTHER                 -> ArtifactsHold
           unchanged == mem.phase = RedPhase /\ tree.tests = mem.baselineTests
<1>4. ASSUME sound
      PROVE  /\ mem.phase = SpecPhase => InScope /\ tree.spec = 1
             /\ mem.phase = RedPhase => InScope /\ (tree.tests # mem.baselineTests
                                                          \/ kind = "revision")
             /\ mem.phase \notin {SpecPhase, RedPhase} => ArtifactsHold
  <2>1. SpecPhase # RedPhase
    BY DEF SpecPhase, RedPhase
  <2> QED BY <1>4, <2>1, Zenon
<1> HIDE DEF sound
<1>5. CASE /\ sound /\ mem.phase = SpecPhase /\ CheckpointThen("close")
           /\ mem' = [mem EXCEPT !.spec = tree.spec] /\ UNCHANGED <<disk, meter>>
  <2>1. mem.done = 1 /\ mem.guard = 1 /\ InScope /\ tree.spec = 1
    BY <1>1, <1>4, <1>5 DEF SpecPhase
  <2>2. tree.tests = mem.before.tests /\ tree.code = mem.before.code
    BY <1>1, <1>5, <2>1, ScopeKeeps DEF SpecPhase
  <2>3. AtStart(mem.before)
    BY <2>1 DEF EvidenceInv, BeginningsOK, SpecPhase, Quiet
  <2>4. Specified(tree)
    BY <2>1, <2>2, <2>3 DEF AtStart, Specified, Quiet
  <2>5. /\ Agrees(mem') /\ mem'.spec = 1 /\ mem'.done = 1 /\ mem'.guard = 1
        /\ pc' = "scope" /\ back' = "close"
    BY <1>5, <2>1, PhaseNumbers DEF Agrees, States, SpecPhase, RedPhase, CheckpointThen
  <2>6. PlacesOK'
    BY <2>5 DEF PlacesOK, Doing, Checkpointing, AtWork, SpecPhase, RedPhase, VerifyPhase
  <2>7. TestedOK'
    BY <1>1, <2>4, <2>5
       DEF TestedOK, Doing, Checkpointing, Specified, Start, Base, SpecPhase, RedPhase, Quiet
  <2> QED BY <1>1, <1>2, <1>5, <2>5, <2>6, <2>7, StateShows, UnreviewedShows DEF EvidenceInv
<1>6. CASE /\ sound /\ unchanged
           /\ Go("next") /\ UNCHANGED meter
           /\ Save(Completed([mem EXCEPT !.redExit = 0, !.tests = tree.tests,
                                          !.red = Base(kind)]))
  <2>1. mem.done = 2 /\ mem.guard = 2 /\ InScope /\ kind = "revision" /\ tree.tests = mem.baselineTests
    BY <1>1, <1>4, <1>6 DEF RedPhase
  <2>2. (Quiet => mem.baselineTests = Start.tests) /\ mem.spec = 1
    BY <2>1 DEF EvidenceInv, BeginningsOK, SpecPhase, Quiet
  <2>3. Specified(Start) /\ Start' = Start /\ Base(kind).tree = Start
    BY <1>1, <2>1, StartKnown DEF Specified, Start, Base, Quiet
  <2>4. /\ disk' = mem' /\ mem'.done = 3 /\ mem'.spec = 1 /\ mem'.redExit = 0
        /\ mem'.baselineTests = mem.baselineTests
        /\ mem'.tests = mem.baselineTests /\ mem'.red = Base(kind)
    BY <1>6, <2>1, <2>2, PhaseNumbers DEF Save, Completed, States
  <2>5. Agrees(disk)'
    BY <2>4 DEF Agrees
  <2>6. BeginningsOK'
    BY <1>1, <2>2, <2>3, <2>4 DEF BeginningsOK, SpecPhase, RedPhase, Quiet
  <2>7. ShownOK'
    BY <1>1, <2>1, <2>2, <2>3, <2>4 DEF ShownOK, Specified, RedPhase, GreenPhase, ReadyPhase, Quiet
  <2>8. pc' \in Idle
    BY <1>6 DEF Go, Idle
  <2> QED BY <1>2, <2>5, <2>6, <2>7, <2>8, IdleShows, UnreviewedShows DEF EvidenceInv
<1>7. CASE /\ sound /\ mem.phase # SpecPhase /\ ~unchanged /\ Go("test") /\ UNCHANGED local
  <2>1. mem.done \in 2..4 /\ UNCHANGED <<mem, disk, back>> /\ pc' = "test"
    BY <1>1, <1>7 DEF SpecPhase, Go, local
  <2>2. mem.done = 2 => Specified(tree)
    <3>1. SUFFICES ASSUME mem.done = 2 PROVE Specified(tree)
      OBVIOUS
    <3>2. mem.guard = 2 /\ mem.phase = RedPhase /\ InScope
      BY <1>1, <1>4, <1>7, <3>1 DEF RedPhase
    <3>3. tree.spec = mem.before.spec /\ tree.code = mem.before.code
      BY <1>1, <3>1, <3>2, ScopeKeeps DEF RedPhase
    <3>4. Specified(mem.before)
      BY <3>1, <3>2 DEF EvidenceInv, BeginningsOK, RedPhase, Quiet
    <3> QED BY <3>3, <3>4 DEF Specified, Quiet
  <2>3. mem.done > 2 => Attested(tree)
    BY <1>1, <1>4, <1>7, <2>1 DEF SpecPhase, RedPhase, ArtifactsHold, Attested, Quiet
  <2>4. PlacesOK'
    BY <1>1, <2>1 DEF PlacesOK, Doing, Checkpointing, AtWork, SpecPhase, RedPhase
  <2>5. TestedOK'
    BY <1>1, <2>1, <2>2, <2>3
       DEF TestedOK, Doing, Checkpointing, Specified, Attested, Start, Base, RedPhase, Quiet
  <2> QED BY <1>1, <1>2, <2>1, <2>4, <2>5, MoveShows, UnreviewedShows
<1> QED BY <1>3, <1>5, <1>6, <1>7 DEF Check, sound

\* The tests tell what is right of the tree; what they leave behind they do not look at.
LEMMA TestsShows == IInv /\ EvidenceInv /\ Tests => EvidenceInv'
<1> SUFFICES ASSUME IInv, EvidenceInv, Tests PROVE EvidenceInv'
  OBVIOUS
<1>1. /\ pc = "test" /\ UNCHANGED <<kind, strays, head, lease>>
      /\ mem.phase = mem.done /\ mem.done < 5 /\ mem.done # 1
      /\ mem.done \in 0..5 /\ tree \in Trees /\ mem \in States
      /\ (mem.done = 2 => mem.guard = 2 /\ Specified(tree))
      /\ (mem.done > 2 => Attested(tree))
  BY PhaseNumbers
     DEF Tests, fixed, files, server, IInv, PhasesOK, AtWork, ReadyPhase, SpecPhase, RedPhase,
         EvidenceInv, PlacesOK, TestedOK, Doing, Quiet
<1>2. SameSources
  BY <1>1 DEF Tests, SameSources, Trees
<1>3. lease'.state # "awaiting_review"
  BY <1>1 DEF EvidenceInv, ReviewedOK
<1>4. CASE Raise
  BY <1>2, <1>3, <1>4, RaiseShows
<1>5. CASE /\ Fails(tree) = (mem.phase = RedPhase) /\ mem.phase = 0
           /\ Go("next") /\ Save(Completed([mem EXCEPT !.baselineTests = tree.tests]))
  <2>1. /\ mem.done = 0 /\ mem.guard # 1 /\ AtStart(tree) /\ Start' = Start
    BY <1>1, <1>5 DEF EvidenceInv, BeginningsOK, Start, Base, Quiet
  <2>2. AtStart(tree)' /\ (Quiet => tree.tests = Start.tests)
    BY <1>2, <2>1 DEF AtStart, SameSources, Quiet
  <2>3. Save(Completed([mem EXCEPT !.baselineTests = tree.tests]))
    BY <1>5
  <2>4. /\ disk' = mem' /\ mem'.done = 1 /\ mem'.guard = mem.guard
        /\ mem'.baselineTests = tree.tests
    BY <1>1, <2>1, <2>3 DEF Save, Completed, States
  <2>5. Agrees(disk)'
    BY <2>4 DEF Agrees
  <2>6. BeginningsOK'
    BY <1>1, <2>1, <2>2, <2>4 DEF BeginningsOK, SpecPhase, RedPhase, Quiet
  <2>7. ShownOK'
    BY <2>4 DEF ShownOK, RedPhase, GreenPhase, ReadyPhase, Quiet
  <2>8. pc' \in Idle
    BY <1>5 DEF Go, Idle
  <2> QED BY <1>3, <2>5, <2>6, <2>7, <2>8, IdleShows, UnreviewedShows DEF EvidenceInv
<1>6. CASE /\ Fails(tree) = (mem.phase = RedPhase) /\ mem.phase # 0
           /\ CheckpointThen("close") /\ disk' = disk
           /\ mem' = IF mem.phase = RedPhase
                       THEN [mem EXCEPT !.redExit = 1, !.tests = tree.tests] ELSE mem
  <2>1. /\ Agrees(mem') /\ mem'.done = mem.done /\ mem'.guard = mem.guard
        /\ mem'.spec = mem.spec /\ pc' = "scope" /\ back' = "close"
        /\ IF mem.done = 2 THEN mem'.redExit = 1 /\ mem'.tests = tree.tests
                           ELSE mem'.redExit = mem.redExit /\ mem'.tests = mem.tests
    BY <1>1, <1>6 DEF Agrees, States, RedPhase, CheckpointThen
  <2>2. PlacesOK'
    BY <1>1, <1>6, <2>1
       DEF PlacesOK, Doing, Checkpointing, AtWork, SpecPhase, RedPhase, VerifyPhase
  <2>3. Start' = Start /\ (Fails(tree) <=> mem.done = 2) /\ Quiet' = Quiet
    BY <1>1, <1>2, <1>6 DEF SameSources, Start, Base, RedPhase, Quiet
  <2>4. ~Doing("test")' /\ pc' \notin {"post", "close"}
    BY <2>1 DEF Doing, Checkpointing
  <2>5. (mem.done = 2 => Failing(tree)') /\ (mem.done # 2 => Passing(tree)')
    BY <1>2, <2>3 DEF Fails, SameSources, Quiet, Failing, Passing
  <2>6. mem.done = 2 => Specified(tree)' /\ mem'.tests = tree'.tests /\ mem'.redExit = 1
    BY <1>1, <1>2, <2>1, <2>3 DEF SameSources, Specified, Quiet
  <2>7. mem.done > 2 => Attested(tree)'
    BY <1>1, <1>2, <2>1 DEF SameSources, Attested, Quiet
  <2>8. TestedOK'
    BY <1>1, <1>6, <2>1, <2>3, <2>4, <2>5, <2>6, <2>7 DEF TestedOK, SpecPhase, RedPhase, Quiet
  <2> QED BY <1>2, <1>3, <1>6, <2>1, <2>2, <2>8, StateShows, UnreviewedShows DEF EvidenceInv
<1> QED BY <1>4, <1>5, <1>6 DEF Tests

\* A phase is complete when its checkpoint is made.
LEMMA CloseShows == IInv /\ EvidenceInv /\ Close => EvidenceInv'
<1> SUFFICES ASSUME IInv, EvidenceInv, Close PROVE EvidenceInv'
  OBVIOUS
<1>1. /\ pc = "close" /\ SameSources /\ UNCHANGED <<kind, strays, tree, head, lease>>
      /\ mem.phase = mem.done /\ mem.done \in 1..4
      /\ mem.checkpoint = head /\ (Quiet => head.tree = tree)
      /\ (mem.done \in {1, 2} => mem.guard = mem.done)
      /\ (mem.done = 1 => Specified(tree) /\ mem.spec = 1)
      /\ (mem.done = 2 => /\ Specified(tree) /\ Failing(tree)
                          /\ mem.redExit = 1 /\ (Quiet => mem.tests = tree.tests))
      /\ (mem.done > 2 => Attested(tree) /\ Passing(tree))
  BY FilesAreSources
     DEF Close, fixed, files, server, IInv, PhasesOK, AtWork, EvidenceInv, PlacesOK, TestedOK,
         Doing, SpecPhase, RedPhase, VerifyPhase, Quiet
<1>2. lease'.state # "awaiting_review"
  BY <1>1 DEF EvidenceInv, ReviewedOK
<1>3. CASE Raise
  BY <1>1, <1>2, <1>3, RaiseShows
<1>4. CASE /\ ~(mem.phase = VerifyPhase /\ mem.checkpoint # mem.green)
           /\ Go("next") /\ UNCHANGED meter
           /\ Save(Completed([mem EXCEPT
                 !.red = IF mem.phase = RedPhase THEN mem.checkpoint ELSE @,
                 !.green = IF mem.phase = GreenPhase THEN mem.checkpoint ELSE @]))
  <2>1. /\ disk' = mem' /\ mem'.done = mem.done + 1 /\ mem'.guard = mem.guard
        /\ mem'.before = mem.before /\ mem'.baselineTests = mem.baselineTests
        /\ mem'.spec = mem.spec /\ mem'.tests = mem.tests /\ mem'.redExit = mem.redExit
        /\ mem'.checkpoint = mem.checkpoint
        /\ mem'.red = (IF mem.done = 2 THEN head ELSE mem.red)
        /\ mem'.green = (IF mem.done = 3 THEN head ELSE mem.green)
    BY <1>1, <1>4, PhaseNumbers DEF Save, Completed, States, RedPhase, GreenPhase
  <2>2. Agrees(disk)'
    BY <2>1 DEF Agrees
  <2>3. Start' = Start
    BY <1>1 DEF Start, Base
  <2>4. BeginningsOK'
    BY <1>1, <2>1, <2>3 DEF EvidenceInv, BeginningsOK, Specified, SpecPhase, RedPhase, Quiet
  <2>5. ShownOK'
    BY <1>1, <1>4, <2>1, <2>3
       DEF EvidenceInv, ShownOK, Specified, Attested, Fails, RedPhase, GreenPhase, VerifyPhase,
           ReadyPhase, Quiet, Failing, Passing
  <2>6. pc' \in Idle
    BY <1>4 DEF Go, Idle
  <2> QED BY <1>2, <2>2, <2>4, <2>5, <2>6, IdleShows, UnreviewedShows DEF EvidenceInv
<1> QED BY <1>3, <1>4 DEF Close

\* What goes under review is what was established.
LEMMA SubmitShows == IInv /\ EvidenceInv /\ Submit => EvidenceInv'
<1> SUFFICES ASSUME IInv, EvidenceInv, Submit PROVE EvidenceInv'
  OBVIOUS
<1>1. pc = "submit" /\ SameSources /\ mem.done = ReadyPhase
  BY FilesAreSources DEF Submit, EvidenceInv, PlacesOK
<1>2. CASE Refused
  BY <1>1, <1>2, RefusedShows
<1>3. CASE /\ MayComplete
           /\ lease' = [lease EXCEPT !.state = "awaiting_review", !.tokens = Usage,
                 !.checkpoint = mem.checkpoint,
                 !.evidence = [redExit |-> mem.redExit, red |-> mem.red, green |-> mem.green]]
           /\ Raise \/ (Go("off") /\ Save(mem))
  <2>1. Agrees(mem') /\ disk' = mem' /\ pc' \in {"off", "stopping"}
    BY <1>3, RaiseAgrees DEF Go, Save, Agrees
  <2>2. /\ lease'.checkpoint = mem.green
        /\ lease'.evidence = [redExit |-> mem.redExit, red |-> mem.red, green |-> mem.green]
    BY <1>3 DEF MayComplete, IInv, WorkerTypeOK
  <2>3. /\ mem'.done = mem.done /\ mem'.green = mem.green /\ mem'.red = mem.red
        /\ mem'.redExit = mem.redExit
    BY <1>1, <2>1 DEF Agrees, ReadyPhase, RedPhase
  <2>4. ReviewedOK'
    BY <1>1, <2>1, <2>2, <2>3 DEF ReviewedOK
  <2> QED BY <1>1, <2>1, <2>4, StopShows DEF Idle
<1> QED BY <1>2, <1>3 DEF Submit, Answered

LEMMA InterruptShows == IInv /\ EvidenceInv /\ Interrupt => EvidenceInv'
BY RaiseShows, FilesAreSources DEF Interrupt, server

LEMMA ReportStopShows == IInv /\ EvidenceInv /\ ReportStop => EvidenceInv'
<1> SUFFICES ASSUME IInv, EvidenceInv, ReportStop PROVE EvidenceInv'
  OBVIOUS
<1>1. /\ pc = "stopping" /\ pc' = "off" /\ SameSources /\ UNCHANGED <<mem, disk>>
      /\ Agrees(mem')
  BY FilesAreSources DEF ReportStop, Go, local, Agrees
<1>2. lease'.state = "awaiting_review" => lease' = lease
  BY DEF ReportStop, IInv, WorkerTypeOK
<1>3. ReviewedOK'
  BY <1>1, <1>2 DEF EvidenceInv, ReviewedOK
<1> QED BY <1>1, <1>3, StopShows DEF Idle

\* A killed process resumes with what is on disk.
LEMMA KillShows == IInv /\ EvidenceInv /\ Kill => EvidenceInv'
<1> SUFFICES ASSUME IInv, EvidenceInv, Kill PROVE EvidenceInv'
  OBVIOUS
<1>1. pc' = "off" /\ mem' = disk /\ disk' = disk /\ SameSources /\ lease' = lease
  BY DEF Kill, SameSources, files, server
<1>2. Agrees(mem')
  BY <1>1 DEF EvidenceInv
<1>3. ReviewedOK'
  BY <1>1, <1>2 DEF EvidenceInv, ReviewedOK, Agrees, ReadyPhase, RedPhase
<1> QED BY <1>1, <1>2, <1>3, StopShows DEF Idle

LEMMA RecoverShows == IInv /\ EvidenceInv /\ Recover => EvidenceInv'
<1> SUFFICES ASSUME IInv, EvidenceInv, Recover PROVE EvidenceInv'
  OBVIOUS
<1>1. /\ SameSources /\ Agrees(mem') /\ UNCHANGED <<pc, back, mem, disk, tree>>
      /\ lease' = [lease EXCEPT !.state = "running"]
  BY FilesAreSources DEF Recover, local, files, Agrees
<1>2. lease'.state # "awaiting_review"
  BY <1>1 DEF IInv, WorkerTypeOK
<1> QED BY <1>1, <1>2, StayShows

LEMMA RevokeShows == IInv /\ EvidenceInv /\ Revoke => EvidenceInv'
<1> SUFFICES ASSUME IInv, EvidenceInv, Revoke PROVE EvidenceInv'
  OBVIOUS
<1>1. /\ SameSources /\ Agrees(mem') /\ UNCHANGED <<pc, back, mem, disk, tree>>
      /\ lease' = [lease EXCEPT !.state = "over"]
  BY FilesAreSources DEF Revoke, local, files, Agrees
<1>2. lease'.state # "awaiting_review"
  BY <1>1 DEF IInv, WorkerTypeOK
<1> QED BY <1>1, <1>2, StayShows

LEMMA InitShows == Init => EvidenceInv
<1> SUFFICES ASSUME Init PROVE EvidenceInv
  OBVIOUS
<1>1. /\ pc = "off" /\ mem = Fresh(kind) /\ disk = mem /\ tree = Start
      /\ lease.state = "running" /\ mem.done = 0 /\ mem.guard = 0
  BY DEF Init, Fresh, Start
<1>2. Agrees(disk) /\ PlacesOK /\ TestedOK
  BY <1>1 DEF Agrees, PlacesOK, TestedOK, Doing, Checkpointing, AtWork, Quiet
<1>3. BeginningsOK /\ ShownOK /\ ReviewedOK
  BY <1>1
     DEF BeginningsOK, ShownOK, ReviewedOK, AtStart, SpecPhase, RedPhase, GreenPhase, ReadyPhase,
         Quiet
<1> QED BY <1>2, <1>3 DEF EvidenceInv

LEMMA NextShows == IInv /\ EvidenceInv /\ [Next]_vars => EvidenceInv'
<1> SUFFICES ASSUME IInv, EvidenceInv, [Next]_vars PROVE EvidenceInv'
  OBVIOUS
<1>1. CASE Supervise
  BY <1>1, ReplayEventsShows, CloneShows, OpenShows, CheckScopeShows, PushShows,
     PostCheckpointShows, SaveEventShows, PostEventShows, NextPhaseShows, PhasePingShows,
     AttestShows, CheckShows, TestsShows, CloseShows, SubmitShows, ReportStopShows
     DEF Supervise
<1>2. CASE UNCHANGED vars
  <2>1. SameSources /\ Agrees(mem') /\ UNCHANGED <<pc, back, mem, disk, tree, lease>>
    BY <1>2, FilesAreSources DEF vars, local, files, server, Agrees
  <2> QED BY <2>1, StayShows
<1> QED BY <1>1, <1>2, BeginShows, TickShows, TickCheckpointShows, WriteEventShows,
           HarnessEditsShows, StrayEditsShows, DetachShows, HarnessReportsShows,
           HarnessExitsShows, InterruptShows, KillShows, RecoverShows, RevokeShows
           DEF Next

\* The invariant shows what reviewers are shown.
LEMMA ShownIsTrue == IInv /\ EvidenceInv => EvidenceIsTrue
<1> SUFFICES ASSUME IInv, EvidenceInv, lease.state = "awaiting_review" PROVE EvidenceIsTrue
  BY DEF EvidenceIsTrue
<1>1. /\ mem.done = ReadyPhase /\ lease.checkpoint = mem.green /\ head = mem.green
      /\ lease.evidence = [redExit |-> mem.redExit, red |-> mem.red, green |-> mem.green]
      /\ mem.spec = 1 /\ Specified(mem.red.tree) /\ (Quiet => mem.tests = mem.red.tree.tests)
      /\ IF mem.redExit = 1 THEN Failing(mem.red.tree)
                            ELSE kind = "revision" /\ (Quiet => mem.tests = Start.tests)
      /\ Attested(mem.green.tree) /\ Passing(mem.green.tree)
  BY DEF EvidenceInv, ReviewedOK, ShownOK, BeginningsOK, SpecPhase, RedPhase, GreenPhase, ReadyPhase
<1>2. /\ lease.evidence.redExit = mem.redExit
      /\ lease.evidence.red = mem.red /\ lease.evidence.green = mem.green
  BY <1>1
<1>3. mem.redExit = 1 /\ Quiet => mem.red.tree.tests # Start.tests
  BY <1>1, StartKnown DEF Failing, Fails
<1>4. Quiet => TreesAreAsShown(lease.evidence)
  BY <1>1, <1>2, <1>3 DEF TreesAreAsShown, Specified, Attested, Failing, Passing, Start
<1> QED BY <1>1, <1>2, <1>4 DEF EvidenceIsTrue, Quiet

\* Wherever the worker is killed, stopped or cut off, the commit under review is the last
\* one made and the one called green, and without failing tests it is a revision's; and as
\* long as nothing that outlived a run of the agent or of the tests edits the checkout
\* between the runs, the commits are what the evidence says of them.
THEOREM EvidenceHolds == Spec => []EvidenceIsTrue
<1>1. Init => EvidenceInv
  BY InitShows
<1>2. IInv /\ EvidenceInv /\ [Next]_vars => EvidenceInv'
  BY NextShows
<1> QED BY WorkerInvariance, <1>1, <1>2, ShownIsTrue, PTL DEF Spec
=============================================================================
