-------------------------- MODULE SupervisionProofs --------------------------
(***************************************************************************)
(* Proofs about Supervision, for pipes and queues of any size: its type    *)
(* invariant, that nothing is left behind, and that a result of            *)
(* run_process has everything the child wrote.                             *)
(*                                                                         *)
(* The first two follow from where the call stands in its mode.  The last  *)
(* counts: a reader that has gone left one end, which is in the queue or   *)
(* was received, and the last reader to go leaves nothing behind its end.  *)
(***************************************************************************)
EXTENDS Supervision, TLAPS

Places ==
  {"before", "loop", "get", "last", "kill", "waited", "raw", "poll", "relay",
   "term", "wait", "restore", "read", "over"}

\* SupervisionTypeOK without the range of "ended", which needs the count.
Typed ==
  /\ mode \in {"none", "batch", "terminal", "confirm"} /\ at \in Places
  /\ answer \in {"none", "result", "stopped"}
  /\ leader \in Living \cup {"none", "dead"} /\ helper \in Living \cup {"none", "dead"}
  /\ pipe \in [Channels -> 0..PipeSize]
  /\ reader \in [Channels -> {"off", "reads", "holds", "ends", "gone"}]
  /\ queue \in Seq({"text", "end"}) /\ Len(queue) <= QueueSize
  /\ ended \in Nat /\ clock \in SUBSET {"absolute", "idle", "tick"}
  /\ screen \in {"cooked", "raw"} /\ hurt \in BOOLEAN

\* Where a call of each mode can be, and what is so there.
Placed ==
  /\ mode = "none" <=> at = "before"
  /\ mode = "batch" => at \in {"loop", "get", "last", "kill", "waited", "over"}
  /\ mode = "terminal" =>
       at \in {"raw", "loop", "poll", "relay", "last", "term", "wait", "restore", "over"}
  /\ mode = "confirm" => at \in {"loop", "read", "over"}
  /\ mode \in {"none", "confirm"} => leader = "none"
  /\ leader = "none" => helper = "none"
  /\ screen = "raw" => mode = "terminal" /\ at # "over"
  /\ mode = "batch" /\ at = "last" => leader \notin Living
  /\ mode = "batch" /\ at = "over" => hurt \/ leader \notin Living
  /\ mode = "terminal" /\ at \in {"restore", "over"} =>
       hurt \/ (leader \notin Living /\ helper \notin Living)

\* The readers that have gone and whose end was not received; the queue has at most as
\* many ends.
Gone(c) == IF reader[c] = "gone" THEN 1 ELSE 0
Missing == Gone("stdout") + Gone("stderr") - ended
IsEnd(i) == i \in 1..Len(queue) /\ queue[i] = "end"
Counted ==
  /\ Missing \in 0..2
  /\ Missing = 0 => \A i \in Nat : ~IsEnd(i)
  /\ Missing = 1 => \A i, j \in Nat : IsEnd(i) /\ IsEnd(j) => i = j
  /\ \A i, j, k \in Nat : IsEnd(i) /\ IsEnd(j) /\ IsEnd(k) => i = j \/ j = k \/ i = k

\* What only run_process uses, and the state before the call.
Quiet ==
  /\ mode # "batch" => reader = [c \in Channels |-> "off"] /\ queue = << >> /\ ended \in 0..1
  /\ mode = "none" => ended = 0 /\ answer = "none"
\* A reader at the end has read everything, and nobody is left to write.
Drained == \A c \in Channels : reader[c] \in {"ends", "gone"} => Closed /\ pipe[c] = 0
\* When both readers have gone, an end is the last message.
AllGone == \A c \in Channels : reader[c] = "gone"
EndsLast == AllGone /\ queue # << >> => queue[Len(queue)] = "end"
\* The loop leaves for its result with both ends received.
Received ==
  /\ mode = "batch" => Counted
  /\ mode = "batch" /\ at = "last" => ended = 2
  /\ mode = "batch" /\ answer = "result" => ended = 2 /\ at = "over"

SupervisionInv == Typed /\ Placed /\ Quiet /\ Drained /\ EndsLast /\ Received
-----------------------------------------------------------------------------

\* A message put at the end of the queue comes behind the others.
LEMMA Put ==
  ASSUME NEW q \in Seq({"text", "end"}), NEW m \in {"text", "end"}
  PROVE  /\ Append(q, m) \in Seq({"text", "end"}) /\ Len(Append(q, m)) = Len(q) + 1
         /\ \A i \in 1..Len(q) : Append(q, m)[i] = q[i]
         /\ Append(q, m)[Len(q) + 1] = m
<1> QED OBVIOUS

\* A message taken from its head leaves the others in their order.
LEMMA Taken ==
  ASSUME NEW q \in Seq({"text", "end"}), q # << >>
  PROVE  /\ Tail(q) \in Seq({"text", "end"}) /\ Len(Tail(q)) = Len(q) - 1
         /\ \A i \in 1..Len(Tail(q)) : Tail(q)[i] = q[i + 1]
         /\ Head(q) = q[1] /\ Len(q) \in Nat \ {0}
<1> QED OBVIOUS

\* Every step keeps the types.
LEMMA TypedStep ==
  ASSUME Typed, Placed, SupervisionNext
  PROVE  Typed'
<1>1. ASSUME NEW c \in Channels, Writes(c) PROVE Typed'
  BY <1>1, SupervisionAssumption DEF Writes, outcome, process, Typed
<1>2. ASSUME NEW c \in Channels, Reads(c) PROVE Typed'
  <2>1. CASE queue' = queue
    BY <1>2, <2>1, SupervisionAssumption
    DEF Reads, outcome, process, Typed, Placed
  <2>2. ASSUME NEW m \in {"text", "end"}, queue' = Append(queue, m), Len(queue) < QueueSize,
               UNCHANGED pipe,
               reader' = [reader EXCEPT ![c] = IF @ = "ends" THEN "gone" ELSE "reads"]
        PROVE Typed'
    <3>1. queue' \in Seq({"text", "end"}) /\ Len(queue') = Len(queue) + 1 /\ Len(queue) \in Nat
      BY <2>2, Put DEF Typed
    <3> QED
      BY <3>1, <2>2, <1>2, SupervisionAssumption
      DEF Reads, outcome, process, Typed
  <2> QED
    BY <2>1, <2>2, <1>2 DEF Reads
<1>3. ASSUME StartsHelper PROVE Typed'
  BY <1>3 DEF StartsHelper, outcome, stream, Typed
<1>4. ASSUME Exits PROVE Typed'
  BY <1>4 DEF Exits, outcome, stream, Typed
<1>5. ASSUME Elapses PROVE Typed'
  BY <1>5 DEF Elapses, outcome, process, stream, Typed
<1>6. ASSUME StartBatch PROVE Typed'
  BY <1>6 DEF StartBatch, At, outcome, On, Stops, Typed, Places
<1>7. ASSUME StartTerminal PROVE Typed'
  BY <1>7 DEF StartTerminal, At, outcome, On, Stops, stream, Typed, Places
<1>8. ASSUME Ask PROVE Typed'
  BY <1>8 DEF Ask, At, outcome, On, Stops, process, stream, Typed, Places
<1>9. ASSUME BatchLoop PROVE Typed'
  BY <1>9
  DEF BatchLoop, At, outcome, Ticks, Stop, Stops, On, process, stream, Typed, Places
<1>10. ASSUME BatchGet PROVE Typed'
  <2>1. CASE queue = << >>
    BY <1>10, <2>1 DEF BatchGet, On, At, outcome, process, Typed, Places
  <2>2. CASE queue # << >>
    <3>1. queue' = Tail(queue) /\ queue' \in Seq({"text", "end"}) /\ Len(queue') <= QueueSize
      <4>1. queue \in Seq({"text", "end"}) /\ queue' = Tail(queue) /\ Len(queue) <= QueueSize
        BY <1>10, <2>2 DEF BatchGet, Typed
      <4>2. queue' \in Seq({"text", "end"}) /\ Len(queue') = Len(queue) - 1 /\ Len(queue) \in Nat
        BY <4>1, <2>2, Taken
      <4> QED
        BY <4>1, <4>2, SupervisionAssumption
    <3> QED
      BY <1>10, <2>2, <3>1
      DEF BatchGet, Stop, Stops, On, At, outcome, process, Typed, Places
  <2> QED
    BY <2>1, <2>2
<1>11. ASSUME BatchLast PROVE Typed'
  BY <1>11 DEF BatchLast, At, Stop, Stops, process, stream, Typed, Places
<1>12. ASSUME KillTree PROVE Typed'
  BY <1>12
  DEF KillTree, At, outcome, On, Terminated, Killed, process, stream, Typed, Places
<1>13. ASSUME MakeRaw PROVE Typed'
  BY <1>13 DEF MakeRaw, At, process, stream, Typed, Places
<1>14. ASSUME TerminalLoop PROVE Typed'
  BY <1>14
  DEF TerminalLoop, At, outcome, Ticks, Stop, Stops, On, process, stream, Typed, Places
<1>15. ASSUME TerminalPoll PROVE Typed'
  BY <1>15 DEF TerminalPoll, At, outcome, On, process, stream, Typed, Places
<1>16. ASSUME Relay PROVE Typed'
  BY <1>16, SupervisionAssumption
  DEF Relay, At, outcome, On, Stop, Stops, process, Typed, Places
<1>17. ASSUME TerminalLast PROVE Typed'
  BY <1>17 DEF TerminalLast, At, process, stream, Typed, Places
<1>18. ASSUME StopGroup PROVE Typed'
  BY <1>18
  DEF StopGroup, At, outcome, On, Terminated, Killed, process, stream, Typed, Places
<1>19. ASSUME Restore PROVE Typed'
  BY <1>19 DEF Restore, At, process, stream, Typed, Places
<1>20. ASSUME AwaitLine PROVE Typed'
  BY <1>20 DEF AwaitLine, At, outcome, Stop, Stops, On, process, stream, Typed, Places
<1>21. ASSUME ReadLine PROVE Typed'
  BY <1>21 DEF ReadLine, At, outcome, On, process, stream, Typed, Places
<1>22. ASSUME Interrupted PROVE Typed'
  BY <1>22 DEF Interrupted, At, process, stream, Typed, Places
<1>23. QED
  BY <1>1, <1>2, <1>3, <1>4, <1>5, <1>6, <1>7, <1>8, <1>9, <1>10, <1>11, <1>12, <1>13,
     <1>14, <1>15, <1>16, <1>17, <1>18, <1>19, <1>20, <1>21, <1>22
  DEF SupervisionNext, Loop

\* Every step keeps the places.
LEMMA PlacedStep ==
  ASSUME Typed, Placed, SupervisionNext
  PROVE  Placed'
<1>1. ASSUME NEW c \in Channels, Writes(c) PROVE Placed'
  BY <1>1 DEF Writes, outcome, process, Placed
<1>2. ASSUME NEW c \in Channels, Reads(c) PROVE Placed'
  BY <1>2 DEF Reads, outcome, process, Placed
<1>3. ASSUME StartsHelper PROVE Placed'
  BY <1>3 DEF StartsHelper, outcome, Living, Placed
<1>4. ASSUME Exits PROVE Placed'
  BY <1>4 DEF Exits, outcome, Living, Placed
<1>5. ASSUME Elapses PROVE Placed'
  BY <1>5 DEF Elapses, outcome, process, Placed
<1>6. ASSUME StartBatch PROVE Placed'
  BY <1>6 DEF StartBatch, At, outcome, Living, On, Stops, Placed
<1>7. ASSUME StartTerminal PROVE Placed'
  BY <1>7 DEF StartTerminal, At, On, Stops, Placed
<1>8. ASSUME Ask PROVE Placed'
  BY <1>8 DEF Ask, At, outcome, On, Stops, process, Placed
<1>9. ASSUME BatchLoop PROVE Placed'
  BY <1>9 DEF BatchLoop, At, outcome, GoesOn, Ticks, Stop, Stops, On, process, Placed
<1>10. ASSUME BatchGet PROVE Placed'
  BY <1>10 DEF BatchGet, At, outcome, Stop, Stops, On, process, Placed
<1>11. ASSUME BatchLast PROVE Placed'
  BY <1>11 DEF BatchLast, At, Stop, Stops, process, Placed
<1>12. ASSUME KillTree PROVE Placed'
  BY <1>12 DEF KillTree, At, outcome, Living, On, Terminated, Killed, process, Placed
<1>13. ASSUME MakeRaw PROVE Placed'
  BY <1>13 DEF MakeRaw, At, process, Placed
<1>14. ASSUME TerminalLoop PROVE Placed'
  BY <1>14 DEF TerminalLoop, At, Ticks, Stop, Stops, On, process, Placed
<1>15. ASSUME TerminalPoll PROVE Placed'
  BY <1>15 DEF TerminalPoll, At, On, process, Placed
<1>16. ASSUME Relay PROVE Placed'
  BY <1>16 DEF Relay, At, On, Stop, Stops, process, Placed
<1>17. ASSUME TerminalLast PROVE Placed'
  BY <1>17 DEF TerminalLast, At, process, Placed
<1>18. ASSUME StopGroup PROVE Placed'
  BY <1>18 DEF StopGroup, At, Living, On, Terminated, Killed, process, Placed
<1>19. ASSUME Restore PROVE Placed'
  BY <1>19 DEF Restore, At, process, Placed
<1>20. ASSUME AwaitLine PROVE Placed'
  BY <1>20 DEF AwaitLine, At, outcome, Stop, Stops, On, process, Placed
<1>21. ASSUME ReadLine PROVE Placed'
  BY <1>21 DEF ReadLine, At, outcome, On, process, Placed
<1>22. ASSUME Interrupted PROVE Placed'
  BY <1>22 DEF Interrupted, At, process, Placed
<1>23. QED
  BY <1>1, <1>2, <1>3, <1>4, <1>5, <1>6, <1>7, <1>8, <1>9, <1>10, <1>11, <1>12, <1>13,
     <1>14, <1>15, <1>16, <1>17, <1>18, <1>19, <1>20, <1>21, <1>22
  DEF SupervisionNext, Loop

\* Steps that move neither the output nor the readers, and what they do to the loop.
StreamStill ==
  /\ UNCHANGED stream /\ (mode # "none" /\ Closed => Closed')
  /\ mode' = "none" => mode = "none" /\ answer' = answer
  /\ (mode' = "batch") = (mode = "batch")
  /\ mode' = "batch" =>
       /\ at' = "last" => at = "last" \/ ~GoesOn
       /\ answer' = "result" =>
            at' = "over" /\ (at = "last" \/ (answer = "result" /\ at = "over"))

\* Only the child, the readers and the reads of the loop move the output.
LEMMA StillOrNot ==
  ASSUME Typed, Placed, Received, SupervisionNext
  PROVE  \/ (\E c \in Channels : Writes(c) \/ Reads(c)) \/ StartBatch \/ BatchGet \/ Relay
         \/ StreamStill
<1>1. ASSUME StartsHelper PROVE StreamStill
  BY <1>1 DEF StartsHelper, outcome, Closed, StreamStill, Received
<1>2. ASSUME Exits PROVE StreamStill
  BY <1>2 DEF Exits, outcome, Closed, StreamStill, Received
<1>3. ASSUME Elapses PROVE StreamStill
  BY <1>3 DEF Elapses, outcome, Closed, process, StreamStill, Received
<1>4. ASSUME StartTerminal PROVE StreamStill
  BY <1>4 DEF StartTerminal, StreamStill, Placed
<1>5. ASSUME Ask PROVE StreamStill
  BY <1>5 DEF Ask, StreamStill, Placed
<1>6. ASSUME BatchLoop PROVE StreamStill
  BY <1>6
  DEF BatchLoop, At, outcome, Closed, Ticks, Stop, Stops, On, process, StreamStill,
      Received
<1>7. ASSUME BatchLast PROVE StreamStill
  BY <1>7 DEF BatchLast, At, Closed, Stop, Stops, process, StreamStill
<1>8. ASSUME KillTree PROVE StreamStill
  BY <1>8
  DEF KillTree, At, outcome, Living, Closed, On, Terminated, Killed, process,
      StreamStill, Received
<1>9. ASSUME MakeRaw PROVE StreamStill
  BY <1>9 DEF MakeRaw, Closed, process, StreamStill
<1>10. ASSUME TerminalLoop PROVE StreamStill
  BY <1>10 DEF TerminalLoop, At, Closed, process, StreamStill
<1>11. ASSUME TerminalPoll PROVE StreamStill
  BY <1>11 DEF TerminalPoll, Closed, process, StreamStill
<1>12. ASSUME TerminalLast PROVE StreamStill
  BY <1>12 DEF TerminalLast, Closed, process, StreamStill
<1>13. ASSUME StopGroup PROVE StreamStill
  BY <1>13 DEF StopGroup, Living, Closed, Terminated, Killed, process, StreamStill
<1>14. ASSUME Restore PROVE StreamStill
  BY <1>14 DEF Restore, Closed, process, StreamStill
<1>15. ASSUME AwaitLine PROVE StreamStill
  BY <1>15 DEF AwaitLine, Closed, process, StreamStill
<1>16. ASSUME ReadLine PROVE StreamStill
  BY <1>16 DEF ReadLine, Closed, process, StreamStill
<1>17. ASSUME Interrupted PROVE StreamStill
  BY <1>17 DEF Interrupted, At, Closed, process, StreamStill
<1> QED
  BY <1>1, <1>2, <1>3, <1>4, <1>5, <1>6, <1>7, <1>8, <1>9, <1>10, <1>11, <1>12, <1>13,
     <1>14, <1>15, <1>16, <1>17
  DEF SupervisionNext, Loop

\* Only run_process has readers and a queue.
LEMMA QuietStep ==
  ASSUME Typed, Placed, Quiet, Received, SupervisionNext
  PROVE  Quiet'
<1>1. ASSUME NEW c \in Channels, Writes(c) PROVE Quiet'
  BY <1>1 DEF Writes, outcome, Quiet
<1>2. ASSUME NEW c \in Channels, Reads(c) PROVE Quiet'
  BY <1>2 DEF Reads, Quiet
<1>3. ASSUME StartBatch PROVE Quiet'
  BY <1>3 DEF StartBatch, Quiet
<1>4. ASSUME BatchGet PROVE Quiet'
  BY <1>4 DEF BatchGet, Quiet
<1>5. ASSUME Relay PROVE Quiet'
  BY <1>5 DEF Relay, Quiet
<1>6. ASSUME StreamStill PROVE Quiet'
  BY <1>6 DEF StreamStill, stream, Quiet
<1> QED
  BY <1>1, <1>2, <1>3, <1>4, <1>5, <1>6, StillOrNot

\* Once the output has ended nothing is written any more.
LEMMA DrainedStep ==
  ASSUME Typed, Placed, Quiet, Received, Drained, SupervisionNext
  PROVE  Drained'
<1>1. ASSUME NEW c \in Channels, Writes(c) PROVE Drained'
  BY <1>1 DEF Writes, Drained
<1>2. ASSUME NEW c \in Channels, Reads(c) PROVE Drained'
  BY <1>2 DEF Reads, process, Typed, Drained, Closed
<1>3. ASSUME StartBatch PROVE Drained'
  BY <1>3 DEF StartBatch, Placed, Quiet, Drained
<1>4. ASSUME BatchGet PROVE Drained'
  BY <1>4 DEF BatchGet, process, Drained, Closed
<1>5. ASSUME Relay PROVE Drained'
  BY <1>5 DEF Relay, Quiet, Drained
<1>6. ASSUME StreamStill PROVE Drained'
  BY <1>6 DEF StreamStill, stream, Quiet, Drained
<1> QED
  BY <1>1, <1>2, <1>3, <1>4, <1>5, <1>6, StillOrNot

\* The last reader to go leaves nothing behind its end.
LEMMA EndsLastStep ==
  ASSUME Typed, Placed, Quiet, Received, EndsLast, SupervisionNext
  PROVE  EndsLast'
<1>1. ASSUME NEW c \in Channels, Writes(c) PROVE EndsLast'
  BY <1>1 DEF Writes, EndsLast, AllGone
<1>2. ASSUME NEW c \in Channels, Reads(c) PROVE EndsLast'
  BY <1>2 DEF Reads, Typed, EndsLast, AllGone
<1>3. ASSUME StartBatch PROVE EndsLast'
  BY <1>3 DEF StartBatch, Placed, Quiet, EndsLast
<1>4. ASSUME BatchGet PROVE EndsLast'
  BY <1>4 DEF BatchGet, Placed, EndsLast, AllGone
<1>5. ASSUME Relay PROVE EndsLast'
  BY <1>5 DEF Relay, Quiet, EndsLast
<1>6. ASSUME StreamStill PROVE EndsLast'
  BY <1>6 DEF StreamStill, stream, EndsLast, AllGone
<1> QED
  BY <1>1, <1>2, <1>3, <1>4, <1>5, <1>6, StillOrNot

\* The count stays where neither the readers nor the queue move.
LEMMA CountedStays ==
  ASSUME Counted, UNCHANGED <<reader, queue, ended>>
  PROVE  Counted'
<1> QED
  BY DEF Counted, Missing, Gone, IsEnd

\* Every step keeps the count.
LEMMA ReceivedStep ==
  ASSUME Typed, Placed, Quiet, Received, SupervisionNext
  PROVE  Received'
<1>1. ASSUME NEW c \in Channels, Writes(c) PROVE Received'
  BY <1>1, CountedStays DEF Writes, outcome, Received
<1>2. ASSUME NEW c \in Channels, Reads(c) PROVE Received'
  <2>1. CASE queue' = queue
    <3>1. (\A d \in Channels : Gone(d)' = Gone(d)) /\ Missing' = Missing
      BY <1>2, <2>1, SMTT(20) DEF Reads, Gone, Missing, Channels, Typed
    <3>2. mode = "batch" => Counted'
      BY <2>1, <3>1 DEF Received, Counted, IsEnd
    <3> QED
      BY <1>2, <2>1, <3>2 DEF Reads, outcome, Received
  <2>2. CASE reader[c] = "holds" /\ queue' # queue
    <3>1. queue' = Append(queue, "text") /\ reader' = [reader EXCEPT ![c] = "reads"]
      BY <1>2, <2>2 DEF Reads
    <3>2. (\A d \in Channels : Gone(d)' = Gone(d)) /\ Missing' = Missing
      BY <1>2, <2>2, <3>1 DEF Reads, Gone, Missing
    <3>3. \A i \in Nat : IsEnd(i)' => IsEnd(i)
      BY <3>1, Put DEF IsEnd
    <3>4. mode = "batch" => Counted'
      BY <3>2, <3>3 DEF Received, Counted
    <3> QED
      BY <1>2, <3>4 DEF Reads, outcome, Received
  <2>3. CASE reader[c] = "ends" /\ queue' # queue
    <3>1. queue' = Append(queue, "end") /\ reader' = [reader EXCEPT ![c] = "gone"]
      BY <1>2, <2>3 DEF Reads
    <3>2. Missing' = Missing + 1 /\ Missing' <= 2
      BY <1>2, <2>3, <3>1 DEF Reads, Gone, Missing, Channels, Typed
    <3>3. \A i \in Nat : IsEnd(i)' => IsEnd(i) \/ i = Len(queue) + 1
      BY <3>1, Put DEF IsEnd
    <3>4. mode = "batch" => Counted'
      BY <3>2, <3>3 DEF Received, Counted
    <3> QED
      BY <1>2, <3>4 DEF Reads, outcome, Received
  <2> QED
    BY <1>2, <2>1, <2>2, <2>3 DEF Reads
<1>3. ASSUME StartBatch PROVE Received'
  <2>1. ended = 0 /\ queue = << >> /\ UNCHANGED <<ended, queue>> /\ mode' = "batch"
    BY <1>3 DEF StartBatch, Placed, Quiet
  <2>2. \A d \in Channels : reader'[d] # "gone"
    BY <1>3 DEF StartBatch, Placed, Quiet
  <2>3. Counted'
    BY <2>1, <2>2 DEF Counted, Missing, Gone, IsEnd
  <2>4. answer' # "result" /\ at' # "last"
    BY <1>3 DEF StartBatch, On, Stops, At, outcome, Quiet, Placed
  <2> QED
    BY <2>1, <2>3, <2>4 DEF Received
<1>4. ASSUME BatchGet PROVE Received'
  <2>1. Counted /\ mode = "batch" /\ at = "get" /\ UNCHANGED <<mode, reader>>
    BY <1>4 DEF BatchGet, Received
  <2>2. at' # "last" /\ answer' # "result"
    BY <1>4, <2>1 DEF BatchGet, Stop, Stops, On, At, outcome, Received
  <2>3. CASE queue = << >>
    BY <1>4, <2>1, <2>2, <2>3, CountedStays DEF BatchGet, Received
  <2>4. CASE queue # << >>
    <3>1. queue' = Tail(queue) /\ queue \in Seq({"text", "end"})
      BY <1>4, <2>4 DEF BatchGet, Typed
    <3>2. \A i \in Nat : IsEnd(i)' => IsEnd(i + 1) /\ i + 1 # 1
      BY <3>1, <2>4, Taken DEF IsEnd
    <3>3. CASE Head(queue) = "end"
      <4>1. IsEnd(1)
        BY <3>1, <3>3, <2>4, Taken DEF IsEnd
      <4>2. Missing' = Missing - 1 /\ Missing \in 1..2
        BY <1>4, <2>1, <2>4, <3>3, <4>1 DEF BatchGet, Counted, Missing, Gone, Typed
      <4>3. \A i, j \in Nat : IsEnd(i)' /\ IsEnd(j)' => i = j
        BY <2>1, <3>2, <4>1 DEF Counted
      <4>4. Missing = 1 => \A i \in Nat : ~IsEnd(i)'
        BY <2>1, <3>2, <4>1 DEF Counted
      <4>5. Counted'
        BY <4>2, <4>3, <4>4 DEF Counted
      <4> QED
        BY <2>1, <2>2, <4>5 DEF Received
    <3>4. CASE Head(queue) # "end"
      <4>1. Missing' = Missing
        BY <1>4, <2>4, <3>4 DEF BatchGet, Missing, Gone
      <4>2. Counted'
        BY <2>1, <3>2, <4>1 DEF Counted
      <4> QED
        BY <2>1, <2>2, <4>2 DEF Received
    <3> QED
      BY <3>3, <3>4
  <2> QED
    BY <2>3, <2>4
<1>5. ASSUME Relay PROVE Received'
  BY <1>5, CountedStays DEF Relay, Received
<1>6. ASSUME StreamStill PROVE Received'
  <2>1. mode = "batch" => Counted' /\ ended' = ended /\ ended \in 0..2
    BY <1>6, CountedStays DEF StreamStill, stream, Received, Counted, Missing, Gone, Typed
  <2> QED
    BY <1>6, <2>1 DEF StreamStill, Received, GoesOn
<1> QED
  BY <1>1, <1>2, <1>3, <1>4, <1>5, <1>6, StillOrNot

-----------------------------------------------------------------------------
\* The places and the count hold of every state the loop reaches, whatever the child
\* and the readers do.
THEOREM SupervisionInvariance == SupervisionSpec => []SupervisionInv
<1>1. SupervisionInit => SupervisionInv
  <2> SUFFICES ASSUME SupervisionInit PROVE SupervisionInv
    OBVIOUS
  <2>1. Typed
    <3>1. << >> \in Seq({"text", "end"}) /\ Len(<< >>) = 0 /\ 0 \in 0..PipeSize
      BY SupervisionAssumption
    <3>2. pipe \in [Channels -> 0..PipeSize]
      BY <3>1 DEF SupervisionInit
    <3>3. queue \in Seq({"text", "end"}) /\ Len(queue) <= QueueSize
      BY <3>1, SupervisionAssumption DEF SupervisionInit
    <3> QED
      BY <3>2, <3>3 DEF SupervisionInit, Typed, Places
  <2>2. Placed /\ Quiet /\ Drained /\ Received
    BY DEF SupervisionInit, Placed, Quiet, Drained, Received
  <2>3. EndsLast
    BY DEF SupervisionInit, EndsLast
  <2> QED
    BY <2>1, <2>2, <2>3 DEF SupervisionInv
<1>2. SupervisionInv /\ [SupervisionNext]_supervisionVars => SupervisionInv'
  <2> SUFFICES ASSUME SupervisionInv, [SupervisionNext]_supervisionVars
               PROVE  SupervisionInv'
    OBVIOUS
  <2>1. CASE SupervisionNext
    BY <2>1, TypedStep, PlacedStep, QuietStep, DrainedStep, EndsLastStep, ReceivedStep
    DEF SupervisionInv
  <2>2. CASE UNCHANGED supervisionVars
    <3>1. Typed' /\ Placed' /\ Quiet'
      BY <2>2 DEF supervisionVars, SupervisionInv, Typed, Placed, Quiet
    <3>2. Drained' /\ EndsLast'
      BY <2>2 DEF supervisionVars, SupervisionInv, Drained, Closed, EndsLast, AllGone
    <3>3. Received'
      BY <2>2, CountedStays DEF supervisionVars, SupervisionInv, Received
    <3> QED
      BY <3>1, <3>2, <3>3 DEF SupervisionInv
  <2> QED
    BY <2>1, <2>2
<1> QED
  BY <1>1, <1>2, PTL DEF SupervisionSpec

\* The ends received are at most the two that the readers put in the queue.
LEMMA EndedInRange == SupervisionInv => ended \in 0..2
<1> QED
  BY DEF SupervisionInv, Typed, Quiet, Received, Counted, Missing, Gone

\* The variables have their types, for every size of the pipes and of the queue.
THEOREM SupervisionTypeCorrect == SupervisionSpec => []SupervisionTypeOK
<1>1. SupervisionInv => SupervisionTypeOK
  BY EndedInRange DEF SupervisionInv, Typed, SupervisionTypeOK, Places
<1> QED
  BY <1>1, SupervisionInvariance, PTL

\* However a call ends, and at whatever step something raises, the child, after a
\* terminal session its helper too, and the raw mode of the screen are gone
\* (NothingLeftBehind), unless the cleanup itself was interrupted.
THEOREM LeavesNothingBehind == SupervisionSpec => []NothingLeftBehind
<1>1. SupervisionInv => NothingLeftBehind
  BY DEF SupervisionInv, Typed, Placed, NothingLeftBehind, Living
<1> QED
  BY <1>1, SupervisionInvariance, PTL

\* run_process answers only when both readers have put their ends behind all they
\* read, and the loop has received both (OutputIsComplete).
THEOREM ReceivesAllOutput == SupervisionSpec => []OutputIsComplete
<1>1. SupervisionInv => OutputIsComplete
  <2> SUFFICES ASSUME SupervisionInv, mode = "batch", answer = "result"
               PROVE  \A c \in Channels : pipe[c] = 0 /\ reader[c] = "gone" /\ queue = << >>
    BY DEF OutputIsComplete
  <2>1. Missing \in 0..2 /\ ended = 2 /\ Counted
    BY DEF SupervisionInv, Received, Counted
  <2>2. AllGone /\ Missing = 0
    BY <2>1 DEF Missing, Gone, AllGone, Channels
  <2>3. queue = << >>
    <3>1. queue \in Seq({"text", "end"}) /\ (queue # << >> => Len(queue) \in Nat \ {0})
      BY Taken DEF SupervisionInv, Typed
    <3>2. ~IsEnd(Len(queue))
      BY <2>1, <2>2, <3>1 DEF Counted
    <3> QED
      BY <2>2, <3>1, <3>2 DEF SupervisionInv, EndsLast, IsEnd
  <2> QED
    BY <2>2, <2>3 DEF SupervisionInv, Drained, AllGone
<1> QED
  BY <1>1, SupervisionInvariance, PTL
=============================================================================
