------------------------ MODULE StatusCommentsProofs ------------------------
(***************************************************************************)
(* Proofs about StatusComments, for any number of comments, texts,         *)
(* failures, restarts and retries: its type invariant, and that the one    *)
(* comment of a delivered row shows the row's latest text.                 *)
(***************************************************************************)
EXTENDS StatusComments, TLAPS

States == {"none", "pending", "working", "done", "cancelled", "failed"}
Live == {"pending", "working"}
Rows == [state : States, text : 0..MaxTexts, attempts : Nat, due : BOOLEAN, claimed : BOOLEAN]

OutboxTyped == outbox \in [Jobs -> Rows]
CommentsTyped == comments \in [Jobs -> Seq(1..MaxTexts)]
DeliveryTyped ==
  delivery \in [step : {"idle", "read", "list", "write", "record", "cancel"},
                job : Jobs, text : 0..MaxTexts, found : BOOLEAN]
CountersTyped == active \in BOOLEAN /\ restarts \in 0..MaxRestarts /\ retries \in 0..MaxRetries

\* A row with a text counts the failures of the earlier ones; each text of a row that
\* had failed is given one more attempt.
RowOK(j) ==
  LET r == outbox[j]
  IN /\ r.state = "none" => r.attempts = 0
     /\ r.state # "none" => r.text >= 1
     /\ r.state \notin {"none", "failed"} => r.attempts + 2 <= MaxAttempts + r.text
     /\ r.state = "failed" => r.attempts + 1 <= MaxAttempts + r.text

\* What the dispatcher knows: its row is not decided by anyone else, its text is the
\* row's unless its claim was taken away, and nobody else writes comments.
DeliveryOK ==
  LET r == outbox[delivery.job]
  IN delivery.step # "idle" =>
       /\ r.state \in Live
       /\ delivery.step \in {"list", "write", "record"} =>
            delivery.text >= 1 /\ (r.claimed => delivery.text = r.text)
       /\ delivery.step = "write" => delivery.found = (comments[delivery.job] # << >>)
       /\ delivery.step = "record" => comments[delivery.job] = <<delivery.text>>

CommentsInv ==
  /\ OutboxTyped /\ CommentsTyped /\ DeliveryTyped /\ CountersTyped
  /\ \A j \in Jobs : RowOK(j)
  /\ DeliveryOK /\ CommentIsCurrent
-----------------------------------------------------------------------------
\* What a new text does to a row, and what it leaves to the others.
LEMMA Rewritten ==
  ASSUME CommentsAssumption, CommentsInv, NEW js \in SUBSET Jobs, Rewrite(js),
         UNCHANGED <<comments, delivery, restarts, retries>>, active' \in BOOLEAN
  PROVE  CommentsInv'
<1>1. \A j \in Jobs \ js : outbox'[j] = outbox[j]
  BY DEF Rewrite
<1>2. \A j \in js : /\ outbox[j] \in Rows /\ outbox[j].text < MaxTexts
                   /\ outbox'[j] = [state |-> "pending", text |-> outbox[j].text + 1,
                                    attempts |-> outbox[j].attempts, due |-> TRUE,
                                    claimed |-> FALSE]
  BY DEF Rewrite, CommentsInv, OutboxTyped, Rows
<1>3. \A j \in js : outbox'[j].state = "pending" /\ outbox'[j].claimed = FALSE
  BY DEF Rewrite, CommentsInv, OutboxTyped, Rows
<1>4. ASSUME NEW j \in Jobs PROVE outbox'[j] \in Rows /\ RowOK(j)'
  <2>1. CASE j \in js
    <3>1. PICK r \in Rows : r = outbox[j] /\ r.text < MaxTexts
      BY <1>2, <2>1
    <3>2. outbox'[j] = [state |-> "pending", text |-> r.text + 1, attempts |-> r.attempts,
                        due |-> TRUE, claimed |-> FALSE]
      BY <1>2, <2>1, <3>1
    <3>3. r.text \in Nat /\ r.text + 1 \in 0..MaxTexts /\ r.attempts \in Nat
      BY <3>1, CommentsAssumption DEF Rows
    <3>4. r.attempts + 1 <= MaxAttempts + r.text
      <4>1. RowOK(j) /\ r.state \in States
        BY DEF CommentsInv, Rows
      <4> QED
        BY <3>1, <3>3, <4>1, CommentsAssumption DEF RowOK
    <3>5. outbox'[j] \in Rows
      BY <3>2, <3>3 DEF Rows, States
    <3>6. RowOK(j)'
      BY <3>2, <3>3, <3>4, CommentsAssumption DEF RowOK
    <3> QED
      BY <3>5, <3>6
  <2>2. CASE j \notin js
    BY <1>1, <2>2 DEF CommentsInv, OutboxTyped, RowOK
  <2> QED
    BY <2>1, <2>2
<1>5. OutboxTyped'
  BY <1>4 DEF Rewrite, OutboxTyped
<1>6. DeliveryOK'
  <2>1. PICK k \in Jobs : k = delivery.job
    BY DEF CommentsInv, DeliveryTyped
  <2>2. CASE k \in js
    <3> QED
      BY <1>3, <2>1, <2>2 DEF CommentsInv, DeliveryOK, Live
  <2>3. CASE k \notin js
    BY <1>1, <2>1, <2>3 DEF CommentsInv, DeliveryOK
  <2> QED
    BY <2>2, <2>3
<1>7. CommentIsCurrent'
  <2> QED
    BY <1>1, <1>3 DEF CommentsInv, CommentIsCurrent
<1> QED
  BY <1>4, <1>5, <1>6, <1>7 DEF CommentsInv, CommentsTyped, DeliveryTyped, CountersTyped

\* A step that changes one row, with the comments left as they are.
LEMMA RowChanges ==
  ASSUME CommentsInv, NEW k \in Jobs, NEW row \in Rows, outbox' = [outbox EXCEPT ![k] = row],
         UNCHANGED comments, row.text = outbox[k].text,
         row.state = "done" => comments[k] = <<row.text>>
  PROVE  OutboxTyped' /\ CommentsTyped' /\ CommentIsCurrent'
BY DEF CommentsInv, OutboxTyped, CommentsTyped, CommentIsCurrent

\* A sequence that is neither empty nor longer has one element.
LEMMA Single ==
  ASSUME NEW S, NEW c \in Seq(S), c # << >>, Len(c) <= 1
  PROVE  Len(c) = 1
<1>1. PICK n \in Nat : n = Len(c) /\ n # 0
  OBVIOUS
<1> QED
  BY <1>1

\* Every step keeps the invariant.
LEMMA CommentsStep ==
  ASSUME CommentsAssumption, CommentsInv, CommentsNext
  PROVE  CommentsInv'
<1> USE DEF CommentsInv
<1>1. ASSUME NEW j \in Jobs, Replace(j) PROVE CommentsInv'
  BY <1>1, Rewritten DEF Replace, CountersTyped
<1>2. ASSUME UpdateProject PROVE CommentsInv'
  BY <1>2, Rewritten DEF UpdateProject, CountersTyped
<1>3. ASSUME NEW j \in Jobs, RetryComment(j) PROVE CommentsInv'
  <2> DEFINE row == [outbox[j] EXCEPT !.state = "pending", !.attempts = 0, !.due = TRUE]
  <2>1. outbox' = [outbox EXCEPT ![j] = row]
        /\ UNCHANGED <<active, comments, delivery, restarts>>
    BY <1>3 DEF RetryComment, OutboxTyped, Rows
  <2>2. /\ row \in Rows /\ row.text = outbox[j].text /\ row.state = "pending"
        /\ row.claimed = outbox[j].claimed /\ row.attempts = 0
    BY DEF OutboxTyped, Rows, States
  <2>3. OutboxTyped' /\ CommentsTyped' /\ CommentIsCurrent'
    BY <2>1, <2>2, RowChanges
  <2>4. ASSUME NEW k \in Jobs PROVE RowOK(k)'
    BY <1>3, <2>1, <2>2, CommentsAssumption DEF RetryComment, RowOK, OutboxTyped, Rows
  <2>5. DeliveryOK'
    BY <2>1, <2>2 DEF DeliveryOK, OutboxTyped, DeliveryTyped, Live
  <2>6. DeliveryTyped' /\ CountersTyped'
    BY <1>3, <2>1, CommentsAssumption DEF RetryComment, DeliveryTyped, CountersTyped
  <2> QED
    BY <2>3, <2>4, <2>5, <2>6
<1>4. ASSUME NEW j \in Jobs, Lapse(j) PROVE CommentsInv'
  <2> DEFINE row == [outbox[j] EXCEPT !.due = TRUE]
  <2>1. outbox' = [outbox EXCEPT ![j] = row]
        /\ UNCHANGED <<active, comments, delivery, restarts, retries>>
    BY <1>4 DEF Lapse, OutboxTyped, Rows
  <2>2. /\ row \in Rows /\ row.text = outbox[j].text /\ row.state = outbox[j].state
        /\ row.claimed = outbox[j].claimed /\ row.attempts = outbox[j].attempts
    BY DEF OutboxTyped, Rows
  <2>3. OutboxTyped' /\ CommentsTyped' /\ CommentIsCurrent'
    BY <2>1, <2>2, RowChanges DEF CommentIsCurrent
  <2>4. ASSUME NEW k \in Jobs PROVE RowOK(k)'
    BY <2>1, <2>2 DEF RowOK, OutboxTyped
  <2>5. DeliveryOK'
    BY <2>1, <2>2 DEF DeliveryOK, OutboxTyped, DeliveryTyped
  <2> QED
    BY <2>1, <2>3, <2>4, <2>5 DEF DeliveryTyped, CountersTyped
<1>5. ASSUME NEW j \in Jobs, ClaimComment(j) PROVE CommentsInv'
  <2> DEFINE row == [outbox[j] EXCEPT !.state = "working", !.due = FALSE, !.claimed = TRUE]
  <2>1. outbox' = [outbox EXCEPT ![j] = row]
        /\ UNCHANGED <<active, comments, restarts, retries>>
    BY <1>5 DEF ClaimComment, OutboxTyped, Rows
  <2>2. /\ row \in Rows /\ row.text = outbox[j].text /\ row.state = "working"
        /\ row.attempts = outbox[j].attempts
    BY DEF OutboxTyped, Rows, States
  <2>3. OutboxTyped' /\ CommentsTyped' /\ CommentIsCurrent'
    BY <2>1, <2>2, RowChanges
  <2>4. ASSUME NEW k \in Jobs PROVE RowOK(k)'
    BY <1>5, <2>1, <2>2 DEF ClaimComment, RowOK, OutboxTyped
  <2>5. delivery' = [step |-> "read", job |-> j, text |-> NoText, found |-> FALSE]
    BY <1>5 DEF ClaimComment
  <2>6. DeliveryOK'
    BY <2>1, <2>2, <2>5 DEF DeliveryOK, OutboxTyped, Live
  <2>7. DeliveryTyped'
    BY <2>5, CommentsAssumption DEF DeliveryTyped, NoText
  <2> QED
    BY <2>1, <2>3, <2>4, <2>6, <2>7 DEF CountersTyped
<1>6. ASSUME ReadText \/ FindComment PROVE CommentsInv'
  <2>1. UNCHANGED <<active, outbox, comments, restarts, retries>>
    BY <1>6 DEF ReadText, FindComment
  <2>2. DeliveryTyped' /\ DeliveryOK'
    <3>1. outbox[delivery.job].text \in 0..MaxTexts /\ RowOK(delivery.job)
      BY DEF DeliveryTyped, OutboxTyped, Rows
    <3>2. CASE ReadText
      BY <2>1, <3>1, <3>2 DEF ReadText, Step, Current, DeliveryTyped, DeliveryOK, RowOK, Live
    <3>3. CASE FindComment
      BY <2>1, <3>3 DEF FindComment, DeliveryTyped, DeliveryOK
    <3> QED
      BY <1>6, <3>2, <3>3
  <2>3. ASSUME NEW k \in Jobs PROVE RowOK(k)'
    BY <2>1 DEF RowOK
  <2> QED
    BY <2>1, <2>2, <2>3 DEF OutboxTyped, CommentsTyped, CountersTyped, CommentIsCurrent
<1>7. ASSUME WriteComment PROVE CommentsInv'
  <2>1. /\ UNCHANGED <<active, outbox, restarts, retries>> /\ delivery.step = "write"
        /\ delivery' = [delivery EXCEPT !.step = "record"]
    BY <1>7 DEF WriteComment, Step
  <2>2. PICK k \in Jobs : k = delivery.job
    BY DEF DeliveryTyped
  <2>3. PICK t \in 1..MaxTexts : t = delivery.text
    BY <2>1 DEF DeliveryTyped, DeliveryOK
  <2>4. PICK c \in Seq(1..MaxTexts) : c = comments[k]
    BY DEF CommentsTyped
  <2>5. comments' = [comments EXCEPT ![k] = <<t>>]
    <3>1. CASE c = << >>
      <4>1. ~delivery.found /\ Append(c, t) = <<t>>
        BY <2>1, <2>2, <2>4, <3>1 DEF DeliveryOK, DeliveryTyped
      <4> QED
        BY <1>7, <2>2, <2>3, <2>4, <4>1 DEF WriteComment
    <3>2. CASE c # << >>
      <4>1. delivery.found
        <5>1. delivery.found = (c # << >>)
          BY <2>1, <2>2, <2>4 DEF DeliveryOK
        <5> QED
          BY <3>2, <5>1, Zenon
      <4>2. Len(c) = 1
        BY <2>4, <3>2, Single DEF CommentIsCurrent
      <4>3. [c EXCEPT ![1] = t] = <<t>>
        BY <4>2
      <4> QED
        BY <1>7, <2>2, <2>3, <2>4, <4>1, <4>3 DEF WriteComment
    <3> QED
      BY <3>1, <3>2
  <2>6. CommentsTyped' /\ DeliveryTyped' /\ CommentIsCurrent'
    <3>1. <<t>> \in Seq(1..MaxTexts) /\ Len(<<t>>) = 1
      OBVIOUS
    <3>2. outbox[k].state # "done"
      BY <2>1, <2>2 DEF DeliveryOK, Live
    <3>3. \A j \in Jobs : comments'[j] = IF j = k THEN <<t>> ELSE comments[j]
      BY <2>5 DEF CommentsTyped
    <3>4. CommentIsCurrent'
      <4>1. ASSUME NEW j \in Jobs
            PROVE  /\ Len(comments'[j]) <= 1
                   /\ outbox'[j].state = "done" => comments'[j] = <<outbox'[j].text>>
        <5>1. CASE j = k
          <6>1. comments'[j] = <<t>> /\ outbox'[j].state # "done"
            BY <2>1, <3>2, <3>3, <5>1
          <6> QED
            BY <3>1, <6>1
        <5>2. CASE j # k
          BY <2>1, <3>3, <5>2 DEF CommentIsCurrent
        <5> QED
          BY <5>1, <5>2
      <4> QED
        BY <4>1 DEF CommentIsCurrent
    <3> QED
      BY <2>1, <2>5, <3>1, <3>4 DEF CommentsTyped, DeliveryTyped
  <2>7. DeliveryOK'
    BY <2>1, <2>2, <2>3, <2>5 DEF DeliveryOK, DeliveryTyped, CommentsTyped
  <2>8. ASSUME NEW j \in Jobs PROVE RowOK(j)'
    BY <2>1 DEF RowOK
  <2> QED
    BY <2>1, <2>6, <2>7, <2>8 DEF OutboxTyped, CountersTyped
<1>8. ASSUME RecordComment \/ FailComment PROVE CommentsInv'
  <2>1. /\ UNCHANGED <<active, comments, restarts, retries>> /\ delivery.step # "idle"
        /\ delivery' = [delivery EXCEPT !.step = "idle"]
    BY <1>8 DEF RecordComment, FailComment, Step
  <2>2. DeliveryTyped' /\ DeliveryOK'
    BY <2>1 DEF DeliveryTyped, DeliveryOK
  <2>3. PICK k \in Jobs : k = delivery.job
    BY DEF DeliveryTyped
  <2>4. CASE ~outbox[k].claimed
    <3>1. UNCHANGED outbox
      BY <1>8, <2>3, <2>4 DEF RecordComment, FailComment, Current
    <3>2. ASSUME NEW j \in Jobs PROVE RowOK(j)'
      BY <3>1 DEF RowOK
    <3> QED
      BY <2>1, <2>2, <3>1, <3>2 DEF OutboxTyped, CommentsTyped, CountersTyped, CommentIsCurrent
  <2>5. CASE outbox[k].claimed
    <3>1. outbox[k] \in Rows /\ outbox[k].state \in Live
      BY <2>1, <2>3 DEF OutboxTyped, DeliveryOK
    <3>2. PICK row \in Rows :
            /\ outbox' = [outbox EXCEPT ![k] = row] /\ row.text = outbox[k].text
            /\ row.state = "done" => comments[k] = <<row.text>>
            /\ \/ row.attempts = outbox[k].attempts /\ row.state \in {"done", "cancelled"}
               \/ /\ row.attempts = outbox[k].attempts + 1
                  /\ row.state = IF row.attempts >= MaxAttempts THEN "failed" ELSE "pending"
      <4>1. CASE RecordComment
        <5> DEFINE r == [outbox[k] EXCEPT
              !.state = IF delivery.step = "record" THEN "done" ELSE "cancelled", !.due = TRUE]
        <5>1. outbox' = [outbox EXCEPT ![k] = r] /\ delivery.step \in {"record", "cancel"}
          BY <4>1, <2>3, <2>5 DEF RecordComment, Current, OutboxTyped, Rows
        <5>2. r \in Rows /\ r.text = outbox[k].text /\ r.attempts = outbox[k].attempts
              /\ r.state = IF delivery.step = "record" THEN "done" ELSE "cancelled"
          BY <3>1 DEF Rows, States
        <5>3. delivery.step = "record" => comments[k] = <<outbox[k].text>>
          BY <2>3, <2>5 DEF DeliveryOK
        <5> HIDE DEF r
        <5> QED
          BY <5>1, <5>2, <5>3
      <4>2. CASE FailComment
        <5> DEFINE r == [outbox[k] EXCEPT
              !.attempts = @ + 1,
              !.state = IF outbox[k].attempts + 1 >= MaxAttempts THEN "failed" ELSE "pending",
              !.due = FALSE]
        <5>1. outbox' = [outbox EXCEPT ![k] = r]
          BY <4>2, <2>3, <2>5 DEF FailComment, Current, OutboxTyped, Rows
        <5>2. r.text = outbox[k].text /\ r.attempts = outbox[k].attempts + 1
              /\ r.state = IF r.attempts >= MaxAttempts THEN "failed" ELSE "pending"
          BY <3>1 DEF Rows
        <5>3. r \in Rows
          <6>1. /\ outbox[k].attempts + 1 \in Nat
                /\ (IF outbox[k].attempts + 1 >= MaxAttempts
                    THEN "failed" ELSE "pending") \in States
            BY <3>1 DEF Rows, States
          <6> QED
            BY <3>1, <6>1 DEF Rows
        <5> HIDE DEF r
        <5> QED
          BY <5>1, <5>2, <5>3
      <4> QED
        BY <1>8, <4>1, <4>2
    <3>3. OutboxTyped' /\ CommentsTyped' /\ CommentIsCurrent'
      BY <2>1, <3>2, RowChanges
    <3>4. ASSUME NEW j \in Jobs PROVE RowOK(j)'
      BY <3>1, <3>2, CommentsAssumption DEF RowOK, OutboxTyped, Rows, Live
    <3> QED
      BY <2>1, <2>2, <3>3, <3>4 DEF CountersTyped
  <2> QED
    BY <2>4, <2>5
<1>9. ASSUME Restart PROVE CommentsInv'
  <2>1. UNCHANGED <<active, outbox, comments, retries>>
        /\ delivery' = [delivery EXCEPT !.step = "idle"]
    BY <1>9 DEF Restart, Step
  <2>2. DeliveryTyped' /\ DeliveryOK' /\ CountersTyped'
    BY <1>9, <2>1, CommentsAssumption DEF Restart, DeliveryTyped, DeliveryOK, CountersTyped
  <2>3. ASSUME NEW j \in Jobs PROVE RowOK(j)'
    BY <2>1 DEF RowOK
  <2> QED
    BY <2>1, <2>2, <2>3 DEF OutboxTyped, CommentsTyped, CommentIsCurrent
<1> QED
  BY <1>1, <1>2, <1>3, <1>4, <1>5, <1>6, <1>7, <1>8, <1>9 DEF CommentsNext, Dispatch
-----------------------------------------------------------------------------
\* The dispatcher's knowledge and the rows' counts hold in every state.
THEOREM CommentsInvariance == CommentsSpec => []CommentsInv
<1>1. CommentsInit => CommentsInv
  <2> SUFFICES ASSUME CommentsInit PROVE CommentsInv
    OBVIOUS
  <2>1. NoRow \in Rows /\ NoRow.state = "none" /\ NoRow.attempts = 0
    BY CommentsAssumption DEF NoRow, NoText, Rows, States
  <2>2. \A j \in Jobs : outbox[j] = NoRow /\ comments[j] = << >>
    BY DEF CommentsInit
  <2>3. OutboxTyped /\ CommentsTyped /\ DeliveryTyped /\ CountersTyped
    BY <2>1, CommentsAssumption
    DEF CommentsInit, OutboxTyped, CommentsTyped, DeliveryTyped, CountersTyped, NoText
  <2>4. ASSUME NEW j \in Jobs PROVE RowOK(j)
    BY <2>1, <2>2 DEF RowOK
  <2>5. CommentIsCurrent
    <3>1. Len(<< >>) <= 1
      OBVIOUS
    <3> QED
      BY <2>1, <2>2, <3>1 DEF CommentIsCurrent
  <2>6. DeliveryOK
    BY DEF CommentsInit, DeliveryOK
  <2> QED
    BY <2>3, <2>4, <2>5, <2>6 DEF CommentsInv
<1>2. CommentsInv /\ UNCHANGED commentVars => CommentsInv'
  <2> SUFFICES ASSUME CommentsInv, UNCHANGED commentVars PROVE CommentsInv'
    OBVIOUS
  <2>1. ASSUME NEW j \in Jobs PROVE RowOK(j)'
    BY DEF commentVars, CommentsInv, RowOK
  <2> QED
    BY <2>1 DEF commentVars, CommentsInv, OutboxTyped, CommentsTyped, DeliveryTyped,
      CountersTyped, DeliveryOK, CommentIsCurrent
<1> QED
  BY <1>1, <1>2, CommentsStep, CommentsAssumption, PTL DEF CommentsSpec

\* The variables have their types; a row's failures stay below the bound that its texts
\* set, although a new text does not reset them.
THEOREM CommentsTypeCorrect == CommentsSpec => []CommentsTypeOK
<1>1. CommentsInv => CommentsTypeOK
  <2> SUFFICES ASSUME CommentsInv PROVE CommentsTypeOK
    OBVIOUS
  <2>1. ASSUME NEW j \in Jobs
        PROVE  outbox[j] \in [state : States, text : 0..MaxTexts,
                              attempts : 0..(MaxAttempts + MaxTexts), due : BOOLEAN,
                              claimed : BOOLEAN]
    BY CommentsAssumption DEF CommentsInv, OutboxTyped, Rows, RowOK, States
  <2> QED
    BY <2>1 DEF CommentsInv, OutboxTyped, CommentsTyped, DeliveryTyped, CountersTyped,
      CommentsTypeOK, States
<1> QED
  BY <1>1, CommentsInvariance, PTL

\* An issue has at most one status comment, and the comment of a delivered row shows its
\* latest text (CommentIsCurrent): edits, restarts, lost answers and retries between any
\* two requests included.
THEOREM DeliveredIsCurrent == CommentsSpec => []CommentIsCurrent
<1>1. CommentsInv => CommentIsCurrent
  BY DEF CommentsInv
<1> QED
  BY <1>1, CommentsInvariance, PTL
=============================================================================
