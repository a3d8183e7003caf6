------------------------- MODULE ShopClients_proofs -------------------------
(* Theorems about the clients of the shops: the watched import job, the      *)
(* token cache and the map of SKUs, for any number of callers, jobs and      *)
(* products, and any bound of the runs.                                      *)
EXTENDS JobWatch, ShopTokens, SkuMap, TLAPS

-----------------------------------------------------------------------------
(* JobWatch.                                                                 *)

Asked == [pc : {"none", "asked", "record", "answer"}, job : Numbers \cup {0},
          full : BOOLEAN, state : {"none", "active", "completed", "failed", "gone"}]

(* The server: a job ends once, and an answer that it succeeded is true.     *)
JobsInv ==
  /\ current \in 0 .. MaxJobs
  /\ posting \in BOOLEAN
  /\ jobs \in [Numbers -> {"none", "active", "completed", "failed", "gone"}]
  /\ ended \in [Numbers -> {"none", "completed", "failed"}]
  /\ \A j \in Numbers :
       /\ jobs[j] \in {"none", "active"} => ended[j] = "none"
       /\ jobs[j] \in {"completed", "failed"} => ended[j] = jobs[j]
       /\ j > current => jobs[j] = "none"
  /\ posting => current \in Numbers /\ jobs[current] = "none"

PollsInv ==
  /\ poll \in [Polls -> Asked]
  /\ \A q \in Polls :
       /\ poll[q].pc # "none" => poll[q].job \in Numbers
       /\ poll[q].pc = "record" /\ poll[q].full => ended[poll[q].job] = "completed"
       /\ poll[q].pc = "answer" /\ poll[q].state = "completed" =>
            /\ ended[poll[q].job] = "completed"
            /\ poll[q].full \/ poll[q].job \in torn

ServerInv == JobsInv /\ PollsInv

(* The window, as long as no job was started before an answer about an older *)
(* one: every question is about the job started last, and only its timer is  *)
(* alive, only while it runs.                                                *)
WindowInv ==
  /\ kind \in {"modal", "button"}
  /\ running \in BOOLEAN
  /\ posting => running
  /\ running => current \in Numbers
  /\ \A q \in Polls : poll[q].pc # "none" => poll[q].job = current /\ ~posting
  /\ timers = IF running /\ ~posting THEN {current} ELSE {}
  /\ kind = "modal" /\ running /\ ~posting => timerRef = current
  /\ settled \subseteq 1 .. current
  /\ running => current \notin settled
  /\ \A r \in report :
       /\ r.job = current
       /\ r.ok => ended[current] = "completed" /\ (r.full \/ current \in torn)

WatchInv == ServerInv /\ (crossed \/ WindowInv) /\ crossed \in BOOLEAN

LEMMA WatchInitInv == WatchInit => WatchInv
  <1> SUFFICES ASSUME WatchInit PROVE WatchInv
    OBVIOUS
  <1> USE JobWatchAssumption DEF JobWatchAssumption
  <1>1. ServerInv
    <2>1. NoPoll \in Asked /\ NoPoll.pc = "none"
      BY DEF Asked, NoPoll
    <2>2. poll \in [Polls -> Asked] /\ \A q \in Polls : poll[q].pc = "none"
      BY <2>1 DEF WatchInit
    <2>3. JobsInv
      <3>1. posting \in BOOLEAN /\ ~posting
        BY DEF WatchInit
      <3>2. current = 0 /\ current \in 0 .. MaxJobs
        BY DEF WatchInit
      <3>3. \A j \in Numbers : jobs[j] = "none" /\ ended[j] = "none"
        BY DEF WatchInit
      <3>4. /\ jobs \in [Numbers -> {"none", "active", "completed", "failed", "gone"}]
            /\ ended \in [Numbers -> {"none", "completed", "failed"}]
        BY DEF WatchInit
      <3> QED BY <3>1, <3>2, <3>3, <3>4 DEF JobsInv
    <2>4. PollsInv
      BY <2>2 DEF PollsInv
    <2> QED BY <2>3, <2>4 DEF ServerInv
  <1>2. WindowInv
    BY DEF WatchInit, WindowInv, NoPoll, Numbers
  <1> QED BY <1>1, <1>2 DEF WatchInv, WatchInit

LEMMA ServerNextInv ==
  ASSUME ServerInv, [WatchNext]_watchVars
  PROVE  ServerInv'
  <1> USE JobWatchAssumption DEF JobWatchAssumption
  <1>1. CASE UNCHANGED watchVars
    BY <1>1 DEF watchVars, ServerInv, JobsInv, PollsInv
  <1>2. CASE StartJob
    BY <1>2 DEF StartJob, ServerInv, JobsInv, PollsInv, Numbers
  <1>3. CASE JobQueued
    <2>1. /\ posting' = FALSE /\ UNCHANGED <<current, ended, poll, torn>>
          /\ jobs' = [jobs EXCEPT ![current] = "active"]
          /\ current \in Numbers /\ jobs[current] = "none"
      BY <1>3 DEF JobQueued, Queued, ServerInv, JobsInv, PollsInv
    <2>2. JobsInv'
      <3>1. \A j \in Numbers : jobs'[j] = IF j = current THEN "active" ELSE jobs[j]
        BY <2>1 DEF ServerInv, JobsInv
      <3>2. jobs' \in [Numbers -> {"none", "active", "completed", "failed", "gone"}]
        BY <2>1 DEF ServerInv, JobsInv
      <3>3. current \in Nat
        BY <2>1 DEF Numbers
      <3>4. ASSUME NEW j \in Numbers
            PROVE  /\ jobs'[j] \in {"none", "active"} => ended[j] = "none"
                   /\ jobs'[j] \in {"completed", "failed"} => ended[j] = jobs'[j]
                   /\ j > current => jobs'[j] = "none"
        <4>1. CASE j = current
          BY <2>1, <3>1, <3>3, <4>1 DEF ServerInv, JobsInv
        <4>2. CASE j # current
          BY <3>1, <4>2 DEF ServerInv, JobsInv
        <4> QED BY <4>1, <4>2
      <3>5. posting' = FALSE /\ ended' = ended /\ current' = current
        BY <2>1
      <3> QED BY <3>2, <3>4, <3>5 DEF ServerInv, JobsInv
    <2>3. PollsInv'
      BY <2>1 DEF ServerInv, PollsInv
    <2> QED BY <2>2, <2>3 DEF ServerInv
  <1>4. CASE Watchdog \/ Reset
    <2>1. UNCHANGED <<current, posting, jobs, ended, poll, torn>>
      BY <1>4 DEF Watchdog, Reset
    <2> QED BY <2>1 DEF ServerInv, JobsInv, PollsInv
  <1>5. ASSUME NEW queued \in BOOLEAN, StartFails(queued)
        PROVE  ServerInv'
    <2>1. /\ posting' = FALSE /\ UNCHANGED <<current, ended, poll, torn>>
          /\ jobs' = IF queued THEN [jobs EXCEPT ![current] = "active"] ELSE jobs
          /\ current \in Numbers /\ jobs[current] = "none"
      BY <1>5 DEF StartFails, Queued, ServerInv, JobsInv, PollsInv
    <2>2. CASE queued
      <3>1. JobsInv'
        <4>1. \A j \in Numbers : jobs'[j] = IF j = current THEN "active" ELSE jobs[j]
          BY <2>1, <2>2 DEF ServerInv, JobsInv
        <4>2. jobs' \in [Numbers -> {"none", "active", "completed", "failed", "gone"}]
          BY <2>1, <2>2 DEF ServerInv, JobsInv
        <4>3. current \in Nat
          BY <2>1 DEF Numbers
        <4>4. ASSUME NEW j \in Numbers
              PROVE  /\ jobs'[j] \in {"none", "active"} => ended[j] = "none"
                     /\ jobs'[j] \in {"completed", "failed"} => ended[j] = jobs'[j]
                     /\ j > current => jobs'[j] = "none"
          <5>1. CASE j = current
            BY <2>1, <4>1, <4>3, <5>1 DEF ServerInv, JobsInv
          <5>2. CASE j # current
            BY <4>1, <5>2 DEF ServerInv, JobsInv
          <5> QED BY <5>1, <5>2
        <4>5. posting' = FALSE /\ ended' = ended /\ current' = current
          BY <2>1
        <4> QED BY <4>2, <4>4, <4>5 DEF ServerInv, JobsInv
      <3>2. PollsInv'
        BY <2>1 DEF ServerInv, PollsInv
      <3> QED BY <3>1, <3>2 DEF ServerInv
    <2>3. CASE ~queued
      BY <2>1, <2>3 DEF ServerInv, JobsInv, PollsInv
    <2> QED BY <2>2, <2>3
  <1>6. ASSUME NEW j \in Numbers, NEW how \in {"completed", "failed"}, JobEnds(j, how)
        PROVE  ServerInv'
    BY <1>6 DEF JobEnds, ServerInv, JobsInv, PollsInv, Numbers
  <1>7. ASSUME NEW j \in Numbers, JobRemoved(j)
        PROVE  ServerInv'
    BY <1>7 DEF JobRemoved, ServerInv, JobsInv, PollsInv, Numbers
  <1>8. ASSUME NEW j \in Numbers, NEW q \in Polls, AskStatus(j, q)
        PROVE  ServerInv'
    <2>1. PICK a : a = [NoPoll EXCEPT !.pc = "asked", !.job = j]
      OBVIOUS
    <2>2. a \in Asked /\ a.pc = "asked" /\ a.job = j
      BY <2>1 DEF NoPoll, Asked
    <2>3. poll' = [poll EXCEPT ![q] = a] /\ UNCHANGED <<current, posting, jobs, ended, torn>>
      BY <1>8, <2>1 DEF AskStatus
    <2>4. \A p \in Polls : poll'[p] = IF p = q THEN a ELSE poll[p]
      BY <2>3 DEF ServerInv, JobsInv, PollsInv
    <2>5. poll' \in [Polls -> Asked]
      BY <2>2, <2>3 DEF ServerInv, JobsInv, PollsInv
    <2> QED BY <2>2, <2>3, <2>4, <2>5 DEF ServerInv, JobsInv, PollsInv
  <1>9. ASSUME NEW q \in Polls, ReadRecord(q)
        PROVE  ServerInv'
    <2>1. PICK a : a = [poll[q] EXCEPT !.pc = "record", !.full = jobs[poll[q].job] = "completed"]
      OBVIOUS
    <2>2. poll[q] \in Asked /\ poll[q].job \in Numbers
      BY <1>9 DEF ReadRecord, ServerInv, JobsInv, PollsInv
    <2>3. /\ a \in Asked /\ a.pc = "record" /\ a.job = poll[q].job
          /\ a.full = (jobs[poll[q].job] = "completed")
      BY <2>1, <2>2 DEF Asked
    <2>4. poll' = [poll EXCEPT ![q] = a] /\ UNCHANGED <<current, posting, jobs, ended, torn>>
      BY <1>9, <2>1 DEF ReadRecord
    <2>5. \A p \in Polls : poll'[p] = IF p = q THEN a ELSE poll[p]
      BY <2>4 DEF ServerInv, JobsInv, PollsInv
    <2>6. poll' \in [Polls -> Asked]
      BY <2>3, <2>4 DEF ServerInv, JobsInv, PollsInv
    <2>7. a.full => ended[a.job] = "completed"
      BY <2>2, <2>3 DEF ServerInv, JobsInv, PollsInv
    <2> QED BY <2>2, <2>3, <2>4, <2>5, <2>6, <2>7 DEF ServerInv, JobsInv, PollsInv
  <1>10. ASSUME NEW q \in Polls, ReadState(q)
         PROVE  ServerInv'
    <2>1. PICK a : a = [poll[q] EXCEPT !.pc = "answer", !.state = jobs[poll[q].job]]
      OBVIOUS
    <2>2. /\ poll[q] \in Asked /\ poll[q].job \in Numbers
          /\ poll[q].full => ended[poll[q].job] = "completed"
      BY <1>10 DEF ReadState, ServerInv, JobsInv, PollsInv
    <2>3. /\ a \in Asked /\ a.pc = "answer" /\ a.job = poll[q].job
          /\ a.full = poll[q].full /\ a.state = jobs[poll[q].job]
      BY <2>1, <2>2 DEF Asked, ServerInv, JobsInv, PollsInv
    <2>8. /\ UNCHANGED <<current, posting, jobs, ended>>
          /\ torn \subseteq torn'
          /\ jobs[poll[q].job] = "completed" /\ ~poll[q].full => poll[q].job \in torn'
      BY <1>10 DEF ReadState
    <2>4. /\ poll' = [poll EXCEPT ![q] = a] /\ UNCHANGED <<current, posting, jobs, ended>>
          /\ torn \subseteq torn'
      BY <1>10, <2>1 DEF ReadState
    <2>5. \A p \in Polls : poll'[p] = IF p = q THEN a ELSE poll[p]
      BY <2>4 DEF ServerInv, JobsInv, PollsInv
    <2>6. poll' \in [Polls -> Asked]
      BY <2>3, <2>4 DEF ServerInv, JobsInv, PollsInv
    <2>7. a.state = "completed" => ended[a.job] = "completed" /\ (a.full \/ a.job \in torn')
      <3>1. ~poll[q].full /\ a.state = "completed" => a.job \in torn'
        BY <2>3, <2>8
      <3>2. a.state = "completed" => ended[a.job] = "completed"
        BY <2>2, <2>3 DEF ServerInv, JobsInv
      <3>3. poll[q].full => a.full
        BY <2>3
      <3> QED BY <3>1, <3>2, <3>3
    <2> QED BY <2>2, <2>3, <2>4, <2>5, <2>6, <2>7 DEF ServerInv, JobsInv, PollsInv
  <1>11. ASSUME NEW q \in Polls,
                AnswerActive(q) \/ AnswerCompleted(q) \/ AnswerFailed(q) \/ PollFails(q)
         PROVE  ServerInv'
    <2>1. poll' = [poll EXCEPT ![q] = NoPoll] /\ UNCHANGED <<current, posting, jobs, ended, torn>>
      BY <1>11 DEF AnswerActive, AnswerCompleted, AnswerFailed, PollFails
    <2>2. \A p \in Polls : poll'[p] = IF p = q THEN NoPoll ELSE poll[p]
      BY <2>1 DEF ServerInv, JobsInv, PollsInv
    <2>3. NoPoll \in Asked /\ NoPoll.pc = "none"
      BY DEF NoPoll, Asked
    <2>4. poll' \in [Polls -> Asked]
      BY <2>1, <2>3 DEF ServerInv, JobsInv, PollsInv
    <2> QED BY <2>1, <2>2, <2>3, <2>4 DEF ServerInv, JobsInv, PollsInv
  <1> QED BY <1>1, <1>2, <1>3, <1>4, <1>5, <1>6, <1>7, <1>8, <1>9, <1>10, <1>11 DEF WatchNext

(* A promise settles, or a modal's window ends its job.                      *)
LEMMA SettleStep ==
  ASSUME ServerInv, WindowInv, NEW shown, current \in Numbers, ~posting,
         Settle(current, shown),
         \A r \in shown : r.job = current /\ (r.ok =>
              ended[current] = "completed" /\ (r.full \/ current \in torn)),
         \A q \in Polls : poll'[q].pc # "none" =>
           poll'[q].pc = poll[q].pc /\ poll'[q].job = poll[q].job,
         UNCHANGED <<kind, posting, current, ended, timerRef, torn>>
  PROVE  WindowInv'
  <1>1. timers' = {}
    BY DEF Settle, TimersAfter, WindowInv
  <1>2. settled' \subseteq 1 .. current
    BY DEF Settle, WindowInv, Numbers
  <1>3. running' = FALSE
    BY DEF Settle, WindowInv
  <1>4. \A r \in report' : r.job = current /\ (r.ok =>
              ended[current] = "completed" /\ (r.full \/ current \in torn))
    BY DEF Settle, WindowInv
  <1> QED BY <1>1, <1>2, <1>3, <1>4 DEF WindowInv

LEMMA WindowNextInv ==
  ASSUME ServerInv, WindowInv, [WatchNext]_watchVars, ~crossed'
  PROVE  WindowInv'
  <1> USE JobWatchAssumption DEF JobWatchAssumption
  <1>1. CASE UNCHANGED watchVars
    BY <1>1 DEF watchVars, WindowInv
  <1>2. CASE StartJob
    <2>1. /\ running' = TRUE /\ posting' = TRUE /\ report' = {} /\ current' = current + 1
          /\ \A q \in Polls : poll[q].pc = "none"
          /\ ~running /\ UNCHANGED <<kind, timers, timerRef, poll, settled>>
          /\ current < MaxJobs
      BY <1>2 DEF StartJob, MayStart, ServerInv, JobsInv, PollsInv, Numbers
    <2>3. current \in Nat /\ current' \in Numbers
      BY <2>1 DEF ServerInv, JobsInv, Numbers
    <2>2. timers' = {} /\ settled' \subseteq 1 .. current' /\ current' \notin settled'
      BY <2>1, <2>3 DEF WindowInv
    <2> QED BY <2>1, <2>2, <2>3 DEF WindowInv
  <1>3. CASE JobQueued
    BY <1>3 DEF JobQueued, ServerInv, JobsInv, PollsInv, WindowInv, Numbers
  <1>4. CASE Reset
    BY <1>4 DEF Reset, MayReset, WindowInv
  <1>5. ASSUME NEW queued \in BOOLEAN, StartFails(queued)
        PROVE  WindowInv'
    <2>1. /\ running' = FALSE /\ posting' = FALSE /\ posting
          /\ report' = {[job |-> current, ok |-> FALSE, full |-> FALSE]}
          /\ UNCHANGED <<kind, current, timers, timerRef, poll, settled>>
      BY <1>5 DEF StartFails
    <2>2. \A r \in report' : r.job = current /\ ~r.ok
      BY <2>1
    <2>3. timers' = {} /\ \A q \in Polls : poll'[q].pc = "none"
      BY <2>1 DEF WindowInv
    <2> QED BY <2>1, <2>2, <2>3 DEF WindowInv
  <1>6. ASSUME NEW j \in Numbers, NEW how \in {"completed", "failed"}, JobEnds(j, how)
        PROVE  WindowInv'
    BY <1>6 DEF JobEnds, ServerInv, JobsInv, PollsInv, WindowInv, Numbers
  <1>7. ASSUME NEW j \in Numbers, JobRemoved(j)
        PROVE  WindowInv'
    BY <1>7 DEF JobRemoved, WindowInv
  <1>8. ASSUME NEW j \in Numbers, NEW q \in Polls, AskStatus(j, q)
        PROVE  WindowInv'
    <2>1. j = current /\ ~posting
      BY <1>8 DEF AskStatus, WindowInv
    <2>2. \A p \in Polls : poll'[p].pc # "none" => poll'[p].job = current /\ ~posting'
      BY <1>8, <2>1 DEF AskStatus, WindowInv, ServerInv, JobsInv, PollsInv, NoPoll
    <2> QED BY <1>8, <2>2 DEF AskStatus, WindowInv
  <1>9. ASSUME NEW q \in Polls, ReadRecord(q) \/ ReadState(q)
        PROVE  WindowInv'
    <2>1. /\ \A p \in Polls : poll'[p].pc # "none" => poll'[p].job = current /\ ~posting'
          /\ torn \subseteq torn'
      BY <1>9 DEF ReadRecord, ReadState, WindowInv, ServerInv, JobsInv, PollsInv, Asked
    <2> QED BY <1>9, <2>1 DEF ReadRecord, ReadState, WindowInv
  <1>10. ASSUME NEW q \in Polls, poll[q].pc # "none", poll' = [poll EXCEPT ![q] = NoPoll]
         PROVE  /\ poll[q].job = current /\ current \in Numbers /\ ~posting
                /\ \A p \in Polls : poll'[p].pc # "none" =>
                     poll'[p].pc = poll[p].pc /\ poll'[p].job = poll[p].job
    BY <1>10 DEF WindowInv, ServerInv, JobsInv, PollsInv, NoPoll
  <1>11. ASSUME NEW q \in Polls, AnswerActive(q)
         PROVE  WindowInv'
    <2>1. poll[q].pc # "none" /\ poll' = [poll EXCEPT ![q] = NoPoll]
      BY <1>11 DEF AnswerActive
    <2> QED BY <1>10, <1>11, <2>1 DEF AnswerActive, WindowInv
  <1>12. ASSUME NEW q \in Polls, AnswerCompleted(q)
         PROVE  WindowInv'
    <2>1. /\ poll[q].pc = "answer" /\ poll[q].state = "completed"
          /\ poll' = [poll EXCEPT ![q] = NoPoll]
          /\ UNCHANGED <<kind, posting, current, ended, timerRef, torn>>
      BY <1>12 DEF AnswerCompleted
    <2>2. /\ poll[q].job = current /\ current \in Numbers /\ ~posting
          /\ \A p \in Polls : poll'[p].pc # "none" =>
               poll'[p].pc = poll[p].pc /\ poll'[p].job = poll[p].job
      BY <1>10, <2>1
    <2>3. ended[current] = "completed" /\ (poll[q].full \/ current \in torn)
      BY <2>1, <2>2 DEF ServerInv, JobsInv, PollsInv
    <2>4. PICK shown : shown = Show(current, TRUE, poll[q].full)
      OBVIOUS
    <2>5. \A r \in shown : r.job = current /\ (r.ok =>
              ended[current] = "completed" /\ (r.full \/ current \in torn))
      BY <2>3, <2>4 DEF Show
    <2>6. CASE kind = "button" /\ current \in settled
      <3>1. report' = shown /\ timers' = TimersAfter(current) /\ UNCHANGED <<running, settled>>
        BY <1>12, <2>2, <2>4, <2>6 DEF AnswerCompleted
      <3>2. ~running /\ timers = {} /\ timers' = {}
        BY <2>6, <3>1 DEF WindowInv, TimersAfter
      <3> QED BY <2>1, <2>2, <2>5, <3>1, <3>2 DEF WindowInv
    <2>7. CASE ~(kind = "button" /\ current \in settled)
      <3>1. Settle(current, shown)
        BY <1>12, <2>2, <2>4, <2>7 DEF AnswerCompleted
      <3> QED BY <2>1, <2>2, <2>5, <3>1, SettleStep
    <2> QED BY <2>6, <2>7
  <1>13. \A r \in Show(current, FALSE, FALSE) : r.job = current /\ (r.ok =>
              ended[current] = "completed" /\ (r.full \/ current \in torn))
    BY DEF Show
  <1>14. ASSUME NEW q \in Polls, AnswerFailed(q)
         PROVE  WindowInv'
    <2>1. /\ poll[q].pc # "none" /\ poll' = [poll EXCEPT ![q] = NoPoll]
          /\ UNCHANGED <<kind, posting, current, ended, timerRef, torn>>
          /\ Settle(poll[q].job, Show(poll[q].job, FALSE, FALSE))
      BY <1>14 DEF AnswerFailed
    <2> QED BY <1>10, <1>13, <2>1, SettleStep
  <1>15. ASSUME NEW q \in Polls, PollFails(q)
         PROVE  WindowInv'
    <2>1. /\ poll[q].pc # "none" /\ poll' = [poll EXCEPT ![q] = NoPoll]
          /\ UNCHANGED <<kind, posting, current, ended, timerRef, torn>>
      BY <1>15 DEF PollFails
    <2>2. CASE kind = "modal"
      <3>1. UNCHANGED <<running, report, timers, settled>>
        BY <1>15, <2>2 DEF PollFails
      <3> QED BY <1>10, <2>1, <3>1 DEF WindowInv
    <2>3. CASE kind # "modal"
      <3>1. Settle(poll[q].job, Show(poll[q].job, FALSE, FALSE))
        BY <1>15, <2>3 DEF PollFails
      <3> QED BY <1>10, <1>13, <2>1, <3>1, SettleStep
    <2> QED BY <2>2, <2>3
  <1>16. CASE Watchdog
    <2>1. /\ current \in Numbers /\ ~posting
          /\ Settle(current, Show(current, FALSE, FALSE))
          /\ UNCHANGED <<kind, posting, current, ended, timerRef, torn, poll>>
      BY <1>16 DEF Watchdog, WindowInv
    <2> QED BY <1>13, <2>1, SettleStep
  <1> QED BY <1>1, <1>2, <1>3, <1>4, <1>5, <1>6, <1>7, <1>8, <1>9, <1>11, <1>12, <1>14,
             <1>15, <1>16 DEF WatchNext

(* A window of the portal shows one job at a time, and tells a success only  *)
(* of a job that succeeded, in whichever order the answers arrive            *)
(* (handleStartImport, handleSyncPricesStocks, getJobStatus).                *)
THEOREM OneJobIsShown == WatchSpec => []OneJobShown
  <1>1. WatchInv => OneJobShown
    BY DEF WatchInv, WindowInv, OneJobShown
  <1>2. WatchInv /\ [WatchNext]_watchVars => WatchInv'
    <2> SUFFICES ASSUME WatchInv, [WatchNext]_watchVars PROVE WatchInv'
      OBVIOUS
    <2>1. ServerInv'
      BY ServerNextInv DEF WatchInv
    <2>2. crossed' \in BOOLEAN /\ (crossed => crossed')
      <3>1. crossed' = crossed \/ crossed' = (crossed \/ \E q \in Polls : poll[q].pc # "none")
        BY DEF WatchNext, watchVars, StartJob, JobQueued, Watchdog, Reset, StartFails, JobEnds,
               JobRemoved, AskStatus, ReadRecord, ReadState, AnswerActive, AnswerCompleted,
               AnswerFailed, PollFails
      <3> QED BY <3>1 DEF WatchInv
    <2> QED BY <2>1, <2>2, WindowNextInv DEF WatchInv
  <1> QED BY <1>1, <1>2, WatchInitInv, PTL DEF WatchSpec

-----------------------------------------------------------------------------
(* ShopTokens.                                                               *)

IssuedTokens == [n : Nat, at : Nat]

CallLocals ==
  [pc : {"idle", "login", "answer", "sent"}, token : IssuedTokens, retry : BOOLEAN,
   attempt : Nat, since : Nat, revoked : BOOLEAN]

TokenTypes ==
  /\ clock \in Nat /\ logins \in Nat /\ dead \in Nat /\ dead <= logins
  /\ shop \in Platforms
  /\ cache \subseteq [token : IssuedTokens, expires : Nat]
  /\ call \in [Calls -> CallLocals]

(* How old a token in the cache, and one on its way, can be.                 *)
InTime(h) ==
  /\ h.pc = "login" => h.since <= clock /\ clock <= h.since + LoginTime
  /\ h.pc = "answer" => /\ h.since <= h.token.at /\ h.token.at <= clock
                        /\ clock <= h.since + LoginTime
  /\ h.pc = "sent" => /\ h.since <= clock /\ clock <= h.since + CallTime
                      /\ h.since + CallTime < h.token.at + Life

AgeInv ==
  /\ TokenTypes
  /\ \A e \in cache : e.expires <= e.token.at + LoginTime + Life
  /\ \A c \in Calls : InTime(call[c])

LEMMA TokensInitInv == TokensInit => AgeInv
  <1> SUFFICES ASSUME TokensInit PROVE AgeInv
    OBVIOUS
  <1>1. NoCall \in CallLocals /\ NoCall.pc = "idle"
    BY DEF NoCall, CallLocals, IssuedTokens
  <1>2. TokenTypes
    BY <1>1 DEF TokensInit, TokenTypes
  <1>3. \A c \in Calls : InTime(call[c])
    BY <1>1 DEF TokensInit, InTime
  <1> QED BY <1>2, <1>3 DEF AgeInv, TokensInit

(* getToken: a token of the cache that is young enough, or a login.          *)
LEMMA WithTokenOk ==
  ASSUME AgeInv, NEW h \in CallLocals, NEW stored \in SUBSET cache, NEW force \in BOOLEAN
  PROVE  LET n == WithToken(h, stored, force) IN
         /\ n \in CallLocals /\ InTime(n) /\ n.pc \in {"login", "sent"}
         /\ n.retry = h.retry /\ n.revoked = h.revoked
         /\ n.pc = "sent" => \E e \in stored : n.token = e.token
  <1> USE TokenAssumption DEF TokenAssumption, LoginTime, CallTime, Margin
  <1>1. clock \in Nat
    BY DEF AgeInv, TokenTypes
  <1>2. PICK usable : usable = {e \in stored : Fresh(e)}
    OBVIOUS
  <1>3. CASE force \/ usable = {}
    <2>1. PICK n : n = [h EXCEPT !.pc = "login", !.since = clock]
      OBVIOUS
    <2>2. WithToken(h, stored, force) = n
      BY <1>2, <1>3, <2>1 DEF WithToken
    <2>3. n \in CallLocals /\ n.pc = "login" /\ n.since = clock /\ n.retry = h.retry
          /\ n.revoked = h.revoked
      BY <1>1, <2>1 DEF CallLocals
    <2>4. InTime(n)
      BY <1>1, <2>3 DEF InTime
    <2> QED BY <2>2, <2>3, <2>4
  <1>4. CASE ~(force \/ usable = {})
    <2>1. PICK e : e = CHOOSE x \in usable : TRUE
      OBVIOUS
    <2>2. e \in usable
      BY <1>4, <2>1
    <2>3. PICK n : n = [h EXCEPT !.pc = "sent", !.since = clock, !.token = e.token]
      OBVIOUS
    <2>4. WithToken(h, stored, force) = n
      BY <1>2, <1>4, <2>1, <2>3 DEF WithToken
    <2>5. e \in stored /\ e.token \in IssuedTokens /\ e.token.at \in Nat /\ e.expires \in Nat
      BY <1>2, <2>2 DEF AgeInv, TokenTypes, IssuedTokens
    <2>6. n \in CallLocals /\ n.pc = "sent" /\ n.since = clock /\ n.retry = h.retry
          /\ n.revoked = h.revoked /\ n.token = e.token
      BY <1>1, <2>3, <2>5 DEF CallLocals
    <2>7. e.expires - 2 > clock /\ e.expires <= e.token.at + 1 + Life
      BY <1>2, <2>2 DEF Fresh, AgeInv
    <2>8. InTime(n)
      BY <1>1, <2>5, <2>6, <2>7 DEF InTime
    <2> QED BY <2>4, <2>5, <2>6, <2>8
  <1> QED BY <1>3, <1>4

(* One call goes on as n.                                                    *)
LEMMA CallStep ==
  ASSUME AgeInv, NEW c \in Calls, NEW n \in CallLocals, InTime(n),
         call' = [call EXCEPT ![c] = n], cache' \subseteq cache,
         logins' \in Nat, logins <= logins', clock' = clock, shop' = shop, dead' = dead
  PROVE  AgeInv'
  <1>1. TokenTypes'
    BY DEF AgeInv, TokenTypes
  <1>2. \A d \in Calls : call'[d] = IF d = c THEN n ELSE call[d]
    BY DEF AgeInv, TokenTypes
  <1>3. \A d \in Calls : InTime(call'[d])
    BY <1>2 DEF AgeInv
  <1>4. \A d \in Calls : InTime(call[d])'
    BY <1>3 DEF InTime
  <1> QED BY <1>1, <1>4 DEF AgeInv

LEMMA IdleOk == NoCall \in CallLocals /\ InTime(NoCall) /\ NoCall.pc = "idle"
  BY DEF NoCall, CallLocals, IssuedTokens, InTime

LEMMA TokensNextInv ==
  ASSUME AgeInv, [TokensNext]_tokenVars
  PROVE  AgeInv'
  <1> USE TokenAssumption DEF TokenAssumption, LoginTime, CallTime, Margin
  <1>11. \A m : m = logins => m \in Nat /\ m <= logins /\ logins <= m
    BY DEF AgeInv, TokenTypes
  <1>1. CASE UNCHANGED tokenVars
    BY <1>1 DEF tokenVars, AgeInv, TokenTypes, InTime
  <1>2. ASSUME NEW c \in Calls, NEW force \in BOOLEAN, BeginCall(c, force)
        PROVE  AgeInv'
    <2>1. PICK n : n = WithToken(NoCall, cache, force)
      OBVIOUS
    <2>2. n \in CallLocals /\ InTime(n)
      BY <2>1, WithTokenOk, IdleOk
    <2>3. /\ call' = [call EXCEPT ![c] = n] /\ cache' \subseteq cache
          /\ logins' = logins /\ clock' = clock /\ shop' = shop /\ dead' = dead
      BY <1>2, <2>1 DEF BeginCall
    <2> QED BY <1>11, <2>2, <2>3, CallStep
  <1>3. ASSUME NEW c \in Calls, LoginIssues(c)
        PROVE  AgeInv'
    <2>1. PICK n : n = [call[c] EXCEPT !.pc = "answer", !.token = [n |-> logins + 1, at |-> clock]]
      OBVIOUS
    <2>2. call[c] \in CallLocals /\ InTime(call[c]) /\ call[c].pc = "login" /\ clock \in Nat
          /\ logins \in Nat
      BY <1>3 DEF AgeInv, TokenTypes, LoginIssues
    <2>7. PICK t : t = [n |-> logins + 1, at |-> clock]
      OBVIOUS
    <2>8. t \in IssuedTokens /\ t.at = clock
      BY <2>2, <2>7 DEF IssuedTokens
    <2>3. /\ n \in CallLocals /\ n.pc = "answer" /\ n.token.at = clock
          /\ n.since = call[c].since
      BY <2>1, <2>2, <2>7, <2>8 DEF CallLocals
    <2>4. InTime(n)
      BY <2>2, <2>3 DEF InTime, CallLocals
    <2>5. call' = [call EXCEPT ![c] = n] /\ logins' = logins + 1
          /\ cache' \subseteq cache /\ clock' = clock /\ shop' = shop /\ dead' = dead
      BY <1>3, <2>1 DEF LoginIssues
    <2>6. logins' \in Nat /\ logins <= logins'
      BY <2>2, <2>5
    <2> QED BY <2>3, <2>4, <2>5, <2>6, CallStep
  <1>4. ASSUME NEW c \in Calls, LoginFails(c) \/ CallSucceeds(c)
        PROVE  AgeInv'
    <2>1. /\ call' = [call EXCEPT ![c] = NoCall] /\ cache' \subseteq cache
          /\ logins' = logins /\ clock' = clock /\ shop' = shop /\ dead' = dead
      BY <1>4 DEF LoginFails, CallSucceeds
    <2> QED BY <1>11, <2>1, IdleOk, CallStep
  <1>5. ASSUME NEW c \in Calls, StoreToken(c)
        PROVE  AgeInv'
    <2>1. PICK n : n = [call[c] EXCEPT !.pc = "sent", !.since = clock]
      OBVIOUS
    <2>2. /\ call[c] \in CallLocals /\ InTime(call[c]) /\ call[c].pc = "answer" /\ clock \in Nat
      BY <1>5 DEF AgeInv, TokenTypes, StoreToken
    <2>3. n \in CallLocals /\ n.pc = "sent" /\ n.token = call[c].token /\ n.since = clock
      BY <2>1, <2>2 DEF CallLocals
    <2>4. n.token.at \in Nat /\ clock <= n.token.at + 1 /\ n.token \in IssuedTokens
      BY <2>2, <2>3 DEF InTime, CallLocals, IssuedTokens
    <2>5. InTime(n)
      BY <2>2, <2>3, <2>4 DEF InTime
    <2>6. PICK e : e = [token |-> n.token, expires |-> Ends]
      OBVIOUS
    <2>7. Ends \in Nat /\ Ends <= n.token.at + 1 + Life
      BY <2>2, <2>4 DEF Ends
    <2>8. /\ call' = [call EXCEPT ![c] = n] /\ cache' = {e}
          /\ UNCHANGED <<clock, shop, logins, dead>>
      BY <1>5, <2>1, <2>3, <2>6 DEF StoreToken
    <2>9. e \in [token : IssuedTokens, expires : Nat] /\ e.expires = Ends /\ e.token = n.token
      BY <2>4, <2>6, <2>7
    <2>10. \A d \in Calls : call'[d] = IF d = c THEN n ELSE call[d]
      BY <2>8 DEF AgeInv, TokenTypes
    <2>11. \A d \in Calls : InTime(call[d])'
      BY <2>5, <2>8, <2>10 DEF AgeInv, InTime
    <2>12. TokenTypes'
      BY <2>3, <2>8, <2>9 DEF AgeInv, TokenTypes
    <2>13. \A x \in cache' : x.expires <= x.token.at + LoginTime + Life
      BY <2>7, <2>8, <2>9
    <2> QED BY <2>11, <2>12, <2>13 DEF AgeInv
  <1>6. ASSUME NEW c \in Calls, HoroshopRefused(c)
        PROVE  AgeInv'
    <2>1. call[c] \in CallLocals
      BY DEF AgeInv, TokenTypes
    <2>2. CASE call[c].retry
      <3>1. PICK h : h = [call[c] EXCEPT !.retry = FALSE, !.revoked = FALSE]
        OBVIOUS
      <3>2. h \in CallLocals
        BY <2>1, <3>1 DEF CallLocals
      <3>3. PICK n : n = WithToken(h, {}, FALSE)
        OBVIOUS
      <3>4. n \in CallLocals /\ InTime(n)
        BY <3>2, <3>3, WithTokenOk
      <3>5. /\ call' = [call EXCEPT ![c] = n] /\ cache' \subseteq cache
            /\ logins' = logins /\ clock' = clock /\ shop' = shop /\ dead' = dead
        BY <1>6, <2>2, <3>1, <3>3 DEF HoroshopRefused, Dropped
      <3> QED BY <1>11, <3>4, <3>5, CallStep
    <2>3. CASE ~call[c].retry
      <3>1. /\ call' = [call EXCEPT ![c] = NoCall] /\ cache' \subseteq cache
            /\ logins' = logins /\ clock' = clock /\ shop' = shop /\ dead' = dead
        BY <1>6, <2>3 DEF HoroshopRefused
      <3> QED BY <1>11, <3>1, IdleOk, CallStep
    <2> QED BY <2>2, <2>3
  <1>7. ASSUME NEW c \in Calls, RozetkaRefused(c)
        PROVE  AgeInv'
    <2>1. /\ call' = [call EXCEPT ![c] = NoCall] /\ cache' \subseteq cache
          /\ logins' = logins /\ clock' = clock /\ shop' = shop /\ dead' = dead
      BY <1>7 DEF RozetkaRefused, Dropped
    <2> QED BY <1>11, <2>1, IdleOk, CallStep
  <1>8. ASSUME NEW c \in Calls, TransientError(c)
        PROVE  AgeInv'
    <2>1. /\ call[c] \in CallLocals /\ cache' \subseteq cache
          /\ logins' = logins /\ clock' = clock /\ shop' = shop /\ dead' = dead
      BY <1>8 DEF AgeInv, TokenTypes, TransientError
    <2>2. CASE shop = "horoshop" /\ call[c].attempt < MaxTransient
      <3>1. PICK h : h = [call[c] EXCEPT !.attempt = call[c].attempt + 1]
        OBVIOUS
      <3>2. h \in CallLocals
        BY <2>1, <3>1 DEF CallLocals
      <3>3. PICK n : n = WithToken(h, cache, FALSE)
        OBVIOUS
      <3>4. n \in CallLocals /\ InTime(n)
        BY <3>2, <3>3, WithTokenOk
      <3>5. call' = [call EXCEPT ![c] = n]
        BY <1>8, <2>2, <3>1, <3>3 DEF TransientError
      <3> QED BY <1>11, <2>1, <3>4, <3>5, CallStep
    <2>3. CASE ~(shop = "horoshop" /\ call[c].attempt < MaxTransient)
      <3>1. call' = [call EXCEPT ![c] = NoCall]
        BY <1>8, <2>3 DEF TransientError
      <3> QED BY <1>11, <2>1, <3>1, IdleOk, CallStep
    <2> QED BY <2>2, <2>3
  <1>9. CASE Revoke
    <2>1. \A c \in Calls : call[c] \in CallLocals /\ InTime(call[c])
      BY DEF AgeInv, TokenTypes
    <2>2. \A c \in Calls : call'[c] = [call[c] EXCEPT !.revoked = call[c].pc # "idle"]
      BY <1>9 DEF Revoke
    <2>3. ASSUME NEW c \in Calls
          PROVE  /\ call'[c] \in CallLocals /\ call'[c].pc = call[c].pc
                 /\ call'[c].since = call[c].since /\ call'[c].token = call[c].token
      <3>1. PICK b \in BOOLEAN : b = (call[c].pc # "idle")
        OBVIOUS
      <3>2. call'[c] = [call[c] EXCEPT !.revoked = b] /\ call[c] \in CallLocals
        BY <2>1, <2>2, <3>1
      <3> QED BY <3>2 DEF CallLocals
    <2>4. call' = [c \in Calls |-> call'[c]]
      BY <1>9 DEF Revoke
    <2>5. UNCHANGED <<clock, shop, cache, logins>> /\ dead' = logins
      BY <1>9 DEF Revoke
    <2>6. \A c \in Calls : InTime(call'[c])
      BY <2>1, <2>3 DEF InTime
    <2>7. \A c \in Calls : InTime(call[c])'
      BY <2>5, <2>6 DEF InTime
    <2>8. TokenTypes'
      BY <2>3, <2>4, <2>5 DEF AgeInv, TokenTypes
    <2> QED BY <2>5, <2>7, <2>8 DEF AgeInv
  <1>10. CASE Tick
    <2>1. /\ clock \in Nat /\ clock' = clock + 1 /\ UNCHANGED <<shop, cache, call, logins, dead>>
      BY <1>10 DEF Tick, AgeInv, TokenTypes
    <2>2. ASSUME NEW c \in Calls
          PROVE  InTime(call[c])'
      <3>1. /\ call[c] \in CallLocals /\ InTime(call[c])
            /\ call[c].pc \in {"login", "answer"} => clock < call[c].since + 1
            /\ call[c].pc = "sent" => clock < call[c].since + 1
        BY <1>10 DEF Tick, AgeInv, TokenTypes
      <3>2. call[c].since \in Nat /\ call[c].token.at \in Nat
        BY <3>1 DEF CallLocals, IssuedTokens
      <3> QED BY <2>1, <3>1, <3>2 DEF InTime
    <2>3. TokenTypes'
      BY <2>1 DEF AgeInv, TokenTypes
    <2> QED BY <2>1, <2>2, <2>3 DEF AgeInv
  <1> QED BY <1>1, <1>2, <1>3, <1>4, <1>5, <1>6, <1>7, <1>8, <1>9, <1>10 DEF TokensNext

(* No token grows too old on its way from the cache to the shop (getToken,   *)
(* getAccessToken): the margin of a minute covers the time the login's       *)
(* answer may take and the time the call may.                                *)
THEOREM TokensAreYoungEnough == TokensSpec => []AgeNeverRefused
  <1>1. AgeInv => AgeNeverRefused
    <2> SUFFICES ASSUME AgeInv, NEW c \in Calls, call[c].pc = "sent"
                 PROVE  clock < call[c].token.at + Life
      BY DEF AgeNeverRefused
    <2>1. call[c] \in CallLocals /\ InTime(call[c]) /\ clock \in Nat
      BY DEF AgeInv, TokenTypes
    <2>2. call[c].since \in Nat /\ call[c].token.at \in Nat
      BY <2>1 DEF CallLocals, IssuedTokens
    <2> QED BY <2>1, <2>2, TokenAssumption DEF InTime, CallTime, TokenAssumption
  <1> QED BY <1>1, TokensInitInv, TokensNextInv, PTL DEF TokensSpec

(* A call that the shop refused once and that no revocation has struck since.*)
Retrying(h) == h.pc # "idle" /\ ~h.retry /\ ~h.revoked

(* Its token and those of the cache are alive, and so is every token whose   *)
(* answer is on its way.                                                     *)
Alive(h) ==
  /\ h.pc = "answer" => h.token.n > dead
  /\ Retrying(h) => /\ h.pc = "sent" => h.token.n > dead
                    /\ \A e \in cache : e.token.n > dead

RefusalInv ==
  /\ AgeInv
  /\ overtaken \in BOOLEAN
  /\ overtaken \/ (faulty = {} /\ \A c \in Calls : Alive(call[c]))

(* One call goes on as n, and what it puts into the cache is alive.          *)
LEMMA AliveStep ==
  ASSUME RefusalInv, ~overtaken', NEW c \in Calls, NEW n \in CallLocals,
         call' = [call EXCEPT ![c] = n],
         overtaken' = overtaken, dead' = dead, faulty' = {},
         \A e \in cache' : e \in cache \/ e.token.n > dead,
         n.pc = "answer" => n.token.n > dead,
         Retrying(n) => /\ n.pc = "sent" => n.token.n > dead
                        /\ \A e \in cache' : e.token.n > dead
  PROVE  faulty' = {} /\ \A d \in Calls : Alive(call[d])'
  <1>1. \A d \in Calls : call'[d] = IF d = c THEN n ELSE call[d]
    BY DEF RefusalInv, AgeInv, TokenTypes
  <1>2. \A d \in Calls : Alive(call[d])
    BY DEF RefusalInv
  <1>3. ASSUME NEW d \in Calls
        PROVE  Alive(call[d])'
    <2>1. CASE d = c
      BY <1>1, <2>1 DEF Alive
    <2>2. CASE d # c
      BY <1>1, <1>2, <2>2 DEF Alive
    <2> QED BY <2>1, <2>2
  <1> QED BY <1>3

LEMMA RefusalNextInv ==
  ASSUME RefusalInv, [TokensNext]_tokenVars
  PROVE  RefusalInv'
  <1> USE TokenAssumption DEF TokenAssumption, LoginTime, CallTime, Margin
  <1>1. AgeInv'
    BY TokensNextInv DEF RefusalInv
  <1>2. overtaken' \in BOOLEAN /\ (overtaken => overtaken')
    <2>1. \/ overtaken' = overtaken
          \/ overtaken' = (overtaken \/ \E c \in Calls : call[c].pc = "answer")
      BY DEF TokensNext, tokenVars, BeginCall, LoginIssues, LoginFails, StoreToken, CallSucceeds,
             HoroshopRefused, RozetkaRefused, TransientError, Revoke, Tick
    <2> QED BY <2>1 DEF RefusalInv
  <1> SUFFICES ASSUME ~overtaken'
               PROVE  faulty' = {} /\ \A c \in Calls : Alive(call[c])'
    BY <1>1, <1>2 DEF RefusalInv
  <1>3. /\ AgeInv /\ ~overtaken /\ faulty = {} /\ \A c \in Calls : Alive(call[c])
    BY <1>2 DEF RefusalInv
  <1>4. \A c \in Calls : call[c] \in CallLocals
    BY <1>3 DEF AgeInv, TokenTypes
  <1>5. NoCall \in CallLocals /\ NoCall.pc = "idle" /\ NoCall.retry = TRUE
    BY IdleOk DEF NoCall
  <1>6. CASE UNCHANGED tokenVars \/ Tick
    BY <1>3, <1>6 DEF tokenVars, Tick, Alive
  <1>7. ASSUME NEW c \in Calls, NEW force \in BOOLEAN, BeginCall(c, force)
        PROVE  faulty' = {} /\ \A d \in Calls : Alive(call[d])'
    <2>1. PICK n : n = WithToken(NoCall, cache, force)
      OBVIOUS
    <2>2. n \in CallLocals /\ n.pc \in {"login", "sent"} /\ n.retry = TRUE
      BY <1>3, <1>5, <2>1, WithTokenOk
    <2>3. /\ call' = [call EXCEPT ![c] = n]
          /\ overtaken' = overtaken /\ dead' = dead /\ faulty' = {}
          /\ \A e \in cache' : e \in cache
      BY <1>3, <1>7, <2>1 DEF BeginCall
    <2> QED BY <2>2, <2>3, AliveStep DEF Retrying
  <1>8. ASSUME NEW c \in Calls, LoginIssues(c)
        PROVE  faulty' = {} /\ \A d \in Calls : Alive(call[d])'
    <2>1. PICK t : t = [n |-> logins + 1, at |-> clock]
      OBVIOUS
    <2>2. t \in IssuedTokens /\ t.n > dead
      BY <1>3, <2>1 DEF IssuedTokens, AgeInv, TokenTypes
    <2>3. PICK n : n = [call[c] EXCEPT !.pc = "answer", !.token = t]
      OBVIOUS
    <2>4. /\ n \in CallLocals /\ n.pc = "answer" /\ n.token = t
          /\ n.retry = call[c].retry /\ n.revoked = call[c].revoked
      BY <1>4, <2>2, <2>3 DEF CallLocals
    <2>5. /\ call' = [call EXCEPT ![c] = n] /\ call[c].pc = "login"
          /\ overtaken' = overtaken /\ dead' = dead /\ faulty' = {}
          /\ cache' = cache
      BY <1>3, <1>8, <2>1, <2>3 DEF LoginIssues
    <2>6. Retrying(n) => \A e \in cache' : e.token.n > dead
      BY <1>3, <2>4, <2>5 DEF Retrying, Alive
    <2>7. n.pc = "answer" => n.token.n > dead
      BY <2>2, <2>4
    <2>8. n.pc # "sent"
      BY <2>4
    <2> QED BY <2>4, <2>5, <2>6, <2>7, <2>8, AliveStep
  <1>9. ASSUME NEW c \in Calls, LoginFails(c) \/ CallSucceeds(c) \/ RozetkaRefused(c)
        PROVE  faulty' = {} /\ \A d \in Calls : Alive(call[d])'
    <2>1. /\ call' = [call EXCEPT ![c] = NoCall]
          /\ overtaken' = overtaken /\ dead' = dead /\ faulty' = {}
          /\ \A e \in cache' : e \in cache
      BY <1>3, <1>9 DEF LoginFails, CallSucceeds, RozetkaRefused, Dropped
    <2> QED BY <1>5, <2>1, AliveStep DEF Retrying
  <1>10. ASSUME NEW c \in Calls, StoreToken(c)
         PROVE  faulty' = {} /\ \A d \in Calls : Alive(call[d])'
    <2>1. PICK n : n = [call[c] EXCEPT !.pc = "sent", !.since = clock]
      OBVIOUS
    <2>2. call[c] \in CallLocals /\ call[c].pc = "answer" /\ clock \in Nat
      BY <1>3, <1>4, <1>10 DEF StoreToken, AgeInv, TokenTypes
    <2>3. /\ n \in CallLocals /\ n.pc = "sent" /\ n.token = call[c].token
          /\ n.retry = call[c].retry /\ n.revoked = call[c].revoked
      BY <2>1, <2>2 DEF CallLocals
    <2>4. /\ call' = [call EXCEPT ![c] = n]
          /\ overtaken' = overtaken /\ dead' = dead /\ faulty' = {}
          /\ cache' = {[token |-> call[c].token, expires |-> Ends]}
      BY <1>3, <1>10, <2>1 DEF StoreToken
    <2>5. call[c].token.n > dead
      BY <1>3, <2>2 DEF Alive
    <2>6. \A e \in cache' : e.token = call[c].token
      BY <2>4
    <2>7. \A e \in cache' : e.token.n > dead
      BY <2>5, <2>6
    <2> QED BY <2>3, <2>4, <2>5, <2>7, AliveStep
  <1>11. ASSUME NEW c \in Calls, HoroshopRefused(c)
         PROVE  faulty' = {} /\ \A d \in Calls : Alive(call[d])'
    <2>1. overtaken' = overtaken /\ dead' = dead /\ Refuses(call[c].token) /\ call[c].pc = "sent"
      BY <1>11 DEF HoroshopRefused
    <2>2. CASE call[c].retry
      <3>1. PICK h : h = [call[c] EXCEPT !.retry = FALSE, !.revoked = FALSE]
        OBVIOUS
      <3>2. h \in CallLocals
        BY <1>4, <3>1 DEF CallLocals
      <3>3. PICK n : n = WithToken(h, {}, FALSE)
        OBVIOUS
      <3>4. n \in CallLocals /\ n.pc = "login"
        <4>1. PICK none \in SUBSET cache : none = {}
          OBVIOUS
        <4>2. /\ n \in CallLocals /\ n.pc \in {"login", "sent"}
              /\ n.pc = "sent" => \E e \in none : n.token = e.token
          BY <1>3, <3>2, <3>3, <4>1, WithTokenOk
        <4> QED BY <4>1, <4>2
      <3>5. call' = [call EXCEPT ![c] = n] /\ cache' = {} /\ faulty' = {}
        BY <1>3, <1>11, <2>2, <3>1, <3>3 DEF HoroshopRefused, Dropped
      <3>6. /\ n.pc = "answer" => n.token.n > dead
            /\ n.pc = "sent" => n.token.n > dead
            /\ \A e \in cache' : e \in cache \/ e.token.n > dead
            /\ \A e \in cache' : e.token.n > dead
        BY <3>4, <3>5
      <3> QED BY <2>1, <3>4, <3>5, <3>6, AliveStep
    <2>3. CASE ~call[c].retry
      <3>1. call[c].revoked
        <4> SUFFICES ASSUME ~call[c].revoked PROVE FALSE
          OBVIOUS
        <4>1. call[c].token.n > dead
          BY <1>3, <2>1, <2>3 DEF Alive, Retrying
        <4>2. /\ call[c].since \in Nat /\ call[c].token.at \in Nat /\ call[c].token.n \in Nat
              /\ clock \in Nat /\ dead \in Nat
          BY <1>3, <1>4 DEF CallLocals, IssuedTokens, AgeInv, TokenTypes
        <4>3. clock < call[c].token.at + Life
          BY <1>3, <2>1, <4>2 DEF AgeInv, InTime
        <4> QED BY <2>1, <4>1, <4>2, <4>3 DEF Refuses
      <3>2. /\ call' = [call EXCEPT ![c] = NoCall] /\ faulty' = {}
            /\ \A e \in cache' : e \in cache
        BY <1>3, <1>11, <2>3, <3>1 DEF HoroshopRefused
      <3> QED BY <1>5, <2>1, <3>2, AliveStep DEF Retrying
    <2> QED BY <2>2, <2>3
  <1>12. ASSUME NEW c \in Calls, TransientError(c)
         PROVE  faulty' = {} /\ \A d \in Calls : Alive(call[d])'
    <2>1. /\ overtaken' = overtaken /\ dead' = dead /\ faulty' = {} /\ cache' = cache
          /\ call[c].pc = "sent"
      BY <1>3, <1>12 DEF TransientError
    <2>2. CASE shop = "horoshop" /\ call[c].attempt < MaxTransient
      <3>1. PICK h : h = [call[c] EXCEPT !.attempt = call[c].attempt + 1]
        OBVIOUS
      <3>2. h \in CallLocals /\ h.retry = call[c].retry /\ h.revoked = call[c].revoked
        BY <1>4, <3>1 DEF CallLocals
      <3>3. PICK n : n = WithToken(h, cache, FALSE)
        OBVIOUS
      <3>4. /\ n \in CallLocals /\ n.pc \in {"login", "sent"}
            /\ n.retry = call[c].retry /\ n.revoked = call[c].revoked
            /\ n.pc = "sent" => \E e \in cache : n.token = e.token
        <4>1. /\ n \in CallLocals /\ n.pc \in {"login", "sent"}
              /\ n.retry = h.retry /\ n.revoked = h.revoked
              /\ n.pc = "sent" => \E e \in cache : n.token = e.token
          BY <1>3, <3>2, <3>3, WithTokenOk
        <4> QED BY <3>2, <4>1
      <3>5. call' = [call EXCEPT ![c] = n]
        BY <1>12, <2>2, <3>1, <3>3 DEF TransientError
      <3>6. Retrying(n) => \A e \in cache : e.token.n > dead
        BY <1>3, <2>1, <3>4 DEF Retrying, Alive
      <3>7. Retrying(n) /\ n.pc = "sent" => n.token.n > dead
        BY <3>4, <3>6
      <3> QED BY <2>1, <3>4, <3>5, <3>6, <3>7, AliveStep
    <2>3. CASE ~(shop = "horoshop" /\ call[c].attempt < MaxTransient)
      <3>1. call' = [call EXCEPT ![c] = NoCall]
        BY <1>12, <2>3 DEF TransientError
      <3> QED BY <1>5, <2>1, <3>1, AliveStep DEF Retrying
    <2> QED BY <2>2, <2>3
  <1>13. CASE Revoke
    <2>1. faulty' = {} /\ \A c \in Calls : call[c].pc # "answer"
      BY <1>3, <1>13 DEF Revoke
    <2>2. ASSUME NEW c \in Calls
          PROVE  Alive(call[c])'
      <3>1. PICK b \in BOOLEAN : b = (call[c].pc # "idle")
        OBVIOUS
      <3>2. call'[c] = [call[c] EXCEPT !.revoked = b] /\ call[c] \in CallLocals
        BY <1>4, <1>13, <3>1 DEF Revoke
      <3>3. call'[c].revoked = b /\ call'[c].pc = call[c].pc
        BY <3>2 DEF CallLocals
      <3>4. call'[c].pc # "answer" /\ ~Retrying(call'[c])
        BY <2>1, <3>1, <3>3 DEF Retrying
      <3> QED BY <3>4 DEF Alive, Retrying
    <2> QED BY <2>1, <2>2
  <1> QED BY <1>6, <1>7, <1>8, <1>9, <1>10, <1>11, <1>12, <1>13 DEF TokensNext

(* A call to Horoshop that was refused once does not fail for the same       *)
(* revocation again (HoroshopApiClient.request, clearToken), unless a login  *)
(* was on its way when the tokens were revoked: the refused call empties the *)
(* cache, and what others put there afterwards is no older.                  *)
THEOREM RefusedOnce == TokensSpec => []OneRefusalIsHidden
  <1>1. RefusalInv => OneRefusalIsHidden
    BY DEF RefusalInv, OneRefusalIsHidden
  <1>2. TokensInit => RefusalInv
    <2> SUFFICES ASSUME TokensInit PROVE RefusalInv
      OBVIOUS
    <2>1. \A c \in Calls : call[c].pc = "idle"
      BY DEF TokensInit, NoCall
    <2>2. \A c \in Calls : Alive(call[c])
      BY <2>1 DEF Alive, Retrying
    <2> QED BY <2>2, TokensInitInv DEF RefusalInv, TokensInit
  <1> QED BY <1>1, <1>2, RefusalNextInv, PTL DEF TokensSpec

-----------------------------------------------------------------------------
(* SkuMap.                                                                   *)

Upserts ==
  [pc : {"idle", "load", "split", "sent", "answer"}, map : MapNumbers \cup {0}, page : Nat,
   todo : SUBSET Skus, batch : SUBSET Skus, create : SUBSET Skus, made : SUBSET Skus]

InFlight(p) == upsert[p].pc \in {"sent", "answer"}

SkuTypes ==
  /\ card \in [Skus -> Nat] /\ nextCard \in Nat
  /\ maps \in [MapNumbers -> [Skus -> Nat]]
  /\ cachedMap \in MapNumbers \cup {0}
  /\ excused \in [MapNumbers -> SUBSET Skus]
  /\ upsert \in [Passes -> Upserts]
  /\ \A p \in Passes :
       /\ upsert[p].pc # "idle" => upsert[p].map \in MapNumbers
       /\ upsert[p].create \subseteq upsert[p].batch
       /\ upsert[p].made \subseteq upsert[p].create
       /\ upsert[p].made # {} => upsert[p].pc = "answer"
       /\ upsert[p].pc = "idle" => upsert[p].map = 0

(* While a map is read it belongs to one pass.                               *)
LoadsAlone(p) ==
  LET m == upsert[p].map IN
  upsert[p].pc = "load" =>
    /\ cachedMap # m
    /\ \A q \in Passes : upsert[q].map = m => q = p
    /\ upsert[p].page \in 1 .. LastPage
    /\ \A s \in Skus \ excused[m] :
         maps[m][s] = IF PageOf[s] < upsert[p].page THEN card[s] ELSE 0

(* A map that has been read knows a product's card, or misses one whose      *)
(* creation has been answered, or the product is excused.                    *)
KnowsSku(m, s) ==
  \/ maps[m][s] = card[s]
  \/ /\ maps[m][s] = 0
     /\ \E p \in Passes : upsert[p].pc = "answer" /\ upsert[p].map = m /\ s \in upsert[p].made

Loading(m) == \E p \in Passes : upsert[p].pc = "load" /\ upsert[p].map = m

Knows(m) == m \in Used /\ ~Loading(m) => \A s \in Skus \ excused[m] : KnowsSku(m, s)

(* What a pass has sent agrees with its map and with the shop.               *)
SentWell(p) ==
  LET u == upsert[p] IN
  InFlight(p) =>
    /\ \A s \in u.create \ excused[u.map] :
         maps[u.map][s] = 0 /\ (u.pc = "sent" => card[s] = 0)
    /\ \A s \in (u.batch \ u.create) \ excused[u.map] : maps[u.map][s] # 0

(* Two passes create a card at once only of excused products.                *)
Cross(p, q) ==
  p # q /\ InFlight(p) /\ InFlight(q) =>
    upsert[p].create \cap upsert[q].create
      \subseteq excused[upsert[p].map] \cap excused[upsert[q].map]

VainOk == \A v \in vain : v.map \in MapNumbers /\ v.sku \in excused[v.map]

MapsInv ==
  /\ SkuTypes
  /\ \A p \in Passes : LoadsAlone(p)
  /\ \A m \in MapNumbers : Knows(m)
  /\ \A p \in Passes : SentWell(p)
  /\ \A p, q \in Passes : Cross(p, q)
  /\ VainOk

LEMMA SkuInitInv == SkuInit => MapsInv
  <1> SUFFICES ASSUME SkuInit PROVE MapsInv
    OBVIOUS
  <1> USE SkuMapAssumption DEF SkuMapAssumption
  <1>1. /\ NoUpsert \in Upserts /\ NoUpsert.pc = "idle" /\ NoUpsert.map = 0
        /\ NoUpsert.made = {} /\ NoUpsert.create = {} /\ NoUpsert.batch = {}
    BY DEF NoUpsert, Upserts
  <1>2. /\ upsert \in [Passes -> Upserts] /\ \A p \in Passes : upsert[p] = NoUpsert
        /\ cachedMap = 0 /\ vain = {}
        /\ maps \in [MapNumbers -> [Skus -> Nat]] /\ \A m \in MapNumbers : maps[m] = Blank
        /\ excused \in [MapNumbers -> SUBSET Skus] /\ \A m \in MapNumbers : excused[m] = {}
    BY <1>1 DEF SkuInit, Blank
  <1>3. card \in [Skus -> Nat] /\ nextCard \in Nat
    BY DEF SkuInit
  <1>4. SkuTypes
    BY <1>1, <1>2, <1>3 DEF SkuTypes
  <1>5. \A m \in MapNumbers : m \notin Used
    BY <1>1, <1>2 DEF Used, MapNumbers
  <1>6. \A p \in Passes : LoadsAlone(p) /\ SentWell(p)
    BY <1>1, <1>2 DEF LoadsAlone, SentWell, InFlight
  <1>7. \A p, q \in Passes : Cross(p, q)
    BY <1>1, <1>2 DEF Cross, InFlight
  <1> QED BY <1>2, <1>4, <1>5, <1>6, <1>7 DEF MapsInv, Knows, VainOk

(* A step that leaves maps and passes alone: who changes a card excuses it   *)
(* from every map in use.                                                    *)
LEMMA ShopStep ==
  ASSUME MapsInv, upsert' = upsert, maps' = maps, vain' = vain,
         cachedMap' = cachedMap \/ cachedMap' = 0,
         card' \in [Skus -> Nat], nextCard' \in Nat,
         excused' \in [MapNumbers -> SUBSET Skus],
         \A m \in MapNumbers : excused[m] \subseteq excused'[m],
         \A m \in MapNumbers : excused'[m] # {} => m \in Used,
         \A m \in Used : \A s \in Skus \ excused'[m] : card'[s] = card[s]
  PROVE  MapsInv'
  <1>1. \A p \in Passes : upsert[p].pc # "idle" => upsert[p].map \in Used
    BY DEF MapsInv, SkuTypes, Used
  <1>2. Used' \subseteq Used
    <2> SUFFICES ASSUME NEW m \in Used' PROVE m \in Used
      OBVIOUS
    <2>1. m \in MapNumbers /\ m # 0
      BY SkuMapAssumption DEF Used, MapNumbers, SkuMapAssumption
    <2> QED BY <2>1 DEF Used
  <1>3. SkuTypes'
    BY DEF MapsInv, SkuTypes
  <1>4. ASSUME NEW p \in Passes
        PROVE  LoadsAlone(p)' /\ SentWell(p)'
    <2>1. LoadsAlone(p) /\ SentWell(p) /\ (upsert[p].pc # "idle" => upsert[p].map \in MapNumbers)
      BY DEF MapsInv, SkuTypes
    <2>2. LoadsAlone(p)'
      BY <1>1, <2>1 DEF LoadsAlone, MapNumbers
    <2>3. SentWell(p)'
      <3> SUFFICES ASSUME InFlight(p)
                   PROVE  SentWell(p)'
        BY DEF SentWell, InFlight
      <3>1. upsert[p].map \in Used /\ upsert[p].create \subseteq Skus
        BY <1>1 DEF InFlight, MapsInv, SkuTypes, Upserts
      <3>2. excused[upsert[p].map] \subseteq excused'[upsert[p].map]
        BY <3>1 DEF Used
      <3>3. \A s \in upsert[p].create \ excused'[upsert[p].map] :
              maps'[upsert[p].map][s] = 0 /\ (upsert[p].pc = "sent" => card'[s] = 0)
        BY <2>1, <3>1, <3>2 DEF SentWell
      <3> QED BY <2>1, <3>2, <3>3 DEF SentWell
    <2> QED BY <2>2, <2>3
  <1>5. ASSUME NEW m \in MapNumbers
        PROVE  Knows(m)'
    <2>1. Knows(m)
      BY DEF MapsInv
    <2>2. ASSUME m \in Used, ~Loading(m), NEW s \in Skus \ excused'[m]
          PROVE  KnowsSku(m, s)'
      <3>1. KnowsSku(m, s) /\ card'[s] = card[s]
        BY <2>1, <2>2 DEF Knows
      <3> QED BY <3>1 DEF KnowsSku
    <2> QED BY <1>2, <2>2 DEF Knows, Loading
  <1>6. ASSUME NEW p \in Passes, NEW q \in Passes
        PROVE  Cross(p, q)'
    <2>1. Cross(p, q)
      BY DEF MapsInv
    <2>2. InFlight(p) /\ InFlight(q) => upsert[p].map \in MapNumbers /\ upsert[q].map \in MapNumbers
      BY DEF InFlight, MapsInv, SkuTypes
    <2> QED BY <2>1, <2>2 DEF Cross, InFlight
  <1>7. VainOk'
    BY DEF MapsInv, VainOk
  <1> QED BY <1>3, <1>4, <1>5, <1>6, <1>7 DEF MapsInv

LEMMA EditSteps ==
  ASSUME MapsInv, MapExpires \/ \E s \in Skus : AddCard(s) \/ DeleteCard(s)
  PROVE  MapsInv'
  <1>1. CASE MapExpires
    <2>1. /\ upsert' = upsert /\ maps' = maps /\ vain' = vain /\ cachedMap' = 0
          /\ card' = card /\ nextCard' = nextCard /\ excused' = excused
      BY <1>1 DEF MapExpires
    <2>2. /\ card \in [Skus -> Nat] /\ nextCard \in Nat
          /\ excused \in [MapNumbers -> SUBSET Skus]
          /\ \A m \in MapNumbers : excused[m] # {} => m \in Used
      BY DEF MapsInv, SkuTypes, Used
    <2> QED BY <2>1, <2>2, ShopStep
  <1>2. ASSUME NEW s \in Skus, AddCard(s) \/ DeleteCard(s)
        PROVE  MapsInv'
    <2>1. /\ upsert' = upsert /\ maps' = maps /\ vain' = vain /\ cachedMap' = cachedMap
          /\ excused' = Changed(s)
      BY <1>2 DEF AddCard, DeleteCard
    <2>2. card' \in [Skus -> Nat] /\ nextCard' \in Nat
      BY <1>2, SMTT(20) DEF AddCard, DeleteCard, MapsInv, SkuTypes
    <2>3. \A x \in Skus : x # s => card'[x] = card[x]
      BY <1>2 DEF AddCard, DeleteCard, MapsInv, SkuTypes
    <2>4. /\ excused' \in [MapNumbers -> SUBSET Skus]
          /\ \A m \in MapNumbers : excused[m] \subseteq excused'[m]
          /\ \A m \in MapNumbers : excused'[m] # {} => m \in Used
          /\ \A m \in Used : s \in excused'[m]
      <3>1. \A m \in MapNumbers :
              excused'[m] = IF m \in Used THEN excused[m] \cup {s} ELSE excused[m]
        BY <2>1 DEF Changed
      <3>2. \A m \in MapNumbers : excused[m] # {} => m \in Used
        BY DEF Used
      <3>3. excused' \in [MapNumbers -> SUBSET Skus]
        BY <2>1 DEF Changed, MapsInv, SkuTypes
      <3>4. Used \subseteq MapNumbers
        BY DEF Used
      <3> QED BY <3>1, <3>2, <3>3, <3>4
    <2>5. \A m \in Used : \A x \in Skus \ excused'[m] : card'[x] = card[x]
      BY <2>3, <2>4
    <2> QED BY <2>1, <2>2, <2>4, <2>5, ShopStep
  <1> QED BY <1>1, <1>2

(* Pass p goes on as n: what its step has to see to.                         *)
LEMMA PassStep ==
  ASSUME MapsInv, NEW p \in Passes, NEW n \in Upserts, upsert' = [upsert EXCEPT ![p] = n],
         card' \in [Skus -> Nat], nextCard' \in Nat, maps' \in [MapNumbers -> [Skus -> Nat]],
         cachedMap' \in MapNumbers \cup {0}, excused' \in [MapNumbers -> SUBSET Skus],
         \A m \in MapNumbers : excused[m] \subseteq excused'[m],
         n.pc # "idle" => n.map \in MapNumbers, n.create \subseteq n.batch,
         n.made \subseteq n.create, n.made # {} => n.pc = "answer", n.pc = "idle" => n.map = 0,
         \A q \in Passes \ {p} : upsert[q].pc = "load" =>
           /\ n.map # upsert[q].map /\ cachedMap' # upsert[q].map
           /\ maps'[upsert[q].map] = maps[upsert[q].map]
           /\ \A s \in Skus \ excused'[upsert[q].map] : card'[s] = card[s],
         \A q \in Passes \ {p} : InFlight(q) =>
           \A s \in Skus \ excused'[upsert[q].map] :
             /\ maps[upsert[q].map][s] # 0 => maps'[upsert[q].map][s] # 0
             /\ s \in upsert[q].create =>
                  /\ maps[upsert[q].map][s] = 0 => maps'[upsert[q].map][s] = 0
                  /\ upsert[q].pc = "sent" /\ card[s] = 0 => card'[s] = 0,
         LoadsAlone(p)', SentWell(p)', \A q \in Passes \ {p} : Cross(p, q)',
         \A m \in MapNumbers : Knows(m)', VainOk'
  PROVE  MapsInv'
  <1>1. upsert'[p] = n /\ \A q \in Passes \ {p} : upsert'[q] = upsert[q]
    BY DEF MapsInv, SkuTypes
  <1>2. SkuTypes'
    <2>1. upsert' \in [Passes -> Upserts]
      BY DEF MapsInv, SkuTypes
    <2>2. ASSUME NEW q \in Passes
          PROVE  /\ upsert'[q].pc # "idle" => upsert'[q].map \in MapNumbers
                 /\ upsert'[q].create \subseteq upsert'[q].batch
                 /\ upsert'[q].made \subseteq upsert'[q].create
                 /\ upsert'[q].made # {} => upsert'[q].pc = "answer"
                 /\ upsert'[q].pc = "idle" => upsert'[q].map = 0
      <3>1. CASE q = p
        BY <1>1, <3>1
      <3>2. CASE q # p
        BY <1>1, <3>2 DEF MapsInv, SkuTypes
      <3> QED BY <3>1, <3>2
    <2> QED BY <2>1, <2>2 DEF SkuTypes
  <1>3. ASSUME NEW q \in Passes, q # p
        PROVE  LoadsAlone(q)' /\ SentWell(q)'
    <2>1. /\ LoadsAlone(q) /\ SentWell(q) /\ upsert[q] \in Upserts
          /\ upsert[q].pc # "idle" => upsert[q].map \in MapNumbers
          /\ upsert'[q] = upsert[q]
          /\ upsert[q].create \subseteq Skus /\ upsert[q].batch \subseteq Skus
      BY <1>1, <1>3 DEF MapsInv, SkuTypes, Upserts
    <2>2. LoadsAlone(q)'
      <3> SUFFICES ASSUME upsert[q].pc = "load" PROVE LoadsAlone(q)'
        BY <2>1 DEF LoadsAlone
      <3>1. PICK m \in MapNumbers : m = upsert[q].map
        BY <2>1
      <3>2. /\ n.map # m /\ cachedMap' # m /\ maps'[m] = maps[m]
            /\ \A s \in Skus \ excused'[m] : card'[s] = card[s]
            /\ excused[m] \subseteq excused'[m]
        BY <1>3, <3>1
      <3>3. \A r \in Passes : upsert'[r].map = m => r = q
        BY <1>1, <2>1, <3>1, <3>2 DEF LoadsAlone
      <3> QED BY <2>1, <3>1, <3>2, <3>3 DEF LoadsAlone
    <2>3. SentWell(q)'
      <3> SUFFICES ASSUME InFlight(q) PROVE SentWell(q)'
        BY <2>1 DEF SentWell, InFlight
      <3>1. PICK m \in MapNumbers : m = upsert[q].map
        BY <2>1 DEF InFlight
      <3>2. \A s \in Skus \ excused'[m] :
              /\ maps[m][s] # 0 => maps'[m][s] # 0
              /\ s \in upsert[q].create =>
                   /\ maps[m][s] = 0 => maps'[m][s] = 0
                   /\ upsert[q].pc = "sent" /\ card[s] = 0 => card'[s] = 0
        BY <1>3, <3>1
      <3>3. excused[m] \subseteq excused'[m]
        OBVIOUS
      <3>4. \A s \in upsert[q].create \ excused'[m] :
              maps'[m][s] = 0 /\ (upsert[q].pc = "sent" => card'[s] = 0)
        BY <2>1, <3>1, <3>2, <3>3 DEF SentWell
      <3>5. \A s \in (upsert[q].batch \ upsert[q].create) \ excused'[m] : maps'[m][s] # 0
        BY <2>1, <3>1, <3>2, <3>3 DEF SentWell
      <3> QED BY <2>1, <3>1, <3>4, <3>5 DEF SentWell
    <2> QED BY <2>2, <2>3
  <1>4. ASSUME NEW q \in Passes, NEW r \in Passes
        PROVE  Cross(q, r)'
    <2>1. CASE q = p
      BY <2>1 DEF Cross
    <2>2. CASE r = p
      BY <2>2 DEF Cross
    <2>3. CASE q # p /\ r # p
      <3>1. Cross(q, r) /\ upsert'[q] = upsert[q] /\ upsert'[r] = upsert[r]
        BY <1>1, <2>3 DEF MapsInv
      <3>2. InFlight(q) /\ InFlight(r) =>
              upsert[q].map \in MapNumbers /\ upsert[r].map \in MapNumbers
        BY DEF InFlight, MapsInv, SkuTypes
      <3> QED BY <3>1, <3>2 DEF Cross, InFlight
    <2> QED BY <2>1, <2>2, <2>3
  <1>5. \A q \in Passes : LoadsAlone(q)' /\ SentWell(q)'
    BY <1>3
  <1> QED BY <1>2, <1>4, <1>5 DEF MapsInv

(* The types, and what holds of a pass that uses a map.                      *)
LEMMA PassFacts ==
  ASSUME MapsInv, NEW p \in Passes
  PROVE  /\ upsert[p] \in Upserts /\ upsert[p].create \subseteq upsert[p].batch
         /\ upsert[p].made \subseteq upsert[p].create
         /\ upsert[p].made # {} => upsert[p].pc = "answer"
         /\ upsert[p].pc # "idle" => upsert[p].map \in MapNumbers /\ upsert[p].map \in Used
         /\ upsert[p].pc = "idle" => upsert[p].map = 0
         /\ upsert[p].pc \notin {"idle", "load"} => ~Loading(upsert[p].map)
         /\ card \in [Skus -> Nat] /\ nextCard \in Nat
         /\ maps \in [MapNumbers -> [Skus -> Nat]] /\ cachedMap \in MapNumbers \cup {0}
         /\ excused \in [MapNumbers -> SUBSET Skus]
         /\ 0 \notin MapNumbers
  <1>1. upsert[p].pc \notin {"idle", "load"} => ~Loading(upsert[p].map)
    BY DEF MapsInv, LoadsAlone, Loading
  <1>2. 0 \notin MapNumbers
    BY SkuMapAssumption DEF MapNumbers, SkuMapAssumption
  <1> QED BY <1>1, <1>2 DEF MapsInv, SkuTypes, Used

(* Pass p goes on; no card, map or excuse changes but for what it adds.      *)
LEMMA SplitStep ==
  ASSUME MapsInv, NEW p \in Passes, NEW batch \in SUBSET Skus, SplitBatch(p, batch)
  PROVE  MapsInv'
  <1>1. PICK u : u = upsert[p]
    OBVIOUS
  <1>2. PICK m : m = u.map
    OBVIOUS
  <1>3. PICK others : others = {q \in Passes \ {p} : upsert[q].pc \in {"sent", "answer"}}
    OBVIOUS
  <1>4. PICK crossing : crossing = {s \in batch : \E q \in others : s \in upsert[q].create}
    OBVIOUS
  <1>5. PICK n : n = [u EXCEPT !.pc = "sent", !.batch = batch, !.todo = u.todo \ batch,
                              !.create = {s \in batch : maps[m][s] = 0}]
    OBVIOUS
  <1>6. /\ u.pc = "split" /\ upsert' = [upsert EXCEPT ![p] = n]
        /\ excused' = [k \in MapNumbers |->
             IF k = m \/ \E q \in others : upsert[q].map = k
             THEN excused[k] \cup crossing ELSE excused[k]]
        /\ card' = card /\ nextCard' = nextCard /\ maps' = maps /\ cachedMap' = cachedMap
        /\ vain' = vain
    BY <1>1, <1>2, <1>3, <1>4, <1>5 DEF SplitBatch
  <1>7. /\ u \in Upserts /\ u.made = {} /\ m \in MapNumbers /\ m \in Used /\ ~Loading(m)
        /\ card \in [Skus -> Nat] /\ nextCard \in Nat
        /\ maps \in [MapNumbers -> [Skus -> Nat]] /\ cachedMap \in MapNumbers \cup {0}
        /\ excused \in [MapNumbers -> SUBSET Skus]
    BY <1>1, <1>2, <1>6, PassFacts
  <1>8. /\ n \in Upserts /\ n.pc = "sent" /\ n.map = m /\ n.batch = batch /\ n.made = {}
        /\ n.create = {s \in batch : maps[m][s] = 0}
    <2>1. PICK create \in SUBSET Skus : create = {s \in batch : maps[m][s] = 0}
      OBVIOUS
    <2>2. PICK todo \in SUBSET Skus : todo = u.todo \ batch
      BY <1>7 DEF Upserts
    <2>3. n = [u EXCEPT !.pc = "sent", !.batch = batch, !.todo = todo, !.create = create]
      BY <1>5, <2>1, <2>2
    <2> QED BY <1>2, <1>7, <2>1, <2>3 DEF Upserts
  <1>9. /\ crossing \subseteq Skus /\ crossing \subseteq excused'[m]
        /\ \A q \in others :
             upsert[q].map \in MapNumbers /\ crossing \subseteq excused'[upsert[q].map]
        /\ \A k \in MapNumbers : excused[k] \subseteq excused'[k]
        /\ excused' \in [MapNumbers -> SUBSET Skus]
    <2>1. crossing \subseteq Skus
      BY <1>4
    <2>2. \A q \in others : upsert[q].map \in MapNumbers
      BY <1>3 DEF MapsInv, SkuTypes
    <2>3. excused' \in [MapNumbers -> SUBSET Skus]
      BY <1>6, <1>7, <2>1
    <2> QED BY <1>6, <1>7, <2>1, <2>2, <2>3
  <1>10. upsert'[p] = n /\ \A q \in Passes \ {p} : upsert'[q] = upsert[q]
    BY <1>6 DEF MapsInv, SkuTypes
  <1>11. SentWell(p)'
    <2>1. ASSUME NEW s \in n.create \ excused'[m]
          PROVE  maps[m][s] = 0 /\ card[s] = 0
      <3>1. KnowsSku(m, s) /\ s \in batch /\ maps[m][s] = 0 /\ s \notin crossing
        BY <1>7, <1>8, <1>9 DEF MapsInv, Knows
      <3>2. ~\E q \in Passes : upsert[q].pc = "answer" /\ upsert[q].map = m /\ s \in upsert[q].made
        <4> SUFFICES ASSUME NEW q \in Passes, upsert[q].pc = "answer", s \in upsert[q].made
                     PROVE  FALSE
          OBVIOUS
        <4>1. q \in others
          BY <1>1, <1>3, <1>6
        <4>2. s \in upsert[q].create
          BY PassFacts
        <4> QED BY <1>4, <3>1, <4>1, <4>2
      <3> QED BY <3>1, <3>2 DEF KnowsSku
    <2>2. \A s \in n.batch \ n.create : maps[m][s] # 0
      BY <1>8
    <2> QED BY <1>6, <1>8, <1>10, <2>1, <2>2 DEF SentWell
  <1>12. LoadsAlone(p)'
    BY <1>8, <1>10 DEF LoadsAlone
  <1>13. ASSUME NEW q \in Passes \ {p}
         PROVE  Cross(p, q)'
    <2> SUFFICES ASSUME InFlight(q), NEW s \in n.create, s \in upsert[q].create
                 PROVE  s \in excused'[m] /\ s \in excused'[upsert[q].map]
      BY <1>8, <1>10 DEF Cross, InFlight
    <2>1. q \in others
      BY <1>3 DEF InFlight
    <2>2. s \in crossing
      BY <1>4, <1>8, <2>1
    <2> QED BY <1>9, <2>1, <2>2
  <1>14. ASSUME NEW k \in MapNumbers
         PROVE  Knows(k)'
    <2>1. k \in Used' => k \in Used
      <3>1. \A j \in MapNumbers : excused'[j] # {} => j \in Used
        <4> SUFFICES ASSUME NEW j \in MapNumbers, excused'[j] # {}, excused[j] = {}
                     PROVE  j \in Used
          BY DEF Used
        <4>1. j = m \/ \E q \in others : upsert[q].map = j
          BY <1>6
        <4> QED BY <1>3, <1>7, <4>1 DEF Used
      <3>2. \A q \in Passes : upsert'[q].map = k => upsert[q].map = k
        BY <1>1, <1>2, <1>8, <1>10
      <3> QED BY <1>6, <3>1, <3>2 DEF Used
    <2>2. Loading(k)' = Loading(k)
      BY <1>1, <1>6, <1>8, <1>10 DEF Loading
    <2>3. ASSUME NEW s \in Skus \ excused'[k], KnowsSku(k, s)
          PROVE  KnowsSku(k, s)'
      BY <1>1, <1>6, <1>10, <2>3 DEF KnowsSku
    <2> QED BY <1>9, <2>1, <2>2, <2>3 DEF MapsInv, Knows
  <1>15. VainOk'
    BY <1>6, <1>9 DEF MapsInv, VainOk
  <1>16. \A q \in Passes \ {p} : upsert[q].pc = "load" =>
           /\ n.map # upsert[q].map /\ cachedMap' # upsert[q].map
           /\ maps'[upsert[q].map] = maps[upsert[q].map]
           /\ \A s \in Skus \ excused'[upsert[q].map] : card'[s] = card[s]
    BY <1>6, <1>7, <1>8 DEF MapsInv, LoadsAlone, Loading
  <1>17. \A q \in Passes \ {p} : InFlight(q) =>
           \A s \in Skus \ excused'[upsert[q].map] :
             /\ maps[upsert[q].map][s] # 0 => maps'[upsert[q].map][s] # 0
             /\ s \in upsert[q].create =>
                  /\ maps[upsert[q].map][s] = 0 => maps'[upsert[q].map][s] = 0
                  /\ upsert[q].pc = "sent" /\ card[s] = 0 => card'[s] = 0
    BY <1>6
  <1>18. /\ n.pc # "idle" => n.map \in MapNumbers
         /\ n.create \subseteq n.batch /\ n.made \subseteq n.create
         /\ n.made # {} => n.pc = "answer"
         /\ n.pc = "idle" => n.map = 0
    BY <1>7, <1>8
  <1>19. /\ card' \in [Skus -> Nat] /\ nextCard' \in Nat
         /\ maps' \in [MapNumbers -> [Skus -> Nat]] /\ cachedMap' \in MapNumbers \cup {0}
         /\ excused' \in [MapNumbers -> SUBSET Skus] /\ n \in Upserts
         /\ upsert' = [upsert EXCEPT ![p] = n]
         /\ \A k \in MapNumbers : excused[k] \subseteq excused'[k]
    BY <1>6, <1>7, <1>8, <1>9
  <1> QED BY <1>11, <1>12, <1>13, <1>14, <1>15, <1>16, <1>17, <1>18, <1>19, PassStep

LEMMA ShopAnswersStep ==
  ASSUME MapsInv, NEW p \in Passes, ShopAnswers(p)
  PROVE  MapsInv'
  <1>1. PICK u : u = upsert[p]
    OBVIOUS
  <1>2. PICK m : m = u.map
    OBVIOUS
  <1>3. PICK makes : makes = Makes(u)
    OBVIOUS
  <1>4. PICK n : n = [u EXCEPT !.pc = "answer", !.made = makes]
    OBVIOUS
  <1>5. /\ u.pc = "sent" /\ upsert' = [upsert EXCEPT ![p] = n]
        /\ card' = [s \in Skus |-> IF s \in makes THEN nextCard + 1 ELSE card[s]]
        /\ nextCard' = nextCard + (IF makes = {} THEN 0 ELSE 1)
        /\ vain' = vain \cup {[sku |-> s, map |-> m] : s \in u.batch \ (makes \cup Writes(u))}
        /\ excused' = [k \in MapNumbers |->
             IF k \in Used \ {m} THEN excused[k] \cup makes ELSE excused[k]]
        /\ maps' = maps /\ cachedMap' = cachedMap
    BY <1>1, <1>2, <1>3, <1>4 DEF ShopAnswers
  <1>6. /\ u \in Upserts /\ u.create \subseteq u.batch
        /\ m \in MapNumbers /\ m \in Used /\ ~Loading(m)
        /\ card \in [Skus -> Nat] /\ nextCard \in Nat
        /\ maps \in [MapNumbers -> [Skus -> Nat]] /\ cachedMap \in MapNumbers \cup {0}
        /\ excused \in [MapNumbers -> SUBSET Skus]
    BY <1>1, <1>2, <1>5, PassFacts
  <1>7. /\ makes \subseteq u.create /\ makes \subseteq Skus
        /\ \A s \in u.create : card[s] = 0 => s \in makes
    BY <1>3, <1>6 DEF Makes, Upserts
  <1>8. /\ n \in Upserts /\ n.pc = "answer" /\ n.map = m /\ n.batch = u.batch
        /\ n.create = u.create /\ n.made = makes
    BY <1>2, <1>4, <1>6, <1>7 DEF Upserts
  <1>9. /\ card' \in [Skus -> Nat] /\ nextCard' \in Nat
        /\ maps' \in [MapNumbers -> [Skus -> Nat]] /\ cachedMap' \in MapNumbers \cup {0}
        /\ excused' \in [MapNumbers -> SUBSET Skus] /\ n \in Upserts
        /\ upsert' = [upsert EXCEPT ![p] = n]
        /\ \A k \in MapNumbers : excused[k] \subseteq excused'[k]
    BY <1>5, <1>6, <1>7, <1>8
  <1>10. upsert'[p] = n /\ \A q \in Passes \ {p} : upsert'[q] = upsert[q]
    BY <1>5 DEF MapsInv, SkuTypes
  <1>11. /\ \A s \in Skus \ makes : card'[s] = card[s]
         /\ \A k \in Used \ {m} : k \in MapNumbers /\ makes \subseteq excused'[k]
         /\ excused'[m] = excused[m]
    BY <1>5, <1>6 DEF Used
  <1>12. /\ \A s \in u.create \ excused[m] : maps[m][s] = 0 /\ card[s] = 0
         /\ \A s \in (u.batch \ u.create) \ excused[m] : maps[m][s] # 0
    BY <1>1, <1>2, <1>5 DEF MapsInv, SentWell, InFlight
  <1>13. SentWell(p)'
    <2>1. /\ \A s \in n.create \ excused'[m] : maps'[m][s] = 0
          /\ \A s \in (n.batch \ n.create) \ excused'[m] : maps'[m][s] # 0
      BY <1>5, <1>8, <1>11, <1>12
    <2> QED BY <1>8, <1>10, <2>1 DEF SentWell
  <1>14. LoadsAlone(p)'
    BY <1>8, <1>10 DEF LoadsAlone
  <1>15. ASSUME NEW q \in Passes \ {p}
         PROVE  Cross(p, q)'
    <2> SUFFICES ASSUME InFlight(q), NEW s \in u.create, s \in upsert[q].create
                 PROVE  s \in excused'[m] /\ s \in excused'[upsert[q].map]
      BY <1>8, <1>10 DEF Cross, InFlight
    <2>1. s \in excused[m] /\ s \in excused[upsert[q].map]
      BY <1>1, <1>2, <1>5 DEF MapsInv, Cross, InFlight
    <2>2. upsert[q].map \in MapNumbers
      BY PassFacts DEF InFlight
    <2> QED BY <1>6, <1>9, <2>1, <2>2
  <1>16. ASSUME NEW k \in MapNumbers
         PROVE  Knows(k)'
    <2>1. k \in Used' => k \in Used
      <3>1. excused'[k] # {} => k \in Used
        BY <1>5 DEF Used
      <3>2. \A q \in Passes : upsert'[q].map = k => upsert[q].map = k
        BY <1>1, <1>2, <1>8, <1>10
      <3> QED BY <1>5, <3>1, <3>2 DEF Used
    <2>2. Loading(k)' = Loading(k)
      BY <1>1, <1>5, <1>8, <1>10 DEF Loading
    <2>3. ASSUME k \in Used, NEW s \in Skus \ excused'[k], KnowsSku(k, s)
          PROVE  KnowsSku(k, s)'
      <3>1. CASE s \in makes
        <4>1. k = m
          BY <1>11, <2>3, <3>1
        <4>2. maps[k][s] = 0
          BY <1>7, <1>11, <1>12, <2>3, <3>1, <4>1
        <4> QED BY <1>5, <1>8, <1>10, <3>1, <4>1, <4>2 DEF KnowsSku
      <3>2. CASE s \notin makes
        <4>1. card'[s] = card[s]
          BY <1>11, <3>2
        <4> QED BY <1>1, <1>5, <1>10, <2>3, <4>1 DEF KnowsSku
      <3> QED BY <3>1, <3>2
    <2> QED BY <1>9, <2>1, <2>2, <2>3 DEF MapsInv, Knows
  <1>17. VainOk'
    <2>1. ASSUME NEW s \in u.batch \ (makes \cup Writes(u))
          PROVE  s \in excused[m]
      <3> SUFFICES ASSUME s \notin excused[m] PROVE FALSE
        OBVIOUS
      <3>1. s \notin u.create
        BY <1>7, <1>12, <2>1
      <3>2. maps[m][s] # 0 /\ s \in Skus
        BY <1>6, <1>12, <2>1, <3>1 DEF Upserts
      <3>3. KnowsSku(m, s)
        BY <1>6, <3>2 DEF MapsInv, Knows
      <3>4. maps[m][s] = card[s]
        BY <3>2, <3>3 DEF KnowsSku
      <3> QED BY <1>2, <2>1, <3>1, <3>4 DEF Writes
    <2>2. \A v \in vain' : v \in vain \/ (v.map = m /\ v.sku \in excused[m])
      BY <1>5, <2>1
    <2> QED BY <1>6, <1>9, <2>2 DEF MapsInv, VainOk
  <1>18. \A q \in Passes \ {p} : upsert[q].pc = "load" =>
           /\ n.map # upsert[q].map /\ cachedMap' # upsert[q].map
           /\ maps'[upsert[q].map] = maps[upsert[q].map]
           /\ \A s \in Skus \ excused'[upsert[q].map] : card'[s] = card[s]
    <2> SUFFICES ASSUME NEW q \in Passes \ {p}, upsert[q].pc = "load"
                 PROVE  /\ m # upsert[q].map /\ cachedMap # upsert[q].map
                        /\ \A s \in Skus \ excused'[upsert[q].map] : card'[s] = card[s]
      BY <1>5, <1>8
    <2>1. m # upsert[q].map /\ cachedMap # upsert[q].map
      BY <1>6 DEF MapsInv, LoadsAlone, Loading
    <2>2. upsert[q].map \in Used
      BY PassFacts
    <2> QED BY <1>11, <2>1, <2>2
  <1>19. \A q \in Passes \ {p} : InFlight(q) =>
           \A s \in Skus \ excused'[upsert[q].map] :
             /\ maps[upsert[q].map][s] # 0 => maps'[upsert[q].map][s] # 0
             /\ s \in upsert[q].create =>
                  /\ maps[upsert[q].map][s] = 0 => maps'[upsert[q].map][s] = 0
                  /\ upsert[q].pc = "sent" /\ card[s] = 0 => card'[s] = 0
    <2> SUFFICES ASSUME NEW q \in Passes \ {p}, InFlight(q),
                        NEW s \in Skus \ excused'[upsert[q].map], s \in upsert[q].create
                 PROVE  card'[s] = card[s]
      BY <1>5
    <2>1. upsert[q].map \in Used
      BY PassFacts DEF InFlight
    <2>2. s \notin makes
      <3>1. CASE upsert[q].map # m
        BY <1>11, <2>1, <3>1
      <3>2. CASE upsert[q].map = m
        <4>1. s \notin excused[m]
          BY <1>11, <3>2
        <4> QED BY <1>1, <1>2, <1>5, <1>7, <4>1 DEF MapsInv, Cross, InFlight
      <3> QED BY <3>1, <3>2
    <2> QED BY <1>11, <2>2
  <1>20. /\ n.pc # "idle" => n.map \in MapNumbers
         /\ n.create \subseteq n.batch /\ n.made \subseteq n.create
         /\ n.made # {} => n.pc = "answer"
         /\ n.pc = "idle" => n.map = 0
    BY <1>6, <1>7, <1>8
  <1> QED BY <1>9, <1>13, <1>14, <1>15, <1>16, <1>17, <1>18, <1>19, <1>20, PassStep

LEMMA AfterBatchType ==
  ASSUME NEW u \in Upserts
  PROVE  LET n == AfterBatch(u) IN
         /\ n \in Upserts /\ n.pc \in {"idle", "split"} /\ n.batch = {} /\ n.create = {}
         /\ n.made = {} /\ n.map = IF n.pc = "idle" THEN 0 ELSE u.map
  <1>1. CASE u.todo = {}
    BY <1>1 DEF AfterBatch, Upserts
  <1>2. CASE u.todo # {}
    BY <1>2 DEF AfterBatch, Upserts
  <1> QED BY <1>1, <1>2

(* A batch is over, whether its answer was taken or not.                     *)
LEMMA BatchEnds ==
  ASSUME MapsInv, NEW p \in Passes, TakeAnswer(p) \/ BatchFails(p)
  PROVE  MapsInv'
  <1>1. PICK u : u = upsert[p]
    OBVIOUS
  <1>2. PICK m : m = u.map
    OBVIOUS
  <1>3. PICK n : n = AfterBatch(u)
    OBVIOUS
  <1>4. u.pc \in {"sent", "answer"}
    BY <1>1 DEF TakeAnswer, BatchFails
  <1>5. /\ upsert' = [upsert EXCEPT ![p] = n]
        /\ card' = card /\ nextCard' = nextCard /\ vain' = vain /\ cachedMap' = cachedMap
        /\ \/ /\ maps' = [maps EXCEPT ![m] = Registered(u)] /\ excused' = excused
           \/ /\ maps' = maps /\ excused' = [excused EXCEPT ![m] = @ \cup u.made]
    BY <1>1, <1>2, <1>3 DEF TakeAnswer, BatchFails
  <1>6. /\ u \in Upserts /\ u.create \subseteq u.batch /\ u.made \subseteq u.create
        /\ m \in MapNumbers /\ m \in Used /\ ~Loading(m)
        /\ card \in [Skus -> Nat] /\ nextCard \in Nat
        /\ maps \in [MapNumbers -> [Skus -> Nat]] /\ cachedMap \in MapNumbers \cup {0}
        /\ excused \in [MapNumbers -> SUBSET Skus] /\ 0 \notin MapNumbers
    BY <1>1, <1>2, <1>4, PassFacts
  <1>7. /\ n \in Upserts /\ n.pc \in {"idle", "split"} /\ n.batch = {} /\ n.create = {}
        /\ n.made = {} /\ n.map = IF n.pc = "idle" THEN 0 ELSE m
    BY <1>2, <1>3, <1>6, AfterBatchType
  <1>8. /\ u.made \subseteq Skus
        /\ maps' \in [MapNumbers -> [Skus -> Nat]]
        /\ \A k \in MapNumbers \ {m} : maps'[k] = maps[k] /\ excused'[k] = excused[k]
        /\ \A s \in Skus \ u.made : maps'[m][s] = maps[m][s]
        /\ \A s \in u.made : s \in excused'[m] \/ maps'[m][s] = card[s]
        /\ excused[m] \subseteq excused'[m]
        /\ excused' \in [MapNumbers -> SUBSET Skus]
    <2>1. u.made \subseteq Skus
      BY <1>6 DEF Upserts
    <2>2. Registered(u) = [s \in Skus |-> IF s \in u.made THEN card[s] ELSE maps[m][s]]
      BY <1>2 DEF Registered
    <2>3. Registered(u) \in [Skus -> Nat]
      BY <1>6, <2>2
    <2> HIDE DEF Registered
    <2>4. CASE maps' = [maps EXCEPT ![m] = Registered(u)] /\ excused' = excused
      BY <1>6, <2>1, <2>2, <2>3, <2>4
    <2>5. CASE maps' = maps /\ excused' = [excused EXCEPT ![m] = @ \cup u.made]
      BY <1>6, <2>1, <2>5
    <2> QED BY <1>5, <2>4, <2>5
  <1>9. /\ card' \in [Skus -> Nat] /\ nextCard' \in Nat
        /\ maps' \in [MapNumbers -> [Skus -> Nat]] /\ cachedMap' \in MapNumbers \cup {0}
        /\ excused' \in [MapNumbers -> SUBSET Skus] /\ n \in Upserts
        /\ upsert' = [upsert EXCEPT ![p] = n]
        /\ \A k \in MapNumbers : excused[k] \subseteq excused'[k]
    BY <1>5, <1>6, <1>7, <1>8
  <1>10. upsert'[p] = n /\ \A q \in Passes \ {p} : upsert'[q] = upsert[q]
    BY <1>5 DEF MapsInv, SkuTypes
  <1>11. SentWell(p)' /\ LoadsAlone(p)' /\ \A q \in Passes \ {p} : Cross(p, q)'
    BY <1>7, <1>10 DEF SentWell, LoadsAlone, Cross, InFlight
  <1>12. \A s \in u.made \ excused[m] : maps[m][s] = 0
    BY <1>1, <1>2, <1>4, <1>6 DEF MapsInv, SentWell, InFlight
  <1>13. ASSUME NEW k \in MapNumbers
         PROVE  Knows(k)'
    <2>1. k \in Used' => k \in Used
      <3>1. k # m => (maps'[k] = maps[k] /\ excused'[k] = excused[k])
        BY <1>8
      <3>2. \A q \in Passes : upsert'[q].map = k => upsert[q].map = k
        BY <1>1, <1>2, <1>6, <1>7, <1>10
      <3> QED BY <1>5, <1>6, <3>1, <3>2 DEF Used, Blank
    <2>2. Loading(k)' = Loading(k)
      BY <1>1, <1>4, <1>7, <1>10 DEF Loading
    <2>3. ASSUME NEW s \in Skus \ excused'[k], KnowsSku(k, s)
          PROVE  KnowsSku(k, s)'
      <3>1. CASE k = m /\ s \in u.made
        BY <1>5, <1>8, <2>3, <3>1 DEF KnowsSku
      <3>2. CASE ~(k = m /\ s \in u.made)
        <4>1. maps'[k][s] = maps[k][s] /\ card'[s] = card[s]
          BY <1>5, <1>8, <3>2
        <4>2. \A q \in Passes : upsert[q].map = k /\ s \in upsert[q].made => q # p
          BY <1>1, <1>2, <3>2
        <4> QED BY <1>10, <2>3, <4>1, <4>2 DEF KnowsSku
      <3> QED BY <3>1, <3>2
    <2> QED BY <1>9, <2>1, <2>2, <2>3 DEF MapsInv, Knows
  <1>14. VainOk'
    BY <1>5, <1>9 DEF MapsInv, VainOk
  <1>15. \A q \in Passes \ {p} : upsert[q].pc = "load" =>
           /\ n.map # upsert[q].map /\ cachedMap' # upsert[q].map
           /\ maps'[upsert[q].map] = maps[upsert[q].map]
           /\ \A s \in Skus \ excused'[upsert[q].map] : card'[s] = card[s]
    <2> SUFFICES ASSUME NEW q \in Passes \ {p}, upsert[q].pc = "load"
                 PROVE  /\ n.map # upsert[q].map /\ cachedMap # upsert[q].map
                        /\ maps'[upsert[q].map] = maps[upsert[q].map]
      BY <1>5
    <2>1. /\ m # upsert[q].map /\ cachedMap # upsert[q].map /\ upsert[q].map \in MapNumbers
      BY <1>6, PassFacts DEF MapsInv, LoadsAlone, Loading
    <2> QED BY <1>6, <1>7, <1>8, <2>1
  <1>16. \A q \in Passes \ {p} : InFlight(q) =>
           \A s \in Skus \ excused'[upsert[q].map] :
             /\ maps[upsert[q].map][s] # 0 => maps'[upsert[q].map][s] # 0
             /\ s \in upsert[q].create =>
                  /\ maps[upsert[q].map][s] = 0 => maps'[upsert[q].map][s] = 0
                  /\ upsert[q].pc = "sent" /\ card[s] = 0 => card'[s] = 0
    <2> SUFFICES ASSUME NEW q \in Passes \ {p}, InFlight(q),
                        NEW s \in Skus \ excused'[upsert[q].map]
                 PROVE  /\ maps[upsert[q].map][s] # 0 => maps'[upsert[q].map][s] # 0
                        /\ s \in upsert[q].create /\ maps[upsert[q].map][s] = 0
                             => maps'[upsert[q].map][s] = 0
      BY <1>5
    <2>1. PICK k \in MapNumbers : k = upsert[q].map
      BY PassFacts DEF InFlight
    <2>2. CASE k # m \/ s \notin u.made
      BY <1>8, <2>1, <2>2
    <2>3. CASE k = m /\ s \in u.made
      <3>1. s \notin excused[m]
        BY <1>9, <2>1, <2>3
      <3>2. maps[m][s] = 0 /\ s \in u.create
        BY <1>6, <1>12, <2>3, <3>1
      <3>3. s \notin upsert[q].create
        BY <1>1, <1>2, <1>4, <3>1, <3>2 DEF MapsInv, Cross, InFlight
      <3> QED BY <2>1, <2>3, <3>2, <3>3
    <2> QED BY <2>2, <2>3
  <1>17. /\ n.pc # "idle" => n.map \in MapNumbers
         /\ n.create \subseteq n.batch /\ n.made \subseteq n.create
         /\ n.made # {} => n.pc = "answer"
         /\ n.pc = "idle" => n.map = 0
    BY <1>6, <1>7
  <1> QED BY <1>9, <1>11, <1>13, <1>14, <1>15, <1>16, <1>17, PassStep

(* getSkuToIdMap reads a page, or gives up and calls what it has the map.    *)
LEMMA LoadSteps ==
  ASSUME MapsInv, NEW p \in Passes, LoadMapPage(p) \/ LoadMapFails(p)
  PROVE  MapsInv'
  <1> USE SkuMapAssumption DEF SkuMapAssumption
  <1>1. PICK u : u = upsert[p]
    OBVIOUS
  <1>2. PICK m : m = u.map
    OBVIOUS
  <1>3. PICK over \in BOOLEAN : over <=> LoadMapFails(p) \/ u.page = LastPage
    OBVIOUS
  <1>4. PICK n : n = IF over THEN [u EXCEPT !.pc = "split"] ELSE [u EXCEPT !.page = @ + 1]
    OBVIOUS
  <1>5. /\ u.pc = "load" /\ u \in Upserts /\ u.create \subseteq u.batch /\ u.made = {}
        /\ m \in MapNumbers /\ m \in Used
        /\ card \in [Skus -> Nat] /\ nextCard \in Nat
        /\ maps \in [MapNumbers -> [Skus -> Nat]] /\ cachedMap \in MapNumbers \cup {0}
        /\ excused \in [MapNumbers -> SUBSET Skus] /\ 0 \notin MapNumbers
    <2>1. u.pc = "load"
      BY <1>1 DEF LoadMapPage, LoadMapFails
    <2> QED BY <1>1, <1>2, <2>1, PassFacts
  <1>6. /\ cachedMap # m /\ \A q \in Passes : upsert[q].map = m => q = p
        /\ u.page \in 1 .. LastPage
        /\ \A s \in Skus \ excused[m] : maps[m][s] = IF PageOf[s] < u.page THEN card[s] ELSE 0
    BY <1>1, <1>2, <1>5 DEF MapsInv, LoadsAlone
  <1>7. /\ upsert' = [upsert EXCEPT ![p] = n] /\ cachedMap' = IF over THEN m ELSE cachedMap
        /\ card' = card /\ nextCard' = nextCard /\ vain' = vain
    <2>1. CASE LoadMapFails(p)
      BY <1>1, <1>2, <1>3, <1>4, <2>1 DEF LoadMapFails
    <2>2. CASE LoadMapPage(p) /\ ~LoadMapFails(p)
      <3>1. CASE over
        BY <1>1, <1>2, <1>3, <1>4, <2>2, <3>1 DEF LoadMapPage
      <3>2. CASE ~over
        BY <1>1, <1>2, <1>3, <1>4, <2>2, <3>2 DEF LoadMapPage
      <3> QED BY <3>1, <3>2
    <2> QED BY <2>1, <2>2
  <1>8. n \in Upserts /\ n.pc = (IF over THEN "split" ELSE "load") /\ n.map = m
        /\ n.page = (IF over THEN u.page ELSE u.page + 1)
        /\ n.batch = u.batch /\ n.create = u.create /\ n.made = {}
    <2>1. CASE over
      <3>1. n = [u EXCEPT !.pc = "split"]
        BY <1>4, <2>1
      <3>2. n \in Upserts /\ n.pc = "split" /\ n.page = u.page /\ n.map = u.map
            /\ n.batch = u.batch /\ n.create = u.create /\ n.made = u.made
        BY <1>5, <3>1 DEF Upserts
      <3> QED BY <1>2, <1>5, <2>1, <3>2
    <2>2. CASE ~over
      <3>1. PICK next \in Nat : next = u.page + 1
        BY <1>6
      <3>2. n = [u EXCEPT !.page = next]
        BY <1>4, <2>2, <3>1
      <3>3. n \in Upserts /\ n.pc = u.pc /\ n.page = next /\ n.map = u.map
            /\ n.batch = u.batch /\ n.create = u.create /\ n.made = u.made
        BY <1>5, <3>2 DEF Upserts
      <3> QED BY <1>2, <1>5, <2>2, <3>1, <3>3
    <2> QED BY <2>1, <2>2
  <1>9. /\ maps' \in [MapNumbers -> [Skus -> Nat]] /\ excused' \in [MapNumbers -> SUBSET Skus]
        /\ \A k \in MapNumbers \ {m} : maps'[k] = maps[k] /\ excused'[k] = excused[k]
        /\ excused[m] \subseteq excused'[m]
        /\ \A s \in Skus \ excused'[m] : maps'[m][s] = IF PageOf[s] < u.page + 1 THEN card[s] ELSE 0
    <2>1. \A s \in Skus : PageOf[s] \in Nat /\ u.page \in Nat
      BY <1>6
    <2>2. CASE LoadMapPage(p)
      <3>1. PICK f : f = [s \in Skus |-> IF PageOf[s] = u.page /\ card[s] # 0 THEN card[s]
                                        ELSE maps[m][s]]
        OBVIOUS
      <3>2. f \in [Skus -> Nat]
        BY <1>5, <3>1
      <3>3. maps' = [maps EXCEPT ![m] = f] /\ excused' = excused
        BY <1>1, <1>2, <2>2, <3>1 DEF LoadMapPage
      <3>4. \A s \in Skus \ excused[m] : f[s] = IF PageOf[s] < u.page + 1 THEN card[s] ELSE 0
        <4> SUFFICES ASSUME NEW s \in Skus \ excused[m]
                     PROVE  f[s] = IF PageOf[s] < u.page + 1 THEN card[s] ELSE 0
          OBVIOUS
        <4>1. CASE PageOf[s] = u.page
          BY <1>6, <2>1, <3>1, <4>1
        <4>2. CASE PageOf[s] # u.page
          BY <1>6, <2>1, <3>1, <4>2
        <4> QED BY <4>1, <4>2
      <3> QED BY <1>5, <3>2, <3>3, <3>4
    <2>3. CASE LoadMapFails(p)
      <3>1. PICK late \in SUBSET Skus : late = {s \in Skus : PageOf[s] >= u.page}
        OBVIOUS
      <3>2. maps' = maps /\ excused' = [excused EXCEPT ![m] = @ \cup late]
        BY <1>1, <1>2, <2>3, <3>1 DEF LoadMapFails
      <3>3. excused'[m] = excused[m] \cup late
        BY <1>5, <3>2
      <3>4. \A s \in Skus \ excused'[m] : maps[m][s] = IF PageOf[s] < u.page + 1 THEN card[s] ELSE 0
        BY <1>6, <2>1, <3>1, <3>3
      <3> QED BY <1>5, <3>2, <3>3, <3>4
    <2> QED BY <2>2, <2>3
  <1>10. /\ card' \in [Skus -> Nat] /\ nextCard' \in Nat
        /\ maps' \in [MapNumbers -> [Skus -> Nat]] /\ cachedMap' \in MapNumbers \cup {0}
        /\ excused' \in [MapNumbers -> SUBSET Skus] /\ n \in Upserts
        /\ upsert' = [upsert EXCEPT ![p] = n]
        /\ \A k \in MapNumbers : excused[k] \subseteq excused'[k]
    BY <1>5, <1>7, <1>8, <1>9
  <1>11. upsert'[p] = n /\ \A q \in Passes \ {p} : upsert'[q] = upsert[q]
    BY <1>7 DEF MapsInv, SkuTypes
  <1>12. SentWell(p)' /\ \A q \in Passes \ {p} : Cross(p, q)'
    BY <1>8, <1>11 DEF SentWell, Cross, InFlight
  <1>13. LoadsAlone(p)'
    <2> SUFFICES ASSUME ~over PROVE LoadsAlone(p)'
      BY <1>8, <1>11 DEF LoadsAlone
    <2>1. n.page \in 1 .. LastPage /\ n.page = u.page + 1
      BY <1>3, <1>6, <1>8
    <2>2. \A q \in Passes : upsert'[q].map = m => q = p
      BY <1>6, <1>11
    <2> QED BY <1>6, <1>7, <1>8, <1>9, <1>11, <2>1, <2>2 DEF LoadsAlone
  <1>14. ASSUME NEW k \in MapNumbers
         PROVE  Knows(k)'
    <2>1. CASE k = m
      <3>1. over => \A s \in Skus \ excused'[m] : maps'[m][s] = card[s]
        <4> SUFFICES ASSUME over, NEW s \in Skus \ excused'[m] PROVE maps'[m][s] = card[s]
          OBVIOUS
        <4>1. maps'[m][s] = IF PageOf[s] < u.page + 1 THEN card[s] ELSE 0
          BY <1>9
        <4>2. CASE u.page = LastPage
          BY <4>1, <4>2
        <4>3. CASE LoadMapFails(p)
          <5>1. s \notin {x \in Skus : PageOf[x] >= u.page}
            BY <1>1, <1>2, <1>5, <4>3 DEF LoadMapFails
          <5> QED BY <1>6, <4>1, <5>1
        <4> QED BY <1>3, <4>2, <4>3
      <3>2. ~over => Loading(m)'
        BY <1>8, <1>11 DEF Loading
      <3> QED BY <1>7, <2>1, <3>1, <3>2 DEF Knows, KnowsSku
    <2>2. CASE k # m
      <3>1. maps'[k] = maps[k] /\ excused'[k] = excused[k]
        BY <1>9, <2>2
      <3>2. k \in Used' => k \in Used
        <4>1. \A q \in Passes : upsert'[q].map = k => upsert[q].map = k
          BY <1>1, <1>2, <1>8, <1>11
        <4> QED BY <1>7, <2>2, <3>1, <4>1 DEF Used, Blank
      <3>3. Loading(k)' = Loading(k)
        BY <1>1, <1>2, <1>8, <1>11, <2>2 DEF Loading
      <3>4. ASSUME NEW s \in Skus, KnowsSku(k, s)
            PROVE  KnowsSku(k, s)'
        BY <1>1, <1>2, <1>7, <1>11, <2>2, <3>1, <3>4 DEF KnowsSku
      <3> QED BY <3>1, <3>2, <3>3, <3>4 DEF MapsInv, Knows
    <2> QED BY <2>1, <2>2
  <1>15. VainOk'
    BY <1>7, <1>10 DEF MapsInv, VainOk
  <1>16. \A q \in Passes \ {p} : upsert[q].pc = "load" =>
           /\ n.map # upsert[q].map /\ cachedMap' # upsert[q].map
           /\ maps'[upsert[q].map] = maps[upsert[q].map]
           /\ \A s \in Skus \ excused'[upsert[q].map] : card'[s] = card[s]
    <2> SUFFICES ASSUME NEW q \in Passes \ {p}, upsert[q].pc = "load"
                 PROVE  /\ m # upsert[q].map /\ cachedMap' # upsert[q].map
                        /\ maps'[upsert[q].map] = maps[upsert[q].map]
      BY <1>7, <1>8
    <2>1. /\ m # upsert[q].map /\ cachedMap # upsert[q].map /\ upsert[q].map \in MapNumbers
      BY <1>6, PassFacts DEF MapsInv, LoadsAlone
    <2> QED BY <1>7, <1>9, <2>1
  <1>17. \A q \in Passes \ {p} : InFlight(q) =>
           \A s \in Skus \ excused'[upsert[q].map] :
             /\ maps[upsert[q].map][s] # 0 => maps'[upsert[q].map][s] # 0
             /\ s \in upsert[q].create =>
                  /\ maps[upsert[q].map][s] = 0 => maps'[upsert[q].map][s] = 0
                  /\ upsert[q].pc = "sent" /\ card[s] = 0 => card'[s] = 0
    <2> SUFFICES ASSUME NEW q \in Passes \ {p}, InFlight(q)
                 PROVE  maps'[upsert[q].map] = maps[upsert[q].map]
      BY <1>7
    <2>1. upsert[q].map # m /\ upsert[q].map \in MapNumbers
      BY <1>6, PassFacts DEF InFlight
    <2> QED BY <1>9, <2>1
  <1>18. /\ n.pc # "idle" => n.map \in MapNumbers
         /\ n.create \subseteq n.batch /\ n.made \subseteq n.create
         /\ n.made # {} => n.pc = "answer"
         /\ n.pc = "idle" => n.map = 0
    BY <1>5, <1>8
  <1> QED BY <1>10, <1>12, <1>13, <1>14, <1>15, <1>16, <1>17, <1>18, PassStep

LEMMA BeginUpsertStep ==
  ASSUME MapsInv, NEW p \in Passes, BeginUpsert(p)
  PROVE  MapsInv'
  <1> USE SkuMapAssumption DEF SkuMapAssumption
  <1>1. /\ upsert[p].pc = "idle" /\ upsert[p].made = {} /\ upsert[p].map = 0
        /\ card \in [Skus -> Nat] /\ nextCard \in Nat
        /\ maps \in [MapNumbers -> [Skus -> Nat]] /\ cachedMap \in MapNumbers \cup {0}
        /\ excused \in [MapNumbers -> SUBSET Skus] /\ 0 \notin MapNumbers
        /\ card' = card /\ nextCard' = nextCard /\ maps' = maps /\ cachedMap' = cachedMap
        /\ vain' = vain /\ excused' = excused
    BY PassFacts DEF BeginUpsert
  <1>2. PICK m \in MapNumbers, pc \in {"split", "load"} : \E n :
          /\ n = [NoUpsert EXCEPT !.pc = pc, !.map = m, !.todo = Skus]
          /\ upsert' = [upsert EXCEPT ![p] = n]
          /\ pc = "split" => m = cachedMap
          /\ pc = "load" => m \notin Used /\ cachedMap = 0
    <2>1. CASE cachedMap # 0 /\ upsert' = [upsert EXCEPT ![p] = [NoUpsert EXCEPT
                        !.pc = "split", !.map = cachedMap, !.todo = Skus]]
      BY <1>1, <2>1
    <2>2. ASSUME NEW k \in MapNumbers \ Used, cachedMap = 0,
                 upsert' = [upsert EXCEPT ![p] = [NoUpsert EXCEPT
                          !.pc = "load", !.map = k, !.todo = Skus]]
          PROVE  \E m \in MapNumbers, pc \in {"split", "load"} : \E n :
                   /\ n = [NoUpsert EXCEPT !.pc = pc, !.map = m, !.todo = Skus]
                   /\ upsert' = [upsert EXCEPT ![p] = n]
                   /\ pc = "split" => m = cachedMap
                   /\ pc = "load" => m \notin Used /\ cachedMap = 0
      BY <2>2
    <2> QED BY <2>1, <2>2 DEF BeginUpsert
  <1>3. PICK n :
          /\ n = [NoUpsert EXCEPT !.pc = pc, !.map = m, !.todo = Skus]
          /\ upsert' = [upsert EXCEPT ![p] = n]
    BY <1>2
  <1>4. /\ n \in Upserts /\ n.pc = pc /\ n.map = m /\ n.page = 1
        /\ n.batch = {} /\ n.create = {} /\ n.made = {}
    BY <1>3 DEF NoUpsert, Upserts
  <1>5. upsert'[p] = n /\ \A q \in Passes \ {p} : upsert'[q] = upsert[q]
    BY <1>3 DEF MapsInv, SkuTypes
  <1>6. pc = "load" => /\ \A s \in Skus : maps[m][s] = 0
                       /\ \A q \in Passes : upsert[q].map # m
    BY <1>2 DEF Used, Blank
  <1>7. SentWell(p)' /\ \A q \in Passes \ {p} : Cross(p, q)'
    BY <1>4, <1>5 DEF SentWell, Cross, InFlight
  <1>8. LoadsAlone(p)'
    <2> SUFFICES ASSUME pc = "load" PROVE LoadsAlone(p)'
      BY <1>4, <1>5 DEF LoadsAlone
    <2>1. \A q \in Passes : upsert'[q].map = m => q = p
      BY <1>5, <1>6
    <2>2. \A s \in Skus : ~(PageOf[s] < 1)
      OBVIOUS
    <2>3. 1 \in 1 .. LastPage /\ cachedMap' # m
      BY <1>1, <1>2
    <2>4. \A s \in Skus : maps'[m][s] = IF PageOf[s] < 1 THEN card'[s] ELSE 0
      BY <1>1, <1>6, <2>2
    <2> QED BY <1>4, <1>5, <2>1, <2>3, <2>4 DEF LoadsAlone
  <1>9. ASSUME NEW k \in MapNumbers
        PROVE  Knows(k)'
    <2>1. CASE pc = "load" /\ k = m
      BY <1>4, <1>5, <2>1 DEF Knows, Loading
    <2>2. CASE ~(pc = "load" /\ k = m)
      <3>1. k \in Used' => k \in Used
        <4>1. \A q \in Passes : upsert'[q].map = k => upsert[q].map = k \/ k = cachedMap
          BY <1>2, <1>4, <1>5, <2>2
        <4> QED BY <1>1, <4>1 DEF Used, Blank
      <3>2. Loading(k) => Loading(k)'
        <4> SUFFICES ASSUME NEW q \in Passes, upsert[q].pc = "load", upsert[q].map = k
                     PROVE  Loading(k)'
          BY DEF Loading
        <4>1. upsert'[q] = upsert[q]
          BY <1>1, <1>5
        <4> QED BY <4>1 DEF Loading
      <3>3. ASSUME NEW s \in Skus, KnowsSku(k, s)
            PROVE  KnowsSku(k, s)'
        BY <1>1, <1>5, <3>3 DEF KnowsSku
      <3> QED BY <1>1, <3>1, <3>2, <3>3 DEF MapsInv, Knows
    <2> QED BY <2>1, <2>2
  <1>10. VainOk'
    BY <1>1 DEF MapsInv, VainOk
  <1>11. \A q \in Passes \ {p} : upsert[q].pc = "load" =>
           /\ n.map # upsert[q].map /\ cachedMap' # upsert[q].map
           /\ maps'[upsert[q].map] = maps[upsert[q].map]
           /\ \A s \in Skus \ excused'[upsert[q].map] : card'[s] = card[s]
    <2> SUFFICES ASSUME NEW q \in Passes \ {p}, upsert[q].pc = "load"
                 PROVE  m # upsert[q].map /\ cachedMap # upsert[q].map
      BY <1>1, <1>4
    <2>1. cachedMap # upsert[q].map
      BY DEF MapsInv, LoadsAlone
    <2> QED BY <1>2, <1>6, <2>1
  <1>12. \A q \in Passes \ {p} : InFlight(q) =>
           \A s \in Skus \ excused'[upsert[q].map] :
             /\ maps[upsert[q].map][s] # 0 => maps'[upsert[q].map][s] # 0
             /\ s \in upsert[q].create =>
                  /\ maps[upsert[q].map][s] = 0 => maps'[upsert[q].map][s] = 0
                  /\ upsert[q].pc = "sent" /\ card[s] = 0 => card'[s] = 0
    BY <1>1
  <1>13. /\ n.pc # "idle" => n.map \in MapNumbers
         /\ n.create \subseteq n.batch /\ n.made \subseteq n.create
         /\ n.made # {} => n.pc = "answer"
         /\ n.pc = "idle" => n.map = 0
    BY <1>4
  <1>14. /\ card' \in [Skus -> Nat] /\ nextCard' \in Nat
        /\ maps' \in [MapNumbers -> [Skus -> Nat]] /\ cachedMap' \in MapNumbers \cup {0}
        /\ excused' \in [MapNumbers -> SUBSET Skus] /\ n \in Upserts
        /\ upsert' = [upsert EXCEPT ![p] = n]
        /\ \A k \in MapNumbers : excused[k] \subseteq excused'[k]
    BY <1>1, <1>3, <1>4
  <1> QED BY <1>7, <1>8, <1>9, <1>10, <1>11, <1>12, <1>13, <1>14, PassStep

(* What a pass counts as synced was written to the shop, or its card could   *)
(* not be known (getSkuToIdMap, batchUpsertProducts), however many passes    *)
(* read, share and correct the maps.                                         *)
THEOREM SyncedWasWritten == SkuSpec => []SyncedIsWritten
  <1>1. MapsInv => SyncedIsWritten
    BY DEF MapsInv, VainOk, SyncedIsWritten
  <1>2. MapsInv /\ [SkuNext]_skuVars => MapsInv'
    <2> SUFFICES ASSUME MapsInv, [SkuNext]_skuVars PROVE MapsInv'
      OBVIOUS
    <2>1. CASE UNCHANGED skuVars
      <3>1. /\ upsert' = upsert /\ maps' = maps /\ vain' = vain /\ cachedMap' = cachedMap
            /\ card' = card /\ nextCard' = nextCard /\ excused' = excused
        BY <2>1 DEF skuVars
      <3>2. /\ card \in [Skus -> Nat] /\ nextCard \in Nat
            /\ excused \in [MapNumbers -> SUBSET Skus]
            /\ \A m \in MapNumbers : excused[m] # {} => m \in Used
        BY DEF MapsInv, SkuTypes, Used
      <3> QED BY <3>1, <3>2, ShopStep
    <2>2. CASE SkuNext
      BY <2>2, EditSteps, BeginUpsertStep, LoadSteps, SplitStep, ShopAnswersStep, BatchEnds
         DEF SkuNext
    <2> QED BY <2>1, <2>2
  <1> QED BY <1>1, <1>2, SkuInitInv, PTL DEF SkuSpec
=============================================================================
