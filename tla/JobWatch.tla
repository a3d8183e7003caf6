------------------------------ MODULE JobWatch ------------------------------
(***************************************************************************)
(* The portal's windows watch a job of a BullMQ queue: they ask for its    *)
(* status once a second until it ends.  setInterval does not wait for the  *)
(* answer of the question before, so several are on their way at once and  *)
(* arrive in any order.  Two ways are in the code: the modals, which keep  *)
(* the timer in a ref that all jobs share, and the buttons of the tabs,    *)
(* where each click has a timer, a promise and a watchdog of its own.      *)
(* Not modelled: the progress bar, a page left while a window is open, and *)
(* the list of activities one tab loads before its button shows again.     *)
(***************************************************************************)
EXTENDS Integers

CONSTANTS
  Polls,  \* questions on their way at once
  MaxJobs \* bound: jobs started from one window

ASSUME JobWatchAssumption == MaxJobs \in Nat

VARIABLES
  kind,     \* "modal" or "button"
  running,  \* the window says that the job runs; its start button is hidden
  posting,  \* the request that queues the job is on its way
  report,   \* what the window shows of a job that ended: {} or one [job, ok, full]
  current,  \* the number of the last job started
  jobs,     \* BullMQ: the state of each job
  ended,    \* how each job ended, which outlives its record
  timers,   \* jobs whose interval is alive
  timerRef, \* pollTimerRef of a modal: the job of its interval, or 0
  poll,     \* the questions
  settled,  \* buttons: jobs whose promise is settled
  crossed,  \* read by properties: a job was started before the answer about an older one
  torn      \* read by properties: jobs that ended between the two reads of a status

watchVars == <<kind, running, posting, report, current, jobs, ended, timers, timerRef,
               poll, settled, crossed, torn>>

Numbers == 1 .. MaxJobs
NoPoll == [pc |-> "none", job |-> 0, full |-> FALSE, state |-> "none"]

WatchInit ==
  /\ kind \in {"modal", "button"}
  /\ running = FALSE /\ posting = FALSE /\ report = {}
  /\ current = 0 /\ timers = {} /\ timerRef = 0 /\ settled = {}
  /\ jobs = [j \in Numbers |-> "none"] /\ ended = [j \in Numbers |-> "none"]
  /\ poll = [q \in Polls |-> NoPoll]
  /\ crossed = FALSE /\ torn = {}

-----------------------------------------------------------------------------
(* The server.                                                             *)

(* A job's record is removed some time after its end.                       *)
JobEnds(j, how) ==
  /\ jobs[j] = "active"
  /\ jobs' = [jobs EXCEPT ![j] = how] /\ ended' = [ended EXCEPT ![j] = how]
  /\ UNCHANGED <<kind, running, posting, report, current, timers, timerRef, poll,
                 settled, crossed, torn>>

JobRemoved(j) ==
  /\ jobs[j] \in {"completed", "failed"}
  /\ jobs' = [jobs EXCEPT ![j] = "gone"]
  /\ UNCHANGED <<kind, running, posting, report, current, ended, timers, timerRef, poll,
                 settled, crossed, torn>>

(* getJobStatus: the record, with its result if it has one by now ...       *)
ReadRecord(q) ==
  LET j == poll[q].job IN
  /\ poll[q].pc = "asked" /\ jobs[j] # "gone"
  /\ poll' = [poll EXCEPT ![q].pc = "record", ![q].full = jobs[j] = "completed"]
  /\ UNCHANGED <<kind, running, posting, report, current, jobs, ended, timers, timerRef,
                 settled, crossed, torn>>

(* ... and, after an await, its state.                                      *)
ReadState(q) ==
  LET j == poll[q].job IN
  /\ poll[q].pc = "record"
  /\ poll' = [poll EXCEPT ![q].pc = "answer", ![q].state = jobs[j]]
  /\ torn' = IF jobs[j] = "completed" /\ ~poll[q].full THEN torn \cup {j} ELSE torn
  /\ UNCHANGED <<kind, running, posting, report, current, jobs, ended, timers, timerRef,
                 settled, crossed>>

-----------------------------------------------------------------------------
(* The window.                                                             *)

(* A modal has its start button in the form, which is back only after       *)
(* handleReset; a tab's button is there whenever no job runs.               *)
MayStart == ~running /\ (kind = "modal" => report = {})

(* What a modal shows of a job that ended has a button of its own.          *)
MayReset == kind = "modal" /\ ~running /\ report # {}

(* handleStartImport and its like; handleSyncPricesStocks, handleSyncStock. *)
StartJob ==
  /\ MayStart /\ current < MaxJobs
  /\ running' = TRUE /\ posting' = TRUE /\ report' = {}
  /\ current' = current + 1
  /\ crossed' = (crossed \/ \E q \in Polls : poll[q].pc # "none")
  /\ UNCHANGED <<kind, jobs, ended, timers, timerRef, poll, settled, torn>>

(* triggerCatalogExport and its like: the queue takes the job, whatever     *)
(* other jobs of the tenant it holds.                                       *)
Queued == [jobs EXCEPT ![current] = "active"]

(* The answer brings the job's number.                                      *)
JobQueued ==
  /\ posting
  /\ posting' = FALSE
  /\ jobs' = Queued
  /\ timers' = timers \cup {current}
  /\ timerRef' = IF kind = "modal" THEN current ELSE 0
  /\ UNCHANGED <<kind, running, report, current, ended, poll, settled, crossed, torn>>

(* The request fails, or its answer is lost and the job runs unseen.        *)
StartFails(queued) ==
  /\ posting
  /\ posting' = FALSE /\ running' = FALSE
  /\ report' = {[job |-> current, ok |-> FALSE, full |-> FALSE]}
  /\ jobs' = IF queued THEN Queued ELSE jobs
  /\ UNCHANGED <<kind, current, ended, timers, timerRef, poll, settled, crossed, torn>>

AskStatus(j, q) ==
  /\ j \in timers /\ poll[q].pc = "none"
  /\ poll' = [poll EXCEPT ![q] = [NoPoll EXCEPT !.pc = "asked", !.job = j]]
  /\ UNCHANGED <<kind, running, posting, report, current, jobs, ended, timers, timerRef,
                 settled, crossed, torn>>

TimersKept(j) == timers \* mutant: the interval is not cleared

(* clearInterval: of the timer in the shared ref, or of the click's own.    *)
TimersAfter(j) == IF kind = "modal" THEN timers \ {timerRef} ELSE timers \ {j}

(* The promise of a button settles once; `finally` shows the button again.  *)
Settle(j, shown) ==
  /\ timers' = TimersAfter(j)
  /\ settled' = settled \cup {j}
  /\ IF kind = "button" /\ j \in settled
     THEN UNCHANGED <<running, report>>
     ELSE running' = FALSE /\ report' = shown

Show(j, ok, full) == {[job |-> j, ok |-> ok, full |-> full]}

AnswerActive(q) ==
  /\ poll[q].pc = "answer" /\ poll[q].state \notin {"completed", "failed"}
  /\ poll' = [poll EXCEPT ![q] = NoPoll]
  /\ UNCHANGED <<kind, running, posting, report, current, jobs, ended, timers, timerRef,
                 settled, crossed, torn>>

(* The report is written whether or not the promise is settled already.     *)
AnswerCompleted(q) ==
  LET a == poll[q] IN
  /\ a.pc = "answer" /\ a.state = "completed"
  /\ IF kind = "button" /\ a.job \in settled
     THEN /\ report' = Show(a.job, TRUE, a.full) /\ timers' = TimersAfter(a.job)
          /\ UNCHANGED <<running, settled>>
     ELSE Settle(a.job, Show(a.job, TRUE, a.full))
  /\ poll' = [poll EXCEPT ![q] = NoPoll]
  /\ UNCHANGED <<kind, posting, current, jobs, ended, timerRef, crossed, torn>>

AnswerFailed(q) ==
  LET a == poll[q] IN
  /\ a.pc = "answer" /\ a.state = "failed"
  /\ Settle(a.job, Show(a.job, FALSE, FALSE))
  /\ poll' = [poll EXCEPT ![q] = NoPoll]
  /\ UNCHANGED <<kind, posting, current, jobs, ended, timerRef, crossed, torn>>

(* 404, 5xx or no connection: a modal only logs it, a button gives up.      *)
PollFails(q) ==
  /\ poll[q].pc # "none"
  /\ IF kind = "modal"
     THEN UNCHANGED <<running, report, timers, settled>>
     ELSE Settle(poll[q].job, Show(poll[q].job, FALSE, FALSE))
  /\ poll' = [poll EXCEPT ![q] = NoPoll]
  /\ UNCHANGED <<kind, posting, current, jobs, ended, timerRef, crossed, torn>>

(* A button gives up after five minutes.                                    *)
Watchdog ==
  /\ kind = "button" /\ running /\ ~posting
  /\ Settle(current, Show(current, FALSE, FALSE))
  /\ UNCHANGED <<kind, posting, current, jobs, ended, timerRef, poll, crossed, torn>>

(* handleReset, handleClose; opening a window resets it too.                *)
Reset ==
  /\ MayReset
  /\ report' = {} /\ timers' = timers \ {timerRef} /\ timerRef' = 0
  /\ UNCHANGED <<kind, running, posting, current, jobs, ended, poll, settled, crossed, torn>>

WatchNext ==
  \/ StartJob \/ JobQueued \/ Watchdog \/ Reset
  \/ \E queued \in BOOLEAN : StartFails(queued)
  \/ \E j \in Numbers :
       \/ \E how \in {"completed", "failed"} : JobEnds(j, how)
       \/ JobRemoved(j)
       \/ \E q \in Polls : AskStatus(j, q)
  \/ \E q \in Polls :
       ReadRecord(q) \/ ReadState(q) \/ AnswerActive(q) \/ AnswerCompleted(q)
       \/ AnswerFailed(q) \/ PollFails(q)

WatchSpec == WatchInit /\ [][WatchNext]_watchVars

-----------------------------------------------------------------------------
(* A window shows one job at a time: while it says that a job runs it goes  *)
(* on asking about it, what it reports is about the job started last, and a *)
(* success is shown only of a job that succeeded, together with its result. *)
(* Excepted are a job started while the answer about an older one was on    *)
(* its way, and a result that appeared between the server's two reads.      *)
OneJobShown ==
  \/ crossed
  \/ /\ running /\ ~posting => current \in timers
     /\ \A r \in report :
          /\ r.job = current
          /\ r.ok => ended[current] = "completed" /\ (r.full \/ current \in torn)
=============================================================================
