----------------------------- MODULE WorkerShutdown -----------------------------
(***************************************************************************)
(* The graceful stop of a payment worker (shutdown in                      *)
(* workers/payment.worker.js) over everything Payment does.                *)
(*                                                                         *)
(* SIGINT or SIGTERM ends the polling loop after its current round, waits  *)
(* until no message is in hand or shutdownGraceMs have passed, and ends    *)
(* the pool.  pool.end() resolves when the last checked-out client is      *)
(* released, and the process exits at once; until then the loop may still  *)
(* be at work, with a pool that refuses every new client.                  *)
(***************************************************************************)
EXTENDS Payment

VARIABLE life  \* of each worker's process: "running", "draining" or "ending" (its pool)

svars == <<vars, life>>

SInit == Init /\ life = [w \in Workers |-> "running"]

LifeTo(w, phase) == life' = [life EXCEPT ![w] = phase]

\* pool.end() has resolved.
Due(w) == life[w] = "ending" /\ Running(w) = {}

-----------------------------------------------------------------------------
\* The signal clears keepRunning.  A stop counts as one of the faults.
Signal(w) ==
  /\ Fault
  /\ life[w] = "running"
  /\ LifeTo(w, "draining")
  /\ UNCHANGED <<tables, locks, job, runner, sqs, worker>>

\* Mutant: the drain waits for a poll, which a loop that has ended never makes.
EndPoolAtPoll(w) ==
  /\ life[w] = "draining" /\ wpc[w] = "poll"
  /\ LifeTo(w, "ending")
  /\ UNCHANGED vars

\* waitForInFlightDrain returns: no message is in hand, or the grace period,
\* which may be shorter than any processing, has passed.  Then pool.end().
EndPool(w) ==
  /\ life[w] = "draining"
  /\ LifeTo(w, "ending")
  /\ UNCHANGED vars

\* The loop sees keepRunning cleared: after a batch, an empty or failed poll or
\* an idle delay.
LoopEnds(w) ==
  /\ life[w] # "running"
  /\ wpc[w] = "poll" \/ (wpc[w] = "next" /\ batch[w] = {})
  /\ WorkerTo(w, "ended")
  /\ cur' = [cur EXCEPT ![w] = None]
  /\ UNCHANGED <<tables, locks, job, runner, sqs, batch, faults, life>>

\* pool.connect() rejects: the message's processing fails before it has begun.
BeginRefused(w) == life[w] = "ending" /\ Take(w, "failed")

\* process.exit(0), and a new process.  A poll still open may have been answered
\* to nobody.
Exit(w) ==
  /\ Due(w)
  /\ LifeTo(w, "running")
  /\ NewProcess(w)
  /\ \/ UNCHANGED sqs
     \/ wpc[w] = "poll" /\ \E S \in SUBSET Messages : HandOut(S)
  /\ UNCHANGED <<tables, locks, job, runner, faults>>

-----------------------------------------------------------------------------
\* The polling loop: the poll that was open at the signal may still bring a
\* batch, which is handled whole.
LoopStep(w) ==
  \/ /\ \/ ~Due(w) /\ (Receive(w) \/ BeginRefused(w))
        \/ life[w] # "ending" /\ Begin(w)
        \/ life[w] = "running" /\ BatchDone(w)
        \/ JobAnswers(w) \/ Delete(w) \/ SendToDlq(w)
     /\ UNCHANGED life
  \/ LoopEnds(w)

Incident(w) ==
  \/ /\ \/ life[w] = "running" /\ ReceiveLost(w)
        \/ TimesOut(w) \/ DeleteFails(w) \/ SendToDlqFails(w)
     /\ UNCHANGED life
  \/ Signal(w)
  \/ Crash(w) /\ LifeTo(w, "running")

JobProceeds(c)     == JobStep(c) /\ UNCHANGED life
Reappeared(m)      == VisibilityExpires(m) /\ UNCHANGED life

SNext ==
  \/ \E w \in Workers : LoopStep(w) \/ Incident(w) \/ EndPool(w) \/ Exit(w)
  \/ \E c \in Receipts : JobProceeds(c)
  \/ \E m \in Messages : Reappeared(m)
  \/ /\ \/ \E c \in Receipts : JobFails(c) \/ CommitUnacked(c)
        \/ \E m \in Messages : ExpiresEarly(m)
        \/ \E p \in Products : Trade(p)
     /\ UNCHANGED life

SSpec == SInit /\ [][SNext]_svars

\* As in Payment, and a stop goes on: the grace period and pool.end() end.
SFairSpec ==
  /\ SSpec
  /\ \A w \in Workers : WF_svars(LoopStep(w)) /\ WF_svars(EndPool(w)) /\ WF_svars(Exit(w))
  /\ \A c \in Receipts : WF_svars(JobProceeds(c))
  /\ \A m \in Messages : WF_svars(Reappeared(m))

-----------------------------------------------------------------------------
(* Properties. *)

\* A message is received more often than SQS_WORKER_MAX_RECEIVE_COUNT only as
\* often as something went wrong: a stop, a crash, a lost answer.
RetriesBounded ==
  \A m \in Messages : count[m] <= MaxReceiveCount + (MaxFaults - faults)

\* A stop ends, although pool.end() waits for transactions that timed out and
\* are waited for by nobody, and the loop may be at work until then.
StopEnds == \A w \in Workers : life[w] = "draining" ~> life[w] = "running"
=============================================================================
