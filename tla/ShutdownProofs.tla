----------------------------- MODULE ShutdownProofs -----------------------------
(***************************************************************************)
(* Proofs about WorkerShutdown, for any number of workers and messages.    *)
(*                                                                         *)
(* The promises of the payment worker survive its stop: PInv of            *)
(* PaymentProofs still holds.  How often a message may be received is a    *)
(* matter of accounts: a fault allows one more delivery of each message,   *)
(* and so does a stop, whose fault was charged when the signal came but    *)
(* whose messages are only lost when the process exits.  TriesInv keeps    *)
(* the difference, one for every worker now stopping.                      *)
(***************************************************************************)
EXTENDS WorkerShutdown, PaymentProofs, FiniteSetTheorems

-----------------------------------------------------------------------------
Stopping == {w \in Workers : life[w] # "running"}

LifeTyped ==
  /\ life \in [Workers -> {"running", "draining", "ending"}]
  /\ IsFiniteSet(Stopping)
  /\ Cardinality(Stopping) <= MaxFaults - faults

\* Between two batches a worker has none left.
BatchesEmpty == \A w \in Workers : wpc[w] \in {"poll", "ended"} => batch[w] = {}

\* m may be delivered once more, or is in a worker's hands and may not.
InHand(m) == place[m] = "gone" \/ (place[m] = "inFlight" /\ Held(m))

Tries(m) == count[m] + Cardinality(Stopping)
Allowed  == MaxReceiveCount + (MaxFaults - faults)

TriesInv ==
  \A m \in Messages : Tries(m) <= Allowed /\ (~InHand(m) => Tries(m) < Allowed)

SInv ==
  /\ PInv
  /\ LifeTyped
  /\ BatchesEmpty
  /\ TriesInv

-----------------------------------------------------------------------------
(* What the stop adds to the worker keeps PInv. *)

\* Steps that change at most the faults left and the life of a process.
LEMMA OnlyFaults ==
  ASSUME PInv, faults' \in 0..MaxFaults, UNCHANGED <<tables, locks, job, runner, sqs, worker>>
  PROVE  PInv'
<1>1. Typed'
  BY DEF PInv, Typed, tables, locks, sqs, worker
<1> QED
  BY <1>1, JobsUntouched, JobFrame DEF PInv, tables

\* The loop ends with the worker's hands empty.
LEMMA LoopEndsStep ==
  ASSUME PInv, NEW w \in Workers, LoopEnds(w)
  PROVE  PInv'
  BY IdleStep, JobsUntouched DEF LoopEnds, PInv, Typed, tables, locks

\* The process exits with no transaction open.
LEMMA ExitStep ==
  ASSUME PInv, NEW w \in Workers, Exit(w)
  PROVE  PInv'
<1>1. NewProcess(w) /\ UNCHANGED <<tables, locks, job, runner, faults>>
  BY DEF Exit
<1>2. CASE UNCHANGED sqs
  BY <1>1, <1>2, IdleStep, JobsUntouched DEF NewProcess, PInv, Typed, tables, locks
<1>3. CASE \E S \in SUBSET Messages : HandOut(S)
  BY <1>1, <1>3, LostHandOutStep DEF PInv, Typed
<1> QED
  BY <1>2, <1>3 DEF Exit

\* Whatever a stop does at whatever moment, the worker's invariant survives.
LEMMA SNextPInv ==
  ASSUME PInv, [SNext]_svars
  PROVE  PInv'
<1>1. ASSUME NEW w \in Workers, LoopStep(w) PROVE PInv'
  BY <1>1, ReceiveStep, TakeStep, BatchDoneStep, MessageSteps, LoopEndsStep
     DEF LoopStep, BeginRefused, Begin
<1>2. ASSUME NEW w \in Workers, Incident(w) PROVE PInv'
  <2>1. CASE ReceiveLost(w)
    BY <2>1, LostHandOutStep, ConstantsOK DEF ReceiveLost, Fault, PInv, Typed
  <2>2. CASE Signal(w)
    BY <2>2, OnlyFaults, ConstantsOK DEF Signal, Fault, PInv, Typed
  <2> QED
    BY <1>2, <2>1, <2>2, MessageSteps, CrashStep DEF Incident
<1>3. ASSUME NEW w \in Workers, EndPool(w) \/ Exit(w) PROVE PInv'
  BY <1>3, OnlyFaults, ExitStep
     DEF EndPool, vars, tables, locks, sqs, worker, PInv, Typed
<1>4. ASSUME NEW c \in Receipts, JobProceeds(c) \/ JobFails(c) \/ CommitUnacked(c) PROVE PInv'
  BY <1>4, JobSteps DEF JobProceeds
<1>5. ASSUME NEW m \in Messages, Reappeared(m) \/ ExpiresEarly(m) PROVE PInv'
  BY <1>5, ReappearStep DEF Reappeared
<1>6. CASE UNCHANGED svars
  BY <1>6, OnlyFaults DEF svars, vars, tables, locks, sqs, worker, PInv, Typed
<1> QED
  BY <1>1, <1>2, <1>3, <1>4, <1>5, <1>6, TradeStep DEF SNext

-----------------------------------------------------------------------------
(* The accounts of deliveries. *)

\* How a step may change the faults left and the processes stopping.
Charged == Cardinality(Stopping') + faults' = Cardinality(Stopping) + faults
Relaxed == Cardinality(Stopping') + faults' < Cardinality(Stopping) + faults

\* A signal moves one fault from those left to the stops under way.
LEMMA SignalLife ==
  ASSUME SInv, NEW w \in Workers, Signal(w)
  PROVE  LifeTyped' /\ Charged
<1>1. /\ life[w] = "running" /\ life' = [life EXCEPT ![w] = "draining"]
      /\ faults > 0 /\ faults' = faults - 1 /\ faults \in 0..MaxFaults
  BY DEF Signal, LifeTo, Fault, SInv, PInv, Typed
<1>2. IsFiniteSet(Stopping) /\ w \notin Stopping /\ Stopping' = Stopping \cup {w}
  BY <1>1 DEF SInv, LifeTyped, Stopping
<1>3. /\ IsFiniteSet(Stopping') /\ Cardinality(Stopping') = Cardinality(Stopping) + 1
      /\ Cardinality(Stopping) \in Nat
  BY <1>2, FS_AddElement, FS_CardinalityType
<1>4. life' \in [Workers -> {"running", "draining", "ending"}]
  BY <1>1 DEF SInv, LifeTyped
<1>5. Cardinality(Stopping) <= MaxFaults - faults
  BY DEF SInv, LifeTyped
<1> QED
  BY <1>1, <1>3, <1>4, <1>5, ConstantsOK DEF LifeTyped, Charged

\* A process that is replaced stops no more; a crash is a fault as well.
LEMMA RestartLife ==
  ASSUME SInv, NEW w \in Workers, LifeTo(w, "running"), faults' \in 0..MaxFaults,
         faults' < faults \/ (faults' = faults /\ life[w] # "running")
  PROVE  LifeTyped' /\ Relaxed
<1>1. life' = [life EXCEPT ![w] = "running"] /\ faults \in 0..MaxFaults
  BY DEF LifeTo, SInv, PInv, Typed
<1>2. IsFiniteSet(Stopping) /\ Stopping' = Stopping \ {w}
  BY <1>1 DEF SInv, LifeTyped, Stopping
<1>3. /\ IsFiniteSet(Stopping')
      /\ Cardinality(Stopping') =
           IF w \in Stopping THEN Cardinality(Stopping) - 1 ELSE Cardinality(Stopping)
      /\ Cardinality(Stopping) \in Nat
  BY <1>2, FS_RemoveElement, FS_CardinalityType
<1>4. life' \in [Workers -> {"running", "draining", "ending"}]
  BY <1>1 DEF SInv, LifeTyped
<1>5. Cardinality(Stopping) <= MaxFaults - faults
  BY DEF SInv, LifeTyped
<1>6. life[w] # "running" => w \in Stopping
  BY DEF Stopping
<1> QED
  BY <1>1, <1>3, <1>4, <1>5, <1>6, ConstantsOK DEF LifeTyped, Relaxed

\* Every other step leaves the set of stopping processes as it is.
LEMMA SameLife ==
  ASSUME SInv, faults' \in 0..MaxFaults,
         Stopping' = Stopping, life' \in [Workers -> {"running", "draining", "ending"}],
         faults' = faults \/ faults' = faults - 1
  PROVE  /\ LifeTyped'
         /\ faults' = faults => Charged
         /\ faults' = faults - 1 => Relaxed
<1>1. Cardinality(Stopping) \in Nat /\ Cardinality(Stopping) <= MaxFaults - faults
  BY FS_CardinalityType DEF SInv, LifeTyped
<1>2. faults \in 0..MaxFaults
  BY DEF SInv, PInv, Typed
<1>3. Cardinality(Stopping') <= MaxFaults - faults'
  BY <1>1, <1>2, ConstantsOK
<1>4. IsFiniteSet(Stopping')
  BY DEF SInv, LifeTyped
<1> QED
  BY <1>1, <1>2, <1>3, <1>4 DEF LifeTyped, Charged, Relaxed

\* A fault, or a process that exits, allows each message one more delivery;
\* it may even have been used in the same step.
LEMMA TriesRelaxed ==
  ASSUME SInv, PInv', LifeTyped', Relaxed,
         \A m \in Messages : count'[m] = count[m] \/ (~InHand(m) /\ count'[m] = count[m] + 1)
  PROVE  TriesInv'
<1> SUFFICES ASSUME NEW m \in Messages PROVE Tries(m)' < Allowed'
  <2>1. Allowed' \in Int /\ \A m \in Messages : Tries(m)' \in Nat
    BY FS_CardinalityType, ConstantsOK DEF PInv, Typed, LifeTyped, Tries, Allowed
  <2> QED
    BY <2>1 DEF TriesInv
<1>1. /\ count[m] \in Nat /\ faults \in Nat /\ faults' \in Nat
      /\ Cardinality(Stopping) \in Nat /\ Cardinality(Stopping') \in Nat
  BY FS_CardinalityType DEF SInv, PInv, Typed, LifeTyped
<1>2. Tries(m) <= Allowed /\ (~InHand(m) => Tries(m) < Allowed)
  BY DEF SInv, TriesInv
<1>3. MaxFaults \in Nat /\ MaxReceiveCount \in Nat
  BY ConstantsOK
<1> DEFINE k == Cardinality(Stopping)
<1>4. /\ count[m] + k <= MaxReceiveCount + (MaxFaults - faults)
      /\ ~InHand(m) => count[m] + k < MaxReceiveCount + (MaxFaults - faults)
  BY <1>2 DEF Tries, Allowed
<1>5. count'[m] + k' < MaxReceiveCount + (MaxFaults - faults')
  <2>1. k' + faults' < k + faults
    BY DEF Relaxed
  <2>2. CASE count'[m] = count[m]
    BY <1>1, <1>3, <1>4, <2>1, <2>2
  <2>3. CASE ~InHand(m) /\ count'[m] = count[m] + 1
    BY <1>1, <1>3, <1>4, <2>1, <2>3
  <2> QED
    BY <2>2, <2>3
<1> QED
  BY <1>5 DEF Tries, Allowed

\* Otherwise a message stays in hand, or has a delivery left.
LEMMA TriesCharged ==
  ASSUME SInv, PInv', LifeTyped', Charged,
         \A m \in Messages :
           \/ /\ count'[m] = count[m]
              /\ InHand(m) => InHand(m)' \/ count[m] < MaxReceiveCount
           \/ ~InHand(m) /\ count'[m] = count[m] + 1 /\ InHand(m)'
  PROVE  TriesInv'
<1> SUFFICES ASSUME NEW m \in Messages
             PROVE  Tries(m)' <= Allowed' /\ (~InHand(m)' => Tries(m)' < Allowed')
  BY DEF TriesInv
<1>1. /\ count[m] \in Nat /\ faults \in Nat /\ faults' \in Nat
      /\ Cardinality(Stopping) \in Nat /\ Cardinality(Stopping') \in Nat
  BY FS_CardinalityType DEF SInv, PInv, Typed, LifeTyped
<1>2. Tries(m) <= Allowed /\ (~InHand(m) => Tries(m) < Allowed)
  BY DEF SInv, TriesInv
<1>3. Cardinality(Stopping') <= MaxFaults - faults'
  BY DEF LifeTyped
<1>4. MaxFaults \in Nat /\ MaxReceiveCount \in Nat
  BY ConstantsOK
<1> DEFINE k == Cardinality(Stopping)
           allowed == MaxReceiveCount + (MaxFaults - faults)
<1>5. count[m] + k <= allowed /\ (~InHand(m) => count[m] + k < allowed)
  BY <1>2 DEF Tries, Allowed
<1>6. k' + faults' = k + faults
  BY DEF Charged
<1>7. CASE count'[m] = count[m] /\ (InHand(m) => InHand(m)')
  <2>1. count'[m] + k' <= allowed' /\ (~InHand(m)' => count'[m] + k' < allowed')
    BY <1>1, <1>4, <1>5, <1>6, <1>7
  <2> QED
    BY <2>1 DEF Tries, Allowed
<1>8. CASE count'[m] = count[m] /\ count[m] < MaxReceiveCount
  <2>1. count'[m] + k' < allowed'
    BY <1>1, <1>3, <1>4, <1>8
  <2> QED
    BY <1>1, <1>4, <2>1 DEF Tries, Allowed
<1>9. CASE ~InHand(m) /\ count'[m] = count[m] + 1 /\ InHand(m)'
  <2>1. count'[m] + k' <= allowed'
    BY <1>1, <1>4, <1>5, <1>6, <1>9
  <2> QED
    BY <1>9, <2>1 DEF Tries, Allowed
<1> QED
  BY <1>7, <1>8, <1>9

\* A fault with the worker at most moved on within its batch.
LEMMA FaultStep ==
  ASSUME SInv, PInv', Fault, UNCHANGED <<count, batch, life>>,
         \A w \in Workers : wpc'[w] = wpc[w] \/ wpc'[w] \notin {"poll", "ended"}
  PROVE  SInv'
<1>1. faults' = faults - 1 /\ faults' \in 0..MaxFaults
  BY ConstantsOK DEF Fault, SInv, PInv, Typed
<1>2. Stopping' = Stopping /\ life' \in [Workers -> {"running", "draining", "ending"}]
  BY DEF Stopping, SInv, LifeTyped
<1>3. LifeTyped' /\ Relaxed
  BY <1>1, <1>2, SameLife
<1>4. BatchesEmpty'
  BY DEF SInv, BatchesEmpty
<1> QED
  BY <1>3, <1>4, TriesRelaxed DEF SInv

\* No fault and no change to the life of a process: it is enough to look at the
\* hands of the workers.
LEMMA CalmStep ==
  ASSUME SInv, PInv', UNCHANGED <<faults, life>>, BatchesEmpty',
         \A m \in Messages :
           \/ /\ count'[m] = count[m]
              /\ InHand(m) => InHand(m)' \/ count[m] < MaxReceiveCount
           \/ ~InHand(m) /\ count'[m] = count[m] + 1 /\ InHand(m)'
  PROVE  SInv'
<1>1. Stopping' = Stopping /\ life' \in [Workers -> {"running", "draining", "ending"}]
  BY DEF Stopping, SInv, LifeTyped
<1>2. LifeTyped' /\ Charged
  BY <1>1, SameLife DEF SInv, PInv, Typed
<1> QED
  BY <1>2, TriesCharged DEF SInv

\* Receive: what is handed out had a delivery left and is in hand now.
LEMMA ReceiveTries ==
  ASSUME SInv, PInv', NEW w \in Workers, Receive(w), UNCHANGED life
  PROVE  SInv'
<1>1. PICK S \in SUBSET Messages :
        HandOut(S) /\ batch' = [batch EXCEPT ![w] = {<<m, count[m] + 1>> : m \in S}]
  BY DEF Receive
<1>2. wpc[w] = "poll" /\ wpc' = [wpc EXCEPT ![w] = "next"] /\ UNCHANGED <<cur, faults>>
  BY DEF Receive, WorkerTo
<1>3. BatchesEmpty'
  BY <1>1, <1>2 DEF SInv, PInv, Typed, BatchesEmpty
<1>4. ASSUME NEW m \in S
      PROVE  ~InHand(m) /\ count'[m] = count[m] + 1 /\ InHand(m)'
  <2>1. /\ place[m] = "queued" /\ place'[m] = "inFlight"
        /\ count'[m] = count[m] + 1 /\ <<m, count[m] + 1>> \in batch'[w]
    <3>1. batch'[w] = {<<n, count[n] + 1>> : n \in S}
      BY <1>1 DEF SInv, PInv, Typed
    <3>2. <<m, count[m] + 1>> \in batch'[w]
      BY <3>1
    <3> QED
      BY <1>1, <3>2 DEF HandOut
  <2> QED
    BY <2>1 DEF InHand, Held
<1>5. ASSUME NEW m \in Messages, m \notin S
      PROVE  count'[m] = count[m] /\ (InHand(m) => InHand(m)')
  <2>1. place'[m] = place[m] /\ count'[m] = count[m]
    BY <1>1, <1>5 DEF HandOut, SInv, PInv, Typed
  <2>2. batch[w] = {} /\ \A v \in Workers \ {w} : batch'[v] = batch[v] /\ wpc'[v] = wpc[v]
    BY <1>1, <1>2 DEF SInv, PInv, Typed, BatchesEmpty
  <2>3. Held(m) => Held(m)'
    BY <1>2, <2>1, <2>2 DEF Held
  <2> QED
    BY <2>1, <2>3 DEF InHand
<1> QED
  BY <1>2, <1>3, <1>4, <1>5, CalmStep

\* The next message passes from the batch into the worker's hand.
LEMMA TakeTries ==
  ASSUME SInv, PInv', NEW w \in Workers, NEW phase \in {"lock", "failed"}, Take(w, phase),
         UNCHANGED life
  PROVE  SInv'
<1>1. PICK c \in batch[w] : /\ cur' = [cur EXCEPT ![w] = c]
                            /\ batch' = [batch EXCEPT ![w] = @ \ {c}]
  BY DEF Take
<1>2. /\ wpc[w] = "next" /\ UNCHANGED <<place, count, faults>>
      /\ wpc' = [wpc EXCEPT ![w] = "send"] \/ wpc' = [wpc EXCEPT ![w] = "wait"]
  BY DEF Take, WorkerTo, sqs
<1>3. /\ wpc'[w] \in {"send", "wait"} /\ cur'[w] = c /\ batch'[w] = batch[w] \ {c}
      /\ \A v \in Workers \ {w} : batch'[v] = batch[v] /\ wpc'[v] = wpc[v] /\ cur'[v] = cur[v]
  BY <1>1, <1>2 DEF SInv, PInv, Typed
<1>4. BatchesEmpty'
  BY <1>3 DEF SInv, BatchesEmpty
<1>5. ASSUME NEW m \in Messages PROVE InHand(m) => InHand(m)'
  BY <1>2, <1>3 DEF InHand, Held
<1> QED
  BY <1>2, <1>4, <1>5, CalmStep

\* The worker puts a message down only when it is gone or may be delivered
\* again.
LEMMA HandleTries ==
  ASSUME SInv, PInv', NEW w \in Workers, JobAnswers(w) \/ Delete(w) \/ SendToDlq(w),
         UNCHANGED life
  PROVE  SInv'
<1>1. UNCHANGED <<count, cur, batch, faults>>
  BY DEF JobAnswers, Delete, SendToDlq, sqs
<1>2. PICK phase \in {"delete", "send", "purge", "next"} : wpc' = [wpc EXCEPT ![w] = phase]
  BY DEF JobAnswers, Delete, SendToDlq, GiveUpOrRetry, WorkerTo
<1>3. wpc'[w] = phase /\ \A v \in Workers \ {w} : wpc'[v] = wpc[v]
  BY <1>2 DEF SInv, PInv, Typed
<1>4. BatchesEmpty'
  BY <1>1, <1>3 DEF SInv, BatchesEmpty
<1>5. ASSUME NEW m \in Messages, InHand(m)
      PROVE  InHand(m)' \/ count[m] < MaxReceiveCount
  <2>1. CASE place'[m] = place[m] /\ phase # "next"
    BY <1>1, <1>3, <1>5, <2>1 DEF InHand, Held
  <2>2. CASE place'[m] = "gone"
    BY <2>2 DEF InHand
  <2>3. CASE cur[w] # <<m, count[m]>> /\ place'[m] = place[m]
    BY <1>1, <1>3, <1>5, <2>3 DEF InHand, Held
  <2>4. CASE JobAnswers(w) /\ phase = "next" /\ cur[w] = <<m, count[m]>>
    <3>1. ~AtCeiling(cur[w][2])
      BY <1>3, <2>4 DEF JobAnswers, GiveUpOrRetry, WorkerTo, SInv, PInv, Typed
    <3>2. count[m] \in Nat
      BY DEF SInv, PInv, Typed
    <3> QED
      BY <2>4, <3>1, <3>2, ConstantsOK DEF AtCeiling
  <2>5. CASE Delete(w)
    <3>1. wpc[w] \in {"delete", "purge"} /\ Deleted(cur[w])
      BY <2>5 DEF Delete
    <3>2. cur[w] \in Receipts /\ Msg(cur[w]) \in Messages
      BY <3>1, ReceiptParts DEF SInv, PInv, MessageKnown, Knows
    <3>3. \/ cur[w] = <<m, count[m]>> /\ place'[m] = "gone"
          \/ place'[m] \in {place[m], "gone"} /\ cur[w] # <<m, count[m]>>
      BY <3>1, <3>2 DEF Deleted, Msg, SInv, PInv, Typed
    <3> QED
      BY <2>2, <2>3, <3>3
  <2>6. JobAnswers(w) \/ SendToDlq(w) => place' = place /\ (SendToDlq(w) => phase # "next")
    BY <1>3 DEF JobAnswers, SendToDlq, WorkerTo, sqs, SInv, PInv, Typed
  <2> QED
    BY <2>1, <2>3, <2>4, <2>5, <2>6
<1> QED
  BY <1>1, <1>4, <1>5, CalmStep

\* A worker with an empty batch goes back to polling, or its loop ends.
LEMMA IdleTries ==
  ASSUME SInv, PInv', NEW w \in Workers, BatchDone(w) \/ LoopEnds(w), UNCHANGED life
  PROVE  SInv'
<1>1. /\ wpc[w] \in {"poll", "next"} /\ batch[w] = {}
      /\ UNCHANGED <<place, count, batch, faults>>
      /\ wpc' = [wpc EXCEPT ![w] = "poll"] \/ wpc' = [wpc EXCEPT ![w] = "ended"]
      /\ cur' = [cur EXCEPT ![w] = None]
  BY DEF BatchDone, LoopEnds, WorkerTo, sqs, SInv, BatchesEmpty
<1>2. \A v \in Workers \ {w} : wpc'[v] = wpc[v] /\ cur'[v] = cur[v]
  BY <1>1 DEF SInv, PInv, Typed
<1>3. BatchesEmpty'
  BY <1>1, <1>2 DEF SInv, BatchesEmpty
<1>4. ASSUME NEW m \in Messages PROVE InHand(m) => InHand(m)'
  BY <1>1, <1>2 DEF InHand, Held
<1> QED
  BY <1>1, <1>3, <1>4, CalmStep

\* A process is replaced, after a crash or at the end of its stop: nothing of
\* its batch is in hand any more, and what SQS just handed to it is lost.
LEMMA RestartTries ==
  ASSUME SInv, PInv', NEW w \in Workers, NewProcess(w), LifeTo(w, "running"),
         \/ Fault /\ UNCHANGED count
         \/ /\ life[w] # "running" /\ UNCHANGED faults
            /\ UNCHANGED count \/ \E S \in SUBSET Messages : HandOut(S)
  PROVE  SInv'
<1>1. faults' < faults \/ (faults' = faults /\ life[w] # "running")
  BY DEF Fault, SInv, PInv, Typed
<1>2. faults' \in 0..MaxFaults
  BY DEF PInv, Typed
<1>3. LifeTyped' /\ Relaxed
  BY <1>1, <1>2, RestartLife
<1>4. BatchesEmpty'
  <2>1. \A v \in Workers : v # w => wpc'[v] = wpc[v] /\ batch'[v] = batch[v]
    BY DEF NewProcess, WorkerTo, SInv, PInv, Typed
  <2>2. batch'[w] = {}
    BY DEF NewProcess, SInv, PInv, Typed
  <2> QED
    BY <2>1, <2>2 DEF SInv, BatchesEmpty
<1>5. ASSUME NEW S \in SUBSET Messages, HandOut(S), NEW m \in Messages
      PROVE  count'[m] = count[m] \/ (~InHand(m) /\ count'[m] = count[m] + 1)
  <2>1. m \in S => place[m] = "queued"
    BY <1>5 DEF HandOut
  <2> QED
    BY <1>5, <2>1 DEF HandOut, InHand, SInv, PInv, Typed
<1>6. \A m \in Messages : count'[m] = count[m] \/ (~InHand(m) /\ count'[m] = count[m] + 1)
  BY <1>5
<1> QED
  BY <1>3, <1>4, <1>6, TriesRelaxed DEF SInv

\* A signal: the fault is charged, the deliveries it allows are still to come.
LEMMA SignalTries ==
  ASSUME SInv, PInv', NEW w \in Workers, Signal(w)
  PROVE  SInv'
<1>1. UNCHANGED <<place, count, wpc, cur, batch>>
  BY DEF Signal, sqs, worker
<1>2. LifeTyped' /\ Charged
  BY SignalLife
<1>3. BatchesEmpty'
  BY <1>1 DEF SInv, BatchesEmpty
<1>4. \A m \in Messages : InHand(m) => InHand(m)'
  BY <1>1 DEF InHand, Held
<1> QED
  BY <1>1, <1>2, <1>3, <1>4, TriesCharged DEF SInv

\* An answer that is lost was a delivery, and a fault.
LEMMA ReceiveLostTries ==
  ASSUME SInv, PInv', NEW w \in Workers, ReceiveLost(w), UNCHANGED life
  PROVE  SInv'
<1>1. PICK S \in SUBSET Messages : HandOut(S)
  BY DEF ReceiveLost
<1>2. Fault /\ UNCHANGED <<wpc, batch>>
  BY DEF ReceiveLost, worker
<1>3. faults' = faults - 1 /\ faults' \in 0..MaxFaults
  BY <1>2 DEF Fault, PInv, Typed
<1>4. Stopping' = Stopping /\ life' \in [Workers -> {"running", "draining", "ending"}]
  BY DEF Stopping, SInv, LifeTyped
<1>5. LifeTyped' /\ Relaxed
  BY <1>3, <1>4, SameLife
<1>6. BatchesEmpty'
  BY <1>2 DEF SInv, BatchesEmpty
<1>7. ASSUME NEW m \in Messages
      PROVE  count'[m] = count[m] \/ (~InHand(m) /\ count'[m] = count[m] + 1)
  <2>1. m \in S => place[m] = "queued"
    BY <1>1 DEF HandOut
  <2> QED
    BY <1>1, <2>1 DEF HandOut, InHand, SInv, PInv, Typed
<1> QED
  BY <1>5, <1>6, <1>7, TriesRelaxed DEF SInv

\* The steps that leave the workers and the queue alone, and a message that
\* reappears when no worker has it.
LEMMA OutsideTries ==
  ASSUME SInv, PInv', UNCHANGED <<count, worker, faults>>, Stopping' = Stopping,
         life' \in [Workers -> {"running", "draining", "ending"}],
         \/ UNCHANGED place
         \/ \E m \in Messages : ~Held(m) /\ Reappears(m)
  PROVE  SInv'
<1> USE DEF worker
<1>1. LifeTyped' /\ Charged
  BY SameLife DEF PInv, Typed
<1>2. BatchesEmpty'
  BY DEF SInv, BatchesEmpty
<1>3. \A m \in Messages : Held(m) <=> Held(m)'
  BY DEF Held
<1>4. ASSUME NEW m \in Messages, InHand(m) PROVE InHand(m)'
  BY <1>3, <1>4 DEF InHand, Reappears, SInv, PInv, Typed
<1> QED
  BY <1>1, <1>2, <1>4, TriesCharged DEF SInv

-----------------------------------------------------------------------------
(* The theorems. *)

\* The accounts are balanced by every step.
LEMMA SNextSInv == SInv /\ [SNext]_svars => SInv'
<1> SUFFICES ASSUME SInv, [SNext]_svars PROVE SInv'
  OBVIOUS
<1>0. PInv' /\ life \in [Workers -> {"running", "draining", "ending"}]
  BY SNextPInv DEF SInv, LifeTyped
<1>1. ASSUME NEW w \in Workers, LoopStep(w) PROVE SInv'
  BY <1>0, <1>1, ReceiveTries, TakeTries, HandleTries, IdleTries
     DEF LoopStep, BeginRefused, Begin, LoopEnds
<1>2. ASSUME NEW w \in Workers, Incident(w) PROVE SInv'
  <2>1. CASE (TimesOut(w) \/ DeleteFails(w) \/ SendToDlqFails(w)) /\ UNCHANGED life
    <3>1. Fault /\ UNCHANGED <<count, batch, life>>
      BY <2>1 DEF TimesOut, DeleteFails, SendToDlqFails, sqs
    <3>2. \E phase \in {"send", "next"} : wpc' = [wpc EXCEPT ![w] = phase]
      BY <2>1 DEF TimesOut, DeleteFails, SendToDlqFails, GiveUpOrRetry, WorkerTo
    <3>3. \A v \in Workers : wpc'[v] = wpc[v] \/ wpc'[v] \notin {"poll", "ended"}
      BY <3>2 DEF SInv, PInv, Typed
    <3> QED
      BY <1>0, <3>1, <3>3, FaultStep
  <2>2. CASE Crash(w) /\ LifeTo(w, "running")
    BY <1>0, <2>2, RestartTries DEF Crash, sqs
  <2> QED
    BY <1>0, <1>2, <2>1, <2>2, ReceiveLostTries, SignalTries DEF Incident
<1>3. ASSUME NEW w \in Workers, EndPool(w) PROVE SInv'
  <2>1. life[w] = "draining" /\ life' = [life EXCEPT ![w] = "ending"] /\ UNCHANGED vars
    BY <1>3 DEF EndPool, LifeTo
  <2>2. Stopping' = Stopping /\ life' \in [Workers -> {"running", "draining", "ending"}]
    BY <1>0, <2>1 DEF Stopping
  <2> QED
    BY <1>0, <2>1, <2>2, OutsideTries DEF vars, worker
<1>4. ASSUME NEW w \in Workers, Exit(w) PROVE SInv'
  BY <1>0, <1>4, RestartTries DEF Exit, Due, sqs
<1>5. ASSUME UNCHANGED <<sqs, worker, life>>, faults' = faults \/ Fault PROVE SInv'
  <2>1. CASE UNCHANGED faults
    BY <1>0, <1>5, <2>1, OutsideTries DEF sqs, Stopping
  <2>2. CASE Fault
    BY <1>0, <1>5, <2>2, FaultStep DEF sqs, worker
  <2> QED
    BY <1>5, <2>1, <2>2
<1>6. ASSUME NEW c \in Receipts, JobProceeds(c) \/ ((JobFails(c) \/ CommitUnacked(c)) /\ UNCHANGED life)
      PROVE  SInv'
  BY <1>5, <1>6 DEF JobProceeds, JobStep, LockOrder, RestoreItem, CommitJob, DeadlockVictim,
     Aborted, JobFails, CommitUnacked
<1>7. ASSUME NEW m \in Messages, Reappeared(m) PROVE SInv'
  BY <1>0, <1>7, OutsideTries DEF Reappeared, VisibilityExpires, Reappears, Stopping
<1>8. ASSUME NEW m \in Messages, ExpiresEarly(m), UNCHANGED life PROVE SInv'
  BY <1>0, <1>8, FaultStep DEF ExpiresEarly, Reappears, worker
<1>9. ASSUME NEW p \in Products, Trade(p), UNCHANGED life PROVE SInv'
  BY <1>5, <1>9 DEF Trade
<1>10. CASE UNCHANGED svars
  BY <1>5, <1>10 DEF svars, vars, sqs, worker
<1> QED
  BY <1>1, <1>2, <1>3, <1>4, <1>6, <1>7, <1>8, <1>9, <1>10 DEF SNext

\* Nothing is stopping and nothing received at first.
LEMMA SInitSInv == SInit => SInv
<1> SUFFICES ASSUME SInit PROVE SInv
  OBVIOUS
<1>1. PInv
  BY InitPInv DEF SInit
<1>2. Stopping = {} /\ faults = MaxFaults
  BY DEF SInit, Init, Stopping
<1>3. LifeTyped
  BY <1>2, FS_EmptySet, ConstantsOK DEF SInit, LifeTyped
<1>4. BatchesEmpty
  BY DEF SInit, Init, BatchesEmpty
<1>5. TriesInv
  <2>1. \A m \in Messages : Tries(m) = 0
    BY <1>2, FS_EmptySet DEF SInit, Init, Tries
  <2>2. Allowed = MaxReceiveCount
    BY <1>2, ConstantsOK DEF Allowed
  <2> QED
    BY <2>1, <2>2, ConstantsOK DEF TriesInv
<1> QED
  BY <1>1, <1>3, <1>4, <1>5 DEF SInv

\* SInv holds in every reachable state.
THEOREM StopInvariance == SSpec => []SInv
  BY SInitSInv, SNextSInv, PTL DEF SSpec

\* No message is received more often than SQS_WORKER_MAX_RECEIVE_COUNT allows
\* and the faults and stops so far explain: a stop costs every message at most
\* one delivery, however many were in its batch.
THEOREM RetriesAccounted == SSpec => []RetriesBounded
<1>1. SInv => RetriesBounded
  <2> SUFFICES ASSUME SInv, NEW m \in Messages
               PROVE  count[m] <= MaxReceiveCount + (MaxFaults - faults)
    BY DEF RetriesBounded
  <2>1. Cardinality(Stopping) \in Nat /\ count[m] \in Nat /\ faults \in Nat
    BY FS_CardinalityType DEF SInv, PInv, Typed, LifeTyped
  <2>2. count[m] + Cardinality(Stopping) <= MaxReceiveCount + (MaxFaults - faults)
    BY DEF SInv, TriesInv, Tries, Allowed
  <2> QED
    BY <2>1, <2>2, ConstantsOK
<1> QED
  BY StopInvariance, <1>1, PTL

\* A stop at any moment loses no message: what the exiting process had in its
\* batch comes back.
THEOREM StopLosesNone == SSpec => []NoneLost
<1>1. SInv => NoneLost
  BY DEF SInv, PInv
<1> QED
  BY StopInvariance, <1>1, PTL

\* The pool refusing clients during a stop parks no message early.
THEOREM StopParksLate == SSpec => []ParkedAfterRetries
<1>1. SInv => ParkedAfterRetries
  BY DEF SInv, PInv
<1> QED
  BY StopInvariance, <1>1, PTL
=============================================================================
