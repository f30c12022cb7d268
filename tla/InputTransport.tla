---------------------------- MODULE InputTransport ----------------------------
(***************************************************************************)
(* InputPublisher (server) -> socket pair -> InputConsumer (client), with  *)
(* the client loop that calls consume() and sendFinishedSignal().          *)
(* Source: 3rd_party/android-input/.../input/InputTransport.cpp.           *)
(*                                                                         *)
(* A message keeps what the transport's control flow reads: type, seq,    *)
(* device (deviceId and source), action, pointer layout (the per-slot      *)
(* PointerProperties, compared position by position by canAddSample) and  *)
(* eventTime, plus the acting pointer of POINTER_DOWN/UP and the X         *)
(* coordinate of each pointer, which only the touch state (TouchState)     *)
(* reads and rewrites.  Flags, cookies and other axes are left out.        *)
(*                                                                         *)
(* consume() is a loop that reads one message per iteration while the      *)
(* publisher, another process, keeps writing: each iteration is one step  *)
(* (cpc = "loop"), the call returns by setting cpc back to "idle".         *)
(***************************************************************************)
EXTENDS Integers, Sequences, SequencesExt, FiniteSets, InputChannel, TouchState

CONSTANTS
  Devices,          \* (deviceId, source) keys of motion and key events
  Layouts,          \* pointer-properties arrays a motion may carry
  KeyTypes,         \* non-motion message types the publisher sends
  MotionActions,    \* motion actions the publisher sends
  XOf(_),           \* X coordinate the publisher sends in event seq
  MaxSeq,           \* bound on the sequence numbers published
  MaxTime,          \* bound on the publisher clock (eventTime)
  MaxFrameTime,     \* bound on the frame times the client passes
  RESAMPLE_LATENCY, \* InputTransport.cpp:43, in the model's time unit
  FactoryMayFail,   \* whether the event factory can return NULL
  PeerMayClose      \* whether the publisher end may close

ASSUME MaxSeq \in Nat \ {0} /\ MaxTime \in Nat /\ RESAMPLE_LATENCY \in Nat
ASSUME MaxFrameTime \in Nat
ASSUME FactoryMayFail \in BOOLEAN /\ PeerMayClose \in BOOLEAN
ASSUME KeyTypes \subseteq {"Key", "Buffer"}

VARIABLES
  nextSeq,      \* publisher: next sequence number to publish
  now,          \* publisher: clock stamped as eventTime
  closed,       \* publisher end of the socket pair closed
  finished,     \* publisher: seqs returned by receiveFinishedSignal, in order
  toConsumer,   \* socket direction publisher -> consumer
  toPublisher,  \* socket direction consumer -> publisher (Finished)
  mMsg,         \* InputConsumer::mMsg
  mMsgDeferred, \* InputConsumer::mMsgDeferred
  mBatches,     \* InputConsumer::mBatches, each a sequence of samples
  mSeqChains,   \* InputConsumer::mSeqChains
  mTouchStates, \* InputConsumer::mTouchStates, by device
  cpc,          \* client: "idle" or inside consume ("loop")
  callArgs,     \* arguments of the consume call in progress
  result,       \* status the last consume call returned
  outstanding,  \* client: seqs of events returned but not yet finished
  delivered     \* history: events returned by consume, in order

vars == <<nextSeq, now, closed, finished, toConsumer, toPublisher, mMsg,
          mMsgDeferred, mBatches, mSeqChains, mTouchStates, cpc, callArgs,
          result, outstanding, delivered>>

pubVars == <<nextSeq, now, closed, finished>>
consVars == <<mMsg, mMsgDeferred, mBatches, mSeqChains, mTouchStates>>

Seqs == 1..MaxSeq
Times == 0..MaxTime
FrameTimes == {-1} \cup 0..MaxFrameTime
ImmediateTypes == {"Key", "Buffer"}
BatchedActions == {"MOVE", "HOVER_MOVE"}
PointerActions == {"POINTER_DOWN", "POINTER_UP"}
Ids == UNION {ToSet(l) : l \in Layouts}
Coord == Int \X Int

Message == [type: ImmediateTypes, seq: Seqs, dev: Devices, action: {"NONE"},
            ptrs: {<<>>}, aid: {"NONE"}, xs: {<<>>}, time: Times]
           \cup
           [type: {"Motion"}, seq: Seqs, dev: Devices, action: MotionActions,
            ptrs: Layouts, aid: Ids \cup {"NONE"}, xs: Seq(Coord), time: Times]

\* The zero-initialised InputMessage the consumer is constructed with.
NoMsg == [type |-> "None", seq |-> 0]

\* Outside a consume call its arguments do not exist.
NoCall == [cb |-> FALSE, ft |-> -1]

NoEvent == [type |-> "None", dev |-> "None", action |-> "NONE", aid |-> "NONE",
           ptrs |-> <<>>, seqs |-> <<>>, samples |-> <<>>]

Chain == [seq: Seqs, chain: Seqs]
Sample == [t: Int, xs: Seq(Coord), res: BOOLEAN]
Event == [type: ImmediateTypes \cup {"Motion"}, dev: Devices,
          action: MotionActions \cup {"NONE"}, aid: Ids \cup {"NONE"},
          ptrs: Layouts \cup {<<>>},
          seqs: Seq(Seqs), samples: Seq(Sample)]

\* The event a single message initialises (initializeKeyEvent,
\* initializeMotionEvent, initializeBufferEvent).
EventOf(m) ==
  [type |-> m.type, dev |-> m.dev, action |-> m.action, aid |-> m.aid,
   ptrs |-> m.ptrs, seqs |-> <<m.seq>>, samples |-> <<[t |-> m.time, xs |-> m.xs, res |-> FALSE]>>]

-----------------------------------------------------------------------------
(* InputPublisher                                                          *)

\* publishKeyEvent / publishEventBuffer: seq 0 is rejected, the message is
\* sent; a send that would block changes nothing and is not modelled.
PublishKey(type, d) ==
  /\ ~closed
  /\ nextSeq <= MaxSeq
  /\ SendStatus(toConsumer, FALSE) = "OK"
  /\ toConsumer' = Append(toConsumer,
        [type |-> type, seq |-> nextSeq, dev |-> d, action |-> "NONE",
         ptrs |-> <<>>, aid |-> "NONE", xs |-> <<>>, time |-> now])
  /\ nextSeq' = nextSeq + 1
  /\ UNCHANGED <<now, closed, finished, toPublisher, consVars, cpc, callArgs,
                 result, outstanding, delivered>>

\* publishMotionEvent: rejects a pointer count outside 1..MAX_POINTERS.
\* aid is the pointer a POINTER_DOWN/UP acts on; every pointer is at XOf
\* of the event's seq.
PublishMotion(d, a, l, aid) ==
  /\ ~closed
  /\ nextSeq <= MaxSeq
  /\ Len(l) >= 1 /\ Len(l) <= MAX_POINTERS
  /\ SendStatus(toConsumer, FALSE) = "OK"
  /\ toConsumer' = Append(toConsumer,
        [type |-> "Motion", seq |-> nextSeq, dev |-> d, action |-> a,
         ptrs |-> l, aid |-> aid, xs |-> [i \in 1..Len(l) |-> Rat(XOf(nextSeq))],
         time |-> now])
  /\ nextSeq' = nextSeq + 1
  /\ UNCHANGED <<now, closed, finished, toPublisher, consVars, cpc, callArgs,
                 result, outstanding, delivered>>

\* The publisher's clock advances (eventTime of later events).
Tick ==
  /\ now < MaxTime
  /\ now' = now + 1
  /\ UNCHANGED <<nextSeq, closed, finished, toConsumer, toPublisher, consVars,
                 cpc, callArgs, result, outstanding, delivered>>

\* receiveFinishedSignal: reads one Finished message (the consumer sends no
\* other type, so the UNKNOWN_ERROR branch is never taken).
ReceiveFinishedSignal ==
  /\ ~closed
  /\ ReceiveStatus(toPublisher, FALSE) = "OK"
  /\ finished' = Append(finished, Head(toPublisher).seq)
  /\ toPublisher' = Tail(toPublisher)
  /\ UNCHANGED <<nextSeq, now, closed, toConsumer, consVars, cpc, callArgs,
                 result, outstanding, delivered>>

\* The server closes its end of the channel (the client's session ends).
ClosePublisher ==
  /\ PeerMayClose
  /\ ~closed
  /\ closed' = TRUE
  /\ UNCHANGED <<nextSeq, now, finished, toConsumer, toPublisher, consVars,
                 cpc, callArgs, result, outstanding, delivered>>

-----------------------------------------------------------------------------
(* InputConsumer helpers                                                   *)

\* Outcomes of factory->createXxxEvent(): FALSE means it returned NULL.
FactoryResults == IF FactoryMayFail THEN {TRUE, FALSE} ELSE {TRUE}

\* Mutant: findBatch that never finds the open batch of a device.
FindBatchNone(d) == 0

\* findBatch: first batch whose head has this device, 0 if there is none.
FindBatch(d) ==
  LET matching == {i \in DOMAIN mBatches : mBatches[i][1].dev = d}
  IN IF matching = {} THEN 0
     ELSE CHOOSE i \in matching : \A j \in matching : i <= j

\* canAddSample: same pointer count, same action, same properties per slot.
CanAddSample(batch, m) ==
  LET head == batch[1]
  IN /\ Len(head.ptrs) = Len(m.ptrs)
     /\ head.action = m.action
     /\ \A i \in 1..Len(m.ptrs) : head.ptrs[i] = m.ptrs[i]

\* Mutant: findSampleNoLaterThan returns index instead of index - 1, so
\* the split takes one sample more (when there is one).
FindSampleNoLaterThanOneMore(batch, t) ==
  LET ok(k) == \A j \in 1..k : batch[j].time <= t
      n == CHOOSE k \in 0..Len(batch) : ok(k) /\ (k = Len(batch) \/ ~ok(k + 1))
  IN IF n < Len(batch) THEN n + 1 ELSE n

\* findSampleNoLaterThan, returned as the number of leading samples whose
\* eventTime is <= t (the code returns that number minus one).
FindSampleNoLaterThan(batch, t) ==
  LET ok(k) == \A j \in 1..k : batch[j].time <= t
  IN CHOOSE k \in 0..Len(batch) : ok(k) /\ (k = Len(batch) \/ ~ok(k + 1))

\* consumeSamples(batch, count): each sample goes through updateTouchState;
\* the first initialises the event, each later one is added to it and
\* chained to its predecessor; the consumed prefix leaves the batch.  A
\* NULL factory result returns before any change.
\* One step of the fold: the touch states and the messages so far, after
\* updateTouchState returned u for the next message.
TouchStep(acc, u) == [touch |-> u.tss, msgs |-> Append(acc.msgs, u.msg)]

\* The event, chain entries and rest of the batch once the first count
\* samples went through updateTouchState with result upd.
SamplesConsumed(batch, count, upd) ==
  [status |-> "OK",
   event  |-> [EventOf(batch[1]) EXCEPT
                 !.seqs = [i \in 1..count |-> batch[i].seq],
                 !.samples = [i \in 1..count |->
                                [t |-> upd.msgs[i].time,
                                 xs |-> upd.msgs[i].xs, res |-> FALSE]]],
   chains |-> [i \in 1..(count - 1) |->
                 [seq |-> batch[i + 1].seq, chain |-> batch[i].seq]],
   rest   |-> SubSeq(batch, count + 1, Len(batch)),
   touch  |-> upd.touch]

ConsumeSamples(batch, count, made) ==
  IF ~made
  THEN [status |-> "NO_MEMORY", event |-> NoEvent, chains |-> <<>>,
        rest |-> batch, touch |-> mTouchStates]
  ELSE SamplesConsumed(batch, count,
         FoldLeft(LAMBDA acc, m : TouchStep(acc, UpdateTouchState(acc.touch, m)),
                  [touch |-> mTouchStates, msgs |-> <<>>],
                  SubSeq(batch, 1, count)))

\* consumeBatch(frameTime): without a frame time the newest batch is drained
\* and removed whatever consumeSamples returns; with one, the newest batch
\* holding a sample no later than frameTime - RESAMPLE_LATENCY gives up that
\* prefix, is removed only once empty, and a successful event is resampled
\* with the batch's next sample, if any, as the future anchor.
\* The batches that hold a sample no later than sampleTime.
ReadyBatches(sampleTime) ==
  {i \in DOMAIN mBatches : FindSampleNoLaterThan(mBatches[i], sampleTime) > 0}

\* Without a frame time: batch i was drained into r and is removed.
BatchDrained(i, r) ==
  [status |-> r.status, event |-> r.event, chains |-> r.chains,
   batches |-> RemoveAt(mBatches, i), touch |-> r.touch]

\* With a frame time: batch i gave up a prefix into r; an empty batch is
\* removed, and rs is what resampling made of r's event.
BatchSplit(i, r, rs) ==
  [status |-> r.status, event |-> rs.ev, chains |-> r.chains,
   batches |-> IF r.rest = <<>> THEN RemoveAt(mBatches, i)
               ELSE [mBatches EXCEPT ![i] = r.rest],
   touch |-> rs.tss]

\* resampleTouchState is called only on success, with the sample left at
\* the head of the batch, if any, as next.
Resampled(r, sampleTime) ==
  IF r.status = "OK"
  THEN ResampleTouchState(r.touch, sampleTime, r.event,
                          IF r.rest = <<>> THEN <<>> ELSE <<Head(r.rest)>>)
  ELSE [tss |-> r.touch, ev |-> r.event]

\* The newest ready batch i gives up the samples no later than sampleTime.
SplitBatch(i, sampleTime, made) ==
  LET r == ConsumeSamples(mBatches[i],
                          FindSampleNoLaterThan(mBatches[i], sampleTime), made)
  IN BatchSplit(i, r, Resampled(r, sampleTime))

ConsumeBatch(ft, made) ==
  LET n == Len(mBatches)
      ready == ReadyBatches(ft - RESAMPLE_LATENCY)
  IN
  IF n = 0 \/ (ft >= 0 /\ ready = {})
  THEN [status |-> "WOULD_BLOCK", event |-> NoEvent, chains |-> <<>>,
        batches |-> mBatches, touch |-> mTouchStates]
  ELSE IF ft < 0
  THEN BatchDrained(n, ConsumeSamples(mBatches[n], Len(mBatches[n]), made))
  ELSE SplitBatch(CHOOSE j \in ready : \A k \in ready : k <= j,
                  ft - RESAMPLE_LATENCY, made)

\* The message an iteration of the consume loop works on: the deferred one,
\* or the one receiveMessage reads.
CanFetch == mMsgDeferred \/ ReceiveStatus(toConsumer, closed) = "OK"
Fetched == IF mMsgDeferred THEN mMsg ELSE Head(toConsumer)
Dequeue == toConsumer' = IF mMsgDeferred THEN toConsumer ELSE Tail(toConsumer)
Fetch == mMsg' = Fetched /\ Dequeue

\* consume() returns status st and hands out event ev (NoEvent: none); the
\* client now owes a finished signal for the event's last seq.
Return(st, ev) ==
  /\ cpc' = "idle"
  /\ callArgs' = NoCall
  /\ result' = st
  /\ IF ev.seqs # <<>>
     THEN /\ outstanding' = outstanding \cup {Last(ev.seqs)}
          /\ delivered' = Append(delivered, ev)
     ELSE UNCHANGED <<outstanding, delivered>>

Continue == UNCHANGED <<cpc, callArgs, result, outstanding, delivered>>

-----------------------------------------------------------------------------
(* InputConsumer::consume, one loop iteration per action                   *)

\* The client calls consume(factory, consumeBatches, frameTime).
Consume(cb, ft) ==
  /\ cpc = "idle"
  /\ cpc' = "loop"
  /\ callArgs' = [cb |-> cb, ft |-> ft]
  /\ UNCHANGED <<pubVars, toConsumer, toPublisher, consVars, result,
                 outstanding, delivered>>

\* receiveMessage fails: unless batches are held (no consumeBatches and
\* only WOULD_BLOCK) one batch is consumed, and the call returns what
\* consumeBatch returned.
ReceiveFailed ==
  LET st == ReceiveStatus(toConsumer, closed)
  IN
  /\ cpc = "loop"
  /\ ~mMsgDeferred
  /\ st # "OK"
  /\ IF callArgs.cb \/ st # "WOULD_BLOCK"
     THEN \E made \in FactoryResults :
            LET r == ConsumeBatch(callArgs.ft, made)
            IN /\ mBatches' = r.batches
               /\ mSeqChains' = mSeqChains \o r.chains
               /\ mTouchStates' = r.touch
               /\ Return(r.status, r.event)
     ELSE /\ Return(st, NoEvent)
          /\ UNCHANGED <<mBatches, mSeqChains, mTouchStates>>
  /\ toConsumer' = IF st = "BAD_VALUE" THEN Tail(toConsumer) ELSE toConsumer
  /\ UNCHANGED <<pubVars, toPublisher, mMsg, mMsgDeferred>>

\* TYPE_BUFFER / TYPE_KEY: the event is built at once.
ConsumeImmediate ==
  /\ cpc = "loop"
  /\ CanFetch
  /\ Fetched.type \in ImmediateTypes
  /\ Fetch
  /\ mMsgDeferred' = FALSE
  /\ \E made \in FactoryResults :
       IF made THEN Return("OK", EventOf(Fetched))
       ELSE Return("NO_MEMORY", NoEvent)
  /\ UNCHANGED <<pubVars, toPublisher, mBatches, mSeqChains, mTouchStates>>

\* A motion that fits the batch of its device is appended; the loop goes on.
AppendToBatch ==
  LET i == FindBatch(Fetched.dev)
  IN
  /\ cpc = "loop"
  /\ CanFetch
  /\ Fetched.type = "Motion"
  /\ i # 0
  /\ CanAddSample(mBatches[i], Fetched)
  /\ mBatches' = [mBatches EXCEPT ![i] = Append(@, Fetched)]
  /\ Fetch
  /\ mMsgDeferred' = FALSE
  /\ UNCHANGED <<pubVars, toPublisher, mSeqChains, mTouchStates>>
  /\ Continue

\* A motion that does not fit its device's batch: the whole batch becomes
\* one event, the batch is removed even if that failed, and the motion is
\* deferred to the next call.
FlushBatchAndDefer ==
  LET i == FindBatch(Fetched.dev)
  IN
  /\ cpc = "loop"
  /\ CanFetch
  /\ Fetched.type = "Motion"
  /\ i # 0
  /\ ~CanAddSample(mBatches[i], Fetched)
  /\ Fetch
  /\ mMsgDeferred' = TRUE
  /\ \E made \in FactoryResults :
       LET r == ConsumeSamples(mBatches[i], Len(mBatches[i]), made)
       IN /\ mBatches' = RemoveAt(mBatches, i)
          /\ mSeqChains' = mSeqChains \o r.chains
          /\ mTouchStates' = r.touch
          /\ Return(r.status, r.event)
  /\ UNCHANGED <<pubVars, toPublisher>>

\* A MOVE or HOVER_MOVE with no batch, under frame pacing, opens a batch.
StartBatch ==
  /\ cpc = "loop"
  /\ CanFetch
  /\ Fetched.type = "Motion"
  /\ FindBatch(Fetched.dev) = 0
  /\ Fetched.action \in BatchedActions
  /\ callArgs.ft >= 0
  /\ mBatches' = Append(mBatches, <<Fetched>>)
  /\ Fetch
  /\ mMsgDeferred' = FALSE
  /\ UNCHANGED <<pubVars, toPublisher, mSeqChains, mTouchStates>>
  /\ Continue

\* Any other motion with no batch is an event on its own, after
\* updateTouchState has recorded (and possibly rewritten) it in mMsg.
ConsumeMotion ==
  /\ cpc = "loop"
  /\ CanFetch
  /\ Fetched.type = "Motion"
  /\ FindBatch(Fetched.dev) = 0
  /\ ~(Fetched.action \in BatchedActions /\ callArgs.ft >= 0)
  /\ Dequeue
  /\ mMsgDeferred' = FALSE
  /\ \E made \in FactoryResults :
       IF made
       THEN LET u == UpdateTouchState(mTouchStates, Fetched)
            IN /\ mMsg' = u.msg
               /\ mTouchStates' = u.tss
               /\ Return("OK", EventOf(u.msg))
       ELSE /\ mMsg' = Fetched
            /\ UNCHANGED mTouchStates
            /\ Return("NO_MEMORY", NoEvent)
  /\ UNCHANGED <<pubVars, toPublisher, mBatches, mSeqChains>>

ConsumeStep ==
  \/ ReceiveFailed
  \/ ConsumeImmediate
  \/ AppendToBatch
  \/ FlushBatchAndDefer
  \/ StartBatch
  \/ ConsumeMotion

-----------------------------------------------------------------------------
(* InputConsumer::sendFinishedSignal                                       *)

\* The walk of mSeqChains from the newest entry to the oldest: the indices
\* of the entries it removes, each one's seq being the chain of the last.
RECURSIVE ResolveFrom(_, _, _, _)
ResolveFrom(chains, i, cur, acc) ==
  IF i = 0 THEN acc
  ELSE IF chains[i].seq = cur
       THEN ResolveFrom(chains, i - 1, chains[i].chain, Append(acc, i))
       ELSE ResolveFrom(chains, i - 1, cur, acc)

\* Mutant: the chain list walked from the oldest entry to the newest.
RECURSIVE ResolveUpFrom(_, _, _, _)
ResolveUpFrom(chains, i, cur, acc) ==
  IF i > Len(chains) THEN acc
  ELSE IF chains[i].seq = cur
       THEN ResolveUpFrom(chains, i + 1, chains[i].chain, Append(acc, i))
       ELSE ResolveUpFrom(chains, i + 1, cur, acc)
ResolveChainForward(chains, seq) == ResolveUpFrom(chains, 1, seq, <<>>)

ResolveChain(chains, seq) == ResolveFrom(chains, Len(chains), seq, <<>>)

\* The entries of the chain list whose index is not in the set removed.
KeepChains(chains, removed) ==
  LET keep == SetToSortSeq(DOMAIN chains \ removed, <)
  IN [k \in 1..Len(keep) |-> chains[keep[k]]]

\* Mutant: the entry of the send that failed is not pushed back.
RebuildChainDropFailed(chainSeqs, seq, unsent) ==
  [k \in 1..(unsent - 1) |->
     LET j == unsent - 1 - k
     IN [seq |-> IF j # 0 THEN chainSeqs[j] ELSE seq,
         chain |-> chainSeqs[j + 1]]]

\* After a failed send, the unsent chain entries (chainSeqs[0..j] in the
\* code, 1..unsent here) are pushed back, newest link last.
RebuildChain(chainSeqs, seq, unsent) ==
  [k \in 1..unsent |->
     LET j == unsent - k
     IN [seq |-> IF j # 0 THEN chainSeqs[j] ELSE seq,
         chain |-> chainSeqs[j + 1]]]

\* Mutant: the chained seqs sent in the order they were resolved.
FinishSendOrderNewestFirst(chainSeqs, seq) == chainSeqs \o <<seq>>

\* The order of the finished signals: chainSeqs[] from its last entry (the
\* oldest coalesced sample) down to its first, then seq itself.
FinishSendOrder(chainSeqs, seq) == Reverse(chainSeqs) \o <<seq>>

\* sendFinishedSignal(seq): the chain is resolved, the signals are sent in
\* FinishSendOrder and stop at the first failure, after which the unsent
\* chain entries are pushed back.
SendFinishedSignal(seq) ==
  LET idx == ResolveChain(mSeqChains, seq)
      n == Len(idx)
      chainSeqs == [k \in 1..n |-> mSeqChains[idx[k]].chain]
      sends == [k \in 1..(n + 1) |->
                  [type |-> "Finished", seq |-> FinishSendOrder(chainSeqs, seq)[k]]]
      ok == SendsAccepted(toPublisher, closed, n + 1)
      unsent == n - ok
  IN
  /\ toPublisher' = toPublisher \o SubSeq(sends, 1, ok)
  /\ mSeqChains' = KeepChains(mSeqChains, ToSet(idx))
                   \o (IF unsent > 0 THEN RebuildChain(chainSeqs, seq, unsent)
                       ELSE <<>>)
  /\ outstanding' = IF ok = n + 1 THEN outstanding \ {seq} ELSE outstanding

\* The client has handled an event and acknowledges it; after a failure it
\* still owes the signal and may try again.
FinishEvent(s) ==
  /\ cpc = "idle"
  /\ s \in outstanding
  /\ SendFinishedSignal(s)
  /\ UNCHANGED <<pubVars, toConsumer, mMsg, mMsgDeferred, mBatches,
                 mTouchStates, cpc, callArgs, result, delivered>>

-----------------------------------------------------------------------------

Init ==
  /\ nextSeq = 1
  /\ now = 0
  /\ closed = FALSE
  /\ finished = <<>>
  /\ toConsumer = <<>>
  /\ toPublisher = <<>>
  /\ mMsg = NoMsg
  /\ mMsgDeferred = FALSE
  /\ mBatches = <<>>
  /\ mSeqChains = <<>>
  /\ mTouchStates = <<>>
  /\ cpc = "idle"
  /\ callArgs = NoCall
  /\ result = "OK"
  /\ outstanding = {}
  /\ delivered = <<>>

Next ==
  \/ \E t \in KeyTypes, d \in Devices : PublishKey(t, d)
  \/ \E d \in Devices, a \in MotionActions, l \in Layouts :
       \E aid \in (IF a \in PointerActions THEN ToSet(l) ELSE {"NONE"}) :
         PublishMotion(d, a, l, aid)
  \/ Tick
  \/ ReceiveFinishedSignal
  \/ ClosePublisher
  \/ \E cb \in BOOLEAN, ft \in FrameTimes : Consume(cb, ft)
  \/ ConsumeStep
  \/ \E s \in outstanding : FinishEvent(s)

\* The consume loop never blocks; the publisher keeps reading its channel;
\* the client keeps calling consume with batches released and keeps
\* finishing what it was handed (the caller's obligations, spec.md 4.4.3
\* and 6).
\* Weak fairness of the loop, WF_vars(ConsumeStep), with its enabling
\* condition written out: <<ConsumeStep>>_vars is enabled exactly when
\* cpc = "loop", since every iteration either reads a message or fails to
\* and, either way, changes the state.  (Spelt out because TLC would
\* otherwise run the whole touch pipeline of consumeBatch to decide it.)
ConsumeLoopFair == []<>(cpc # "loop") \/ []<><<ConsumeStep>>_vars

Fairness ==
  /\ ConsumeLoopFair
  /\ WF_vars(ReceiveFinishedSignal)
  /\ SF_vars(Consume(TRUE, -1))
  /\ \A s \in Seqs : SF_vars(FinishEvent(s))

Spec == Init /\ [][Next]_vars /\ Fairness

-----------------------------------------------------------------------------
(* Properties                                                              *)

Published == 1..(nextSeq - 1)
SeqsOf(msgs) == [i \in DOMAIN msgs |-> msgs[i].seq]

\* The order in which the publisher sees finished signals: those it has
\* read, then those still in the socket.
Wire == finished \o SeqsOf(toPublisher)

\* Every place a published seq can be: in the socket, deferred, batched,
\* chained behind a delivered event, owed by the client, acknowledged.
Holders ==
  SeqsOf(toConsumer)
  \o (IF mMsgDeferred THEN <<mMsg.seq>> ELSE <<>>)
  \o SeqsOf(FlattenSeq(mBatches))
  \o [i \in DOMAIN mSeqChains |-> mSeqChains[i].chain]
  \o SetToSeq(outstanding)
  \o Wire

TypeOK ==
  /\ nextSeq \in 1..(MaxSeq + 1)
  /\ now \in Times
  /\ closed \in BOOLEAN
  /\ finished \in Seq(Seqs)
  /\ toConsumer \in Seq(Message) /\ Len(toConsumer) <= Capacity
  /\ toPublisher \in Seq([type: {"Finished"}, seq: Seqs])
  /\ Len(toPublisher) <= Capacity
  /\ mMsg \in Message \cup {NoMsg}
  /\ mMsgDeferred \in BOOLEAN
  /\ mBatches \in Seq(Seq(Message))
  /\ mSeqChains \in Seq(Chain)
  /\ DOMAIN mTouchStates \subseteq Devices
  /\ cpc \in {"idle", "loop"}
  /\ callArgs \in [cb: BOOLEAN, ft: FrameTimes]
  /\ result \in Statuses
  /\ outstanding \subseteq Seqs
  /\ delivered \in Seq(Event)

\* Every published event is acknowledged exactly once: at any time its seq
\* is held in exactly one place between publishMotionEvent and
\* receiveFinishedSignal (batch flushes, chain rebuilding after a failed
\* send, deferral).
AcksConserved ==
  \A s \in Published :
    Cardinality({i \in DOMAIN Holders : Holders[i] = s}) = 1

\* The seqs chained behind delivered event t, oldest first, found by
\* following the links of mSeqChains back from t.
RECURSIVE ChainBack(_, _)
ChainBack(cur, fuel) ==
  IF fuel = 0 \/ ~\E i \in DOMAIN mSeqChains : mSeqChains[i].seq = cur
  THEN <<>>
  ELSE LET c == (CHOOSE e \in ToSet(mSeqChains) : e.seq = cur).chain
       IN ChainBack(c, fuel - 1) \o <<c>>

\* Refinement mapping: what each outstanding event still owes.
OwedAcks == [t \in outstanding |-> ChainBack(t, MaxSeq) \o <<t>>]

Acks == INSTANCE FinishAcks WITH
          Seqs <- Seqs, MaxLen <- MaxSeq, owed <- OwedAcks, acked <- Wire

\* The finished signals of the samples coalesced into one event reach the
\* publisher oldest first, each once, the event's own seq last, and a failed
\* send leaves exactly the unsent ones owed: the chain list that
\* consumeSamples builds and sendFinishedSignal walks and rebuilds
\* implements FinishAcks.
FinishAcksRefined == Acks!Spec

\* Motion samples of one device reach the client in the order they were
\* published, across batching, frame-paced splitting and deferral.
DeviceOrder ==
  \A d \in Devices :
    LET evs == SelectSeq(delivered,
                         LAMBDA e : e.type = "Motion" /\ e.dev = d)
    IN IsSorted(FlattenSeq([k \in DOMAIN evs |-> evs[k].seqs]), <)

\* When the consume loop finds the channel closed and drained and hands
\* out no event, the call reports DEAD_OBJECT, so that the caller can tell
\* a dead peer from "no input yet" (spec.md 4.2 and 4.4 step 4).
DeadChannelReported ==
  [][ /\ cpc = "loop" /\ cpc' = "idle"
      /\ ~mMsgDeferred /\ toConsumer = <<>> /\ closed
      /\ delivered' = delivered
      => result' = "DEAD_OBJECT" ]_vars

\* The samples the client received from device d, in order, each with the
\* action, acting pointer and pointer ids of its event.
SampleStream(d) ==
  LET evs == SelectSeq(delivered, LAMBDA e : e.type = "Motion" /\ e.dev = d)
  IN FlattenSeq([k \in DOMAIN evs |->
       [j \in DOMAIN evs[k].samples |->
          [evs[k].samples[j] EXCEPT !.xs = [q \in DOMAIN @ |->
                                              <<evs[k].ptrs[q], @[q]>>]]
          @@ [action |-> evs[k].action, aid |-> evs[k].aid]]])

\* The coordinate of pointer p in a sample of SampleStream.
CoordOf(smp, p) == (CHOOSE e \in ToSet(smp.xs) : e[1] = p)[2]
HasPointer(smp, p) == \E e \in ToSet(smp.xs) : e[1] = p

\* The gesture of pointer p goes on from sample i to sample j of stream S:
\* no resample, no DOWN/UP/CANCEL and no POINTER_DOWN/UP of p in between,
\* and p is down in every sample.
Continuous(S, i, j, p) ==
  /\ \A k \in (i + 1)..(j - 1) :
       /\ ~S[k].res
       /\ S[k].action \notin {"DOWN", "UP", "CANCEL"}
       /\ ~(S[k].action \in PointerActions /\ S[k].aid = p)
  /\ \A k \in i..j : HasPointer(S[k], p)

\* Once the client has been shown a resampled position of a finger at time
\* T, a later sample of the same gesture stamped before T shows that same
\* position, never the older raw one (updateTouchState's rewrite of MOVE,
\* POINTER_DOWN/UP, SCROLL and UP, and the order of rewrite and id removal
\* on POINTER_UP, spec.md 4.4.4 and 9).
NoBackwardJump ==
  \A d \in Devices : LET S == SampleStream(d) IN
    \A i, j \in DOMAIN S : \A p \in FingerIds :
      ( /\ i < j /\ S[i].res /\ ~S[j].res /\ S[j].t < S[i].t
        /\ S[j].action # "DOWN"
        /\ ~(S[j].action = "POINTER_DOWN" /\ S[j].aid = p)
        /\ Continuous(S, i, j, p) )
      => RatEq(CoordOf(S[j], p), CoordOf(S[i], p))

\* The samples of every delivered event are in time order: a resampled
\* sample is never stamped before the real samples it follows
\* (consumeBatch's split at frameTime - RESAMPLE_LATENCY, the touch history
\* and resampleTouchState's clamp together).
ResampleNotBeforeSamples ==
  \A k \in DOMAIN delivered :
    IsSorted([j \in DOMAIN delivered[k].samples |-> delivered[k].samples[j].t],
             LAMBDA a, b : a <= b)

\* Every coordinate the client receives is a number: resampling never
\* divides by a zero time delta, also when two samples share a timestamp
\* (resampleTouchState's RESAMPLE_MIN_DELTA checks).
ResampledCoordsFinite ==
  \A k \in DOMAIN delivered : \A j \in DOMAIN delivered[k].samples :
    \A q \in DOMAIN delivered[k].samples[j].xs :
      delivered[k].samples[j].xs[q][2] # 0

\* Every published event is eventually acknowledged to the publisher,
\* unless the channel is closed first.
AllFinished ==
  \A s \in Seqs : (s \in Published) ~> (s \in ToSet(finished) \/ closed)

=============================================================================
