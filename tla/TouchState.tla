----------------------------- MODULE TouchState -----------------------------
(***************************************************************************)
(* Touch history and resampling of InputConsumer (InputTransport.cpp       *)
(* 587-818): updateTouchState, rewriteMessage, resampleTouchState and      *)
(* shouldResampleTool, as operators over a per-device TouchState.  The     *)
(* TouchState and History structs live in InputTransport.h, which is not   *)
(* part of the sources; their small methods (initialize, addHistory,       *)
(* getHistory, initializeFrom, getPointerById) are taken from spec.md 3    *)
(* and 4.4.4.                                                              *)
(*                                                                         *)
(* A pointer is its id (the PointerProperties a layout lists); only the X  *)
(* axis is kept, Y goes through the same code.  Coordinates are exact      *)
(* rationals <<numerator, denominator>> where the code uses float.         *)
(***************************************************************************)
EXTENDS Integers, Sequences, SequencesExt

CONSTANTS
  mResampleTouch,          \* isTouchResamplingEnabled() at construction
  PointerDevices,          \* devices whose source has AINPUT_SOURCE_CLASS_POINTER
  FingerIds,               \* pointers whose tool type is FINGER or UNKNOWN
  RESAMPLE_MIN_DELTA,      \* InputTransport.cpp:46, in the model's time unit
  RESAMPLE_MAX_PREDICTION  \* InputTransport.cpp:50, in the model's time unit

ASSUME mResampleTouch \in BOOLEAN
ASSUME RESAMPLE_MIN_DELTA \in Nat \ {0} /\ RESAMPLE_MAX_PREDICTION \in Nat

-----------------------------------------------------------------------------
(* Exact arithmetic standing in for float                                  *)

Rat(n) == <<n, 1>>
RatEq(a, b) == a[1] * b[2] = b[1] * a[2]
RatLeq(a, b) == a[1] * b[2] <= b[1] * a[2]
RatAdd(a, b) == <<a[1] * b[2] + b[1] * a[2], a[2] * b[2]>>
RatSub(a, b) == <<a[1] * b[2] - b[1] * a[2], a[2] * b[2]>>

\* alpha * a, alpha = num / den with den > 0.
RatScale(num, den, a) == <<num * a[1], den * a[2]>>

\* lerp(a, b, alpha) == a + alpha * (b - a), alpha = num / den.
Lerp(a, b, num, den) == RatAdd(a, RatScale(num, den, RatSub(b, a)))

-----------------------------------------------------------------------------
(* History and TouchState (InputTransport.h, spec.md 3)                    *)

\* History::initializeFrom(msg): the sample's time and the coordinates of
\* each pointer by id (getPointerById).
HistoryFrom(msg) ==
  [t |-> msg.time,
   x |-> [p \in ToSet(msg.ptrs) |->
            msg.xs[CHOOSE i \in DOMAIN msg.ptrs : msg.ptrs[i] = p]]]

\* TouchState::initialize: no history, lastResample at time 0 with no ids.
\* lastResample.x holds the coordinates of the ids in lastResample.ids.
TouchInitialize == [hist |-> <<>>, last |-> [t |-> 0, x |-> <<>>]]

\* TouchState::addHistory: the two-slot ring, newest first (getHistory(0)).
AddHistory(st, msg) == [st EXCEPT !.hist = SubSeq(<<HistoryFrom(msg)>> \o @, 1,
                                                  IF Len(@) >= 1 THEN 2 ELSE 1)]

\* lastResample.ids.remove(id)
RemoveResampleId(st, p) ==
  [st EXCEPT !.last.x = [q \in DOMAIN @ \ {p} |-> @[q]]]

\* lastResample.ids.clear()
ClearResampleIds(st) == [st EXCEPT !.last.x = <<>>]

-----------------------------------------------------------------------------
(* InputConsumer                                                           *)

\* rewriteMessage: each pointer of the message that lastResample knows is
\* given the resampled coordinates.
RewriteMessage(st, msg) ==
  [msg EXCEPT !.xs = [i \in DOMAIN msg.ptrs |->
                        IF msg.ptrs[i] \in DOMAIN st.last.x
                        THEN st.last.x[msg.ptrs[i]] ELSE msg.xs[i]]]

\* Mutant: POINTER_UP forgets the pointer before rewriting the message.
PointerUpRemoveFirst(st, msg) ==
  LET s == RemoveResampleId(st, msg.aid)
  IN [st |-> s, msg |-> RewriteMessage(s, msg)]

\* The POINTER_UP branch: rewrite, then forget the pointer going up.
PointerUp(st, msg) ==
  [st |-> RemoveResampleId(st, msg.aid), msg |-> RewriteMessage(st, msg)]

\* The MOVE branch: record history; a sample older than the last resample
\* is rewritten, otherwise the resample ids are stale and cleared.
Move(st, msg) ==
  LET s == AddHistory(st, msg)
  IN IF msg.time < s.last.t
     THEN [st |-> s, msg |-> RewriteMessage(s, msg)]
     ELSE [st |-> ClearResampleIds(s), msg |-> msg]

\* updateTouchState(msg) on the per-device states tss: returns the new
\* states and the (possibly rewritten) message.
UpdateTouchState(tss, msg) ==
  LET d == msg.dev
      has == d \in DOMAIN tss
      Put(s) == [e \in DOMAIN tss \cup {d} |-> IF e = d THEN s ELSE tss[e]]
      Drop == [e \in DOMAIN tss \ {d} |-> tss[e]]
      Keep == [tss |-> tss, msg |-> msg]
  IN
  IF ~mResampleTouch \/ d \notin PointerDevices THEN Keep
  ELSE CASE msg.action = "DOWN" ->
              [tss |-> Put(AddHistory(TouchInitialize, msg)), msg |-> msg]
         [] msg.action = "MOVE" /\ has ->
              LET r == Move(tss[d], msg) IN [tss |-> Put(r.st), msg |-> r.msg]
         [] msg.action = "POINTER_DOWN" /\ has ->
              LET s == RemoveResampleId(tss[d], msg.aid)
              IN [tss |-> Put(s), msg |-> RewriteMessage(s, msg)]
         [] msg.action = "POINTER_UP" /\ has ->
              LET r == PointerUp(tss[d], msg) IN [tss |-> Put(r.st), msg |-> r.msg]
         [] msg.action = "SCROLL" /\ has ->
              [tss |-> tss, msg |-> RewriteMessage(tss[d], msg)]
         [] msg.action \in {"UP", "CANCEL"} /\ has ->
              [tss |-> Drop, msg |-> RewriteMessage(tss[d], msg)]
         [] OTHER -> Keep

\* shouldResampleTool
ShouldResampleTool(p) == p \in FingerIds

\* Mutant: samples closer than RESAMPLE_MIN_DELTA are resampled too.
TooCloseNever(delta) == FALSE

\* Samples too close in time to resample from.
TooClose(delta) == delta < RESAMPLE_MIN_DELTA

\* The extrapolation branch: at most half the last delta and
\* RESAMPLE_MAX_PREDICTION past the current sample, alpha =
\* (current - sampleTime) / delta, which is <= 0.
Extrapolate(cur, prev, sampleTime) ==
  LET delta == cur.t - prev.t
      maxPredict == cur.t + Min({delta \div 2, RESAMPLE_MAX_PREDICTION})
      t == IF sampleTime > maxPredict THEN maxPredict ELSE sampleTime
  IN [t |-> t, num |-> cur.t - t, den |-> delta]

\* The interpolation branch: alpha = (sampleTime - current) / delta.
Interpolate(cur, future, sampleTime) ==
  [t |-> sampleTime, num |-> sampleTime - cur.t, den |-> future.t - cur.t]

\* resampleTouchState(sampleTime, event, next) on the per-device states
\* tss, next being <<>> or the next sample still in the batch: returns the
\* new states and the event, with the resampled sample appended when some
\* pointer was blended.
ResampleTouchState(tss, sampleTime, ev, next) ==
  LET d == ev.dev
      st == tss[d]
      cur == st.hist[1]
      other == IF next # <<>> THEN HistoryFrom(next[1]) ELSE st.hist[2]
      delta == IF next # <<>> THEN other.t - cur.t ELSE cur.t - other.t
      w == IF next # <<>> THEN Interpolate(cur, other, sampleTime)
           ELSE Extrapolate(cur, other, sampleTime)
      blend(p) == p \in DOMAIN other.x /\ ShouldResampleTool(p)
      x == [p \in ToSet(ev.ptrs) |->
              IF blend(p) THEN Lerp(cur.x[p], other.x[p], w.num, w.den)
              ELSE cur.x[p]]
      st2 == [st EXCEPT !.last = [t |-> w.t, x |-> x]]
      ev2 == IF \E p \in ToSet(ev.ptrs) : blend(p)
             THEN [ev EXCEPT !.samples = Append(@,
                     [t |-> w.t, xs |-> [i \in DOMAIN ev.ptrs |-> x[ev.ptrs[i]]],
                      res |-> TRUE])]
             ELSE ev
  IN
  IF \/ ~mResampleTouch \/ d \notin PointerDevices \/ ev.action # "MOVE"
     \/ d \notin DOMAIN tss \/ st.hist = <<>>
     \/ ~\A p \in ToSet(ev.ptrs) : p \in DOMAIN cur.x
     \/ next = <<>> /\ Len(st.hist) < 2
     \/ TooClose(delta)
  THEN [tss |-> tss, ev |-> ev]
  ELSE [tss |-> [tss EXCEPT ![d] = st2], ev |-> ev2]

==============================================================================
