-------------------------- MODULE MCInputTransport --------------------------
(***************************************************************************)
(* Model-checking instance of InputTransport: two devices, pointer layouts *)
(* of one and two contacts, MOVE (batched) and UP (never batched) motions. *)
(***************************************************************************)
EXTENDS InputTransport, TLC

CONSTANTS d1, d2, p1, p2

MCDevices == {d1, d2}
MCOneDevice == {d1}
MCLayouts == {<<p1>>, <<p1, p2>>}
MCOneLayout == {<<p1>>}
MCMotionActions == {"MOVE", "UP"}
MCKeyTypes == {"Key", "Buffer"}
MCOneKey == {"Key"}
MCNoKeys == {}
\* Where the pointers are: nowhere in particular for the transport runs;
\* for touch, at a different place in every event.
MCXFixed(s) == 0
MCXBySeq(s) == 4 * s
MCFingers == {p1, p2}
MCTouchActions == {"DOWN", "MOVE", "POINTER_DOWN", "POINTER_UP", "UP"}

\* Devices are interchangeable for the safety properties.
DeviceSymmetry == Permutations(MCDevices)

\* mMsg is read only while mMsgDeferred holds (receiveMessage overwrites it
\* before any other read), so states differing only in a stale mMsg behave
\* alike and are identified.  The properties checked under this view read
\* only the type, device and seqs of each delivered event, so its
\* coordinates and samples are left out.
StateView ==
  <<nextSeq, now, closed, finished, toConsumer, toPublisher,
    IF mMsgDeferred THEN mMsg ELSE NoMsg, mMsgDeferred, mBatches, mSeqChains,
    mTouchStates, cpc, callArgs, result, outstanding,
    [k \in DOMAIN delivered |-> <<delivered[k].type, delivered[k].dev,
                                  delivered[k].seqs>>]>>

\* The touch run reads all of delivered.  The finished signals (finished,
\* toPublisher, mSeqChains, outstanding) are never read by the publisher's
\* sends or by the consume loop, so states differing only in them have the
\* same touch behaviour and are identified; the stale mMsg is hidden too.
TouchView ==
  <<nextSeq, now, closed, toConsumer, IF mMsgDeferred THEN mMsg ELSE NoMsg,
    mMsgDeferred, mBatches, mTouchStates, cpc, callArgs, result, delivered>>
=============================================================================
