----------------------------- MODULE FinishAcks -----------------------------
(***************************************************************************)
(* What the consumer side promises about finished signals (spec.md 4.6 and *)
(* 5, "Ordering guarantees"): every event handed to the client owes one    *)
(* finished signal per sample coalesced into it; the signals of one event  *)
(* leave oldest first, each exactly once, and the event's own seq last.    *)
(* A failed send may leave the rest owed for a later attempt.              *)
(***************************************************************************)
EXTENDS Sequences, SequencesExt, Functions

CONSTANTS
  Seqs,     \* sequence numbers
  MaxLen    \* most samples one event can coalesce

VARIABLES
  owed,     \* event's last seq -> seqs whose signal it still owes, in order
  acked     \* seqs whose finished signal has been sent, in order

vars == <<owed, acked>>

Owing == UNION {ToSet(owed[t]) : t \in DOMAIN owed}

Init ==
  /\ owed = [t \in {} |-> <<>>]
  /\ acked = <<>>

\* An event of fresh, distinct samples is handed out; its last seq names it.
Deliver(ev) ==
  /\ ev # <<>>
  /\ IsInjective(ev)
  /\ ToSet(ev) \cap (Owing \cup ToSet(acked)) = {}
  /\ owed' = owed @@ (Last(ev) :> ev)
  /\ UNCHANGED acked

\* The first k owed signals of event t are sent, in order.
Ack(t, k) ==
  /\ acked' = acked \o SubSeq(owed[t], 1, k)
  /\ owed' = IF k = Len(owed[t])
             THEN [u \in DOMAIN owed \ {t} |-> owed[u]]
             ELSE [owed EXCEPT ![t] = SubSeq(@, k + 1, Len(@))]

Next ==
  \/ \E ev \in BoundedSeq(Seqs, MaxLen) : Deliver(ev)
  \/ \E t \in DOMAIN owed : \E k \in 1..Len(owed[t]) : Ack(t, k)

Spec == Init /\ [][Next]_vars

=============================================================================
