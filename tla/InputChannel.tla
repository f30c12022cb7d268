---------------------------- MODULE InputChannel ----------------------------
(***************************************************************************)
(* The wire-level part of InputTransport.cpp: the validity gate of          *)
(* InputMessage and the status codes InputChannel::sendMessage and          *)
(* receiveMessage return on one endpoint of the non-blocking socket pair.   *)
(*                                                                         *)
(* A direction of the socket pair is a sequence of messages.  The socket   *)
(* buffer holds at most Capacity messages; a send into a full buffer is    *)
(* EAGAIN (WOULD_BLOCK), a send to a closed peer EPIPE (DEAD_OBJECT), and  *)
(* a read of an empty buffer EAGAIN, or end-of-file once the peer has      *)
(* closed.  EINTR is retried inside the call and never seen by a caller.   *)
(***************************************************************************)
EXTENDS Naturals, Sequences

CONSTANTS
  Capacity,       \* messages the socket buffer of one direction can hold
  MAX_POINTERS    \* pointer slots of a motion message

ASSUME Capacity \in Nat \ {0}
ASSUME MAX_POINTERS \in Nat \ {0}

\* The status_t values the transport returns.
Statuses == {"OK", "WOULD_BLOCK", "DEAD_OBJECT", "BAD_VALUE",
             "NO_MEMORY", "UNKNOWN_ERROR"}

\* InputMessage::isValid: a message read with the right size is valid
\* unless it is a motion with no pointer or more than MAX_POINTERS.
IsValid(m) ==
  m.type = "Motion" => (Len(m.ptrs) > 0 /\ Len(m.ptrs) <= MAX_POINTERS)

\* InputChannel::sendMessage on a direction q whose reader may have closed.
SendStatus(q, peerClosed) ==
  CASE peerClosed           -> "DEAD_OBJECT"
    [] Len(q) >= Capacity   -> "WOULD_BLOCK"
    [] OTHER                -> "OK"

\* Mutant: a full socket buffer is not reported as WOULD_BLOCK.
SendsAcceptedUnbounded(q, peerClosed, k) == IF peerClosed THEN 0 ELSE k

\* The number of consecutive sendMessage calls that succeed when k messages
\* are sent one after another into q: they stop at the first failure.
SendsAccepted(q, peerClosed, k) ==
  IF peerClosed THEN 0
  ELSE IF k <= Capacity - Len(q) THEN k ELSE Capacity - Len(q)

\* InputChannel::receiveMessage on a direction q whose writer may have
\* closed: queued messages are read before end-of-file is seen.
ReceiveStatus(q, peerClosed) ==
  CASE q # <<>> /\ IsValid(Head(q))  -> "OK"
    [] q # <<>>                       -> "BAD_VALUE"
    [] peerClosed                     -> "DEAD_OBJECT"
    [] OTHER                          -> "WOULD_BLOCK"

=============================================================================
