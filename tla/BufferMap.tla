------------------------------ MODULE BufferMap ------------------------------
(***************************************************************************)
(* mir::compositor::BufferMap (src/server/compositor/buffer_map.cpp): the  *)
(* map from buffer id to (buffer, owner) kept under one mutex, and the     *)
(* calls it makes on the frontend's BufferSink (add_buffer, error_buffer,  *)
(* remove_buffer, update_buffer) through a weak pointer.                   *)
(*                                                                         *)
(* remove_buffer and receive_buffer run wholly under the mutex, sink call *)
(* included, and are one atomic action each.  send_buffer unlocks before  *)
(* it calls the sink, and add_buffer's lock dies with its try block, so a *)
(* throwing sink's error_buffer comes after the unlock: each is two        *)
(* actions of the calling thread, the locked part and the sink call made  *)
(* later.  A buffer is named by its id; the sink is the sequence of calls  *)
(* it has received, a call that threw included.                           *)
(***************************************************************************)
EXTENDS Naturals, Sequences, SequencesExt

CONSTANTS
  Ids,            \* buffer ids (mg::BufferID), each allocated once
  Threads,        \* threads calling into the map (IPC and compositor)
  NoBuffer,       \* a null std::shared_ptr<mg::Buffer>
  MaxSends,       \* bound on send_buffer calls
  SinkMayThrow,   \* BufferSink::add_buffer may throw
  SinkMayExpire   \* the sink may be destroyed while the map lives

ASSUME NoBuffer \notin Ids
ASSUME MaxSends \in Nat
ASSUME SinkMayThrow \in BOOLEAN /\ SinkMayExpire \in BOOLEAN

VARIABLES
  buffers,    \* the std::map: id -> [buf, owner]
  sinkAlive,  \* sink.lock() succeeds
  sinkLog,    \* the calls the sink received, in order: [op, id]
  added,      \* ids handed to add_buffer so far
  pc,         \* thread -> "idle", "update" (send_buffer past its unlock) or
              \* "error" (add_buffer unwinding past its unlock)
  held,       \* thread -> the buffer it holds past the unlock
  sends       \* send_buffer calls so far

vars == <<buffers, sinkAlive, sinkLog, added, pc, held, sends>>

Owners == {"server", "client"}
SinkOps == {"add", "error", "remove", "update"}

\* A call on the sink, made only if sink.lock() succeeds.
Notify(op, id) ==
  sinkLog' = IF sinkAlive THEN Append(sinkLog, [op |-> op, id |-> id])
             ELSE sinkLog

Init ==
  /\ buffers = [i \in {} |-> [buf |-> NoBuffer, owner |-> "server"]]
  /\ sinkAlive = TRUE
  /\ sinkLog = <<>>
  /\ added = {}
  /\ pc = [t \in Threads |-> "idle"]
  /\ held = [t \in Threads |-> NoBuffer]
  /\ sends = 0

\* add_buffer's try block, under lk: the entry is stored, owned by the
\* client, and the sink's add_buffer called.  When that throws, lk is
\* destroyed as the exception leaves the block, and the entry stays.
AddBuffer(t, id) ==
  /\ pc[t] = "idle"
  /\ id \notin added
  /\ added' = added \cup {id}
  /\ buffers' = buffers @@ (id :> [buf |-> id, owner |-> "client"])
  /\ Notify("add", id)
  /\ \/ UNCHANGED <<pc, held>>
     \/ /\ SinkMayThrow /\ sinkAlive
        /\ pc' = [pc EXCEPT ![t] = "error"]
        /\ held' = [held EXCEPT ![t] = id]
  /\ UNCHANGED <<sinkAlive, sends>>

\* add_buffer's catch block, without the mutex: the sink (if it is still
\* there) is told of the error, and the exception rethrown.
AddError(t) ==
  /\ pc[t] = "error"
  /\ Notify("error", held[t])
  /\ pc' = [pc EXCEPT ![t] = "idle"]
  /\ held' = [held EXCEPT ![t] = NoBuffer]
  /\ UNCHANGED <<buffers, sinkAlive, added, sends>>

\* remove_buffer: checked_buffers_find throws logic_error for an unknown
\* id; otherwise the sink is told and the entry erased.
RemoveBuffer(t, id) ==
  /\ pc[t] = "idle"
  /\ id \in DOMAIN buffers
  /\ Notify("remove", id)
  /\ buffers' = [i \in DOMAIN buffers \ {id} |-> buffers[i]]
  /\ UNCHANGED <<sinkAlive, added, pc, held, sends>>

\* Mutant: the locked part of send_buffer goes on without finding the id.
SendLockedUnchecked(t, id) ==
  /\ pc[t] = "idle"
  /\ sends < MaxSends
  /\ sends' = sends + 1
  /\ pc' = [pc EXCEPT ![t] = "update"]
  /\ held' = [held EXCEPT ![t] = id]
  /\ buffers' = IF id \in DOMAIN buffers
                THEN [buffers EXCEPT ![id].owner = "client"] ELSE buffers
  /\ UNCHANGED <<sinkAlive, sinkLog, added>>

\* send_buffer up to lk.unlock(): a known buffer passes to the client and
\* the thread keeps a reference to it; an unknown id does nothing.
SendLocked(t, id) ==
  /\ pc[t] = "idle"
  /\ sends < MaxSends
  /\ sends' = sends + 1
  /\ IF id \in DOMAIN buffers
     THEN /\ buffers' = [buffers EXCEPT ![id].owner = "client"]
          /\ held' = [held EXCEPT ![t] = buffers[id].buf]
          /\ pc' = [pc EXCEPT ![t] = "update"]
     ELSE UNCHANGED <<buffers, held, pc>>
  /\ UNCHANGED <<sinkAlive, sinkLog, added>>

\* send_buffer after the unlock: the sink is told to update the buffer.
SendNotify(t) ==
  /\ pc[t] = "update"
  /\ Notify("update", held[t])
  /\ pc' = [pc EXCEPT ![t] = "idle"]
  /\ held' = [held EXCEPT ![t] = NoBuffer]
  /\ UNCHANGED <<buffers, sinkAlive, added, sends>>

\* Mutant: receive_buffer indexes the map (buffers[id]), inserting an empty
\* entry for an unknown id.
ReceiveBufferByIndex(t, id) ==
  /\ pc[t] = "idle"
  /\ buffers' = IF id \in DOMAIN buffers
                THEN [buffers EXCEPT ![id].owner = "server"]
                ELSE buffers @@ (id :> [buf |-> NoBuffer, owner |-> "server"])
  /\ UNCHANGED <<sinkAlive, sinkLog, added, pc, held, sends>>

\* receive_buffer: a known buffer comes back to the server.
ReceiveBuffer(t, id) ==
  /\ pc[t] = "idle"
  /\ id \in DOMAIN buffers
  /\ buffers' = [buffers EXCEPT ![id].owner = "server"]
  /\ UNCHANGED <<sinkAlive, sinkLog, added, pc, held, sends>>

\* The frontend drops the sink; later sink.lock() calls fail.
SinkExpire ==
  /\ SinkMayExpire
  /\ sinkAlive
  /\ sinkAlive' = FALSE
  /\ UNCHANGED <<buffers, sinkLog, added, pc, held, sends>>

Next ==
  \/ \E t \in Threads, id \in Ids :
       \/ AddBuffer(t, id)
       \/ RemoveBuffer(t, id)
       \/ SendLocked(t, id)
       \/ ReceiveBuffer(t, id)
  \/ \E t \in Threads : SendNotify(t) \/ AddError(t)
  \/ SinkExpire

Spec == Init /\ [][Next]_vars

-----------------------------------------------------------------------------
(* Properties                                                              *)

TypeOK ==
  /\ DOMAIN buffers \subseteq Ids
  /\ \A i \in DOMAIN buffers : buffers[i].buf \in Ids /\ buffers[i].owner \in Owners
  /\ sinkLog \in Seq([op: SinkOps, id: Ids])
  /\ pc \in [Threads -> {"idle", "update", "error"}]
  /\ sends \in 0..MaxSends

\* The sink's calls about buffer i, in order.
CallsAbout(i) == SelectSeq(sinkLog, LAMBDA e : e.id = i)

\* What the sink was last told of buffer i before its k-th call: "add",
\* "error", "remove", or "none".
StatusBefore(k, i) ==
  LET life == {j \in 1..(k - 1) : sinkLog[j].id = i /\ sinkLog[j].op # "update"}
  IN IF life = {} THEN "none" ELSE sinkLog[Max(life)].op

\* However the threads interleave, the sink hears of a buffer first through
\* add_buffer, and is told of it being added, failing and removed at most
\* once each: no update or remove of a buffer the map never took in
\* (send_buffer's find, remove_buffer's checked find, both under the mutex
\* that add_buffer's insert holds), and of two threads removing the same
\* buffer only one reaches the sink.  What follows a remove or an error is
\* not constrained here: see UpdateOnlyAnnounced.
SinkLifecycle ==
  \A i \in Ids :
    LET calls == CallsAbout(i)
        Count(op) == Len(SelectSeq(calls, LAMBDA e : e.op = op))
    IN calls # <<>> =>
         /\ calls[1].op = "add"
         /\ \A op \in {"add", "error", "remove"} : Count(op) <= 1

\* The sink is told to update only a buffer it was told to add and has not
\* been told to remove since: once remove_buffer has returned, the client
\* hears nothing more of that buffer.
UpdateOnlyAnnounced ==
  \A k \in DOMAIN sinkLog :
    sinkLog[k].op = "update" => StatusBefore(k, sinkLog[k].id) = "add"

=============================================================================
