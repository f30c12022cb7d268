---------------------------- MODULE AbstractShell ----------------------------
(***************************************************************************)
(* mir::shell::AbstractShell (src/server/shell/abstract_shell.cpp): the    *)
(* focus it keeps (focus_session, focus_surface, both weak pointers) and   *)
(* what it does on the seat, the input targeter, the surfaces and the      *)
(* session coordinator when focus moves, together with the session and     *)
(* surface operations that change what can be focused.                    *)
(*                                                                         *)
(* set_focus_to and focus_next_session hold focus_mutex for their whole    *)
(* body and are one action each.  modify_surface (for a confine_pointer    *)
(* change) and the focus observer's update_focused_surface_confined_region *)
(* read the focus and then, later, set the seat's confinement: each is     *)
(* two actions of the calling thread.  The window manager (not in the     *)
(* sources) is the environment: it decides when to call set_focus_to and   *)
(* focus_next_session, and it applies a surface's new confine state.      *)
(* The session coordinator keeps the open sessions in opening order and    *)
(* successor_of walks that list round (DefaultSessionContainer, not in     *)
(* the sources).  A surface's object is freed when its last reference      *)
(* goes, at a time the shell does not control; a weak pointer to it then   *)
(* locks to null.  Sessions outlive every call here.                      *)
(***************************************************************************)
EXTENDS Naturals, Sequences, SequencesExt

CONSTANTS
  Sessions,      \* client sessions
  SurfaceOrder,  \* every surface, in the order of their ids
  Owner,         \* surface -> the session it belongs to
  Threads,       \* IPC and compositor threads calling in
  NoSession,     \* a null std::shared_ptr<ms::Session>
  NoSurface      \* a null std::shared_ptr<ms::Surface>

Surfaces == ToSet(SurfaceOrder)

ASSUME Owner \in [Surfaces -> Sessions]
ASSUME NoSession \notin Sessions /\ NoSurface \notin Surfaces

VARIABLES
  ring,          \* the session coordinator's open sessions, in opening order
  opened,        \* sessions ever opened
  live,          \* surfaces created and not yet removed
  gone,          \* surfaces removed by the window manager
  freed,         \* removed surfaces whose object no longer exists
  confined,      \* surfaces whose confine state is mir_pointer_confined_to_window
  focusSession,  \* focus_session
  focusSurface,  \* focus_surface (what the weak pointer points at)
  focused,       \* surfaces whose focus attribute is focused
  observed,      \* surfaces carrying focus_surface_observer
  target,        \* the input targeter's focus
  region,        \* the seat's confinement: the input bounds of a surface, or none
  coordFocus,    \* the session coordinator's focus
  pc             \* thread -> its step in modify_surface or the observer callback

vars == <<ring, opened, live, gone, freed, confined, focusSession, focusSurface,
          focused, observed, target, region, coordFocus, pc>>

focusVars == <<focusSession, focusSurface, focused, observed, target, region,
               coordFocus>>

Idle == [op |-> "idle", surf |-> NoSurface]

Init ==
  /\ ring = <<>>
  /\ opened = {}
  /\ live = {}
  /\ gone = {}
  /\ freed = {}
  /\ confined = {}
  /\ focusSession = NoSession
  /\ focusSurface = NoSurface
  /\ focused = {}
  /\ observed = {}
  /\ target = NoSurface
  /\ region = NoSurface
  /\ coordFocus = NoSession
  /\ pc = [t \in Threads |-> Idle]

\* weak_ptr<Surface>::lock()
Lock(s) == IF s \in freed THEN NoSurface ELSE s

\* Session::default_surface(): the session's surface with the lowest id.
DefaultSurface(sess) ==
  LET mine == SelectSeq(SurfaceOrder, LAMBDA s : s \in live /\ Owner[s] = sess)
  IN IF mine = <<>> THEN NoSurface ELSE Head(mine)

\* successor_of: the session after sess in the list, round; for no session,
\* the last one opened.
SuccessorOf(sess) ==
  IF ring = <<>> THEN NoSession
  ELSE IF sess = NoSession THEN Last(ring)
  ELSE LET k == CHOOSE i \in DOMAIN ring : ring[i] = sess
       IN ring[(k % Len(ring)) + 1]

\* Mutant: the old surface is not unfocused and keeps the observer.
SetFocusToLockedKeepOld(sess, surf) ==
  LET cur == Lock(focusSurface)
      Add(set) == set \cup (IF surf = NoSurface THEN {} ELSE {surf})
  IN
  /\ IF surf # cur
     THEN /\ focusSurface' = surf
          /\ region' = IF surf # NoSurface /\ surf \in confined THEN surf ELSE NoSurface
          /\ focused' = Add(focused)
          /\ observed' = Add(observed)
          /\ target' = surf
     ELSE UNCHANGED <<focusSurface, region, focused, observed, target>>
  /\ IF sess # focusSession
     THEN /\ focusSession' = sess
          /\ coordFocus' = sess
     ELSE UNCHANGED <<focusSession, coordFocus>>

\* set_focus_to_locked: a new surface takes the focus from the current one
\* (if its object is still there): the seat's confinement is reset and set
\* again for a confined surface, the old surface is unfocused and loses the
\* observer, the new one is given to the input targeter, focused and
\* observed.  A new session is given to the session coordinator.
SetFocusToLocked(sess, surf) ==
  LET cur == Lock(focusSurface)
      Swap(set) == (set \ {cur}) \cup (IF surf = NoSurface THEN {} ELSE {surf})
  IN
  /\ IF surf # cur
     THEN /\ focusSurface' = surf
          /\ region' = IF surf # NoSurface /\ surf \in confined THEN surf ELSE NoSurface
          /\ focused' = Swap(focused)
          /\ observed' = Swap(observed)
          /\ target' = surf
     ELSE UNCHANGED <<focusSurface, region, focused, observed, target>>
  /\ IF sess # focusSession
     THEN /\ focusSession' = sess
          /\ coordFocus' = sess
     ELSE UNCHANGED <<focusSession, coordFocus>>

\* open_session: the coordinator opens the session and the window manager
\* is told of it.
OpenSession(sess) ==
  /\ sess \notin opened
  /\ opened' = opened \cup {sess}
  /\ ring' = Append(ring, sess)
  /\ UNCHANGED <<live, gone, freed, confined, focusVars, pc>>

\* close_session: every surface of the session is removed through the
\* window manager, then the coordinator closes the session.  Focus is left
\* to the window manager.
CloseSession(sess) ==
  /\ sess \in ToSet(ring)
  /\ live' = {s \in live : Owner[s] # sess}
  /\ gone' = gone \cup {s \in live : Owner[s] = sess}
  /\ ring' = SelectSeq(ring, LAMBDA x : x # sess)
  /\ UNCHANGED <<opened, freed, confined, focusVars, pc>>

\* create_surface: the window manager places the surface and builds it in
\* its session; ids are handed out in order.  Its parameters may ask for
\* the pointer to be confined.
CreateSurface(s) ==
  /\ Owner[s] \in ToSet(ring)
  /\ s \notin live \cup gone
  /\ \A i, j \in DOMAIN SurfaceOrder :
       SurfaceOrder[i] = s /\ j < i /\ Owner[SurfaceOrder[j]] = Owner[s]
         => SurfaceOrder[j] \in live \cup gone
  /\ live' = live \cup {s}
  /\ \E c \in BOOLEAN : confined' = IF c THEN confined \cup {s} ELSE confined \ {s}
  /\ UNCHANGED <<ring, opened, gone, freed, focusVars, pc>>

\* Mutant: the surface is recorded as removed but left among the live ones.
DestroySurfaceKeepsLive(s) ==
  /\ s \in live
  /\ gone' = gone \cup {s}
  /\ UNCHANGED <<ring, opened, live, freed, confined, focusVars, pc>>

\* destroy_surface: the window manager removes the surface.
DestroySurface(s) ==
  /\ s \in live
  /\ live' = live \ {s}
  /\ gone' = gone \cup {s}
  /\ UNCHANGED <<ring, opened, freed, confined, focusVars, pc>>

\* The last reference to a removed surface goes and its object is freed.
FreeSurface(s) ==
  /\ s \in gone \ freed
  /\ freed' = freed \cup {s}
  /\ UNCHANGED <<ring, opened, live, gone, confined, focusVars, pc>>

\* set_focus_to, as the window manager calls it: a live surface with its
\* session, or nothing.
SetFocusTo(sess, surf) ==
  /\ \/ sess = NoSession /\ surf = NoSurface
     \/ surf \in live /\ sess = Owner[surf]
  /\ SetFocusToLocked(sess, surf)
  /\ UNCHANGED <<ring, opened, live, gone, freed, confined, pc>>

\* Mutant: the walk stops at the end of the session list instead of
\* coming round to the sentinel.
FocusNextSessionNoWrap ==
  /\ focusSession = NoSession \/ focusSession \in ToSet(ring)
  /\ LET first == SuccessorOf(focusSession)
         k == IF first = NoSession THEN 0 ELSE CHOOSE i \in DOMAIN ring : ring[i] = first
         rest == IF first = NoSession THEN <<>> ELSE SubSeq(ring, k, Len(ring))
         withSurface == SelectSeq(rest, LAMBDA x : DefaultSurface(x) # NoSurface)
         next == IF withSurface = <<>> THEN NoSession ELSE Head(withSurface)
     IN SetFocusToLocked(next, IF next = NoSession THEN NoSurface ELSE DefaultSurface(next))
  /\ UNCHANGED <<ring, opened, live, gone, freed, confined, pc>>

\* focus_next_session: from the session after the focused one, the first
\* session round the list that has a default surface, or nothing when none
\* has.  successor_of throws for a focused session already closed.
FocusNextSession ==
  /\ focusSession = NoSession \/ focusSession \in ToSet(ring)
  /\ LET first == SuccessorOf(focusSession)
         k == IF first = NoSession THEN 0 ELSE CHOOSE i \in DOMAIN ring : ring[i] = first
         round == [i \in DOMAIN ring |-> ring[((k - 1 + i - 1) % Len(ring)) + 1]]
         withSurface == SelectSeq(round, LAMBDA x : DefaultSurface(x) # NoSurface)
         next == IF withSurface = <<>> THEN NoSession ELSE Head(withSurface)
     IN SetFocusToLocked(next, IF next = NoSession THEN NoSurface ELSE DefaultSurface(next))
  /\ UNCHANGED <<ring, opened, live, gone, freed, confined, pc>>

\* modify_surface with a confine_pointer change: the window manager applies
\* the new state, then focused_surface() (under focus_mutex) is compared
\* with the surface.
ModifyConfine(t, s, c) ==
  /\ pc[t] = Idle
  /\ s \in live
  /\ confined' = IF c THEN confined \cup {s} ELSE confined \ {s}
  /\ pc' = [pc EXCEPT ![t] = IF Lock(focusSurface) = s
                             THEN [op |-> "modify", surf |-> s] ELSE Idle]
  /\ UNCHANGED <<ring, opened, live, gone, freed, focusVars>>

\* modify_surface, after the check: the seat is confined to the surface or
\* its confinement reset, by the surface's confine state now.
ModifyApply(t) ==
  /\ pc[t].op = "modify"
  /\ region' = IF pc[t].surf \in confined THEN pc[t].surf ELSE NoSurface
  /\ pc' = [pc EXCEPT ![t] = Idle]
  /\ UNCHANGED <<ring, opened, live, gone, freed, confined, focusSession,
                 focusSurface, focused, observed, target, coordFocus>>

\* A surface carrying the focus observer is moved or resized (on any
\* thread): update_focused_surface_confined_region locks focus_surface,
\* without focus_mutex, and finds it confined.
SurfaceMoved(t, s) ==
  /\ pc[t] = Idle
  /\ s \in observed \ freed
  /\ LET cur == Lock(focusSurface)
     IN pc' = [pc EXCEPT ![t] = IF cur # NoSurface /\ cur \in confined
                                THEN [op |-> "confine", surf |-> cur] ELSE Idle]
  /\ UNCHANGED <<ring, opened, live, gone, freed, confined, focusVars>>

\* ... and then confines the seat to that surface's input bounds.
ConfineApply(t) ==
  /\ pc[t].op = "confine"
  /\ region' = pc[t].surf
  /\ pc' = [pc EXCEPT ![t] = Idle]
  /\ UNCHANGED <<ring, opened, live, gone, freed, confined, focusSession,
                 focusSurface, focused, observed, target, coordFocus>>

Next ==
  \/ \E sess \in Sessions : OpenSession(sess) \/ CloseSession(sess)
  \/ \E s \in Surfaces : CreateSurface(s) \/ DestroySurface(s) \/ FreeSurface(s)
  \/ FocusNextSession
  \/ \E sess \in Sessions \cup {NoSession}, s \in Surfaces \cup {NoSurface} :
       SetFocusTo(sess, s)
  \/ \E t \in Threads :
       \/ \E s \in Surfaces, c \in BOOLEAN : ModifyConfine(t, s, c)
       \/ \E s \in Surfaces : SurfaceMoved(t, s)
       \/ ModifyApply(t)
       \/ ConfineApply(t)

Spec == Init /\ [][Next]_vars

-----------------------------------------------------------------------------
(* Properties                                                              *)

TypeOK ==
  /\ ring \in Seq(Sessions) /\ ToSet(ring) \subseteq opened
  /\ opened \subseteq Sessions
  /\ live \cup gone \subseteq Surfaces /\ live \cap gone = {}
  /\ freed \subseteq gone
  /\ confined \subseteq Surfaces
  /\ focusSession \in Sessions \cup {NoSession}
  /\ coordFocus \in Sessions \cup {NoSession}
  /\ focusSurface \in Surfaces \cup {NoSurface}
  /\ target \in Surfaces \cup {NoSurface}
  /\ region \in Surfaces \cup {NoSurface}
  /\ focused \cup observed \subseteq Surfaces
  /\ pc \in [Threads -> [op : {"idle", "modify", "confine"},
                          surf : Surfaces \cup {NoSurface}]]

\* While the focused surface's object exists, set_focus_to_locked keeps
\* every record of focus on it alone: it belongs to the focused session,
\* which the session coordinator also has; no other surface that still
\* exists is marked focused, carries the focus observer or is the input
\* targeter's focus.
FocusConsistent ==
  /\ coordFocus = focusSession
  /\ Lock(focusSurface) # NoSurface => Owner[focusSurface] = focusSession
  /\ \A s \in Surfaces \ freed :
       s \in focused \/ s \in observed \/ target = s => s = focusSurface

\* focus_next_session leaves focus on a surface that is there whenever an
\* open session has one: the walk from the successor of the focused session
\* goes all the way round the session list.
NextSessionFindsSurface ==
  [][FocusNextSession /\ (\E s \in live : Owner[s] \in ToSet(ring))
       => focusSurface' \in live]_vars

\* When no thread is part way through modify_surface or the focus
\* observer's callback, the seat confines the pointer only to the focused
\* surface, and only when that surface asks to be confined.
ConfinementFollowsFocus ==
  (\A t \in Threads : pc[t] = Idle)
    => (region # NoSurface => region = focusSurface /\ region \in confined)

=============================================================================
