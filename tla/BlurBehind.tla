------------------------------ MODULE BlurBehind ------------------------------
(***************************************************************************)
(* BlurBehind::setEnabled of src/contour/BlurBehind.cpp: asks the window   *)
(* manager to blur (or stop blurring) the background of a window.          *)
(*                                                                         *)
(* On X11 it interns an atom per property name and changes or deletes the *)
(* property on the window.  Requests go into the xcb output buffer and     *)
(* reach the X server when the buffer is flushed: by xcb_flush, by the     *)
(* round trip of xcb_intern_atom_reply (which flushes before it waits),    *)
(* or by Qt's event loop, which flushes the connection on every turn.      *)
(* On Win32 it sets the accent policy through the undocumented             *)
(* SetWindowCompositionAttribute.  Elsewhere it does nothing.              *)
(***************************************************************************)
EXTENDS Sequences, SequencesExt

CONSTANTS
  Windows,           \* QWindow instances
  Platform,          \* "xcb", "win32" or "other": the #if branch compiled
  HasX11Connection,  \* x11Connection() returns a connection
  InternMayFail,     \* xcb_intern_atom_reply may return NULL
  HasCompositionApi, \* LoadLibrary(user32) and GetProcAddress succeed
  Win32CallMayFail   \* SetWindowCompositionAttribute may return FALSE

ASSUME Platform \in {"xcb", "win32", "other"}

KdeRegion == "_KDE_NET_WM_BLUR_BEHIND_REGION"
MutterHints == "_MUTTER_HINTS"
KwinBlur == "kwin_blur"
PropertyNames == {KdeRegion, MutterHints, KwinBlur}

VARIABLES
  server,     \* properties the X server holds on each window
  pending,    \* requests in the xcb output buffer, oldest first
  accent,     \* the Win32 accent state of each window
  requested,  \* auxiliary: the `enable` of the last call for each window
  lastOk      \* auxiliary: every intern reply of that call was non-NULL

vars == <<server, pending, accent, requested, lastOk>>

Request ==
  [op : {"change", "delete"}, win : Windows, name : PropertyNames]

\* The X server carrying out one request.
Apply(props, req) ==
  [props EXCEPT ![req.win] = IF req.op = "change" THEN @ \cup {req.name}
                                                  ELSE @ \ {req.name}]

\* The client-side view of the connection: server state and output buffer.
Conn == [server |-> server, pending |-> pending]

\* Flushing the output buffer: the server carries out every request in order.
Flushed(c) == [server |-> FoldLeft(Apply, c.server, c.pending), pending |-> <<>>]

Enqueue(c, req) == [c EXCEPT !.pending = Append(@, req)]

\* x11Connection(): NULL without a QGuiApplication or without its X11
\* native interface (a Wayland session), else Qt's connection.
X11Connection == HasX11Connection

\* Seeded fault: the atom looked up without waiting for the reply, so
\* nothing flushes the buffer.
QueryXcbPropertyInfoNoFlush(c, replyOk) ==
  IF ~X11Connection THEN [conn |-> c, ok |-> FALSE]
  ELSE [conn |-> c, ok |-> replyOk]

\* queryXcbPropertyInfo: no connection gives nullopt; otherwise
\* xcb_intern_atom and the waiting xcb_intern_atom_reply, which flushes the
\* buffer first; a NULL reply gives nullopt.
QueryXcbPropertyInfo(c, replyOk) ==
  IF ~X11Connection THEN [conn |-> c, ok |-> FALSE]
  ELSE [conn |-> Flushed(c), ok |-> replyOk]

\* setPropertyX11 (both overloads): xcb_change_property then xcb_flush.
SetPropertyX11(c, w, name, replyOk) ==
  LET q == QueryXcbPropertyInfo(c, replyOk) IN
  IF q.ok THEN Flushed(Enqueue(q.conn, [op |-> "change", win |-> w, name |-> name]))
  ELSE q.conn

\* unsetPropertyX11: xcb_delete_property, left in the buffer (no flush).
UnsetPropertyX11(c, w, name, replyOk) ==
  LET q == QueryXcbPropertyInfo(c, replyOk) IN
  IF q.ok THEN Enqueue(q.conn, [op |-> "delete", win |-> w, name |-> name])
  ELSE q.conn

ReplyOutcomes == IF InternMayFail THEN BOOLEAN ELSE {TRUE}

\* Seeded fault: the disable branch forgets the _MUTTER_HINTS line.
SetEnabledXcbKwinOnly(w, enable) ==
  \E r1, r2 \in ReplyOutcomes :
    LET c == IF enable
               THEN SetPropertyX11(SetPropertyX11(Conn, w, KdeRegion, r1),
                                   w, MutterHints, r2)
               ELSE UnsetPropertyX11(Conn, w, KwinBlur, r1)
    IN /\ server' = c.server
       /\ pending' = c.pending
       /\ lastOk' = [lastOk EXCEPT ![w] = X11Connection /\ r1 /\ r2]
       /\ UNCHANGED accent

\* The CONTOUR_FRONTEND_XCB branch of setEnabled.
SetEnabledXcb(w, enable) ==
  \E r1, r2 \in ReplyOutcomes :
    LET c == IF enable
               THEN SetPropertyX11(SetPropertyX11(Conn, w, KdeRegion, r1),
                                   w, MutterHints, r2)
               ELSE UnsetPropertyX11(UnsetPropertyX11(Conn, w, KwinBlur, r1),
                                     w, MutterHints, r2)
    IN /\ server' = c.server
       /\ pending' = c.pending
       /\ lastOk' = [lastOk EXCEPT ![w] = X11Connection /\ r1 /\ r2]
       /\ UNCHANGED accent

\* The _WIN32 branch: the accent changes only if the API was found and the
\* call succeeded (a failure is only logged); FreeLibrary always follows.
SetEnabledWin32(w, enable) ==
  \E rs \in IF Win32CallMayFail THEN BOOLEAN ELSE {TRUE} :
    /\ accent' = IF HasCompositionApi /\ rs
                   THEN [accent EXCEPT ![w] = IF enable THEN "ACCENT_ENABLE_BLURBEHIND"
                                                        ELSE "ACCENT_DISABLED"]
                   ELSE accent
    /\ lastOk' = [lastOk EXCEPT ![w] = HasCompositionApi /\ rs]
    /\ UNCHANGED <<server, pending>>

\* setEnabled(window, enable, region): region is ignored.
SetEnabled(w, enable) ==
  /\ CASE Platform = "xcb" -> SetEnabledXcb(w, enable)
       [] Platform = "win32" -> SetEnabledWin32(w, enable)
       [] OTHER -> UNCHANGED <<server, pending, accent, lastOk>>
  /\ requested' = [requested EXCEPT ![w] = enable]

\* Qt's event loop flushing the xcb connection (not code of this module).
QtFlush ==
  /\ pending # <<>>
  /\ server' = Flushed(Conn).server
  /\ pending' = <<>>
  /\ UNCHANGED <<accent, requested, lastOk>>

Init ==
  /\ server = [w \in Windows |-> {}]
  /\ pending = <<>>
  /\ accent = [w \in Windows |-> "ACCENT_DISABLED"]
  /\ requested = [w \in Windows |-> FALSE]
  /\ lastOk = [w \in Windows |-> TRUE]

Next ==
  \/ \E w \in Windows, e \in BOOLEAN : SetEnabled(w, e)
  \/ QtFlush

Spec == Init /\ [][Next]_vars /\ WF_vars(QtFlush)

-----------------------------------------------------------------------------

(* Type invariant.  The output buffer holds at most one request: every    *)
(* call starts with an intern round trip that flushes what an earlier     *)
(* call left behind, so only the last delete of a disable is ever held.   *)
TypeOK ==
  /\ server \in [Windows -> SUBSET PropertyNames]
  /\ pending \in BoundedSeq(Request, 1)
  /\ accent \in [Windows -> {"ACCENT_DISABLED", "ACCENT_ENABLE_BLURBEHIND"}]
  /\ requested \in [Windows -> BOOLEAN]
  /\ lastOk \in [Windows -> BOOLEAN]

\* What a compositor blurs on: KWin reads the KDE region, Mutter its hints.
Blurred(w) ==
  IF Platform = "win32" THEN accent[w] = "ACCENT_ENABLE_BLURBEHIND"
  ELSE server[w] \cap {KdeRegion, MutterHints} # {}

(* Turning blur off turns it off: once setEnabled(w, false) was the last   *)
(* call for a window and the connection has been flushed, no compositor    *)
(* finds a blur request on it, whatever windows were toggled in between.   *)
BlurClearedOnDisable ==
  \A w \in Windows : ~requested[w] /\ pending = <<>> => ~Blurred(w)

(* The Mutter half of the above, under failing intern replies: a call     *)
(* whose two round trips both succeeded leaves _MUTTER_HINTS on the window *)
(* exactly when it enabled, once the buffer is flushed.  A call of which   *)
(* one reply failed leaves a half-applied request (setEnabled neither     *)
(* retries nor rolls back); the next fully successful call repairs it,     *)
(* whatever requests of other windows were flushed in between.            *)
MutterHintsFollowLastFullCall ==
  \A w \in Windows :
    lastOk[w] /\ pending = <<>> => (MutterHints \in server[w] <=> requested[w])

(* The buffered delete is not lost: after a disable whose interns         *)
(* succeeded, _MUTTER_HINTS leaves the server eventually unless the window *)
(* is enabled again, although unsetPropertyX11 never calls xcb_flush.      *)
DisableEventuallyReachesServer ==
  \A w \in Windows :
    (~requested[w] /\ lastOk[w]) ~> (requested[w] \/ MutterHints \notin server[w])

==============================================================================
