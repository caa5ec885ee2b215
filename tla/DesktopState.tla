---------------------------- MODULE DesktopState ----------------------------
(***************************************************************************)
(* DesktopStateModel, and the tiles of TerminalStage.qml and               *)
(* TerminalTile.qml that show it: the bindings of the stage hand every     *)
(* change of the staged sessions, the selection and the mode to the tiling *)
(* layout at once, a row inserted there makes a tile that binds its view,  *)
(* and a row removed destroys one, which detaches its view.                *)
(*   staged, selected, focus   the fields of DesktopStateModel             *)
(*   viewport, tiling          the extents and rows of the tiling layout   *)
(*   made                      the tiles made in the last step             *)
(***************************************************************************)
EXTENDS SurfaceController, TilingLayout

(***************************************************************************)
(* Tiles                                                                   *)
(***************************************************************************)
\* TerminalTile, completed: its view is new, and it binds.
MakeTile(w, s) == Bind([w EXCEPT !.made = @ \cup {s}], s, s)

\* TerminalTile, destroyed: it detaches, and its view goes with its handlers.
DestroyTile(w, s) ==
    LET d == DetachView(Detach(w, s), s)
    IN [d EXCEPT !.wired[s] = 0, !.error = @ \ {s}, !.unheard = @ \ {s}]

\* The layout is rebuilt, and the repeater follows its row changes.
Lay(w, tiles) ==
    LET laid == [w EXCEPT !.tiling = Rebuilt(@, tiles, w.staged, w.focus, w.viewport)]
    IN FoldLeft(DestroyTile, FoldLeft(MakeTile, laid, tiles.made), tiles.gone)

Rebuild(w) == Lay(w, TilesFor(w.tiling, w.staged, w.selected, w.focus))

(***************************************************************************)
(* DesktopStateModel                                                       *)
(***************************************************************************)
Select(w, s) == IF w.selected = s THEN w ELSE Rebuild([w EXCEPT !.selected = s])

StageRefused(w, s) ==
    \/ ~CanRetain(w, s)
    \/ s \notin Range(w.staged) /\ Len(w.staged) >= MaxStaged

StageSession(w, s) ==
    IF StageRefused(w, s) THEN w
    ELSE IF s \in Range(w.staged) THEN Select(w, s)
    ELSE Select(Rebuild([w EXCEPT !.staged = Append(@, s)]), s)

ExitFocusMode(w) == IF w.focus THEN Rebuild([w EXCEPT !.focus = FALSE]) ELSE w

ToggleFocus(w) ==
    IF w.focus THEN ExitFocusMode(w)
    ELSE IF w.selected = None THEN w
    ELSE Rebuild([w EXCEPT !.focus = TRUE])

\* What follows when a session has left: the first of the others is selected in
\* its place, and the focus mode ends with the last.
SelectAnother(w, s) ==
    IF w.selected = s THEN Select(w, IF w.staged = <<>> THEN None ELSE Head(w.staged)) ELSE w

LeaveEmpty(w) == IF w.staged = <<>> THEN ExitFocusMode(w) ELSE w

Without(w, s) == Rebuild([w EXCEPT !.staged = RemoveFirst(@, s)])

\* mutant: the selection stays on the session that left the stage.
UnstageForgetting(w, s) ==
    IF s \notin Range(w.staged) THEN w ELSE LeaveEmpty(Without(w, s))

UnstageSession(w, s) ==
    IF s \notin Range(w.staged) THEN w ELSE LeaveEmpty(SelectAnother(Without(w, s), s))

ClearSessions(w) == Rebuild([w EXCEPT !.staged = <<>>, !.selected = None, !.focus = FALSE])

\* reconcile: what the catalog no longer lets the stage retain leaves it.
DesktopReconcile(w) ==
    LET keep(u, s) == IF CanRetain(u, s) THEN u ELSE UnstageSession(u, s)
    IN IF Authoritative(w) THEN FoldLeft(keep, w, w.staged) ELSE w
=============================================================================
