---------------------------- MODULE TilingLayout ----------------------------
(***************************************************************************)
(* TerminalTilingLayoutModel: which tiles and dividers the stage holds, in *)
(* which order, and by which row changes the list announced to Qt Quick    *)
(* becomes the list wanted.  A row that is inserted makes a new tile, with *)
(* a new terminal view; a row that is removed destroys one; a row that is  *)
(* moved or changed keeps its view.                                        *)
(*                                                                         *)
(* Extents are abstracted: a viewport is the number of columns preferred   *)
(* for each number of tiles, and a proportion is whether its divider was   *)
(* moved since the proportions were last even.                             *)
(***************************************************************************)
EXTENDS Naturals, SequencesExt

CONSTANTS
    MaxStaged,      \* DesktopStateModel stages at most six terminals
    ColumnsThatFit  \* how many tiles of the least width fit in the widest viewport

ASSUME LayoutAssumption == MaxStaged \in Nat \ {0} /\ ColumnsThatFit \in Nat \ {0}

LargerOf(m, n) == IF m > n THEN m ELSE n
SmallerOf(m, n) == IF m < n THEN m ELSE n

(* A viewport by its effect: without an extent, narrower than the breakpoint
   for a single column, or wide enough for the counts that layoutPenalty
   prefers, which never exceed the tiles or what fits. *)
Preference == {f \in [1 .. MaxStaged -> 1 .. ColumnsThatFit] : \A n \in DOMAIN f : f[n] <= n}
OneColumn == [n \in 1 .. MaxStaged |-> 1]
Viewport ==
    [extent : {"none", "narrow"}, preferred : {OneColumn}]
      \cup [extent : {"wide"}, preferred : Preference]

AdaptiveColumnCount(count, viewport) ==
    IF count <= 1 \/ viewport.extent = "none" THEN LargerOf(1, count)
    ELSE IF viewport.extent = "narrow" THEN 1
    ELSE viewport.preferred[count]

(* rowsFor: the staged sessions cut into rows. *)
RowsFor(staged, columns) ==
    [r \in 1 .. (Len(staged) + columns - 1) \div columns |->
        SubSeq(staged, (r - 1) * columns + 1, SmallerOf(r * columns, Len(staged)))]

(* buildEntries: the tiles, then the dividers between rows, then those
   between the columns of each row.  In focus mode only the tile of the
   selected session is visible. *)
BuildTiles(staged, selected, focus) ==
    [i \in DOMAIN staged |->
        [id |-> <<"tile", staged[i]>>, visible |-> ~focus \/ staged[i] = selected]]

BuildDividers(rows, focus) ==
    LET divider(id) == [id |-> id, visible |-> ~focus]
        between == [r \in 1 .. LargerOf(Len(rows), 1) - 1 |-> divider(<<"row", r>>)]
        within(r) == [c \in 1 .. Len(rows[r]) - 1 |-> divider(<<"column", r, c>>)]
    IN between \o FlattenSeq([r \in DOMAIN rows |-> within(r)])

(***************************************************************************)
(* synchronizeEntries: target by target, the wanted row is looked for from *)
(* the target on, moved there or inserted, and brought up to date; what is *)
(* left behind the last target is removed.                                 *)
(***************************************************************************)
(* mutant: only the row at the target itself is compared. *)
SourceInPlace(rows, target, id) ==
    IF target <= Len(rows) /\ rows[target].id = id THEN target ELSE 0

Source(rows, target, id) ==
    SelectInSubSeq(rows, target, Len(rows), LAMBDA row : row.id = id)

Place(sync, target, wanted) ==
    LET source == Source(sync.rows, target, wanted.id)
        moved == InsertAt(RemoveAt(sync.rows, source), target, wanted)
    IN IF source = 0
       THEN [sync EXCEPT !.rows = InsertAt(@, target, wanted), !.made = Append(@, wanted.id)]
       ELSE [sync EXCEPT !.rows = moved]

CutTo(count, sync) ==
    [rows |-> SubSeq(sync.rows, 1, count),
     made |-> sync.made,
     gone |-> SubSeq(sync.rows, count + 1, Len(sync.rows))]

Synchronized(rows, wanted) ==
    CutTo(Len(wanted),
          FoldLeft(LAMBDA sync, target : Place(sync, target, wanted[target]),
                   [rows |-> rows, made |-> <<>>],
                   [target \in DOMAIN wanted |-> target]))

(* The layout before anything is staged. *)
NoTiling == [staged |-> <<>>, columns |-> 0, tiles |-> <<>>, dividers |-> <<>>, moved |-> {}]

(* The rows of the tiles brought up to date: the tiles a rebuild makes and
   those it destroys, in order. *)
SessionOf(id) == id[2]

SessionsOf(sync) ==
    [rows |-> sync.rows,
     made |-> [i \in DOMAIN sync.made |-> SessionOf(sync.made[i])],
     gone |-> [i \in DOMAIN sync.gone |-> SessionOf(sync.gone[i].id)]]

TilesFor(tiling, staged, selected, focus) ==
    SessionsOf(Synchronized(tiling.tiles, BuildTiles(staged, selected, focus)))

(* rebuild: the columns follow the viewport; the proportions start even
   again when the columns or the sessions changed (the topology key), and
   are kept, clamped, otherwise. *)
Rebuilt(tiling, tiles, staged, focus, viewport) ==
    LET columns == IF staged = <<>> THEN 0 ELSE AdaptiveColumnCount(Len(staged), viewport)
        rows == IF columns = 0 THEN <<>> ELSE RowsFor(staged, columns)
        sameTopology == columns = tiling.columns /\ staged = tiling.staged
    IN [staged |-> staged,
        columns |-> columns,
        tiles |-> tiles.rows,
        dividers |-> Synchronized(tiling.dividers, BuildDividers(rows, focus)).rows,
        moved |-> IF sameTopology THEN tiling.moved ELSE {}]

(* adjustDivider: a visible divider shifts the two proportions beside it. *)
Movable(tiling) == {tiling.dividers[i].id : i \in {i \in DOMAIN tiling.dividers : tiling.dividers[i].visible}}
=============================================================================
