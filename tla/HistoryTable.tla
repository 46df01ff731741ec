---------------------------- MODULE HistoryTable ----------------------------
(***************************************************************************)
(* The history table: HistoryTableDelegate of                              *)
(* crates/ui/src/history/delegate.rs, the coordinates of geometry.rs it    *)
(* paints a laid out history at, and the table widget's copy of the column *)
(* widths.                                                                 *)
(*                                                                         *)
(* The history handed to the table is the one GraphLayout has laid out,    *)
(* complete; a query is the set of the commits it matches.  Lengths are in *)
(* pixels.                                                                 *)
(***************************************************************************)
EXTENDS GraphLayout, Integers

CONSTANT Queries  \* what can be searched for

ASSUME TableAssumption == Queries \subseteq SUBSET (1 .. MaxCommits)

VARIABLES
  history,  \* the LoadState handed to the delegate
  query,    \* filter.query
  visible,  \* visible_indices
  gutter,   \* graph_width
  column    \* the width the widget gives the graph's column

table == <<history, query, visible, gutter, column>>

LaneSpacing == 12
NodeRadius  == 5
HalfLine    == 1
RowHeight   == 24

----------------------------------------------------------------------------
(* geometry.rs *)

LaneCenter(lane, spacing) == spacing * (lane - 1) + spacing \div 2

GutterWidth(lanes_, spacing) == spacing * Larger(lanes_, 1)

(* Where a row's lines and node are, from its cell's upper left corner. *)
RowGeometry(p, spacing) ==
  LET middle == RowHeight \div 2
      center(lane) == LaneCenter(lane, spacing)
      line(s, y, z) == [top    |-> [x |-> center(s.from), y |-> y],
                        bottom |-> [x |-> center(s.to), y |-> z],
                        color  |-> s.color]
  IN [node     |-> [x |-> center(p.position), y |-> middle],
      color    |-> p.color,
      incoming |-> {line(s, 0, middle) : s \in Elements(p.mapping)},
      outgoing |-> {line(s, middle, RowHeight) : s \in Segments(p)}]

(* Mutant: the columns are as far apart as the whole gutter is wide. *)
GraphCellAtGutterSpacing(p) ==
  RowGeometry(p, gutter)

GraphCell(p) == RowGeometry(p, LaneSpacing)

(* What a cell's strokes and discs cover, left to right. *)
Extents(cell) ==
  {[left |-> cell.node.x - NodeRadius, right |-> cell.node.x + NodeRadius]}
  \cup {[left |-> end.x - HalfLine, right |-> end.x + HalfLine] :
          end \in UNION {{s.top, s.bottom} : s \in cell.incoming \cup cell.outgoing}}

----------------------------------------------------------------------------
(* The delegate *)

Matches(commit, q) == commit \in q

(* recompute_visible, for a history that loads as h and the query q: the
   commits in turn, those that match kept. *)
Matching(h, q) ==
  LET rows[i \in 0 .. Len(placements)] ==
        IF i = 0 THEN <<>>
        ELSE IF Matches(i, q) THEN Append(rows[i - 1], i) ELSE rows[i - 1]
  IN  IF h = "Ready" THEN rows[Len(placements)] ELSE <<>>

(* The graph's column: as wide as the gutter, whatever the user drags. *)
GraphColumn == gutter

TableInit ==
  /\ Init
  /\ history = "Idle" /\ query = 1 .. MaxCommits /\ visible = <<>>
  /\ gutter = LaneSpacing /\ column = LaneSpacing

(* Mutant: the rows are not recomputed for the new history. *)
SetHistoryKeepingRows(h) ==
  /\ history' = h
  /\ gutter' = IF h = "Ready" THEN GutterWidth(width, LaneSpacing) ELSE LaneSpacing
  /\ UNCHANGED visible

SetHistory(h) ==
  /\ history' = h
  /\ gutter' = IF h = "Ready" THEN GutterWidth(width, LaneSpacing) ELSE LaneSpacing
  /\ visible' = Matching(h, query)

(* HistoryPanel's set_history: the widget is told to read the widths again. *)
ShowHistory ==
  /\ row > MaxCommits
  /\ \E h \in {"Loading", "Ready", "Failed"} \ {history} : SetHistory(h)
  /\ column' = GraphColumn'
  /\ UNCHANGED <<vars, query>>

SetQuery ==
  /\ row > MaxCommits
  /\ query' \in Queries \ {query}
  /\ visible' = Matching(history, query')
  /\ column' = GraphColumn
  /\ UNCHANGED <<vars, history, gutter>>

(* Mutant: a row counts the commits of the history, not the visible ones. *)
CommitAtUnfiltered(k) == IF k \in DOMAIN placements THEN k ELSE 0

(* The commit a click on row k is about, 0 for none. *)
CommitAt(k) ==
  IF history = "Ready" /\ k \in DOMAIN visible THEN visible[k] ELSE 0

(* render_td: the commit row k shows and its band of the graph. *)
Cell(k) == [commit |-> visible[k], graph |-> GraphCell(placements[visible[k]])]

TableNext ==
  \/ Next /\ UNCHANGED table
  \/ ShowHistory
  \/ SetQuery

TableSpec == TableInit /\ [][TableNext]_<<vars, table>>

----------------------------------------------------------------------------
(* Properties *)

(* The rows are the matching commits in the history's order, whichever of the
   history and the query came last, and a click asks for the commit the row
   shows. *)
RowsAreTheMatches ==
  history = "Ready" =>
    /\ Elements(visible) = query
    /\ \A k \in 1 .. Len(visible) - 1 : visible[k] < visible[k + 1]
    /\ \A k \in DOMAIN visible : CommitAt(k) = Cell(k).commit

(* "Every branchier repository silently placed lane 1 beyond the cell and
   clipped it away, node and line together": nothing a row paints is outside
   the column it is painted in. *)
NothingIsClipped ==
  \A k \in DOMAIN visible : \A e \in Extents(Cell(k).graph) :
    0 <= e.left /\ e.right <= column

(* Every line of a row ends or starts at its middle, where the line below
   takes over from the one above; a row's lower edge continues in the next
   commit's when both are shown. *)
StrokesJoin ==
  \A k \in DOMAIN visible :
    LET g == Cell(k).graph
    IN /\ {<<s.bottom, s.color>> : s \in {t \in g.incoming : t.bottom # g.node}}
            = {<<s.top, s.color>> : s \in {t \in g.outgoing : t.top # g.node}}
       /\ k < Len(visible) /\ visible[k + 1] = visible[k] + 1 =>
            {<<s.bottom.x, s.color>> : s \in g.outgoing}
              = {<<s.top.x, s.color>> : s \in Cell(k + 1).graph.incoming}

(* The table shows the graph: its rows, its gutter, and its lines. *)
TableShowsTheGraph == RowsAreTheMatches /\ NothingIsClipped /\ StrokesJoin
=============================================================================
