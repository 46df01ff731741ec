---------------------------- MODULE GraphLayout ----------------------------
(***************************************************************************)
(* The column layout of the commit graph: layout and assemble of           *)
(* crates/graph/src/layout.rs, one action per turn of their loops.         *)
(*                                                                         *)
(* Commit i is the one in row i; the walk lists a commit before its        *)
(* parents.  The loops read no commit before its row, so its parents are   *)
(* chosen when the row is reached.  Columns count from 1, 0 is none.       *)
(***************************************************************************)
EXTENDS Naturals, Sequences

CONSTANTS
  MaxCommits,  \* bound: how many commits the history has
  MaxParents   \* bound: how many parents a commit has

ASSUME LayoutAssumption == MaxCommits \in Nat /\ MaxParents \in Nat

VARIABLES
  parents,     \* parents[i]: the parents of commit i, for the rows reached
  stage,       \* "walk" over the incoming columns, then "parents"
  lanes,       \* the incoming columns, each a Track or Hole
  index,       \* the incoming column the walk has come to
  next,        \* the outgoing columns
  mapping,     \* incoming to outgoing column, for every line crossing the row
  position,    \* the column of the row's node, 0 while unknown
  color,       \* its colour
  pending,     \* second and later parents not looked at yet
  spawned,     \* the columns this row opened for them
  cursor,      \* palette_cursor, a u8
  width,       \* the width so far
  placements   \* the rows laid out

row == Len(placements) + 1

loop == <<parents, stage, lanes, index, next, mapping, position, color,
          pending, spawned, cursor>>
vars == <<loop, width, placements>>

----------------------------------------------------------------------------
PaletteSize == 8

LaneColor == 0 .. PaletteSize - 1

(* A column holds the commit it expects next and its colour. *)
Track == [commit : 1 .. MaxCommits, color : LaneColor]
Hole  == [commit |-> 0, color |-> 0]

Allocated == cursor % PaletteSize
Advance   == (cursor + 1) % 256

Larger(m, n) == IF m < n THEN n ELSE m

Elements(s) == {s[i] : i \in DOMAIN s}

(* The parents commit i may have: distinct, and listed further down. *)
ParentLists(i) ==
  {list \in UNION {[1 .. n -> (i + 1) .. MaxCommits] : n \in 0 .. MaxParents} :
     \A j, k \in DOMAIN list : list[j] = list[k] => j = k}

Init ==
  /\ parents = <<>> /\ stage = "walk"
  /\ lanes = <<>> /\ index = 1 /\ next = <<>> /\ mapping = <<>>
  /\ position = 0 /\ color = 0 /\ pending = <<>> /\ spawned = <<>>
  /\ cursor = 0 /\ width = 0 /\ placements = <<>>

(* A track ends in the node's column if another that expected this commit was
   there first. *)
Joins(track) == track.commit = row /\ position # 0

(* Mutant: two tracks meet as soon as they expect the same commit. *)
DestinationEager(track) ==
  IF \E i \in DOMAIN next : next[i].commit = track.commit
  THEN CHOOSE i \in DOMAIN next : next[i].commit = track.commit
  ELSE Len(next) + 1

Destination(track) == IF Joins(track) THEN position ELSE Len(next) + 1

(* An incoming column survives as the next outgoing one, or joins. *)
WalkLane ==
  /\ stage = "walk" /\ index <= Len(lanes)
  /\ index' = index + 1
  /\ IF lanes[index] = Hole
     THEN UNCHANGED <<next, mapping, position, color>>
     ELSE LET track == lanes[index]
              here  == track.commit = row
          IN /\ next' = IF Joins(track) THEN next ELSE Append(next, track)
             /\ mapping' = Append(mapping, [from |-> index, to |-> Destination(track),
                                            color |-> track.color])
             /\ position' = IF here THEN Destination(track) ELSE position
             /\ color' = IF here /\ position = 0 THEN track.color ELSE color
  /\ UNCHANGED <<parents, stage, lanes, pending, spawned, cursor, width, placements>>

(* The first parent takes over the node's column; without one it is a hole. *)
PlaceNode ==
  /\ stage = "walk" /\ index > Len(lanes) /\ row <= MaxCommits
  /\ stage' = "parents"
  /\ \E list \in ParentLists(row) :
       LET opened == position = 0
           hue    == IF opened THEN Allocated ELSE color
           heir   == IF list = <<>> THEN Hole ELSE [commit |-> list[1], color |-> hue]
       IN /\ parents' = Append(parents, list)
          /\ pending' = IF list = <<>> THEN <<>> ELSE Tail(list)
          /\ next' = IF opened THEN Append(next, heir)
                     ELSE [next EXCEPT ![position] = heir]
          /\ position' = IF opened THEN Len(next) + 1 ELSE position
          /\ color' = hue
          /\ cursor' = IF opened THEN Advance ELSE cursor
  /\ UNCHANGED <<lanes, index, mapping, spawned, width, placements>>

(* Mutant: only one later parent is looked at. *)
SpawnOneParent ==
  /\ stage = "parents" /\ pending # <<>>
  /\ pending' = <<>>
  /\ IF \E t \in Elements(next) : t.commit = Head(pending)
     THEN UNCHANGED <<next, spawned, cursor>>
     ELSE /\ next' = Append(next, [commit |-> Head(pending), color |-> Allocated])
          /\ spawned' = Append(spawned, [column |-> Len(next) + 1, color |-> Allocated])
          /\ cursor' = Advance
  /\ UNCHANGED <<parents, stage, lanes, index, mapping, position, color, width, placements>>

(* A later parent opens a column unless some column already expects it. *)
SpawnParent ==
  /\ stage = "parents" /\ pending # <<>>
  /\ pending' = Tail(pending)
  /\ IF \E t \in Elements(next) : t.commit = Head(pending)
     THEN UNCHANGED <<next, spawned, cursor>>
     ELSE /\ next' = Append(next, [commit |-> Head(pending), color |-> Allocated])
          /\ spawned' = Append(spawned, [column |-> Len(next) + 1, color |-> Allocated])
          /\ cursor' = Advance
  /\ UNCHANGED <<parents, stage, lanes, index, mapping, position, color, width, placements>>

(* Mutant: the width forgets the columns the row opened. *)
WidthOfIncoming == Larger(width, Len(lanes))

WidthSoFar == Larger(width, Larger(Len(lanes), Len(next)))

(* Mutant: the node's column is not forgotten before the next row. *)
StartRowAtOldNode ==
  /\ stage' = "walk" /\ index' = 1 /\ next' = <<>> /\ mapping' = <<>>
  /\ color' = 0 /\ spawned' = <<>> /\ UNCHANGED position

StartRow ==
  /\ stage' = "walk" /\ index' = 1 /\ next' = <<>> /\ mapping' = <<>>
  /\ position' = 0 /\ color' = 0 /\ spawned' = <<>>

FinishRow ==
  /\ stage = "parents" /\ pending = <<>>
  /\ width' = WidthSoFar
  /\ placements' = Append(placements,
       [position |-> position, color |-> color, mapping |-> mapping,
        spawned |-> spawned, hasParents |-> parents[row] # <<>>])
  /\ lanes' = next
  /\ StartRow
  /\ UNCHANGED <<parents, pending, cursor>>

Next == WalkLane \/ PlaceNode \/ SpawnParent \/ FinishRow

Spec == Init /\ [][Next]_vars

----------------------------------------------------------------------------
(* Mutant: lines that meet leave as many lines as they came. *)
CarriedTwice(p) ==
  {[from |-> m.to, to |-> m.to, color |-> m.color] : m \in Elements(p.mapping)}

(* assemble: the lines of a row's lower half.  Lines that arrive in the same
   column leave it as one, in the colour of the first. *)
Carried(p) ==
  {[from |-> p.mapping[i].to, to |-> p.mapping[i].to, color |-> p.mapping[i].color] :
     i \in {j \in DOMAIN p.mapping :
              \A k \in 1 .. j - 1 : p.mapping[k].to # p.mapping[j].to}}

Straight(p) == [from |-> p.position, to |-> p.position, color |-> p.color]

Segments(p) ==
  (IF p.hasParents
   THEN Carried(p) \cup
          (IF \E s \in Carried(p) : s.to = p.position THEN {} ELSE {Straight(p)})
   ELSE {s \in Carried(p) : s.to # p.position})
  \cup {[from |-> p.position, to |-> s.column, color |-> s.color] :
          s \in Elements(p.spawned)}

----------------------------------------------------------------------------
(* Properties *)

Column == Nat \ {0}
Segment == [from : Column, to : Column, color : LaneColor]
Spawn == [column : Column, color : LaneColor]

TypeOK ==
  /\ parents \in Seq(Seq(1 .. MaxCommits))
  /\ stage \in {"walk", "parents"}
  /\ lanes \in Seq(Track \cup {Hole}) /\ next \in Seq(Track \cup {Hole})
  /\ index \in 1 .. Len(lanes) + 1
  /\ mapping \in Seq(Segment)
  /\ position \in 0 .. Len(next) /\ color \in LaneColor
  /\ pending \in Seq(1 .. MaxCommits)
  /\ spawned \in Seq(Spawn)
  /\ cursor \in 0 .. 255 /\ width \in Nat
  /\ placements \in Seq([position : Column, color : LaneColor, mapping : Seq(Segment),
                         spawned : Seq(Spawn), hasParents : BOOLEAN])
  /\ row <= MaxCommits + 1
  /\ Len(parents) = IF stage = "parents" THEN row ELSE row - 1

BetweenRows == stage = "walk" /\ index = 1

Awaited == {t.commit : t \in Elements(lanes) \ {Hole}}

(* Between two rows the columns expect exactly the parents, not yet placed, of
   the commits that were: none is forgotten at a merge, a convergence or the
   end of a line, none is awaited for ever. *)
ParentsAreAwaited ==
  BetweenRows =>
    Awaited = {c \in row .. MaxCommits :
                 \E i \in 1 .. row - 1 : c \in Elements(parents[i])}

(* "A renderer that draws every segment of every visible row [...] never needs
   to look at neighbouring rows": the lines leaving a row's lower edge are the
   lines entering the next one's upper edge, column by column and colour by
   colour. *)
RowsContinue ==
  \A i \in 1 .. Len(placements) - 1 :
    {<<s.to, s.color>> : s \in Segments(placements[i])}
      = {<<s.from, s.color>> : s \in Elements(placements[i + 1].mapping)}

(* "That row is where they meet": lines keep their order and end in one column
   only in the node's own, and a line reaches the node unless nothing above
   names the commit as a parent. *)
LinesMeetOnlyAtTheNode ==
  \A i \in 1 .. Len(placements) :
    LET p == placements[i]
        reached == {k \in DOMAIN p.mapping : p.mapping[k].to = p.position}
    IN /\ \A j, k \in DOMAIN p.mapping \ reached : j < k => p.mapping[j].to < p.mapping[k].to
       /\ reached # {} <=> \E j \in 1 .. i - 1 : i \in Elements(parents[j])

(* Lines continue from row to row and meet nowhere but at a node. *)
LinesMeet == RowsContinue /\ LinesMeetOnlyAtTheNode

(* "One past the highest lane used." *)
WidthIsTight ==
  LET used == UNION {{p.position} \cup {s.to : s \in Segments(p)}
                                  \cup {s.from : s \in Elements(p.mapping)} :
                     p \in Elements(placements)}
  IN /\ \A c \in used : c <= width
     /\ placements # <<>> => width \in used

(* "Produces the complete graph": a line leaves the node of a commit for a
   column that expects each of its parents. *)
EveryEdgeIsDrawn ==
  BetweenRows /\ placements # <<>> =>
    LET p == placements[Len(placements)]
    IN \A c \in Elements(parents[Len(placements)]) :
         \E s \in Segments(p) : s.from = p.position /\ lanes[s.to].commit = c
=============================================================================
