---------------------------- MODULE GraphProofs ----------------------------
(***************************************************************************)
(* Proofs about GraphLayout and HistoryTable, for any history of any       *)
(* length: layout stays within its types; the columns expect exactly the   *)
(* parents to come, the lines of a row continue in the next and meet       *)
(* nowhere but at a node, and the width is tight; and the table shows what *)
(* layout has drawn, whatever is searched for.                             *)
(***************************************************************************)
EXTENDS HistoryTable, SequenceTheorems, FiniteSetTheorems, TLAPS

Placement == [position : Column, color : LaneColor, mapping : Seq(Segment),
              spawned : Seq(Spawn), hasParents : BOOLEAN]

(* Once its node is placed, a row is one of the history's and has a column:
   TypeOK is not inductive without it. *)
NodePlaced == stage = "parents" => row <= MaxCommits /\ position # 0

Inductive == TypeOK /\ NodePlaced

(* A palette slot is a colour. *)
LEMMA AllocatedIsColor ==
  ASSUME cursor \in 0 .. 255
  PROVE  Allocated \in LaneColor /\ Advance \in 0 .. 255
BY DEF Allocated, Advance, LaneColor, PaletteSize

(* A hole is not the track of any commit. *)
LEMMA TracksAreNotHoles ==
  ASSUME NEW t \in Track
  PROVE  t # Hole /\ t.commit \in 1 .. MaxCommits /\ t.color \in LaneColor
<1>1. 0 \notin 1 .. MaxCommits
  BY LayoutAssumption
<1>. QED
  BY <1>1 DEF Track, Hole

(* What is taken from, and left of, a list of parents. *)
LEMMA TakeFirst ==
  ASSUME NEW list \in Seq(1 .. MaxCommits), list # <<>>
  PROVE  /\ list[1] \in 1 .. MaxCommits /\ Head(list) \in 1 .. MaxCommits
         /\ Tail(list) \in Seq(1 .. MaxCommits)
<1>1. Head(list) \in 1 .. MaxCommits /\ Tail(list) \in Seq(1 .. MaxCommits)
  BY HeadTailProperties
<1>2. Len(list) \in Nat \ {0}
  BY EmptySeq
<1>3. 1 \in 1 .. Len(list)
  BY <1>2
<1>4. list[1] \in 1 .. MaxCommits
  BY <1>3, ElementOfSeq
<1>. QED
  BY <1>1, <1>4

LEMMA InitInductive == Init => Inductive
<1> SUFFICES ASSUME Init PROVE Inductive
  OBVIOUS
<1>1. row = 1 /\ Len(parents) = 0 /\ Len(next) = 0 /\ Len(lanes) = 0
  BY DEF Init, row
<1>. QED
  BY <1>1, LayoutAssumption DEF Init, Inductive, TypeOK, NodePlaced, LaneColor, PaletteSize

(* A turn of the loop over the incoming columns. *)
LEMMA WalkLaneInductive ==
  ASSUME Inductive, WalkLane
  PROVE  Inductive'
<1> USE DEF Inductive
<1>1. stage = "walk" /\ index \in 1 .. Len(lanes) /\ index' = index + 1
  BY DEF WalkLane, TypeOK
<1>2. /\ UNCHANGED <<parents, stage, lanes, pending, spawned, cursor, width, placements>>
      /\ row' = row
  BY DEF WalkLane, row
<1>3. index' \in 1 .. Len(lanes') + 1
  BY <1>1, <1>2 DEF TypeOK
<1>4. /\ next' \in Seq(Track \cup {Hole})
      /\ mapping' \in Seq(Segment)
      /\ position' \in 0 .. Len(next')
      /\ color' \in LaneColor
  <2>1. CASE lanes[index] = Hole
    BY <2>1 DEF WalkLane, TypeOK
  <2>2. CASE lanes[index] # Hole
    <3> DEFINE track == lanes[index]
               to    == Destination(track)
    <3>1. track \in Track
      BY <1>1, <2>2 DEF TypeOK
    <3>2. track.color \in LaneColor
      BY <3>1, TracksAreNotHoles
    <3>3. /\ next' = IF Joins(track) THEN next ELSE Append(next, track)
          /\ mapping' = Append(mapping, [from |-> index, to |-> to, color |-> track.color])
          /\ position' = IF track.commit = row THEN to ELSE position
          /\ color' = IF track.commit = row /\ position = 0 THEN track.color ELSE color
      BY <2>2 DEF WalkLane
    <3> HIDE DEF track
    <3>4. next \in Seq(Track \cup {Hole}) /\ position \in 0 .. Len(next) /\ Len(next) \in Nat
      BY DEF TypeOK
    <3>5. /\ next' \in Seq(Track \cup {Hole})
          /\ to \in 1 .. Len(next') /\ Len(next) <= Len(next')
      <4>1. CASE Joins(track)
        BY <4>1, <3>3, <3>4 DEF Joins, Destination
      <4>2. CASE ~ Joins(track)
        BY <4>2, <3>1, <3>3, <3>4 DEF Destination
      <4>. QED BY <4>1, <4>2
    <3>6. [from |-> index, to |-> to, color |-> track.color] \in Segment
      BY <1>1, <3>2, <3>5 DEF Segment, Column
    <3> HIDE DEF to
    <3>7. mapping' \in Seq(Segment)
      BY <3>3, <3>6 DEF TypeOK
    <3>8. position' \in 0 .. Len(next')
      BY <3>3, <3>4, <3>5
    <3>9. color' \in LaneColor
      BY <3>2, <3>3 DEF TypeOK
    <3>. QED BY <3>5, <3>7, <3>8, <3>9
  <2>. QED BY <2>1, <2>2
<1>5. TypeOK'
  BY <1>2, <1>3, <1>4 DEF TypeOK
<1>6. NodePlaced'
  BY <1>1, <1>2 DEF NodePlaced
<1>. QED
  BY <1>5, <1>6

(* The node takes the column of a track that expected it, or opens one. *)
LEMMA PlaceNodeInductive ==
  ASSUME Inductive, PlaceNode
  PROVE  Inductive'
<1> USE DEF Inductive
<1>1. PICK list \in ParentLists(row) :
        LET opened == position = 0
            hue    == IF opened THEN Allocated ELSE color
            heir   == IF list = <<>> THEN Hole ELSE [commit |-> list[1], color |-> hue]
        IN /\ parents' = Append(parents, list)
           /\ pending' = IF list = <<>> THEN <<>> ELSE Tail(list)
           /\ next' = IF opened THEN Append(next, heir)
                      ELSE [next EXCEPT ![position] = heir]
           /\ position' = IF opened THEN Len(next) + 1 ELSE position
           /\ color' = hue
           /\ cursor' = IF opened THEN Advance ELSE cursor
  BY DEF PlaceNode
<1>2. /\ stage' = "parents" /\ row' = row /\ row \in 1 .. MaxCommits
      /\ UNCHANGED <<lanes, index, mapping, spawned, width, placements>>
  BY LayoutAssumption DEF PlaceNode, row, TypeOK
<1>3. list \in Seq(1 .. MaxCommits)
  <2>1. PICK n \in 0 .. MaxParents : list \in [1 .. n -> (row + 1) .. MaxCommits]
    BY <1>1 DEF ParentLists
  <2>2. (row + 1) .. MaxCommits \subseteq 1 .. MaxCommits
    BY <1>2, LayoutAssumption
  <2>3. list \in [1 .. n -> 1 .. MaxCommits] /\ n \in Nat
    BY <2>1, <2>2, LayoutAssumption
  <2>. QED BY <2>3, SeqDef
<1> DEFINE opened == position = 0
           hue    == IF opened THEN Allocated ELSE color
           heir   == IF list = <<>> THEN Hole ELSE [commit |-> list[1], color |-> hue]
<1>4. hue \in LaneColor /\ cursor' \in 0 .. 255
  BY <1>1, AllocatedIsColor DEF TypeOK
<1>5. heir \in Track \cup {Hole}
  <2>1. CASE list = <<>>
    BY <2>1
  <2>2. CASE list # <<>>
    <3>1. list[1] \in 1 .. MaxCommits
      BY <2>2, <1>3, TakeFirst
    <3> HIDE DEF hue
    <3>. QED BY <2>2, <3>1, <1>4 DEF Track
  <2>. QED BY <2>1, <2>2
<1> HIDE DEF heir
<1>6. next \in Seq(Track \cup {Hole}) /\ position \in 0 .. Len(next)
  BY DEF TypeOK
<1>7. /\ next' \in Seq(Track \cup {Hole})
      /\ position' \in 1 .. Len(next')
  <2>1. CASE opened
    BY <2>1, <1>1, <1>5, <1>6 DEF heir
  <2>2. CASE ~ opened
    <3>1. next' = [next EXCEPT ![position] = heir] /\ position' = position
      BY <2>2, <1>1 DEF heir
    <3>. QED BY <2>2, <3>1, <1>5, <1>6
  <2>. QED BY <2>1, <2>2
<1>8. parents' \in Seq(Seq(1 .. MaxCommits)) /\ Len(parents') = row
  <2>1. stage = "walk" /\ Len(parents) = row - 1 /\ parents \in Seq(Seq(1 .. MaxCommits))
    BY DEF PlaceNode, TypeOK
  <2>. QED BY <2>1, <1>1, <1>2, <1>3
<1>9. pending' \in Seq(1 .. MaxCommits)
  <2>1. CASE list = <<>>
    BY <2>1, <1>1, EmptySeq
  <2>2. CASE list # <<>>
    BY <2>2, <1>1, <1>3, TakeFirst
  <2>. QED BY <2>1, <2>2
<1>10. color' \in LaneColor
  BY <1>1, <1>4
<1> HIDE DEF opened, hue
<1>11. TypeOK'
  BY <1>2, <1>4, <1>7, <1>8, <1>9, <1>10 DEF TypeOK
<1>12. NodePlaced'
  BY <1>2, <1>7, LayoutAssumption DEF NodePlaced, TypeOK
<1>. QED
  BY <1>11, <1>12

(* A later parent opens a column of its own or finds one that expects it. *)
LEMMA SpawnParentInductive ==
  ASSUME Inductive, SpawnParent
  PROVE  Inductive'
<1> USE DEF Inductive
<1>1. /\ stage = "parents" /\ pending # <<>> /\ pending' = Tail(pending)
      /\ UNCHANGED <<parents, stage, lanes, index, mapping, position, color, width,
                     placements>>
      /\ row' = row
  BY DEF SpawnParent, row
<1>2. Head(pending) \in 1 .. MaxCommits /\ pending' \in Seq(1 .. MaxCommits)
  BY <1>1, TakeFirst DEF TypeOK
<1>3. next \in Seq(Track \cup {Hole}) /\ spawned \in Seq(Spawn) /\ cursor \in 0 .. 255
  BY DEF TypeOK
<1>4. /\ next' \in Seq(Track \cup {Hole}) /\ Len(next') >= Len(next)
      /\ spawned' \in Seq(Spawn) /\ cursor' \in 0 .. 255
  <2>1. CASE UNCHANGED <<next, spawned, cursor>>
    BY <1>3, <2>1
  <2>2. CASE /\ next' = Append(next, [commit |-> Head(pending), color |-> Allocated])
             /\ spawned' = Append(spawned, [column |-> Len(next) + 1, color |-> Allocated])
             /\ cursor' = Advance
    <3>1. [commit |-> Head(pending), color |-> Allocated] \in Track
      BY <1>2, <1>3, AllocatedIsColor DEF Track
    <3>2. [column |-> Len(next) + 1, color |-> Allocated] \in Spawn
      BY <1>3, AllocatedIsColor DEF Spawn, Column
    <3>. QED BY <2>2, <3>1, <3>2, <1>3, AllocatedIsColor
  <2>. QED BY <2>1, <2>2 DEF SpawnParent
<1>5. position' \in 0 .. Len(next')
  BY <1>1, <1>3, <1>4 DEF TypeOK
<1>. QED
  BY <1>1, <1>2, <1>4, <1>5 DEF TypeOK, NodePlaced

(* The row is recorded and its outgoing columns are the next row's. *)
LEMMA FinishRowInductive ==
  ASSUME Inductive, FinishRow
  PROVE  Inductive'
<1> USE DEF Inductive
<1>1. /\ stage = "parents" /\ stage' = "walk" /\ lanes' = next /\ next' = <<>>
      /\ index' = 1 /\ mapping' = <<>> /\ position' = 0 /\ color' = 0 /\ spawned' = <<>>
      /\ UNCHANGED <<parents, pending, cursor>>
  BY DEF FinishRow, StartRow
<1>2. row \in 1 .. MaxCommits /\ position \in Column /\ Len(parents) = row
  BY <1>1 DEF TypeOK, NodePlaced, row, Column
<1> DEFINE placement == [position |-> position, color |-> color, mapping |-> mapping,
                         spawned |-> spawned, hasParents |-> parents[row] # <<>>]
<1>3. placement \in Placement
  BY <1>2 DEF TypeOK, Placement
<1>4. placements' = Append(placements, placement)
  BY DEF FinishRow
<1> HIDE DEF placement
<1>5. placements' \in Seq(Placement) /\ row' = row + 1
  BY <1>3, <1>4 DEF TypeOK, Placement, row
<1>6. width' \in Nat
  BY DEF FinishRow, WidthSoFar, Larger, TypeOK
<1>7. 0 \in LaneColor
  BY DEF LaneColor, PaletteSize
<1>8. index' \in 1 .. Len(lanes') + 1 /\ Len(next') = 0
  BY <1>1 DEF TypeOK
<1>9. row' <= MaxCommits + 1 /\ Len(parents') = row' - 1
  BY <1>1, <1>2, <1>5, LayoutAssumption
<1>. QED
  BY <1>1, <1>5, <1>6, <1>7, <1>8, <1>9 DEF TypeOK, NodePlaced, Placement

(* Columns, colours, rows and the palette cursor of layout stay within their
   types: a node always has a column of its row, a line never starts or ends
   in column 0, no more rows are placed than the history has commits. *)
THEOREM Typing == Spec => []TypeOK
<1>1. Init => Inductive
  BY InitInductive
<1>2. Inductive /\ [Next]_vars => Inductive'
  <2> SUFFICES ASSUME Inductive, [Next]_vars PROVE Inductive'
    OBVIOUS
  <2>1. CASE WalkLane
    BY <2>1, WalkLaneInductive
  <2>2. CASE PlaceNode
    BY <2>2, PlaceNodeInductive
  <2>3. CASE SpawnParent
    BY <2>3, SpawnParentInductive
  <2>4. CASE FinishRow
    BY <2>4, FinishRowInductive
  <2>5. CASE UNCHANGED vars
    BY <2>5 DEF vars, loop, Inductive, TypeOK, NodePlaced, row
  <2>. QED
    BY <2>1, <2>2, <2>3, <2>4, <2>5 DEF Next
<1>3. Inductive => TypeOK
  BY DEF Inductive
<1>. QED
  BY <1>1, <1>2, <1>3, PTL DEF Spec

----------------------------------------------------------------------------
(* The lines of the graph *)

(* The commits a list of columns expects; 0 stands for none. *)
Commits(s) == {t.commit : t \in Elements(s)} \ {0}

(* The columns of a list that expect a commit, and the lines that run in them. *)
Live(s) == {k \in DOMAIN s : s[k].commit # 0}
Lines(s) == {<<k, s[k].color>> : k \in Live(s)}

(* The parents of the commits so far, from commit c on. *)
Due(c) == {d \in c .. MaxCommits : \E i \in DOMAIN parents : d \in Elements(parents[i])}

(* No commit is forgotten between the columns, the pending parents and the
   walk. *)
CommitsKept ==
  /\ stage = "walk" => Commits(lanes) = Due(row)
  /\ stage = "parents" => Commits(next) \cup Elements(pending) = Due(row + 1)

(* During the walk the outgoing columns expect what the incoming ones walked
   over do, the node's and no other this commit. *)
WalkShape ==
  stage = "walk" =>
    /\ spawned = <<>>
    /\ \A k \in 1 .. index - 1 : lanes[k].commit # 0 => lanes[k].commit \in Commits(next)
    /\ \A k \in DOMAIN next : /\ next[k].commit \in Commits(lanes)
                              /\ next[k].commit = row <=> k = position
    /\ position # 0 => /\ next[position].color = color
                       /\ \E j \in DOMAIN mapping : mapping[j].to = position

(* Every line of the row's upper half runs into a column of its own or the
   node's, which has its colour, and every column is a line's, the node's or a
   spawned one. *)
First(j) == \A i \in 1 .. j - 1 : mapping[i].to # mapping[j].to
MappingShape ==
  /\ {<<m.from, m.color>> : m \in Elements(mapping)}
       = {<<k, lanes[k].color>> : k \in {l \in 1 .. index - 1 : lanes[l].commit # 0}}
  /\ \A j \in DOMAIN mapping :
       /\ mapping[j].to \in DOMAIN next
       /\ mapping[j].to # position => /\ next[mapping[j].to].commit # 0
                                      /\ next[mapping[j].to].color = mapping[j].color
       /\ mapping[j].to = position /\ First(j) => mapping[j].color = color
  /\ \A j, k \in DOMAIN mapping :
       j < k /\ mapping[j].to # position /\ mapping[k].to # position
         => mapping[j].to < mapping[k].to
  /\ \A k \in DOMAIN next : \/ k = position
                            \/ \E j \in DOMAIN mapping : mapping[j].to = k
                            \/ \E s \in Elements(spawned) : s.column = k

(* Once it is placed, the node's column goes on to its first parent, the
   spawned ones lie beside it, and a line has reached it if it is a parent. *)
NodeShape ==
  stage = "parents" =>
    /\ index = Len(lanes) + 1
    /\ next[position].commit # 0 <=> parents[row] # <<>>
    /\ next[position].commit # 0 => next[position].color = color
    /\ \A s \in Elements(spawned) :
         /\ s.column \in Live(next) /\ s.column # position
         /\ next[s.column].color = s.color
    /\ (\E j \in DOMAIN mapping : mapping[j].to = position)
         <=> \E i \in 1 .. row - 1 : row \in Elements(parents[i])

(* The last row's lines are the columns that come in, and the width covers
   them. *)
RowsShape ==
  /\ placements = <<>> => lanes = <<>> /\ width = 0
  /\ placements # <<>> =>
       {<<s.to, s.color>> : s \in Segments(placements[Len(placements)])} = Lines(lanes)
  /\ Len(lanes) <= width

GraphInv ==
  /\ Inductive /\ CommitsKept /\ WalkShape /\ MappingShape /\ NodeShape /\ RowsShape
  /\ RowsContinue /\ LinesMeetOnlyAtTheNode /\ WidthIsTight

----------------------------------------------------------------------------
(* Sequences and columns *)

LEMMA Appended ==
  ASSUME NEW T, NEW s \in Seq(T), NEW x \in T
  PROVE  LET longer == Append(s, x) IN
         /\ longer \in Seq(T) /\ Len(longer) = Len(s) + 1
         /\ DOMAIN longer = 1 .. Len(s) + 1 /\ DOMAIN s = 1 .. Len(s)
         /\ DOMAIN longer = DOMAIN s \cup {Len(s) + 1} /\ Len(s) + 1 \notin DOMAIN s
         /\ longer[Len(s) + 1] = x
         /\ \A i \in DOMAIN s : longer[i] = s[i]
         /\ Elements(longer) = Elements(s) \cup {x}
<1>. DEFINE longer == Append(s, x)
<1>1. /\ longer \in Seq(T) /\ Len(longer) = Len(s) + 1
      /\ DOMAIN longer = 1 .. Len(s) + 1 /\ DOMAIN s = 1 .. Len(s)
      /\ DOMAIN longer = DOMAIN s \cup {Len(s) + 1} /\ Len(s) + 1 \notin DOMAIN s
      /\ longer[Len(s) + 1] = x
      /\ \A i \in DOMAIN s : longer[i] = s[i]
  OBVIOUS
<1>. HIDE DEF longer
<1>2. Elements(longer) = Elements(s) \cup {x}
  BY <1>1 DEF Elements
<1>. QED BY <1>1, <1>2 DEF longer

LEMMA Taken ==
  ASSUME NEW T, NEW s \in Seq(T), s # <<>>
  PROVE  /\ Head(s) \in T /\ Tail(s) \in Seq(T) /\ Head(s) = s[1]
         /\ Elements(s) = {Head(s)} \cup Elements(Tail(s))
<1>1. /\ Head(s) \in T /\ Tail(s) \in Seq(T) /\ Head(s) = s[1]
      /\ Len(s) \in Nat \ {0} /\ DOMAIN s = 1 .. Len(s)
      /\ DOMAIN Tail(s) = 1 .. (Len(s) - 1)
      /\ \A i \in 1 .. (Len(s) - 1) : Tail(s)[i] = s[i + 1]
  OBVIOUS
<1>2. ASSUME NEW i \in DOMAIN s, i # 1 PROVE s[i] \in Elements(Tail(s))
  <2>1. i - 1 \in DOMAIN Tail(s) /\ Tail(s)[i - 1] = s[i]
    BY <1>1, <1>2
  <2>. QED BY <2>1 DEF Elements
<1>3. ASSUME NEW i \in DOMAIN Tail(s) PROVE Tail(s)[i] \in Elements(s)
  <2>1. i + 1 \in DOMAIN s /\ Tail(s)[i] = s[i + 1]
    BY <1>1
  <2>. QED BY <2>1 DEF Elements
<1>4. s[1] \in Elements(s)
  BY <1>1 DEF Elements
<1>. QED BY <1>1, <1>2, <1>3, <1>4 DEF Elements

LEMMA CommitsAppended ==
  ASSUME NEW T, NEW s \in Seq(T), NEW x \in T
  PROVE  Commits(Append(s, x)) = Commits(s) \cup ({x.commit} \ {0})
<1>1. Elements(Append(s, x)) = Elements(s) \cup {x}
  BY Appended
<1>. QED BY <1>1 DEF Commits

LEMMA CommitsAt ==
  ASSUME NEW T, NEW s \in Seq(T), NEW c
  PROVE  c \in Commits(s) <=> c # 0 /\ \E k \in DOMAIN s : s[k].commit = c
BY DEF Commits, Elements

(* A column is a hole just when it expects no commit. *)
LEMMA HolesExpectNothing ==
  ASSUME NEW t \in Track \cup {Hole}
  PROVE  (t = Hole <=> t.commit = 0) /\ t.commit \in 0 .. MaxCommits
<1>1. Hole.commit = 0
  BY DEF Hole
<1>2. MaxCommits \in Nat
  BY LayoutAssumption
<1>3. t \in Track => t # Hole /\ t.commit \in 1 .. MaxCommits
  BY TracksAreNotHoles
<1>. QED BY <1>1, <1>2, <1>3

LEMMA LayoutTypes ==
  ASSUME Inductive
  PROVE  /\ parents \in Seq(Seq(1 .. MaxCommits)) /\ lanes \in Seq(Track \cup {Hole})
         /\ next \in Seq(Track \cup {Hole}) /\ mapping \in Seq(Segment)
         /\ pending \in Seq(1 .. MaxCommits) /\ spawned \in Seq(Spawn)
         /\ placements \in Seq(Placement)
         /\ index \in 1 .. Len(lanes) + 1 /\ position \in 0 .. Len(next)
         /\ Len(lanes) \in Nat /\ Len(next) \in Nat /\ Len(mapping) \in Nat
         /\ row \in 1 .. MaxCommits + 1 /\ row = Len(placements) + 1 /\ MaxCommits \in Nat
         /\ DOMAIN lanes = 1 .. Len(lanes) /\ DOMAIN next = 1 .. Len(next)
         /\ DOMAIN mapping = 1 .. Len(mapping) /\ DOMAIN parents = 1 .. Len(parents)
         /\ DOMAIN placements = 1 .. Len(placements)
         /\ \A k \in DOMAIN lanes : lanes[k] \in Track \cup {Hole} /\ lanes[k].commit \in Nat
         /\ \A k \in DOMAIN next : next[k] \in Track \cup {Hole} /\ next[k].commit \in Nat
         /\ \A j \in DOMAIN mapping : mapping[j].to \in Column
<1>. USE DEF Inductive
<1>1. /\ parents \in Seq(Seq(1 .. MaxCommits)) /\ lanes \in Seq(Track \cup {Hole})
      /\ next \in Seq(Track \cup {Hole}) /\ mapping \in Seq(Segment)
      /\ pending \in Seq(1 .. MaxCommits) /\ spawned \in Seq(Spawn)
      /\ index \in 1 .. Len(lanes) + 1 /\ position \in 0 .. Len(next)
      /\ row <= MaxCommits + 1
  BY DEF TypeOK
<1>2. placements \in Seq(Placement)
  BY DEF TypeOK, Placement
<1>3. row = Len(placements) + 1 /\ Len(placements) \in Nat /\ MaxCommits \in Nat
  BY <1>2, LayoutAssumption DEF row
<1>4. \A k \in DOMAIN lanes : lanes[k] \in Track \cup {Hole}
  BY <1>1
<1>5. \A k \in DOMAIN next : next[k] \in Track \cup {Hole}
  BY <1>1
<1>6. \A t \in Track \cup {Hole} : t.commit \in Nat
  BY <1>3, HolesExpectNothing
<1>7. \A j \in DOMAIN mapping : mapping[j] \in Segment
  BY <1>1
<1>8. \A j \in DOMAIN mapping : mapping[j].to \in Column
  BY <1>7 DEF Segment
<1>. QED BY <1>1, <1>2, <1>3, <1>4, <1>5, <1>6, <1>8

----------------------------------------------------------------------------
(* A turn of the walk *)

LEMMA WalkCases ==
  ASSUME Inductive, WalkLane
  PROVE  /\ stage = "walk" /\ index \in 1 .. Len(lanes) /\ index' = index + 1 /\ row' = row
         /\ UNCHANGED <<parents, stage, lanes, pending, spawned, cursor, width, placements>>
         /\ \/ lanes[index].commit = 0 /\ UNCHANGED <<next, mapping, position, color>>
            \/ /\ lanes[index].commit = row /\ position # 0
               /\ UNCHANGED <<next, position, color>>
               /\ mapping' = Append(mapping, [from |-> index, to |-> position,
                                              color |-> lanes[index].color])
            \/ /\ lanes[index].commit # 0 /\ (lanes[index].commit = row => position = 0)
               /\ next' = Append(next, lanes[index])
               /\ mapping' = Append(mapping, [from |-> index, to |-> Len(next) + 1,
                                              color |-> lanes[index].color])
               /\ position' = IF lanes[index].commit = row THEN Len(next) + 1 ELSE position
               /\ color' = IF lanes[index].commit = row THEN lanes[index].color ELSE color
<1>1. /\ stage = "walk" /\ index \in 1 .. Len(lanes) /\ index' = index + 1 /\ row' = row
      /\ UNCHANGED <<parents, stage, lanes, pending, spawned, cursor, width, placements>>
  BY LayoutTypes DEF WalkLane, row
<1>2. lanes[index] = Hole <=> lanes[index].commit = 0
  BY <1>1, LayoutTypes, HolesExpectNothing
<1>3. CASE lanes[index] = Hole
  BY <1>1, <1>2, <1>3 DEF WalkLane
<1>4. CASE lanes[index] # Hole
  <2>. DEFINE track == lanes[index]  to == Destination(track)
  <2>1. /\ next' = IF Joins(track) THEN next ELSE Append(next, track)
        /\ mapping' = Append(mapping, [from |-> index, to |-> to, color |-> track.color])
        /\ position' = IF track.commit = row THEN to ELSE position
        /\ color' = IF track.commit = row /\ position = 0 THEN track.color ELSE color
    BY <1>4 DEF WalkLane
  <2>. HIDE DEF track
  <2>2. Joins(track) <=> track.commit = row /\ position # 0
    BY DEF Joins
  <2>3. to = IF Joins(track) THEN position ELSE Len(next) + 1
    BY DEF Destination
  <2>. HIDE DEF to
  <2>4. CASE Joins(track)
    BY <1>1, <1>2, <1>4, <2>1, <2>2, <2>3, <2>4 DEF track
  <2>5. CASE ~Joins(track)
    BY <1>1, <1>2, <1>4, <2>1, <2>2, <2>3, <2>5 DEF track
  <2>. QED BY <2>4, <2>5
<1>. QED BY <1>3, <1>4

LEMMA WalkKeepsCommits ==
  ASSUME GraphInv, WalkLane
  PROVE  CommitsKept' /\ WalkShape'
<1>. USE DEF GraphInv
<1>. DEFINE track == lanes[index]
<1>1. /\ stage = "walk" /\ index \in 1 .. Len(lanes) /\ index' = index + 1 /\ row' = row
      /\ UNCHANGED <<parents, stage, lanes, pending, spawned>>
  BY WalkCases
<1>2. CommitsKept'
  BY <1>1 DEF CommitsKept, Due, Commits, Elements
<1>3. /\ \A k \in 1 .. index - 1 : lanes[k].commit # 0 => lanes[k].commit \in Commits(next)
      /\ \A k \in DOMAIN next : next[k].commit \in Commits(lanes)
      /\ \A k \in DOMAIN next : next[k].commit = row <=> k = position
      /\ position # 0 => /\ next[position].color = color
                         /\ \E j \in DOMAIN mapping : mapping[j].to = position
      /\ spawned = <<>>
  BY <1>1 DEF WalkShape
<1>4. /\ next \in Seq(Track \cup {Hole}) /\ mapping \in Seq(Segment)
      /\ track \in Track \cup {Hole} /\ position \in 0 .. Len(next) /\ Len(next) \in Nat
      /\ row \in Nat /\ row # 0 /\ index \in Nat
  BY <1>1, LayoutTypes
<1>5. track.commit # 0 => track.commit \in Commits(lanes)
  BY <1>1, CommitsAt, LayoutTypes
<1>6. ASSUME track.commit = 0, UNCHANGED <<next, mapping, position, color>>
      PROVE  WalkShape'
  BY <1>1, <1>3, <1>4, <1>6 DEF WalkShape, Commits, Elements
<1>7. ASSUME track.commit = row, position # 0, UNCHANGED <<next, position, color>>,
             mapping' = Append(mapping, [from |-> index, to |-> position, color |-> track.color])
      PROVE  WalkShape'
  <2>1. row \in Commits(next)
    BY <1>3, <1>4, <1>7, CommitsAt
  <2>2. Commits(next)' = Commits(next) /\ Commits(lanes)' = Commits(lanes)
    BY <1>1, <1>7 DEF Commits, Elements
  <2>3. \A k \in 1 .. index : lanes[k].commit # 0 => lanes[k].commit \in Commits(next)
    BY <1>3, <1>4, <1>7, <2>1
  <2>4. \E j \in DOMAIN mapping' : mapping'[j].to = position
    BY <1>4, <1>7
  <2>. QED BY <1>1, <1>3, <1>4, <1>7, <2>2, <2>3, <2>4 DEF WalkShape
<1>8. ASSUME track.commit # 0, track.commit = row => position = 0,
             next' = Append(next, track),
             mapping' = Append(mapping, [from |-> index, to |-> Len(next) + 1,
                                         color |-> track.color]),
             position' = IF track.commit = row THEN Len(next) + 1 ELSE position,
             color' = IF track.commit = row THEN track.color ELSE color
      PROVE  WalkShape'
  <2>. HIDE DEF track
  <2>1. Commits(next)' = Commits(next') /\ Commits(next') = Commits(next) \cup {track.commit}
        /\ Commits(lanes)' = Commits(lanes)
    <3>1. Commits(next') = Commits(next) \cup ({track.commit} \ {0})
      BY <1>4, <1>8, CommitsAppended
    <3>2. Commits(next)' = Commits(next') /\ Commits(lanes)' = Commits(lanes)
      BY <1>1 DEF Commits, Elements
    <3>. QED BY <1>8, <3>1, <3>2
  <2>2. /\ DOMAIN next' = DOMAIN next \cup {Len(next) + 1} /\ Len(next) + 1 \notin DOMAIN next
        /\ next'[Len(next) + 1] = track /\ \A k \in DOMAIN next : next'[k] = next[k]
    BY <1>4, <1>8
  <2>3. \A k \in 1 .. index : lanes[k].commit # 0 => lanes[k].commit \in Commits(next')
    BY <1>3, <1>4, <2>1 DEF track
  <2>4. \A k \in DOMAIN next' : next'[k].commit \in Commits(lanes)
    BY <1>3, <1>5, <1>8, <2>2
  <2>5. \A k \in DOMAIN next' : next'[k].commit = row <=> k = position'
    BY <1>3, <1>4, <1>8, <2>2
  <2>6. position' # 0 => next'[position'].color = color'
    BY <1>3, <1>4, <1>8, <2>2
  <2>7. /\ DOMAIN mapping' = DOMAIN mapping \cup {Len(mapping) + 1}
        /\ mapping'[Len(mapping) + 1].to = Len(next) + 1
        /\ \A j \in DOMAIN mapping : mapping'[j] = mapping[j]
    BY <1>4, <1>8
  <2>8. position' # 0 => \E j \in DOMAIN mapping' : mapping'[j].to = position'
    BY <1>3, <1>4, <1>8, <2>7
  <2>. QED BY <1>1, <1>3, <2>1, <2>3, <2>4, <2>5, <2>6, <2>8, <1>4 DEF WalkShape
<1>9. WalkShape'
  BY <1>6, <1>7, <1>8, WalkCases
<1>. QED BY <1>2, <1>9

(* What the row has of a line that is not the node's stays when the row grows. *)
LEMMA WalkKeepsMapping ==
  ASSUME GraphInv, WalkLane
  PROVE  MappingShape' /\ NodeShape'
<1>. USE DEF GraphInv
<1>. DEFINE track == lanes[index]
            upper == {<<m.from, m.color>> : m \in Elements(mapping)}
            walked == {<<k, lanes[k].color>> : k \in {l \in 1 .. index - 1 : lanes[l].commit # 0}}
<1>1. /\ stage = "walk" /\ index \in 1 .. Len(lanes) /\ index' = index + 1 /\ row' = row
      /\ UNCHANGED <<parents, stage, lanes, pending, spawned>>
  BY WalkCases
<1>2. /\ next \in Seq(Track \cup {Hole}) /\ mapping \in Seq(Segment)
      /\ track \in Track \cup {Hole} /\ position \in 0 .. Len(next) /\ Len(next) \in Nat
      /\ index \in Nat /\ index # 0 /\ DOMAIN next = 1 .. Len(next) /\ Len(mapping) \in Nat
      /\ DOMAIN mapping = 1 .. Len(mapping)
  BY <1>1, LayoutTypes
<1>3. /\ upper = walked
      /\ \A j \in DOMAIN mapping :
           /\ mapping[j].to \in DOMAIN next
           /\ mapping[j].to # position => /\ next[mapping[j].to].commit # 0
                                          /\ next[mapping[j].to].color = mapping[j].color
           /\ mapping[j].to = position /\ First(j) => mapping[j].color = color
      /\ \A j, k \in DOMAIN mapping :
           j < k /\ mapping[j].to # position /\ mapping[k].to # position
             => mapping[j].to < mapping[k].to
      /\ \A k \in DOMAIN next : k = position \/ \E j \in DOMAIN mapping : mapping[j].to = k
  BY <1>1 DEF MappingShape, WalkShape, Elements
<1>4. position # 0 => \E j \in DOMAIN mapping : mapping[j].to = position
  BY <1>1 DEF WalkShape
<1>5. NodeShape'
  BY <1>1 DEF NodeShape
<1>6. ASSUME track.commit = 0, UNCHANGED <<next, mapping, position, color>>
      PROVE  MappingShape'
  <2>1. {l \in 1 .. index : lanes[l].commit # 0} = {l \in 1 .. index - 1 : lanes[l].commit # 0}
    BY <1>2, <1>6
  <2>2. (1 .. index - 1)' = 1 .. index
    BY <1>1, <1>2
  <2>. QED BY <1>1, <1>3, <1>6, <2>1, <2>2 DEF MappingShape, Elements, First
<1>7. ASSUME track.commit # 0, NEW to \in Column,
             mapping' = Append(mapping, [from |-> index, to |-> to, color |-> track.color])
      PROVE  /\ {<<m.from, m.color>> : m \in Elements(mapping)}'
                  = {<<k, lanes[k].color>> : k \in {l \in 1 .. index - 1 : lanes[l].commit # 0}}'
             /\ DOMAIN mapping' = DOMAIN mapping \cup {Len(mapping) + 1}
             /\ mapping'[Len(mapping) + 1].to = to
             /\ mapping'[Len(mapping) + 1].color = track.color
             /\ \A j \in DOMAIN mapping : mapping'[j] = mapping[j] /\ (First(j)' <=> First(j))
  <2>. DEFINE m0 == [from |-> index, to |-> to, color |-> track.color]
  <2>1. track \in Track
    BY <1>2, <1>7, HolesExpectNothing
  <2>2. m0 \in Segment
    BY <1>2, <2>1 DEF Track, Segment, Column
  <2>. HIDE DEF m0
  <2>3. /\ DOMAIN mapping' = DOMAIN mapping \cup {Len(mapping) + 1} /\ mapping'[Len(mapping) + 1] = m0
        /\ \A j \in DOMAIN mapping : mapping'[j] = mapping[j]
        /\ Elements(mapping') = Elements(mapping) \cup {m0}
    BY <1>2, <1>7, <2>2, Appended DEF m0
  <2>4. \A j \in DOMAIN mapping : First(j)' <=> First(j)
    BY <1>2, <2>3 DEF First
  <2>5. {<<m.from, m.color>> : m \in Elements(mapping')} = upper \cup {<<index, track.color>>}
    BY <2>3 DEF m0
  <2>6. {l \in 1 .. index : lanes[l].commit # 0} = {l \in 1 .. index - 1 : lanes[l].commit # 0} \cup {index}
    BY <1>2, <1>7
  <2>7. {<<k, lanes[k].color>> : k \in {l \in 1 .. index : lanes[l].commit # 0}}
          = walked \cup {<<index, track.color>>}
    BY <2>6
  <2>8. (1 .. index - 1)' = 1 .. index
    BY <1>1, <1>2
  <2>9. Elements(mapping)' = Elements(mapping')
    BY DEF Elements
  <2>10. {<<m.from, m.color>> : m \in Elements(mapping)}'
           = {<<k, lanes[k].color>> : k \in {l \in 1 .. index - 1 : lanes[l].commit # 0}}'
    BY <1>1, <1>3, <2>5, <2>7, <2>8, <2>9
  <2>. QED BY <2>3, <2>4, <2>10 DEF m0
<1>8. ASSUME track.commit = row, position # 0, UNCHANGED <<next, position, color>>,
             mapping' = Append(mapping, [from |-> index, to |-> position, color |-> track.color])
      PROVE  MappingShape'
  <2>1. position \in Column /\ track.commit # 0
    BY <1>2, <1>8, LayoutTypes DEF Column
  <2>2. ASSUME NEW j, j = Len(mapping) + 1 PROVE ~First(j)'
    <3>1. PICK i \in DOMAIN mapping : mapping[i].to = position
      BY <1>4, <1>8
    <3>2. i \in 1 .. j - 1 /\ mapping'[i].to = position /\ mapping'[j].to = position
      BY <1>2, <1>7, <1>8, <2>1, <2>2, <3>1
    <3>. QED BY <3>2 DEF First
  <2>3. \A j \in DOMAIN mapping' :
          /\ mapping'[j].to \in DOMAIN next
          /\ mapping'[j].to # position => /\ next[mapping'[j].to].commit # 0
                                          /\ next[mapping'[j].to].color = mapping'[j].color
          /\ mapping'[j].to = position /\ First(j)' => mapping'[j].color = color
    <3>. TAKE j \in DOMAIN mapping'
    <3>1. CASE j \in DOMAIN mapping
      BY <1>3, <1>7, <1>8, <2>1, <3>1
    <3>2. CASE j = Len(mapping) + 1
      BY <1>2, <1>7, <1>8, <2>1, <2>2, <3>2
    <3>. QED BY <1>7, <1>8, <2>1, <3>1, <3>2
  <2>4. \A j, k \in DOMAIN mapping' :
          j < k /\ mapping'[j].to # position /\ mapping'[k].to # position
            => mapping'[j].to < mapping'[k].to
    BY <1>2, <1>3, <1>7, <1>8, <2>1
  <2>5. \A k \in DOMAIN next : k = position \/ \E j \in DOMAIN mapping' : mapping'[j].to = k
    BY <1>3, <1>7, <1>8, <2>1
  <2>6. {<<m.from, m.color>> : m \in Elements(mapping)}'
          = {<<k, lanes[k].color>> : k \in {l \in 1 .. index - 1 : lanes[l].commit # 0}}'
    BY <1>7, <1>8, <2>1
  <2>. QED BY <1>8, <2>3, <2>4, <2>5, <2>6 DEF MappingShape
<1>9. ASSUME track.commit # 0, track.commit = row => position = 0,
             next' = Append(next, track),
             mapping' = Append(mapping, [from |-> index, to |-> Len(next) + 1,
                                         color |-> track.color]),
             position' = IF track.commit = row THEN Len(next) + 1 ELSE position,
             color' = IF track.commit = row THEN track.color ELSE color
      PROVE  MappingShape'
  <2>1. Len(next) + 1 \in Column
    BY <1>2 DEF Column
  <2>2. /\ DOMAIN next' = DOMAIN next \cup {Len(next) + 1} /\ Len(next) + 1 \notin DOMAIN next
        /\ next'[Len(next) + 1] = track /\ \A k \in DOMAIN next : next'[k] = next[k]
    BY <1>2, <1>9
  <2>. HIDE DEF track
  <2>3. \A j \in DOMAIN mapping' :
          /\ mapping'[j].to \in DOMAIN next'
          /\ mapping'[j].to # position' => /\ next'[mapping'[j].to].commit # 0
                                           /\ next'[mapping'[j].to].color = mapping'[j].color
          /\ mapping'[j].to = position' /\ First(j)' => mapping'[j].color = color'
    <3>1. CASE track.commit = row
      <4>1. \A j \in DOMAIN mapping : mapping[j].to \in DOMAIN next /\ mapping[j].to # position
        BY <1>2, <1>3, <1>9, <3>1
      <4>. QED BY <1>2, <1>3, <1>7, <1>9, <2>1, <2>2, <3>1, <4>1
    <3>2. CASE track.commit # row
      BY <1>2, <1>3, <1>7, <1>9, <2>1, <2>2, <3>2
    <3>. QED BY <3>1, <3>2
  <2>4. \A j, k \in DOMAIN mapping' :
          j < k /\ mapping'[j].to # position' /\ mapping'[k].to # position'
            => mapping'[j].to < mapping'[k].to
    <3>1. \A j \in DOMAIN mapping : mapping[j].to < Len(next) + 1
      BY <1>2, <1>3
    <3>2. \A j \in DOMAIN mapping : mapping[j].to # position' => mapping[j].to # position
      BY <1>2, <1>3, <1>9
    <3>. QED BY <1>2, <1>3, <1>7, <1>9, <2>1, <3>1, <3>2
  <2>5. \A k \in DOMAIN next' : k = position' \/ \E j \in DOMAIN mapping' : mapping'[j].to = k
    <3>1. ASSUME NEW k \in DOMAIN next', k \in DOMAIN next
          PROVE  \E j \in DOMAIN mapping : mapping[j].to = k
      BY <1>2, <1>3, <1>4, <3>1
    <3>. QED BY <1>7, <1>9, <2>1, <2>2, <3>1
  <2>6. {<<m.from, m.color>> : m \in Elements(mapping)}'
          = {<<k, lanes[k].color>> : k \in {l \in 1 .. index - 1 : lanes[l].commit # 0}}'
    BY <1>7, <1>9, <2>1
  <2>. QED BY <2>3, <2>4, <2>5, <2>6 DEF MappingShape
<1>10. MappingShape'
  BY <1>6, <1>8, <1>9, WalkCases
<1>. QED BY <1>5, <1>10

----------------------------------------------------------------------------
(* The node and its later parents *)

LEMMA PlaceCases ==
  ASSUME Inductive, PlaceNode
  PROVE  /\ stage = "walk" /\ index = Len(lanes) + 1 /\ row \in 1 .. MaxCommits /\ row' = row
         /\ stage' = "parents" /\ Len(parents) = row - 1
         /\ UNCHANGED <<lanes, index, mapping, spawned, width, placements>>
         /\ \E list \in Seq(1 .. MaxCommits), heir \in Track \cup {Hole} :
              /\ \A c \in Elements(list) : c \in row + 1 .. MaxCommits
              /\ parents' = Append(parents, list)
              /\ heir.commit # 0 <=> list # <<>>
              /\ Elements(list) = Elements(pending') \cup ({heir.commit} \ {0})
              /\ heir.commit # 0 => heir.color = color'
              /\ position = 0 => next' = Append(next, heir) /\ position' = Len(next) + 1
              /\ position # 0 => /\ next' = [next EXCEPT ![position] = heir]
                                 /\ UNCHANGED <<position, color>>
<1>. USE DEF Inductive
<1>1. PICK list \in ParentLists(row) :
        LET opened == position = 0
            hue    == IF opened THEN Allocated ELSE color
            heir   == IF list = <<>> THEN Hole ELSE [commit |-> list[1], color |-> hue]
        IN /\ parents' = Append(parents, list)
           /\ pending' = IF list = <<>> THEN <<>> ELSE Tail(list)
           /\ next' = IF opened THEN Append(next, heir)
                      ELSE [next EXCEPT ![position] = heir]
           /\ position' = IF opened THEN Len(next) + 1 ELSE position
           /\ color' = hue
           /\ cursor' = IF opened THEN Advance ELSE cursor
  BY DEF PlaceNode
<1>2. /\ stage = "walk" /\ index = Len(lanes) + 1 /\ row \in 1 .. MaxCommits /\ row' = row
      /\ stage' = "parents" /\ Len(parents) = row - 1
      /\ UNCHANGED <<lanes, index, mapping, spawned, width, placements>>
  <2>1. /\ stage = "walk" /\ index > Len(lanes) /\ row <= MaxCommits /\ stage' = "parents"
        /\ UNCHANGED <<lanes, index, mapping, spawned, width, placements>>
    BY DEF PlaceNode
  <2>2. Len(parents) = row - 1
    BY <2>1 DEF TypeOK
  <2>3. row' = row
    BY <2>1 DEF row
  <2>. QED BY <2>1, <2>2, <2>3, LayoutTypes
<1>3. list \in Seq(1 .. MaxCommits) /\ \A c \in Elements(list) : c \in row + 1 .. MaxCommits
  <2>1. PICK n \in 0 .. MaxParents : list \in [1 .. n -> (row + 1) .. MaxCommits]
    BY <1>1 DEF ParentLists
  <2>2. (row + 1) .. MaxCommits \subseteq 1 .. MaxCommits
    BY <1>2, LayoutAssumption
  <2>3. list \in [1 .. n -> 1 .. MaxCommits] /\ n \in Nat
    BY <2>1, <2>2, LayoutAssumption
  <2>4. list \in Seq(1 .. MaxCommits)
    BY <2>3, SeqDef
  <2>5. \A i \in DOMAIN list : list[i] \in (row + 1) .. MaxCommits
    BY <2>1
  <2>. QED BY <2>4, <2>5 DEF Elements
<1>. DEFINE hue  == IF position = 0 THEN Allocated ELSE color
            heir == IF list = <<>> THEN Hole ELSE [commit |-> list[1], color |-> hue]
<1>4. /\ parents' = Append(parents, list)
      /\ pending' = IF list = <<>> THEN <<>> ELSE Tail(list)
      /\ next' = IF position = 0 THEN Append(next, heir) ELSE [next EXCEPT ![position] = heir]
      /\ position' = IF position = 0 THEN Len(next) + 1 ELSE position
      /\ color' = hue
  BY <1>1
<1>5. hue \in LaneColor
  BY AllocatedIsColor DEF TypeOK
<1>. HIDE DEF hue
<1>6. /\ heir \in Track \cup {Hole}
      /\ heir.commit # 0 <=> list # <<>>
      /\ heir.commit # 0 => heir.color = hue
      /\ Elements(list) = Elements(pending') \cup ({heir.commit} \ {0})
  <2>1. CASE list = <<>>
    BY <1>4, <2>1 DEF Elements, Hole
  <2>2. CASE list # <<>>
    <3>1. list[1] \in 1 .. MaxCommits /\ list[1] # 0
      BY <1>3, <2>2, TakeFirst
    <3>2. heir = [commit |-> list[1], color |-> hue] /\ heir \in Track
      BY <1>5, <2>2, <3>1 DEF Track
    <3>3. pending' = Tail(list)
      BY <1>4, <2>2
    <3>4. Elements(list) = Elements(Tail(list)) \cup {list[1]}
      <4>1. Elements(list) = {Head(list)} \cup Elements(Tail(list)) /\ Head(list) = list[1]
        BY <1>3, <2>2, Taken
      <4>. QED BY <4>1
    <3>5. heir.commit = list[1] /\ heir.color = hue
      BY <3>2
    <3>. HIDE DEF heir
    <3>. QED BY <2>2, <3>1, <3>2, <3>3, <3>4, <3>5
  <2>. QED BY <2>1, <2>2
<1>7. position # 0 => color' = color
  BY <1>4 DEF hue
<1>. HIDE DEF heir
<1>8. /\ \A c \in Elements(list) : c \in row + 1 .. MaxCommits
      /\ parents' = Append(parents, list)
      /\ heir.commit # 0 <=> list # <<>>
      /\ Elements(list) = Elements(pending') \cup ({heir.commit} \ {0})
      /\ heir.commit # 0 => heir.color = color'
      /\ position = 0 => next' = Append(next, heir) /\ position' = Len(next) + 1
      /\ position # 0 => /\ next' = [next EXCEPT ![position] = heir]
                         /\ UNCHANGED <<position, color>>
  BY <1>3, <1>4, <1>6, <1>7
<1>9. list \in Seq(1 .. MaxCommits) /\ heir \in Track \cup {Hole}
  BY <1>3, <1>6
<1>. QED BY <1>2, <1>8, <1>9

LEMMA PlaceNodeKeeps ==
  ASSUME GraphInv, PlaceNode
  PROVE  CommitsKept' /\ WalkShape' /\ MappingShape' /\ NodeShape'
<1>. USE DEF GraphInv
<1>1. /\ stage = "walk" /\ index = Len(lanes) + 1 /\ row \in 1 .. MaxCommits /\ row' = row
      /\ stage' = "parents" /\ Len(parents) = row - 1
      /\ UNCHANGED <<lanes, index, mapping, spawned, width, placements>>
  BY PlaceCases
<1>2. PICK list \in Seq(1 .. MaxCommits), heir \in Track \cup {Hole} :
        /\ \A c \in Elements(list) : c \in row + 1 .. MaxCommits
        /\ parents' = Append(parents, list)
        /\ heir.commit # 0 <=> list # <<>>
        /\ Elements(list) = Elements(pending') \cup ({heir.commit} \ {0})
        /\ heir.commit # 0 => heir.color = color'
        /\ position = 0 => next' = Append(next, heir) /\ position' = Len(next) + 1
        /\ position # 0 => /\ next' = [next EXCEPT ![position] = heir]
                           /\ UNCHANGED <<position, color>>
  BY PlaceCases
<1>3. /\ parents \in Seq(Seq(1 .. MaxCommits)) /\ next \in Seq(Track \cup {Hole})
      /\ position \in 0 .. Len(next) /\ Len(next) \in Nat /\ MaxCommits \in Nat
      /\ DOMAIN next = 1 .. Len(next) /\ DOMAIN parents = 1 .. Len(parents)
      /\ DOMAIN lanes = 1 .. Len(lanes) /\ Len(lanes) \in Nat
      /\ lanes \in Seq(Track \cup {Hole})
      /\ \A j \in DOMAIN mapping : mapping[j].to \in Column
  BY LayoutTypes
<1>4. /\ spawned = <<>>
      /\ \A k \in DOMAIN lanes : lanes[k].commit # 0 => lanes[k].commit \in Commits(next)
      /\ \A k \in DOMAIN next : /\ next[k].commit \in Commits(lanes)
                                /\ next[k].commit = row <=> k = position
      /\ position # 0 => \E j \in DOMAIN mapping : mapping[j].to = position
  BY <1>1, <1>3 DEF WalkShape
\* The columns walked to expect what came in, whose commits the parents so far are.
<1>5. Commits(next) = Due(row)
  <2>1. Commits(lanes) = Due(row)
    BY <1>1 DEF CommitsKept
  <2>2. Commits(lanes) \subseteq Commits(next)
    <3>1. \A c \in Commits(lanes) : c # 0 /\ \E k \in DOMAIN lanes : lanes[k].commit = c
      BY DEF Commits, Elements
    <3>. QED BY <1>4, <3>1
  <2>3. Commits(next) \subseteq Commits(lanes)
    <3>1. \A c \in Commits(next) : c # 0 /\ \E k \in DOMAIN next : next[k].commit = c
      BY DEF Commits, Elements
    <3>. QED BY <1>4, <3>1
  <2>. QED BY <2>1, <2>2, <2>3
<1>6. position # 0 <=> row \in Due(row)
  <2>1. row \in Commits(next) <=> row # 0 /\ \E k \in DOMAIN next : next[k].commit = row
    BY <1>3, CommitsAt
  <2>2. (\E k \in DOMAIN next : next[k].commit = row) <=> position \in DOMAIN next
    BY <1>4
  <2>. QED BY <1>1, <1>3, <1>5, <2>1, <2>2
<1>7. /\ DOMAIN parents' = DOMAIN parents \cup {row} /\ row \notin DOMAIN parents
      /\ parents'[row] = list
      /\ \A i \in DOMAIN parents : parents'[i] = parents[i]
  BY <1>1, <1>2, <1>3
<1>8. Due(row + 1)' = (Due(row) \ {row}) \cup Elements(list)
  <2>1. (row + 1)' = row + 1
    BY <1>1
  <2>2. \A d \in row + 1 .. MaxCommits : d \in row .. MaxCommits /\ d # row
    BY <1>1, <1>3
  <2>3. \A d \in row .. MaxCommits : d # row => d \in row + 1 .. MaxCommits
    BY <1>1, <1>3
  <2>4. \A d : (\E i \in DOMAIN parents' : d \in Elements(parents'[i]))
                 <=> d \in Elements(list) \/ \E i \in DOMAIN parents : d \in Elements(parents[i])
    BY <1>7
  <2>5. Due(row + 1)' = {d \in row + 1 .. MaxCommits :
                           \E i \in DOMAIN parents' : d \in Elements(parents'[i])}
    BY <2>1 DEF Due, Elements
  <2>6. \A d : d \in Due(row) <=> /\ d \in row .. MaxCommits
                                  /\ \E i \in DOMAIN parents : d \in Elements(parents[i])
    BY DEF Due
  <2>. QED BY <1>2, <2>2, <2>3, <2>4, <2>5, <2>6
<1>9. /\ next' \in Seq(Track \cup {Hole}) /\ position' \in DOMAIN next'
      /\ DOMAIN next' = DOMAIN next \cup {position'} /\ next'[position'] = heir
      /\ \A k \in DOMAIN next : k # position' => next'[k] = next[k]
      /\ position = 0 => position' \notin DOMAIN next
      /\ position # 0 => position' = position
  <2>1. CASE position = 0
    <3>1. next' = Append(next, heir) /\ position' = Len(next) + 1
      BY <1>2, <2>1
    <3>. QED BY <1>3, <2>1, <3>1
  <2>2. CASE position # 0
    <3>1. next' = [next EXCEPT ![position] = heir] /\ position' = position
      BY <1>2, <2>2
    <3>. QED BY <1>3, <2>2, <3>1
  <2>. QED BY <2>1, <2>2
<1>10. Commits(next') = (Commits(next) \ {row}) \cup ({heir.commit} \ {0})
  <2>1. ASSUME NEW c
        PROVE  c \in Commits(next') <=> \/ c = heir.commit /\ c # 0
                                        \/ c \in Commits(next) /\ c # row
    <3>1. c \in Commits(next') <=> c # 0 /\ \E k \in DOMAIN next' : next'[k].commit = c
      BY <1>9, CommitsAt
    <3>2. c \in Commits(next) <=> c # 0 /\ \E k \in DOMAIN next : next[k].commit = c
      BY <1>3, CommitsAt
    <3>3. \A k \in DOMAIN next : next[k].commit # row <=> k # position'
      <4>1. CASE position = 0
        BY <1>3, <1>4, <1>9, <4>1
      <4>2. CASE position # 0
        BY <1>4, <1>9, <4>2
      <4>. QED BY <4>1, <4>2
    <3>. QED BY <1>9, <3>1, <3>2, <3>3
  <2>. QED BY <2>1
<1>11. CommitsKept'
  <2>1. Commits(next)' = Commits(next') /\ Elements(pending)' = Elements(pending')
    BY DEF Commits, Elements
  <2>2. Commits(next') \cup Elements(pending') = Due(row + 1)'
    BY <1>2, <1>5, <1>8, <1>10
  <2>. QED BY <1>1, <2>1, <2>2 DEF CommitsKept
<1>12. WalkShape'
  BY <1>1 DEF WalkShape
<1>13. MappingShape'
  <2>1. /\ {<<m.from, m.color>> : m \in Elements(mapping)}'
             = {<<k, lanes[k].color>> : k \in {l \in 1 .. index - 1 : lanes[l].commit # 0}}'
        /\ \A j \in DOMAIN mapping :
             /\ mapping[j].to \in DOMAIN next
             /\ mapping[j].to # position => /\ next[mapping[j].to].commit # 0
                                            /\ next[mapping[j].to].color = mapping[j].color
             /\ mapping[j].to = position /\ First(j) => mapping[j].color = color
        /\ \A j, k \in DOMAIN mapping :
             j < k /\ mapping[j].to # position /\ mapping[k].to # position
               => mapping[j].to < mapping[k].to
        /\ \A k \in DOMAIN next : k = position \/ \E j \in DOMAIN mapping : mapping[j].to = k
    BY <1>1, <1>4 DEF MappingShape, Elements
  <2>2. \A j \in DOMAIN mapping : mapping[j].to = position' <=> mapping[j].to = position
    BY <1>3, <1>9, <2>1, LayoutTypes DEF Column
  <2>3. \A j \in DOMAIN mapping : First(j)' <=> First(j)
    BY <1>1 DEF First
  <2>4. \A j \in DOMAIN mapping :
          /\ mapping[j].to \in DOMAIN next'
          /\ mapping[j].to # position' => /\ next'[mapping[j].to].commit # 0
                                          /\ next'[mapping[j].to].color = mapping[j].color
    BY <1>9, <2>1, <2>2
  <2>5. \A j \in DOMAIN mapping : mapping[j].to = position' /\ First(j)' => mapping[j].color = color'
    <3>1. ASSUME NEW j \in DOMAIN mapping, mapping[j].to = position' PROVE position # 0
      BY <1>9, <2>1, <3>1
    <3>. QED BY <1>2, <2>1, <2>2, <2>3, <3>1
  <2>6. \A j, k \in DOMAIN mapping :
          j < k /\ mapping[j].to # position' /\ mapping[k].to # position'
            => mapping[j].to < mapping[k].to
    BY <2>1, <2>2
  <2>7. \A k \in DOMAIN next' : k = position' \/ \E j \in DOMAIN mapping : mapping[j].to = k
    <3>1. ASSUME NEW k \in DOMAIN next, k # position'
          PROVE  \E j \in DOMAIN mapping : mapping[j].to = k
      <4>1. k # position
        BY <1>3, <1>9, <3>1
      <4>. QED BY <2>1, <4>1
    <3>. QED BY <1>9, <3>1
  <2>. QED BY <1>1, <2>1, <2>4, <2>5, <2>6, <2>7 DEF MappingShape
<1>14. NodeShape'
  <2>1. next'[position'].commit # 0 <=> parents'[row] # <<>>
    BY <1>2, <1>7, <1>9
  <2>2. next'[position'].commit # 0 => next'[position'].color = color'
    BY <1>2, <1>9
  <2>3. (\E j \in DOMAIN mapping : mapping[j].to = position') <=> position # 0
    <3>1. position = 0 => \A j \in DOMAIN mapping : mapping[j].to # position'
      BY <1>9 DEF MappingShape
    <3>. QED BY <1>4, <1>9, <3>1
  <2>4. row \in Due(row) <=> \E i \in 1 .. row - 1 : row \in Elements(parents'[i])
    <3>1. 1 .. row - 1 = DOMAIN parents /\ row \in row .. MaxCommits
      BY <1>1, <1>3
    <3>. QED BY <1>7, <3>1 DEF Due
  <2>5. \A s \in Elements(spawned) : FALSE
    BY <1>4 DEF Elements
  <2>. QED BY <1>1, <1>6, <2>1, <2>2, <2>3, <2>4, <2>5 DEF NodeShape, Elements
<1>. QED BY <1>11, <1>12, <1>13, <1>14

LEMMA SpawnCases ==
  ASSUME Inductive, SpawnParent
  PROVE  /\ stage = "parents" /\ row' = row
         /\ UNCHANGED <<parents, stage, lanes, index, mapping, position, color, width, placements>>
         /\ Head(pending) \in 1 .. MaxCommits
         /\ Elements(pending) = {Head(pending)} \cup Elements(pending')
         /\ \/ Head(pending) \in Commits(next) /\ UNCHANGED <<next, spawned>>
            \/ \E track \in Track :
                 /\ track.commit = Head(pending)
                 /\ next' = Append(next, track)
                 /\ spawned' = Append(spawned, [column |-> Len(next) + 1, color |-> track.color])
                 /\ [column |-> Len(next) + 1, color |-> track.color] \in Spawn
<1>. USE DEF Inductive
<1>1. /\ stage = "parents" /\ row' = row /\ pending # <<>> /\ pending' = Tail(pending)
      /\ UNCHANGED <<parents, stage, lanes, index, mapping, position, color, width, placements>>
  BY DEF SpawnParent, row
<1>2. pending \in Seq(1 .. MaxCommits)
  BY DEF TypeOK
<1>3. Head(pending) \in 1 .. MaxCommits /\ Elements(pending) = {Head(pending)} \cup Elements(pending')
  BY <1>1, <1>2, Taken
<1>4. Head(pending) # 0
  BY <1>3, LayoutAssumption
<1>5. CASE \E t \in Elements(next) : t.commit = Head(pending)
  <2>1. Head(pending) \in Commits(next)
    BY <1>4, <1>5 DEF Commits
  <2>2. UNCHANGED <<next, spawned>>
    BY <1>5 DEF SpawnParent
  <2>. QED BY <1>1, <1>3, <2>1, <2>2
<1>6. CASE ~ \E t \in Elements(next) : t.commit = Head(pending)
  <2>. DEFINE track == [commit |-> Head(pending), color |-> Allocated]
  <2>1. /\ next' = Append(next, track)
        /\ spawned' = Append(spawned, [column |-> Len(next) + 1, color |-> track.color])
    BY <1>6 DEF SpawnParent
  <2>2. Allocated \in LaneColor
    BY AllocatedIsColor DEF TypeOK
  <2>3. track \in Track /\ track.commit = Head(pending)
    BY <1>3, <2>2 DEF Track
  <2>4. [column |-> Len(next) + 1, color |-> track.color] \in Spawn
    BY <2>2, LayoutTypes DEF Spawn, Column
  <2>. HIDE DEF track
  <2>. QED BY <1>1, <1>3, <2>1, <2>3, <2>4
<1>. QED BY <1>5, <1>6

LEMMA SpawnParentKeeps ==
  ASSUME GraphInv, SpawnParent
  PROVE  CommitsKept' /\ WalkShape' /\ MappingShape' /\ NodeShape'
<1>. USE DEF GraphInv
<1>1. /\ stage = "parents" /\ row' = row
      /\ UNCHANGED <<parents, stage, lanes, index, mapping, position, color, width, placements>>
      /\ Head(pending) \in 1 .. MaxCommits
      /\ Elements(pending) = {Head(pending)} \cup Elements(pending')
  BY SpawnCases
<1>2. /\ next \in Seq(Track \cup {Hole}) /\ spawned \in Seq(Spawn) /\ MaxCommits \in Nat
      /\ DOMAIN next = 1 .. Len(next) /\ Len(next) \in Nat /\ position \in DOMAIN next
  BY <1>1, LayoutTypes DEF Inductive, NodePlaced
<1>3. /\ Commits(next)' = Commits(next') /\ Elements(pending)' = Elements(pending')
      /\ Due(row + 1)' = Due(row + 1) /\ Elements(spawned)' = Elements(spawned')
  BY <1>1 DEF Commits, Elements, Due
<1>4. Commits(next) \cup Elements(pending) = Due(row + 1)
  BY <1>1 DEF CommitsKept
<1>5. WalkShape'
  BY <1>1 DEF WalkShape
<1>6. /\ index = Len(lanes) + 1
      /\ next[position].commit # 0 <=> parents[row] # <<>>
      /\ next[position].commit # 0 => next[position].color = color
      /\ \A s \in Elements(spawned) :
           /\ s.column \in Live(next) /\ s.column # position
           /\ next[s.column].color = s.color
      /\ (\E j \in DOMAIN mapping : mapping[j].to = position)
           <=> \E i \in 1 .. row - 1 : row \in Elements(parents[i])
  BY <1>1 DEF NodeShape
<1>7. CASE Head(pending) \in Commits(next) /\ UNCHANGED <<next, spawned>>
  <2>1. CommitsKept'
    BY <1>1, <1>3, <1>4, <1>7 DEF CommitsKept
  <2>2. MappingShape'
    BY <1>1, <1>7 DEF MappingShape, First, Elements
  <2>3. NodeShape'
    BY <1>1, <1>7 DEF NodeShape, Live, Elements
  <2>. QED BY <1>5, <2>1, <2>2, <2>3
<1>8. CASE \E track \in Track :
             /\ track.commit = Head(pending)
             /\ next' = Append(next, track)
             /\ spawned' = Append(spawned, [column |-> Len(next) + 1, color |-> track.color])
             /\ [column |-> Len(next) + 1, color |-> track.color] \in Spawn
  <2>1. PICK track \in Track :
             /\ track.commit = Head(pending)
             /\ next' = Append(next, track)
             /\ spawned' = Append(spawned, [column |-> Len(next) + 1, color |-> track.color])
             /\ [column |-> Len(next) + 1, color |-> track.color] \in Spawn
    BY <1>8
  <2>. DEFINE last == Len(next) + 1  spawn == [column |-> last, color |-> track.color]
  <2>2. /\ DOMAIN next' = DOMAIN next \cup {last} /\ last \notin DOMAIN next
        /\ next'[last] = track /\ \A k \in DOMAIN next : next'[k] = next[k]
    BY <1>2, <2>1, Appended
  <2>3. Elements(spawned') = Elements(spawned) \cup {spawn}
    BY <1>2, <2>1, Appended
  <2>4. spawn.column = last /\ spawn.color = track.color /\ track.commit # 0
    BY <1>1, <1>2, <2>1
  <2>5. Commits(next') = Commits(next) \cup ({track.commit} \ {0})
    BY <1>2, <2>1, CommitsAppended
  <2>. HIDE DEF spawn, last
  <2>6. CommitsKept'
    BY <1>1, <1>3, <1>4, <2>1, <2>4, <2>5 DEF CommitsKept
  <2>7. MappingShape'
    <3>1. \A j \in DOMAIN mapping :
            /\ mapping[j].to \in DOMAIN next'
            /\ mapping[j].to # position => /\ next'[mapping[j].to].commit # 0
                                           /\ next'[mapping[j].to].color = mapping[j].color
            /\ mapping[j].to = position /\ First(j)' => mapping[j].color = color
      BY <1>1, <2>2 DEF MappingShape, First
    <3>2. \A k \in DOMAIN next' : \/ k = position
                                  \/ \E j \in DOMAIN mapping : mapping[j].to = k
                                  \/ \E s \in Elements(spawned') : s.column = k
      BY <2>2, <2>3, <2>4 DEF MappingShape
    <3>3. {<<m.from, m.color>> : m \in Elements(mapping)}'
            = {<<k, lanes[k].color>> : k \in {l \in 1 .. index - 1 : lanes[l].commit # 0}}'
      BY <1>1 DEF MappingShape, Elements
    <3>. QED BY <1>1, <1>3, <3>1, <3>2, <3>3 DEF MappingShape
  <2>8. NodeShape'
    <3>1. \A s \in Elements(spawned') :
            /\ s.column \in Live(next') /\ s.column # position
            /\ next'[s.column].color = s.color
      BY <1>2, <1>6, <2>2, <2>3, <2>4 DEF Live
    <3>2. next'[position] = next[position]
      BY <1>2, <2>2
    <3>. QED BY <1>1, <1>3, <1>6, <3>1, <3>2 DEF NodeShape, Live
  <2>. QED BY <1>5, <2>6, <2>7, <2>8
<1>. QED BY <1>7, <1>8, SpawnCases

----------------------------------------------------------------------------
(* The row that is finished *)

RowPlaced == [position |-> position, color |-> color, mapping |-> mapping,
              spawned |-> spawned, hasParents |-> parents[row] # <<>>]

LEMMA CarriedLines ==
  ASSUME NEW p
  PROVE  \A s : s \in Carried(p) <=>
           \E j \in DOMAIN p.mapping :
             /\ \A i \in 1 .. j - 1 : p.mapping[i].to # p.mapping[j].to
             /\ s = [from |-> p.mapping[j].to, to |-> p.mapping[j].to, color |-> p.mapping[j].color]
BY DEF Carried

(* The lines that leave the row are the columns that go on. *)
LEMMA SegmentsAreLines ==
  ASSUME GraphInv, stage = "parents"
  PROVE  {<<s.to, s.color>> : s \in Segments(RowPlaced)} = Lines(next)
<1>. USE DEF GraphInv
<1>. DEFINE p == RowPlaced
<1>1. /\ p.position = position /\ p.color = color /\ p.mapping = mapping /\ p.spawned = spawned
      /\ p.hasParents <=> parents[row] # <<>>
  BY DEF RowPlaced
<1>2. /\ next[position].commit # 0 <=> parents[row] # <<>>
      /\ next[position].commit # 0 => next[position].color = color
      /\ \A s \in Elements(spawned) :
           /\ s.column \in Live(next) /\ s.column # position
           /\ next[s.column].color = s.color
  BY DEF NodeShape
<1>3. /\ \A j \in DOMAIN mapping :
           /\ mapping[j].to \in DOMAIN next
           /\ mapping[j].to # position => /\ next[mapping[j].to].commit # 0
                                          /\ next[mapping[j].to].color = mapping[j].color
           /\ mapping[j].to = position /\ First(j) => mapping[j].color = color
      /\ \A j, k \in DOMAIN mapping :
           j < k /\ mapping[j].to # position /\ mapping[k].to # position
             => mapping[j].to < mapping[k].to
      /\ \A k \in DOMAIN next : \/ k = position
                                \/ \E j \in DOMAIN mapping : mapping[j].to = k
                                \/ \E s \in Elements(spawned) : s.column = k
  BY DEF MappingShape
<1>4. /\ position \in DOMAIN next /\ DOMAIN mapping = 1 .. Len(mapping) /\ Len(mapping) \in Nat
      /\ DOMAIN next \subseteq Nat
  BY LayoutTypes DEF Inductive, NodePlaced
<1>5. \A j \in DOMAIN mapping : mapping[j].to # position => First(j)
  <2>. TAKE j \in DOMAIN mapping
  <2>1. SUFFICES ASSUME mapping[j].to # position, NEW i \in 1 .. j - 1, mapping[i].to = mapping[j].to
                 PROVE  FALSE
    BY DEF First
  <2>2. i \in DOMAIN mapping /\ i < j
    BY <1>4
  <2>3. mapping[i].to < mapping[j].to /\ mapping[j].to \in Nat
    BY <1>3, <1>4, <2>1, <2>2
  <2>. QED BY <2>1, <2>3
<1>6. \A s : s \in Carried(p) <=>
        \E j \in DOMAIN mapping :
          First(j) /\ s = [from |-> mapping[j].to, to |-> mapping[j].to, color |-> mapping[j].color]
  BY <1>1, CarriedLines DEF First
<1>7. Straight(p) = [from |-> position, to |-> position, color |-> color]
  BY <1>1 DEF Straight
<1>8. ASSUME NEW s \in Carried(p)
      PROVE  /\ s.to # position => s.to \in Live(next) /\ s.color = next[s.to].color
             /\ s.to = position => s.color = color
  <2>1. PICK j \in DOMAIN mapping :
          First(j) /\ s = [from |-> mapping[j].to, to |-> mapping[j].to, color |-> mapping[j].color]
    BY <1>6
  <2>2. s.to = mapping[j].to /\ s.color = mapping[j].color
    BY <2>1
  <2>. QED BY <1>3, <2>1, <2>2 DEF Live
<1>9. ASSUME NEW s \in Elements(spawned)
      PROVE  LET line == [from |-> p.position, to |-> s.column, color |-> s.color] IN
             line.to \in Live(next) /\ line.color = next[line.to].color
  BY <1>2
<1>. HIDE DEF p
<1>10. ASSUME NEW s \in Segments(p) PROVE s.to \in Live(next) /\ s.color = next[s.to].color
  <2>1. CASE \E t \in Elements(p.spawned) : s = [from |-> p.position, to |-> t.column, color |-> t.color]
    BY <1>1, <1>9, <2>1
  <2>2. CASE s \in Carried(p) /\ s.to # position
    BY <1>8, <2>2
  <2>3. CASE s \in Carried(p) /\ s.to = position /\ p.hasParents
    BY <1>1, <1>2, <1>4, <1>8, <2>3 DEF Live
  <2>4. CASE s = Straight(p) /\ p.hasParents
    BY <1>1, <1>2, <1>4, <1>7, <2>4 DEF Live
  <2>. QED BY <1>1, <2>1, <2>2, <2>3, <2>4 DEF Segments
<1>11. ASSUME NEW k \in Live(next)
       PROVE  \E s \in Segments(p) : s.to = k /\ s.color = next[k].color
  <2>1. CASE k = position
    <3>1. p.hasParents /\ next[k].color = color
      BY <1>1, <1>2, <2>1 DEF Live
    <3>2. CASE \E s \in Carried(p) : s.to = position
      BY <1>8, <2>1, <3>1, <3>2 DEF Segments
    <3>3. CASE ~ \E s \in Carried(p) : s.to = position
      BY <1>1, <1>7, <2>1, <3>1, <3>3 DEF Segments
    <3>. QED BY <3>2, <3>3
  <2>2. CASE k # position /\ \E j \in DOMAIN mapping : mapping[j].to = k
    <3>1. PICK j \in DOMAIN mapping : mapping[j].to = k
      BY <2>2
    <3>2. First(j) /\ mapping[j].color = next[k].color
      BY <1>3, <1>5, <2>2, <3>1
    <3>. DEFINE s == [from |-> mapping[j].to, to |-> mapping[j].to, color |-> mapping[j].color]
    <3>3. s \in Carried(p) /\ s.to = k /\ s.color = next[k].color
      BY <1>6, <3>1, <3>2
    <3>. HIDE DEF s
    <3>4. s \in Segments(p)
      BY <1>1, <2>2, <3>3 DEF Segments
    <3>. QED BY <3>3, <3>4
  <2>3. CASE \E s \in Elements(spawned) : s.column = k
    <3>1. PICK s \in Elements(spawned) : s.column = k
      BY <2>3
    <3>. DEFINE line == [from |-> p.position, to |-> s.column, color |-> s.color]
    <3>2. line.to = k /\ line.color = next[k].color
      BY <1>2, <3>1
    <3>3. line \in Segments(p)
      BY <1>1 DEF Segments
    <3>. HIDE DEF line
    <3>. QED BY <3>2, <3>3
  <2>. QED BY <1>3, <2>1, <2>2, <2>3 DEF Live
<1>12. ASSUME NEW s \in Segments(p) PROVE <<s.to, s.color>> \in Lines(next)
  BY <1>10 DEF Lines
<1>13. ASSUME NEW k \in Live(next)
       PROVE  <<k, next[k].color>> \in {<<s.to, s.color>> : s \in Segments(p)}
  BY <1>11
<1>. QED BY <1>12, <1>13 DEF Lines, p

(* The columns a row touches. *)
Touched(p) == {p.position} \cup {s.to : s \in Segments(p)} \cup {s.from : s \in Elements(p.mapping)}

WidthOfRows ==
  /\ \A p \in Elements(placements) : \A c \in Touched(p) : c <= width
  /\ placements # <<>> => \E p \in Elements(placements) : width \in Touched(p)

LEMMA WidthByRow == WidthIsTight <=> WidthOfRows
<1>. DEFINE used == UNION {{p.position} \cup {s.to : s \in Segments(p)}
                                         \cup {s.from : s \in Elements(p.mapping)} :
                            p \in Elements(placements)}
<1>1. used = UNION {Touched(p) : p \in Elements(placements)}
  BY Zenon DEF Touched
<1>2. \A c : c \in used <=> \E p \in Elements(placements) : c \in Touched(p)
  BY <1>1
<1>3. WidthIsTight <=> (\A c \in used : c <= width) /\ (placements # <<>> => width \in used)
  BY Zenon DEF WidthIsTight
<1>. HIDE DEF used
<1>. QED BY <1>2, <1>3 DEF WidthOfRows

LEMMA TouchedAreColumns ==
  ASSUME NEW p \in Placement
  PROVE  Touched(p) \subseteq Nat
<1>1. p.position \in Nat /\ p.mapping \in Seq(Segment) /\ p.spawned \in Seq(Spawn)
  BY DEF Placement, Column
<1>2. \A m \in Elements(p.mapping) : m.from \in Nat
  <2>1. \A m \in Elements(p.mapping) : m \in Segment
    BY <1>1 DEF Elements
  <2>. QED BY <2>1 DEF Segment, Column
<1>3. \A j \in DOMAIN p.mapping : p.mapping[j].to \in Nat
  <2>1. \A j \in DOMAIN p.mapping : p.mapping[j] \in Segment
    BY <1>1
  <2>. QED BY <2>1 DEF Segment, Column
<1>4. \A s \in Carried(p) : s.to \in Nat
  BY <1>3, CarriedLines
<1>5. \A t \in Elements(p.spawned) : t.column \in Nat
  <2>1. \A t \in Elements(p.spawned) : t \in Spawn
    BY <1>1 DEF Elements
  <2>. QED BY <2>1 DEF Spawn, Column
<1>6. Straight(p).to \in Nat
  BY <1>1 DEF Straight
<1>7. \A s \in Segments(p) : s.to \in Nat
  BY <1>4, <1>5, <1>6 DEF Segments
<1>. QED BY <1>1, <1>2, <1>7 DEF Touched

(* Where the lines of the row of commit i meet, ps being the parents. *)
Meets(p, i, ps) ==
  LET reached == {k \in DOMAIN p.mapping : p.mapping[k].to = p.position} IN
  /\ \A j, k \in DOMAIN p.mapping \ reached : j < k => p.mapping[j].to < p.mapping[k].to
  /\ reached # {} <=> \E j \in 1 .. i - 1 : i \in Elements(ps[j])
RowsMeet == \A i \in 1 .. Len(placements) : Meets(placements[i], i, parents)

LEMMA MeetsByRow == LinesMeetOnlyAtTheNode <=> RowsMeet
BY Zenon DEF LinesMeetOnlyAtTheNode, RowsMeet, Meets

LEMMA FinishRowKeeps ==
  ASSUME GraphInv, FinishRow
  PROVE  /\ CommitsKept' /\ WalkShape' /\ MappingShape' /\ NodeShape' /\ RowsShape'
         /\ RowsContinue' /\ LinesMeetOnlyAtTheNode' /\ WidthIsTight'
<1>. USE DEF GraphInv
<1>. DEFINE n == Len(placements)
<1>1. /\ stage = "parents" /\ stage' = "walk" /\ lanes' = next /\ next' = <<>> /\ pending = <<>>
      /\ index' = 1 /\ mapping' = <<>> /\ position' = 0 /\ spawned' = <<>>
      /\ UNCHANGED <<parents, pending>>
      /\ width' = Larger(width, Larger(Len(lanes), Len(next)))
      /\ placements' = Append(placements, RowPlaced)
  BY DEF FinishRow, StartRow, WidthSoFar, RowPlaced
<1>2. /\ placements \in Seq(Placement) /\ n \in Nat /\ row = n + 1 /\ width \in Nat
      /\ Len(next) \in Nat /\ Len(lanes) \in Nat /\ position \in DOMAIN next
      /\ DOMAIN next = 1 .. Len(next) /\ DOMAIN lanes = 1 .. Len(lanes)
      /\ DOMAIN placements = 1 .. n
      /\ next \in Seq(Track \cup {Hole})
      /\ \A k \in DOMAIN next : next[k].commit \in Nat
  BY <1>1, LayoutTypes DEF Inductive, NodePlaced, TypeOK
<1>3. RowPlaced \in Placement
  BY <1>1 DEF Inductive, TypeOK, NodePlaced, Placement, RowPlaced, Column
<1>4. /\ DOMAIN placements' = 1 .. n + 1 /\ Len(placements') = n + 1
      /\ placements'[n + 1] = RowPlaced
      /\ \A i \in 1 .. n : placements'[i] = placements[i]
      /\ Elements(placements') = Elements(placements) \cup {RowPlaced}
      /\ placements' # <<>>
  <2>1. /\ DOMAIN placements' = 1 .. n + 1 /\ Len(placements') = n + 1
        /\ placements'[n + 1] = RowPlaced
        /\ \A i \in DOMAIN placements : placements'[i] = placements[i]
        /\ Elements(placements') = Elements(placements) \cup {RowPlaced}
    BY <1>1, <1>2, <1>3, Appended
  <2>. QED BY <1>2, <2>1
<1>5. row' = n + 2
  BY <1>2, <1>4 DEF row
<1>6. {<<s.to, s.color>> : s \in Segments(RowPlaced)} = Lines(next)
  BY <1>1, SegmentsAreLines
<1>7. {<<m.from, m.color>> : m \in Elements(mapping)} = Lines(lanes)
  <2>1. {k \in 1 .. index - 1 : lanes[k].commit # 0} = Live(lanes)
    BY <1>1, <1>2 DEF NodeShape, Live
  <2>. QED BY <2>1 DEF MappingShape, Lines
<1>. DEFINE p == RowPlaced
<1>8. p.position = position /\ p.color = color /\ p.mapping = mapping
  BY DEF RowPlaced
<1>. HIDE DEF p
<1>9. CommitsKept'
  <2>1. Commits(next) = Due(row + 1)
    <3>1. Elements(pending) = {}
      BY <1>1 DEF Elements
    <3>. QED BY <1>1, <3>1 DEF CommitsKept
  <2>2. Commits(lanes)' = Commits(next) /\ Due(row)' = Due(row + 1)
    BY <1>1, <1>2, <1>5 DEF Commits, Elements, Due
  <2>. QED BY <1>1, <2>1, <2>2 DEF CommitsKept
<1>10. WalkShape'
  BY <1>1 DEF WalkShape
<1>11. MappingShape'
  <2>1. Elements(mapping)' = {} /\ (1 .. index - 1)' = {}
    BY <1>1 DEF Elements
  <2>2. {<<m.from, m.color>> : m \in Elements(mapping)}'
          = {<<k, lanes[k].color>> : k \in {l \in 1 .. index - 1 : lanes[l].commit # 0}}'
    BY <2>1
  <2>3. DOMAIN mapping' = {} /\ DOMAIN next' = {}
    BY <1>1
  <2>. QED BY <2>2, <2>3 DEF MappingShape
<1>12. NodeShape'
  BY <1>1 DEF NodeShape
<1>13. Len(next) <= width' /\ width <= width' /\ width' \in {width, Len(next)}
  <2>1. Len(lanes) <= width
    BY DEF RowsShape
  <2>2. Larger(Len(lanes), Len(next)) \in {Len(lanes), Len(next)}
        /\ Len(lanes) <= Larger(Len(lanes), Len(next)) /\ Len(next) <= Larger(Len(lanes), Len(next))
    BY <1>2 DEF Larger
  <2>. DEFINE needed == Larger(Len(lanes), Len(next))
  <2>3. width' = IF width < needed THEN needed ELSE width
    BY <1>1 DEF Larger
  <2>. HIDE DEF needed
  <2>4. needed \in {Len(lanes), Len(next)} /\ Len(next) <= needed
    BY <2>2 DEF needed
  <2>5. needed \in Nat
    BY <1>2, <2>4
  <2>6. CASE width < needed
    <3>1. needed # Len(lanes)
      BY <1>2, <2>1, <2>6
    <3>2. needed = Len(next) /\ width' = Len(next)
      BY <2>3, <2>4, <2>6, <3>1
    <3>. QED BY <1>2, <2>6, <3>2
  <2>7. CASE ~ width < needed
    <3>1. width' = width
      BY <2>3, <2>7
    <3>2. needed <= width
      BY <1>2, <2>5, <2>7
    <3>3. Len(next) <= width
      <4>. DEFINE wide == Len(next)
      <4>1. wide \in Nat /\ needed \in Nat /\ width \in Nat /\ wide <= needed
        BY <1>2, <2>4, <2>5
      <4>. HIDE DEF wide
      <4>2. wide <= width
        BY <3>2, <4>1
      <4>. QED BY <4>2 DEF wide
    <3>. QED BY <1>2, <3>1, <3>3
  <2>. QED BY <2>6, <2>7
<1>14. RowsShape'
  <2>1. {<<s.to, s.color>> : s \in Segments(placements'[Len(placements')])} = Lines(next)
    BY <1>4, <1>6
  <2>2. Lines(lanes)' = Lines(next)
    BY <1>1 DEF Lines, Live
  <2>3. {<<s.to, s.color>> : s \in Segments(placements[Len(placements)])}' = Lines(lanes)'
    BY <2>1, <2>2
  <2>. QED BY <1>1, <1>4, <1>13, <2>3 DEF RowsShape
<1>15. RowsContinue'
  <2>1. ASSUME NEW i \in 1 .. n
        PROVE  {<<s.to, s.color>> : s \in Segments(placements'[i])}
                 = {<<s.from, s.color>> : s \in Elements(placements'[i + 1].mapping)}
    <3>1. CASE i < n
      <4>1. i \in 1 .. n - 1 /\ i + 1 \in 1 .. n
        BY <1>2, <3>1
      <4>. QED BY <1>4, <4>1 DEF RowsContinue
    <3>2. CASE i = n
      <4>1. placements # <<>>
        BY <1>2
      <4>2. {<<s.to, s.color>> : s \in Segments(placements[n])} = Lines(lanes)
        BY <4>1 DEF RowsShape
      <4>3. placements'[i] = placements[n] /\ placements'[i + 1].mapping = mapping
        BY <1>4, <1>8, <3>2 DEF p
      <4>. QED BY <1>7, <4>2, <4>3
    <3>3. i < n \/ i = n
      <4>1. n \in Nat
        BY <1>2
      <4>. HIDE DEF n
      <4>. QED BY <4>1
    <3>. QED BY <3>1, <3>2, <3>3
  <2>2. 1 .. Len(placements') - 1 = 1 .. n
    BY <1>2, <1>4
  <2>. QED BY <2>1, <2>2 DEF RowsContinue, Elements
<1>16. LinesMeetOnlyAtTheNode'
  <2>1. \A i \in 1 .. n : Meets(placements[i], i, parents)
    BY MeetsByRow DEF RowsMeet
  <2>2. Meets(p, n + 1, parents)
    <3>1. /\ \A j, k \in DOMAIN mapping :
               j < k /\ mapping[j].to # position /\ mapping[k].to # position
                 => mapping[j].to < mapping[k].to
          /\ (\E j \in DOMAIN mapping : mapping[j].to = position)
               <=> \E i \in 1 .. row - 1 : row \in Elements(parents[i])
      BY <1>1 DEF MappingShape, NodeShape
    <3>. QED BY <1>2, <1>8, <3>1 DEF Meets
  <2>3. \A i \in 1 .. n + 1 : Meets(placements'[i], i, parents')
    BY <1>1, <1>2, <1>4, <2>1, <2>2 DEF p
  <2>4. RowsMeet'
    BY <1>4, <2>3 DEF RowsMeet
  <2>5. (LinesMeetOnlyAtTheNode <=> RowsMeet)'
    BY MeetsByRow, PTL
  <2>. QED BY <2>4, <2>5
<1>17. WidthIsTight'
  <2>1. {s.to : s \in Segments(p)} = Live(next)
    <3>1. \A s \in Segments(p) : <<s.to, s.color>> \in Lines(next)
      BY <1>6 DEF p
    <3>2. \A k \in Live(next) : \E s \in Segments(p) : <<k, next[k].color>> = <<s.to, s.color>>
      BY <1>6 DEF p, Lines
    <3>3. \A s \in Segments(p) : s.to \in Live(next)
      BY <3>1 DEF Lines
    <3>. QED BY <3>2, <3>3
  <2>2. {m.from : m \in Elements(p.mapping)} = Live(lanes)
    <3>1. \A m \in Elements(mapping) : <<m.from, m.color>> \in Lines(lanes)
      BY <1>7
    <3>2. \A k \in Live(lanes) : \E m \in Elements(mapping) : <<k, lanes[k].color>> = <<m.from, m.color>>
      BY <1>7 DEF Lines
    <3>3. \A m \in Elements(mapping) : m.from \in Live(lanes)
      BY <3>1 DEF Lines
    <3>. QED BY <1>8, <3>2, <3>3
  <2>3. Touched(p) = {position} \cup Live(next) \cup Live(lanes)
    BY <1>8, <2>1, <2>2 DEF Touched
  <2>4. \A c \in Touched(p) : c <= width'
    <3>1. Len(lanes) <= width
      BY DEF RowsShape
    <3>2. \A c \in Live(next) : c <= Len(next) /\ c \in Nat
      BY <1>2 DEF Live
    <3>3. \A c \in Live(lanes) : c <= Len(lanes) /\ c \in Nat
      BY <1>2 DEF Live
    <3>4. width' \in Nat
      BY <1>2, <1>13
    <3>. QED BY <1>2, <1>13, <2>3, <3>1, <3>2, <3>3, <3>4
  <2>5. Len(next) \in Touched(p)
    <3>1. Len(next) \in DOMAIN next
      BY <1>2
    <3>2. CASE Len(next) = position
      BY <2>3, <3>2
    <3>3. CASE Len(next) # position
      <4>1. next[Len(next)].commit # 0
        BY <1>1, <3>1, <3>3 DEF MappingShape, NodeShape, Live
      <4>. QED BY <2>3, <3>1, <4>1 DEF Live
    <3>. QED BY <3>2, <3>3
  <2>6. \A q \in Elements(placements) : \A c \in Touched(q) : c <= width'
    <3>1. \A q \in Elements(placements) : \A c \in Touched(q) : c <= width
      BY WidthByRow DEF WidthOfRows
    <3>2. \A q \in Elements(placements) : Touched(q) \subseteq Nat
      <4>. TAKE q \in Elements(placements)
      <4>1. q \in Placement
        BY <1>2 DEF Elements
      <4>. QED BY <4>1, TouchedAreColumns
    <3>. QED BY <1>2, <1>13, <3>1, <3>2
  <2>7. \E q \in Elements(placements') : width' \in Touched(q)
    <3>1. CASE width' = Len(next)
      BY <1>4, <2>5, <3>1 DEF p
    <3>2. CASE width' = width /\ placements # <<>>
      BY <1>4, <3>2, WidthByRow DEF WidthOfRows
    <3>3. CASE width' = width /\ placements = <<>>
      <4>1. width = 0
        BY <3>3 DEF RowsShape
      <4>2. Len(next) >= 1
        BY <1>2
      <4>. QED BY <1>2, <1>13, <3>3, <4>1, <4>2
    <3>. QED BY <1>13, <3>1, <3>2, <3>3
  <2>8. \A q \in Elements(placements') : \A c \in Touched(q) : c <= width'
    BY <1>4, <2>4, <2>6 DEF p
  <2>9. WidthOfRows'
    BY <2>7, <2>8 DEF WidthOfRows, Elements
  <2>10. (WidthIsTight <=> WidthOfRows)'
    BY WidthByRow, PTL
  <2>. QED BY <2>9, <2>10
<1>. QED BY <1>9, <1>10, <1>11, <1>12, <1>14, <1>15, <1>16, <1>17

(* The rows laid out, and the width, change only when a row is finished; the
   parents of their commits are not chosen again. *)
LEMMA RowsUntouched ==
  ASSUME GraphInv, UNCHANGED <<lanes, placements, width>>,
         \A i \in 1 .. row - 1 : parents'[i] = parents[i]
  PROVE  RowsShape' /\ RowsContinue' /\ LinesMeetOnlyAtTheNode' /\ WidthIsTight'
<1>. USE DEF GraphInv
<1>1. RowsShape'
  <2>1. Lines(lanes)' = Lines(lanes)
    BY DEF Lines, Live
  <2>2. {<<s.to, s.color>> : s \in Segments(placements[Len(placements)])}'
          = {<<s.to, s.color>> : s \in Segments(placements[Len(placements)])}
    OBVIOUS
  <2>. QED BY <2>1, <2>2 DEF RowsShape
<1>2. RowsContinue'
  BY DEF RowsContinue
<1>3. LinesMeetOnlyAtTheNode'
  <2>1. Len(placements) = row - 1 /\ row \in Nat
    BY LayoutTypes
  <2>2. \A i \in 1 .. Len(placements) : Meets(placements[i], i, parents)
    BY MeetsByRow DEF RowsMeet
  <2>3. ASSUME NEW i \in 1 .. Len(placements) PROVE Meets(placements[i], i, parents')
    <3>1. \A j \in 1 .. i - 1 : parents'[j] = parents[j]
      BY <2>1
    <3>. QED BY <2>2, <3>1 DEF Meets
  <2>4. RowsMeet'
    BY <2>3 DEF RowsMeet
  <2>5. (LinesMeetOnlyAtTheNode <=> RowsMeet)'
    BY MeetsByRow, PTL
  <2>. QED BY <2>4, <2>5
<1>4. WidthIsTight'
  <2>1. WidthOfRows'
    BY WidthByRow DEF WidthOfRows
  <2>2. (WidthIsTight <=> WidthOfRows)'
    BY WidthByRow, PTL
  <2>. QED BY <2>1, <2>2
<1>. QED BY <1>1, <1>2, <1>3, <1>4

----------------------------------------------------------------------------
(* Every turn of the loops keeps the invariant *)

LEMMA GraphStarts == Init => GraphInv
<1>. SUFFICES ASSUME Init PROVE GraphInv
  OBVIOUS
<1>1. Inductive
  BY InitInductive
<1>2. /\ parents = <<>> /\ stage = "walk" /\ lanes = <<>> /\ index = 1 /\ next = <<>>
      /\ mapping = <<>> /\ position = 0 /\ spawned = <<>> /\ width = 0 /\ placements = <<>>
  BY DEF Init
<1>3. CommitsKept
  BY <1>2 DEF CommitsKept, Commits, Elements, Due
<1>4. WalkShape /\ NodeShape
  BY <1>2 DEF WalkShape, NodeShape
<1>5. MappingShape
  BY <1>2 DEF MappingShape, Elements
<1>6. RowsShape
  BY <1>2 DEF RowsShape
<1>7. RowsContinue
  BY <1>2 DEF RowsContinue
<1>8. RowsMeet
  BY <1>2 DEF RowsMeet
<1>9. WidthOfRows
  BY <1>2 DEF WidthOfRows, Elements
<1>. QED
  BY <1>1, <1>3, <1>4, <1>5, <1>6, <1>7, <1>8, <1>9, MeetsByRow, WidthByRow DEF GraphInv

LEMMA GraphKept ==
  ASSUME GraphInv, [Next]_vars
  PROVE  GraphInv'
<1>. USE DEF GraphInv
<1>1. CASE WalkLane
  <2>1. Inductive'
    BY <1>1, WalkLaneInductive
  <2>2. UNCHANGED <<parents, lanes, placements, width>>
    BY <1>1 DEF WalkLane
  <2>3. RowsShape' /\ RowsContinue' /\ LinesMeetOnlyAtTheNode' /\ WidthIsTight'
    BY <2>2, RowsUntouched
  <2>. QED BY <1>1, <2>1, <2>3, WalkKeepsCommits, WalkKeepsMapping
<1>2. CASE PlaceNode
  <2>1. Inductive'
    BY <1>2, PlaceNodeInductive
  <2>2. UNCHANGED <<lanes, placements, width>>
    BY <1>2, PlaceCases
  <2>3. \A i \in 1 .. row - 1 : parents'[i] = parents[i]
    <3>1. PICK list \in Seq(1 .. MaxCommits) : parents' = Append(parents, list)
      BY <1>2, PlaceCases
    <3>2. Len(parents) = row - 1 /\ parents \in Seq(Seq(1 .. MaxCommits))
      BY <1>2, PlaceCases, LayoutTypes
    <3>. QED BY <3>1, <3>2, Appended
  <2>4. RowsShape' /\ RowsContinue' /\ LinesMeetOnlyAtTheNode' /\ WidthIsTight'
    BY <2>2, <2>3, RowsUntouched
  <2>. QED BY <1>2, <2>1, <2>4, PlaceNodeKeeps
<1>3. CASE SpawnParent
  <2>1. Inductive'
    BY <1>3, SpawnParentInductive
  <2>2. UNCHANGED <<parents, lanes, placements, width>>
    BY <1>3, SpawnCases
  <2>3. RowsShape' /\ RowsContinue' /\ LinesMeetOnlyAtTheNode' /\ WidthIsTight'
    BY <2>2, RowsUntouched
  <2>. QED BY <1>3, <2>1, <2>3, SpawnParentKeeps
<1>4. CASE FinishRow
  BY <1>4, FinishRowInductive, FinishRowKeeps
<1>5. CASE UNCHANGED vars
  <2>1. /\ UNCHANGED <<parents, stage, lanes, index, next, mapping, position, color>>
        /\ UNCHANGED <<pending, spawned, cursor, width, placements>> /\ row' = row
    BY <1>5 DEF vars, loop, row
  <2>2. Inductive'
    BY <2>1 DEF Inductive, TypeOK, NodePlaced
  <2>3. CommitsKept'
    <3>1. Commits(lanes)' = Commits(lanes) /\ Commits(next)' = Commits(next)
          /\ Elements(pending)' = Elements(pending)
      BY <2>1 DEF Commits, Elements
    <3>2. Due(row)' = Due(row) /\ Due(row + 1)' = Due(row + 1)
      BY <2>1 DEF Due
    <3>. QED BY <2>1, <3>1, <3>2 DEF CommitsKept
  <2>4. WalkShape'
    BY <2>1 DEF WalkShape, Commits, Elements
  <2>5. MappingShape'
    BY <2>1 DEF MappingShape, Elements, First
  <2>6. NodeShape'
    BY <2>1 DEF NodeShape, Elements, Live
  <2>7. RowsShape' /\ RowsContinue' /\ LinesMeetOnlyAtTheNode' /\ WidthIsTight'
    BY <2>1, RowsUntouched
  <2>. QED BY <2>2, <2>3, <2>4, <2>5, <2>6, <2>7
<1>. QED BY <1>1, <1>2, <1>3, <1>4, <1>5 DEF Next

----------------------------------------------------------------------------
(* Whatever the history, layout keeps its account of the commits, lines and
   columns at every turn of its loops: the inductive invariant of this
   module. *)
THEOREM GraphSafety == Spec => []GraphInv
<1>1. GraphInv /\ [Next]_vars => GraphInv'
  BY GraphKept
<1>. QED BY <1>1, GraphStarts, PTL DEF Spec

(* Whatever the history, between two rows the columns of layout await exactly
   the parents named above and not yet placed. *)
THEOREM NoParentIsForgotten == Spec => []ParentsAreAwaited
<1>1. GraphInv => ParentsAreAwaited
  <2>. SUFFICES ASSUME GraphInv, BetweenRows PROVE ParentsAreAwaited
    BY DEF ParentsAreAwaited
  <2>. USE DEF GraphInv
  <2>1. Commits(lanes) = Due(row)
    BY DEF BetweenRows, CommitsKept
  <2>2. Awaited = Commits(lanes)
    <3>1. \A t \in Elements(lanes) : t \in Track \cup {Hole}
      BY LayoutTypes DEF Elements
    <3>2. \A t \in Elements(lanes) : t = Hole <=> t.commit = 0
      BY <3>1, HolesExpectNothing
    <3>3. {t.commit : t \in Elements(lanes) \ {Hole}} = {t.commit : t \in Elements(lanes)} \ {0}
      BY <3>2
    <3>. QED BY <3>3 DEF Awaited, Commits
  <2>3. DOMAIN parents = 1 .. row - 1
    BY LayoutTypes DEF BetweenRows, Inductive, TypeOK
  <2>. QED BY <2>1, <2>2, <2>3 DEF ParentsAreAwaited, Due
<1>. QED BY <1>1, GraphSafety, PTL

(* Whatever the history, the lines assemble draws out of a row are those that
   enter the next, and lines meet only at a node that is some commit's
   parent. *)
THEOREM LinesOnlyMeetAtNodes == Spec => []LinesMeet
<1>1. GraphInv => LinesMeet
  BY DEF GraphInv, LinesMeet
<1>. QED BY <1>1, GraphSafety, PTL

(* Whatever the history, the width layout returns is the last column some row
   uses: no row is cut off and no empty column is kept. *)
THEOREM WidthStaysTight == Spec => []WidthIsTight
<1>1. GraphInv => WidthIsTight
  BY DEF GraphInv
<1>. QED BY <1>1, GraphSafety, PTL

----------------------------------------------------------------------------
(* Induction over the naturals, and the loops it reasons about *)

(* Every set of naturals with an element has a least one: inclusion is well
   founded on the finite sets 0 .. n. *)
LEMMA LeastNatural ==
  ASSUME NEW T \in SUBSET Nat, T # {}
  PROVE  \E n \in T : \A m \in T : n <= m
<1>. DEFINE Below == {0 .. n : n \in T}
<1>1. Below \subseteq FiniteSubsetsOf(Nat)
  <2> SUFFICES ASSUME NEW n \in T PROVE 0 .. n \in FiniteSubsetsOf(Nat)
    OBVIOUS
  <2>1. n \in Nat /\ n \in Int /\ 0 \in Int /\ 0 .. n \subseteq Nat
    OBVIOUS
  <2>2. IsFiniteSet(0 .. n)
    BY <2>1, FS_Interval
  <2>. QED BY <2>1, <2>2 DEF FiniteSubsetsOf
<1>2. Below # {}
  OBVIOUS
<1>3. IsWellFoundedOn(StrictSubsetOrdering(Nat), FiniteSubsetsOf(Nat))
  BY FS_StrictSubsetOrderingWellFounded
<1>4. PICK least \in Below : \A s \in Below : <<s, least>> \notin StrictSubsetOrdering(Nat)
  <2>. HIDE DEF Below
  <2>. QED BY ONLY <1>1, <1>2, <1>3, WFMin
<1>5. PICK n \in T : least = 0 .. n
  OBVIOUS
<1>6. ASSUME NEW m \in T, m < n PROVE FALSE
  <2>1. m \in Nat /\ n \in Nat /\ 0 .. m \in Below
    OBVIOUS
  <2>2. /\ 0 .. m \subseteq 0 .. n /\ n \in 0 .. n /\ n \notin 0 .. m
        /\ 0 .. n \subseteq Nat /\ 0 .. m \subseteq Nat
    BY <1>6, <2>1
  <2>3. <<0 .. m, 0 .. n>> \in StrictSubsetOrdering(Nat)
    BY <2>2 DEF StrictSubsetOrdering
  <2>. QED BY <1>4, <1>5, <2>1, <2>3
<1>7. \A m \in T : m \in Nat /\ n \in Nat
  OBVIOUS
<1>. QED BY <1>6, <1>7

(* What a loop over 1 .. n has computed after each turn exists. *)
LoopRun(T, start, n, turn, f) ==
  f \in [0 .. n -> T] /\ f[0] = start /\ \A i \in 1 .. n : f[i] = turn[i][f[i - 1]]
HasRun(T, start, n, turn) == \E f : LoopRun(T, start, n, turn, f)

LEMMA LoopRuns ==
  ASSUME NEW T, NEW start \in T, NEW n \in Nat, NEW turn \in [1 .. n -> [T -> T]]
  PROVE  HasRun(T, start, n, turn)
<1>. DEFINE Runs(f, m) == LoopRun(T, start, m, turn, f)
<1>. DEFINE Stuck == {m \in 0 .. n : \A f : ~Runs(f, m)}
<1>1. SUFFICES Stuck = {}
  <2>1. n \in 0 .. n
    OBVIOUS
  <2>. QED BY <2>1, <1>1 DEF HasRun
<1>. USE DEF LoopRun
<1>2. SUFFICES ASSUME Stuck # {} PROVE FALSE
  OBVIOUS
<1>3. PICK m \in Stuck : \A k \in Stuck : m <= k
  <2>1. Stuck \in SUBSET Nat
    OBVIOUS
  <2>. HIDE DEF Stuck
  <2>. QED BY <1>2, <2>1, LeastNatural
<1>4. m \in 0 .. n /\ \A f : ~Runs(f, m)
  OBVIOUS
<1>5. m # 0
  <2>. DEFINE f == [i \in 0 .. 0 |-> start]
  <2>1. f \in [0 .. 0 -> T] /\ f[0] = start /\ 1 .. 0 = {}
    OBVIOUS
  <2>2. Runs(f, 0)
    BY <2>1
  <2>. QED BY <1>4, <2>2
<1>6. m - 1 \in 0 .. n /\ m - 1 \notin Stuck
  <2>1. m - 1 \in 0 .. n /\ ~(m <= m - 1)
    BY <1>4, <1>5
  <2>. HIDE DEF Stuck
  <2>. QED BY <1>3, <2>1
<1>7. PICK f : Runs(f, m - 1)
  BY <1>6
<1>. DEFINE longer == [i \in 0 .. m |-> IF i = m THEN turn[m][f[m - 1]] ELSE f[i]]
<1>8. f[m - 1] \in T /\ m \in 1 .. n
  BY <1>4, <1>5, <1>7
<1>9. turn[m][f[m - 1]] \in T
  BY <1>8
<1>10. longer \in [0 .. m -> T]
  BY <1>4, <1>5, <1>7, <1>9
<1>11. longer[0] = start
  BY <1>4, <1>5, <1>7
<1>12. ASSUME NEW i \in 1 .. m PROVE longer[i] = turn[i][longer[i - 1]]
  <2>1. i - 1 \in 0 .. m /\ i - 1 # m /\ i \in 0 .. m /\ (i # m => i \in 1 .. m - 1)
    BY <1>4, <1>5
  <2>2. longer[i - 1] = f[i - 1]
    BY <2>1
  <2>3. i # m => f[i] = turn[i][f[i - 1]]
    BY <1>7, <2>1
  <2>4. longer[i] = IF i = m THEN turn[m][f[m - 1]] ELSE f[i]
    BY <2>1
  <2>. HIDE DEF longer
  <2>. QED BY <2>2, <2>3, <2>4
<1>13. Runs(longer, m)
  <2>. HIDE DEF longer
  <2>. QED BY <1>10, <1>11, <1>12
<1>. QED BY <1>4, <1>13

(* The rows kept are the commits that match, in order. *)
LEMMA RowsMatch ==
  ASSUME placements \in Seq(Placement), NEW q
  PROVE  LET rows == Matching("Ready", q) IN
         /\ rows \in Seq(DOMAIN placements)
         /\ Elements(rows) = {i \in DOMAIN placements : Matches(i, q)}
         /\ \A k \in 1 .. Len(rows) - 1 : rows[k] < rows[k + 1]
<1>. USE DEF Matches
<1>. DEFINE n == Len(placements)
            Turn(i, kept) == IF Matches(i, q) THEN Append(kept, i) ELSE kept
            IsLoop(f) == f = [i \in 0 .. n |-> IF i = 0 THEN <<>>
                                ELSE IF Matches(i, q) THEN Append(f[i - 1], i) ELSE f[i - 1]]
            rows == CHOOSE f : IsLoop(f)
<1>1. n \in Nat /\ DOMAIN placements = 1 .. n
  OBVIOUS
<1>2. Matching("Ready", q) = rows[n]
  BY DEF Matching
<1>. HIDE DEF n
<1>3. IsLoop(rows)
  <2>. DEFINE T == Seq(1 .. n)
              turn == [i \in 1 .. n |-> [kept \in T |-> Turn(i, kept)]]
  <2>1. ASSUME NEW i \in 1 .. n, NEW kept \in T PROVE Turn(i, kept) \in T
    <3>1. Append(kept, i) \in T
      BY <1>1, AppendProperties
    <3>. QED BY <3>1
  <2>2. turn \in [1 .. n -> [T -> T]]
    <3>. HIDE DEF Turn, T
    <3>. QED BY <2>1
  <2>3. \A i \in 1 .. n, kept \in T : turn[i][kept] = Turn(i, kept)
    <3>. HIDE DEF Turn, T
    <3>. QED OBVIOUS
  <2>4. PICK f \in [0 .. n -> T] :
               f[0] = <<>> /\ \A i \in 1 .. n : f[i] = turn[i][f[i - 1]]
    <3>1. <<>> \in T
      OBVIOUS
    <3>. HIDE DEF turn, T
    <3>2. HasRun(T, <<>>, n, turn)
      BY <1>1, <2>2, <3>1, LoopRuns
    <3>. QED BY <3>2 DEF HasRun, LoopRun
  <2>5. ASSUME NEW i \in 1 .. n PROVE f[i] = Turn(i, f[i - 1])
    <3>1. i - 1 \in 0 .. n
      BY <1>1
    <3>2. f[i - 1] \in T
      <4>. HIDE DEF T
      <4>. QED BY <2>4, <3>1
    <3>. QED BY <2>3, <2>4, <3>2
  <2>6. \A i \in 0 .. n : f[i] = IF i = 0 THEN <<>>
                                 ELSE IF Matches(i, q) THEN Append(f[i - 1], i) ELSE f[i - 1]
    <3>1. f[0] = <<>> /\ \A i \in 0 .. n : i # 0 => i \in 1 .. n
      BY <1>1, <2>4
    <3>. QED BY <2>5, <3>1
  <2>7. IsLoop(f)
    BY <2>6
  <2>. QED BY <2>7
<1>. HIDE DEF rows
<1>4. rows[0] = <<>> /\ \A i \in 1 .. n : rows[i] = Turn(i, rows[i - 1])
  <2>1. \A i \in 0 .. n : rows[i] = IF i = 0 THEN <<>>
                                    ELSE IF Matches(i, q) THEN Append(rows[i - 1], i)
                                    ELSE rows[i - 1]
    BY <1>3
  <2>2. 0 \in 0 .. n /\ \A i \in 1 .. n : i \in 0 .. n /\ i # 0
    BY <1>1
  <2>. QED BY <2>1, <2>2
<1>. DEFINE Good(i) == /\ rows[i] \in Seq(1 .. i)
                       /\ Elements(rows[i]) = {k \in 1 .. i : Matches(k, q)}
                       /\ \A k \in 1 .. Len(rows[i]) - 1 : rows[i][k] < rows[i][k + 1]
            Bad == {i \in 0 .. n : ~Good(i)}
<1>5. Good(0)
  BY <1>4 DEF Elements
<1>6. ASSUME NEW i \in 1 .. n, Good(i - 1) PROVE Good(i)
  <2>. DEFINE kept == rows[i - 1]
  <2>1. kept \in Seq(1 .. i) /\ i \in 1 .. i /\ i \in Nat
    <3>1. 1 .. i - 1 \subseteq 1 .. i /\ i \in 1 .. i /\ i \in Nat
      BY <1>1
    <3>. QED BY <3>1, <1>6, SeqMonotonic
  <2>2. /\ Elements(kept) = {k \in 1 .. i - 1 : Matches(k, q)} /\ kept \in Seq(1 .. i - 1)
        /\ \A k \in 1 .. Len(kept) - 1 : kept[k] < kept[k + 1]
    BY <1>6
  <2>3. {k \in 1 .. i : Matches(k, q)}
          = {k \in 1 .. i - 1 : Matches(k, q)} \cup (IF Matches(i, q) THEN {i} ELSE {})
    BY <2>1
  <2>4. rows[i] = Turn(i, kept)
    BY <1>4
  <2>. HIDE DEF kept
  <2>5. CASE ~Matches(i, q)
    BY <2>1, <2>2, <2>3, <2>4, <2>5
  <2>6. CASE Matches(i, q)
    <3>1. rows[i] = Append(kept, i)
      BY <2>4, <2>6
    <3>2. /\ Append(kept, i) \in Seq(1 .. i) /\ Len(Append(kept, i)) = Len(kept) + 1
          /\ Append(kept, i)[Len(kept) + 1] = i
          /\ DOMAIN kept = 1 .. Len(kept) /\ \A k \in DOMAIN kept : Append(kept, i)[k] = kept[k]
          /\ Elements(Append(kept, i)) = Elements(kept) \cup {i}
      BY <2>1, Appended
    <3>3. Len(kept) \in Nat /\ \A k \in DOMAIN kept : kept[k] \in 1 .. i - 1
      BY <2>2
    <3>4. \A k \in 1 .. Len(kept) : Append(kept, i)[k] < Append(kept, i)[k + 1]
      BY <2>1, <2>2, <3>2, <3>3
    <3>. QED BY <2>2, <2>3, <2>6, <3>1, <3>2, <3>3, <3>4
  <2>. QED BY <2>5, <2>6
<1>7. Bad = {}
  <2>. SUFFICES ASSUME Bad # {} PROVE FALSE
    OBVIOUS
  <2>1. Bad \in SUBSET Nat
    OBVIOUS
  <2>2. PICK i \in Bad : \A k \in Bad : i <= k
    <3>. HIDE DEF Bad
    <3>. QED BY <2>1, LeastNatural
  <2>3. i \in 0 .. n /\ ~Good(i) /\ (i # 0 => i \in 1 .. n /\ i - 1 \in 0 .. n /\ i - 1 \notin Bad)
    BY <1>1, <2>2
  <2>4. i # 0 => Good(i - 1)
    BY <2>3
  <2>. HIDE DEF Good, Bad
  <2>. QED BY <1>5, <1>6, <2>3, <2>4
<1>8. Good(n)
  BY <1>1, <1>7
<1>. QED BY <1>1, <1>2, <1>8

----------------------------------------------------------------------------
(* What a row paints *)

Point(lane, y) == [x |-> LaneCenter(lane, LaneSpacing), y |-> y]
Drawn(s, y, z) == [top |-> Point(s.from, y), bottom |-> Point(s.to, z), color |-> s.color]

LEMMA CellOf ==
  ASSUME NEW p
  PROVE  /\ GraphCell(p).node = Point(p.position, 12)
         /\ GraphCell(p).incoming = {Drawn(s, 0, 12) : s \in Elements(p.mapping)}
         /\ GraphCell(p).outgoing = {Drawn(s, 12, 24) : s \in Segments(p)}
<1>1. RowHeight \div 2 = 12 /\ RowHeight = 24
  BY DEF RowHeight
<1>. QED BY <1>1 DEF GraphCell, RowGeometry, Drawn, Point

LEMMA PointsOfLanes ==
  ASSUME NEW a \in Column, NEW b \in Column, NEW y
  PROVE  /\ Point(a, y).x = 12 * (a - 1) + 6 /\ Point(a, y).y = y
         /\ Point(a, y) = Point(b, y) <=> a = b
<1>1. /\ LaneCenter(a, LaneSpacing) = 12 * (a - 1) + 6
      /\ LaneCenter(b, LaneSpacing) = 12 * (b - 1) + 6
  BY DEF LaneCenter, LaneSpacing, Column
<1>2. a \in Nat /\ b \in Nat
  BY DEF Column
<1>3. Point(a, y) = Point(b, y) => 12 * (a - 1) + 6 = 12 * (b - 1) + 6
  BY <1>1 DEF Point
<1>. QED BY <1>1, <1>2, <1>3 DEF Point

(* The lines of a row that keep clear of its node go straight on. *)
Apart(p) ==
  \A j, k \in DOMAIN p.mapping :
    j < k /\ p.mapping[j].to # p.position /\ p.mapping[k].to # p.position
      => p.mapping[j].to < p.mapping[k].to

LEMMA LinesOfRow ==
  ASSUME NEW p \in Placement, Apart(p)
  PROVE  /\ p.position \in Column
         /\ \A m \in Elements(p.mapping) : m.from \in Column /\ m.to \in Column
         /\ \A m \in Elements(p.mapping) : m.to # p.position =>
              [from |-> m.to, to |-> m.to, color |-> m.color] \in Segments(p)
         /\ \A s \in Segments(p) : /\ s.from \in Column /\ s.to \in Column
                                   /\ s.from = p.position \/ s.from = s.to
         /\ \A s \in Segments(p) : s.from # p.position =>
              \E m \in Elements(p.mapping) :
                m.to # p.position /\ s.from = m.to /\ s.color = m.color
<1>1. p.position \in Column /\ p.mapping \in Seq(Segment) /\ p.spawned \in Seq(Spawn)
  BY DEF Placement
<1>2. DOMAIN p.mapping = 1 .. Len(p.mapping) /\ Len(p.mapping) \in Nat
  BY <1>1
<1>3. \A j \in DOMAIN p.mapping : p.mapping[j].from \in Column /\ p.mapping[j].to \in Column
  <2>1. \A j \in DOMAIN p.mapping : p.mapping[j] \in Segment
    BY <1>1
  <2>. QED BY <2>1 DEF Segment
<1>4. \A t \in Elements(p.spawned) : t.column \in Column
  <2>1. \A t \in Elements(p.spawned) : t \in Spawn
    BY <1>1 DEF Elements
  <2>. QED BY <2>1 DEF Spawn
<1>5. ASSUME NEW j \in DOMAIN p.mapping, p.mapping[j].to # p.position
      PROVE  [from |-> p.mapping[j].to, to |-> p.mapping[j].to, color |-> p.mapping[j].color]
               \in Segments(p)
  <2>. DEFINE s == [from |-> p.mapping[j].to, to |-> p.mapping[j].to, color |-> p.mapping[j].color]
  <2>1. ASSUME NEW i \in 1 .. j - 1, p.mapping[i].to = p.mapping[j].to PROVE FALSE
    <3>1. i \in DOMAIN p.mapping /\ i < j
      BY <1>2
    <3>2. p.mapping[i].to < p.mapping[j].to /\ p.mapping[j].to \in Nat
      BY <1>3, <1>5, <2>1, <3>1 DEF Apart, Column
    <3>. QED BY <2>1, <3>2
  <2>2. s \in Carried(p) /\ s.to # p.position
    BY <1>5, <2>1, CarriedLines
  <2>. HIDE DEF s
  <2>3. s \in Segments(p)
    BY <2>2 DEF Segments
  <2>. QED BY <2>3 DEF s
<1>6. ASSUME NEW s \in Carried(p)
      PROVE  /\ s.from \in Column /\ s.to = s.from
             /\ \E m \in Elements(p.mapping) : m.to = s.from /\ m.color = s.color
  <2>1. PICK j \in DOMAIN p.mapping :
               s = [from |-> p.mapping[j].to, to |-> p.mapping[j].to, color |-> p.mapping[j].color]
    BY CarriedLines
  <2>2. p.mapping[j] \in Elements(p.mapping)
    BY DEF Elements
  <2>. QED BY <1>3, <2>1, <2>2
<1>7. ASSUME NEW s \in Segments(p)
      PROVE  \/ s \in Carried(p)
             \/ s = Straight(p)
             \/ \E t \in Elements(p.spawned) :
                  s = [from |-> p.position, to |-> t.column, color |-> t.color]
  BY <1>7 DEF Segments
<1>8. ASSUME NEW s \in Segments(p)
      PROVE  /\ s.from \in Column /\ s.to \in Column
             /\ s.from = p.position \/ s.from = s.to
             /\ s.from # p.position => \E m \in Elements(p.mapping) :
                  m.to # p.position /\ s.from = m.to /\ s.color = m.color
  <2>1. CASE s \in Carried(p)
    BY <1>6, <2>1
  <2>2. CASE s = Straight(p)
    BY <1>1, <2>2 DEF Straight
  <2>3. CASE \E t \in Elements(p.spawned) :
               s = [from |-> p.position, to |-> t.column, color |-> t.color]
    BY <1>1, <1>4, <2>3
  <2>. QED BY <1>7, <2>1, <2>2, <2>3
<1>. QED BY <1>1, <1>3, <1>5, <1>8 DEF Elements

(* A row whose columns are within the width stays inside the gutter. *)
LEMMA RowFits ==
  ASSUME NEW p \in Placement, Apart(p), NEW w \in Nat, \A c \in Touched(p) : c <= w
  PROVE  \A e \in Extents(GraphCell(p)) : /\ e.left \in Int /\ e.right \in Int
                                            /\ 0 <= e.left /\ e.right <= 12 * w
<1>1. ASSUME NEW lane \in Touched(p), lane \in Column, NEW y
      PROVE  12 * (lane - 1) + 6 = Point(lane, y).x /\ 0 <= Point(lane, y).x - 5
             /\ Point(lane, y).x + 5 <= 12 * w
  <2>1. lane <= w /\ lane \in Nat /\ lane >= 1
    BY <1>1 DEF Column
  <2>2. Point(lane, y).x = 12 * (lane - 1) + 6
    BY <1>1, PointsOfLanes
  <2>. QED BY <2>1, <2>2
<1>2. p.position \in Touched(p) /\ \A s \in Segments(p) : s.to \in Touched(p)
  BY DEF Touched
<1>7. \A m \in Elements(p.mapping) : m.from \in Touched(p)
  BY DEF Touched
<1>3. \A m \in Elements(p.mapping) : m.to \in Touched(p)
  <2>. TAKE m \in Elements(p.mapping)
  <2>1. CASE m.to = p.position
    BY <1>2, <2>1
  <2>2. CASE m.to # p.position
    <3>. DEFINE s == [from |-> m.to, to |-> m.to, color |-> m.color]
    <3>1. s \in Segments(p) /\ s.to = m.to
      BY <2>2, LinesOfRow
    <3>. HIDE DEF s
    <3>. QED BY <1>2, <3>1
  <2>. QED BY <2>1, <2>2
<1>4. \A s \in Segments(p) : s.from \in Touched(p)
  BY <1>2, LinesOfRow
<1>5. ASSUME NEW e \in Extents(GraphCell(p))
      PROVE  \E lane \in Touched(p), y \in {0, 12, 24}, r \in {1, 5} :
               /\ lane \in Column
               /\ e = [left |-> Point(lane, y).x - r, right |-> Point(lane, y).x + r]
  <2>. DEFINE g == GraphCell(p)
  <2>1. /\ g.node = Point(p.position, 12)
        /\ g.incoming = {Drawn(s, 0, 12) : s \in Elements(p.mapping)}
        /\ g.outgoing = {Drawn(s, 12, 24) : s \in Segments(p)}
    BY CellOf
  <2>. HIDE DEF g
  <2>2. CASE e = [left |-> g.node.x - 5, right |-> g.node.x + 5]
    <3>1. p.position \in Column
      BY LinesOfRow
    <3>. QED BY <1>2, <2>1, <2>2, <3>1
  <2>3. CASE \E s \in g.incoming \cup g.outgoing : \E end \in {s.top, s.bottom} :
               e = [left |-> end.x - 1, right |-> end.x + 1]
    <3>0. PICK s \in g.incoming \cup g.outgoing : \E end \in {s.top, s.bottom} :
                 e = [left |-> end.x - 1, right |-> end.x + 1]
      BY <2>3
    <3>1. PICK end \in {s.top, s.bottom} : e = [left |-> end.x - 1, right |-> end.x + 1]
      BY <3>0
    <3>2. \E lane \in Touched(p), y \in {0, 12, 24} : lane \in Column /\ end = Point(lane, y)
      <4>1. CASE s \in g.incoming
        <5>1. PICK m \in Elements(p.mapping) : s = Drawn(m, 0, 12)
          BY <2>1, <4>1
        <5>2. s.top = Point(m.from, 0) /\ s.bottom = Point(m.to, 12)
          BY <5>1 DEF Drawn
        <5>3. m.from \in Column /\ m.to \in Column
          BY LinesOfRow
        <5>4. m.from \in Touched(p)
          BY <1>7
        <5>5. m.to \in Touched(p)
          BY <1>3
        <5>. QED BY <3>1, <5>2, <5>3, <5>4, <5>5
      <4>2. CASE s \in g.outgoing
        <5>1. PICK m \in Segments(p) : s = Drawn(m, 12, 24)
          BY <2>1, <4>2
        <5>2. s.top = Point(m.from, 12) /\ s.bottom = Point(m.to, 24)
          BY <5>1 DEF Drawn
        <5>3. m.from \in Column /\ m.to \in Column
          BY LinesOfRow
        <5>. QED BY <1>2, <1>4, <3>1, <5>2, <5>3
      <4>. QED BY <4>1, <4>2
    <3>. QED BY <3>1, <3>2
  <2>4. e \in {[left |-> g.node.x - 5, right |-> g.node.x + 5]}
          \cup {[left |-> end.x - 1, right |-> end.x + 1] :
                  end \in UNION {{s.top, s.bottom} : s \in g.incoming \cup g.outgoing}}
    BY <1>5 DEF Extents, NodeRadius, HalfLine, g
  <2>. QED BY <2>2, <2>3, <2>4
<1>6. ASSUME NEW e \in Extents(GraphCell(p))
      PROVE  e.left \in Int /\ e.right \in Int /\ 0 <= e.left /\ e.right <= 12 * w
  <2>1. PICK lane \in Touched(p), y \in {0, 12, 24}, r \in {1, 5} :
               /\ lane \in Column
               /\ e = [left |-> Point(lane, y).x - r, right |-> Point(lane, y).x + r]
    BY <1>5
  <2>2. /\ 0 <= Point(lane, y).x - 5 /\ Point(lane, y).x + 5 <= 12 * w
        /\ Point(lane, y).x = 12 * (lane - 1) + 6 /\ lane \in Nat
    BY <1>1, <2>1 DEF Column
  <2>3. e.left = Point(lane, y).x - r /\ e.right = Point(lane, y).x + r
    BY <2>1
  <2>. QED BY <2>2, <2>3
<1>. QED BY <1>6

(* What a row's upper half leaves at its middle is what its lower half takes
   up there, the node aside. *)
LEMMA HalvesJoin ==
  ASSUME NEW p \in Placement, Apart(p)
  PROVE  LET g == GraphCell(p) IN
         {<<s.bottom, s.color>> : s \in {t \in g.incoming : t.bottom # g.node}}
           = {<<s.top, s.color>> : s \in {t \in g.outgoing : t.top # g.node}}
<1>. DEFINE g == GraphCell(p)
            above == {<<s.bottom, s.color>> : s \in {t \in g.incoming : t.bottom # g.node}}
            below == {<<s.top, s.color>> : s \in {t \in g.outgoing : t.top # g.node}}
            crossing == {<<Point(m.to, 12), m.color>> :
                           m \in {l \in Elements(p.mapping) : l.to # p.position}}
            leaving == {<<Point(l.from, 12), l.color>> :
                          l \in {k \in Segments(p) : k.from # p.position}}
<1>1. /\ g.node = Point(p.position, 12)
      /\ g.incoming = {Drawn(s, 0, 12) : s \in Elements(p.mapping)}
      /\ g.outgoing = {Drawn(s, 12, 24) : s \in Segments(p)}
  BY CellOf
<1>2. /\ \A s, y, z : /\ Drawn(s, y, z).top = Point(s.from, y)
                      /\ Drawn(s, y, z).bottom = Point(s.to, z)
                      /\ Drawn(s, y, z).color = s.color
  BY DEF Drawn
<1>3. /\ \A m \in Elements(p.mapping) : Point(m.to, 12) = Point(p.position, 12) <=> m.to = p.position
      /\ \A l \in Segments(p) : Point(l.from, 12) = Point(p.position, 12) <=> l.from = p.position
  BY LinesOfRow, PointsOfLanes
<1>. HIDE DEF g
<1>4. above = crossing
  <2>1. \A m \in Elements(p.mapping) :
          /\ Drawn(m, 0, 12).bottom = Point(m.to, 12) /\ Drawn(m, 0, 12).color = m.color
          /\ Drawn(m, 0, 12).bottom # g.node <=> m.to # p.position
    BY <1>1, <1>2, <1>3
  <2>. QED BY <1>1, <2>1
<1>5. below = leaving
  <2>1. \A l \in Segments(p) :
          /\ Drawn(l, 12, 24).top = Point(l.from, 12) /\ Drawn(l, 12, 24).color = l.color
          /\ Drawn(l, 12, 24).top # g.node <=> l.from # p.position
    BY <1>1, <1>2, <1>3
  <2>. QED BY <1>1, <2>1
<1>6. ASSUME NEW m \in Elements(p.mapping), m.to # p.position
      PROVE  \E l \in Segments(p) : l.from # p.position /\ l.from = m.to /\ l.color = m.color
  <2>. DEFINE l == [from |-> m.to, to |-> m.to, color |-> m.color]
  <2>1. l \in Segments(p) /\ l.from = m.to /\ l.color = m.color
    BY <1>6, LinesOfRow
  <2>. HIDE DEF l
  <2>. QED BY <1>6, <2>1
<1>7. ASSUME NEW l \in Segments(p), l.from # p.position
      PROVE  \E m \in Elements(p.mapping) : m.to # p.position /\ l.from = m.to /\ l.color = m.color
  BY <1>7, LinesOfRow
<1>8. crossing \subseteq leaving
  BY <1>6
<1>9. leaving \subseteq crossing
  BY <1>7
<1>. QED BY <1>4, <1>5, <1>8, <1>9 DEF g

(* What a row's lower edge leaves, the next row's upper edge takes up. *)
LEMMA RowsJoin ==
  ASSUME NEW p, NEW q,
         {<<s.to, s.color>> : s \in Segments(p)} = {<<s.from, s.color>> : s \in Elements(q.mapping)}
  PROVE  {<<s.bottom.x, s.color>> : s \in GraphCell(p).outgoing}
           = {<<s.top.x, s.color>> : s \in GraphCell(q).incoming}
<1>. DEFINE X(lane) == LaneCenter(lane, LaneSpacing)
            lower == {<<s.to, s.color>> : s \in Segments(p)}
            upper == {<<s.from, s.color>> : s \in Elements(q.mapping)}
<1>1. /\ GraphCell(p).outgoing = {Drawn(s, 12, 24) : s \in Segments(p)}
      /\ GraphCell(q).incoming = {Drawn(s, 0, 12) : s \in Elements(q.mapping)}
  BY CellOf
<1>2. \A s, y, z : /\ Drawn(s, y, z).top.x = X(s.from) /\ Drawn(s, y, z).bottom.x = X(s.to)
                   /\ Drawn(s, y, z).color = s.color
  BY DEF Drawn, Point
<1>. HIDE DEF X
<1>3. {<<s.bottom.x, s.color>> : s \in GraphCell(p).outgoing}
        = {<<X(s.to), s.color>> : s \in Segments(p)}
  <2>1. \A s \in Segments(p) : Drawn(s, 12, 24).bottom.x = X(s.to)
                               /\ Drawn(s, 12, 24).color = s.color
    BY <1>2
  <2>. QED BY <1>1, <2>1
<1>4. {<<s.top.x, s.color>> : s \in GraphCell(q).incoming}
        = {<<X(s.from), s.color>> : s \in Elements(q.mapping)}
  <2>1. \A s \in Elements(q.mapping) : Drawn(s, 0, 12).top.x = X(s.from)
                                      /\ Drawn(s, 0, 12).color = s.color
    BY <1>2
  <2>. QED BY <1>1, <2>1
<1>5. ASSUME NEW s \in Segments(p)
      PROVE  \E t \in Elements(q.mapping) : s.to = t.from /\ s.color = t.color
  <2>1. <<s.to, s.color>> \in upper
    OBVIOUS
  <2>. QED BY <2>1
<1>6. ASSUME NEW t \in Elements(q.mapping)
      PROVE  \E s \in Segments(p) : s.to = t.from /\ s.color = t.color
  <2>1. <<t.from, t.color>> \in lower
    OBVIOUS
  <2>. QED BY <2>1
<1>. QED BY <1>3, <1>4, <1>5, <1>6

----------------------------------------------------------------------------
(* The table shows the history it was handed last, once layout has ended; its
   rows, gutter and column are those of that history and the last query. *)
TableInv ==
  /\ GraphInv
  /\ history # "Idle" => row > MaxCommits
  /\ query \subseteq 1 .. MaxCommits
  /\ visible = Matching(history, query)
  /\ history = "Ready" => gutter = GutterWidth(width, LaneSpacing) /\ column = gutter

LEMMA TableStarts == TableInit => TableInv
<1>. SUFFICES ASSUME TableInit PROVE TableInv
  OBVIOUS
<1>1. GraphInv
  BY GraphStarts DEF TableInit
<1>. QED BY <1>1 DEF TableInit, TableInv, Matching

(* Once every row is laid out, a turn of the loops changes none. *)
LEMMA LaidOutStays ==
  ASSUME GraphInv, row > MaxCommits, [Next]_vars
  PROVE  UNCHANGED <<placements, width>> /\ row' = row
<1>1. row \in Nat /\ MaxCommits \in Nat /\ (stage = "parents" => row <= MaxCommits)
  BY LayoutTypes DEF GraphInv, Inductive, NodePlaced
<1>2. ~PlaceNode /\ ~SpawnParent /\ ~FinishRow
  BY <1>1 DEF PlaceNode, SpawnParent, FinishRow
<1>3. WalkLane \/ UNCHANGED vars
  BY <1>2 DEF Next
<1>. QED BY <1>3 DEF WalkLane, vars, row

LEMMA TableKept ==
  ASSUME TableInv, [TableNext]_<<vars, table>>
  PROVE  TableInv'
<1>. USE DEF TableInv
<1>1. [Next]_vars
  BY DEF TableNext, ShowHistory, SetQuery
<1>2. GraphInv'
  BY <1>1, GraphKept
<1>3. CASE UNCHANGED table
  <2>1. UNCHANGED <<history, query, visible, gutter, column>>
    BY <1>3 DEF table
  <2>2. CASE history = "Idle"
    BY <1>2, <2>1, <2>2 DEF Matching
  <2>3. CASE history # "Idle"
    <3>1. UNCHANGED <<placements, width>> /\ row' = row
      BY <1>1, <2>3, LaidOutStays
    <3>2. Matching(history, query)' = Matching(history, query)
      BY <2>1, <3>1 DEF Matching, Matches
    <3>3. GutterWidth(width, LaneSpacing)' = GutterWidth(width, LaneSpacing)
      BY <3>1 DEF GutterWidth, Larger
    <3>. QED BY <1>2, <2>1, <3>1, <3>2, <3>3
  <2>. QED BY <2>2, <2>3
<1>4. CASE ShowHistory
  <2>1. PICK h : row > MaxCommits /\ SetHistory(h) /\ UNCHANGED <<vars, query>> /\ column' = GraphColumn'
    BY <1>4 DEF ShowHistory
  <2>2. UNCHANGED <<placements, width, query>> /\ row' = row /\ row > MaxCommits
    BY <2>1 DEF vars, row
  <2>3. /\ history' = h /\ visible' = Matching(h, query) /\ column' = gutter'
        /\ h = "Ready" => gutter' = GutterWidth(width, LaneSpacing)
    BY <2>1 DEF SetHistory, GraphColumn
  <2>4. Matching(history, query)' = Matching(h, query)
    BY <2>2, <2>3 DEF Matching, Matches
  <2>5. GutterWidth(width, LaneSpacing)' = GutterWidth(width, LaneSpacing)
    BY <2>2 DEF GutterWidth, Larger
  <2>. QED BY <1>2, <2>2, <2>3, <2>4, <2>5
<1>5. CASE SetQuery
  <2>1. /\ row > MaxCommits /\ UNCHANGED <<vars, history, gutter>> /\ query' \in Queries
        /\ visible' = Matching(history, query') /\ column' = gutter
    BY <1>5 DEF SetQuery, GraphColumn
  <2>2. UNCHANGED <<placements, width, history, gutter>> /\ row' = row /\ row > MaxCommits
    BY <2>1 DEF vars, row
  <2>3. Matching(history, query)' = Matching(history, query')
    BY <2>2 DEF Matching, Matches
  <2>4. GutterWidth(width, LaneSpacing)' = GutterWidth(width, LaneSpacing)
    BY <2>2 DEF GutterWidth, Larger
  <2>5. query' \subseteq 1 .. MaxCommits
    BY <2>1, TableAssumption
  <2>6. MaxCommits' = MaxCommits
    OBVIOUS
  <2>. QED BY <1>2, <2>1, <2>2, <2>3, <2>4, <2>5
<1>. QED BY <1>3, <1>4, <1>5 DEF TableNext

LEMMA TableShows ==
  ASSUME TableInv
  PROVE  TableShowsTheGraph
<1>. USE DEF TableInv
<1>1. /\ placements \in Seq(Placement) /\ DOMAIN placements = 1 .. Len(placements)
      /\ Len(placements) \in Nat /\ row = Len(placements) + 1 /\ MaxCommits \in Nat
      /\ row \in 1 .. MaxCommits + 1
  BY LayoutTypes DEF GraphInv
<1>2. history # "Ready" => visible = <<>>
  BY DEF Matching
<1>3. history = "Ready" => DOMAIN placements = 1 .. MaxCommits
  <2>1. history = "Ready" => row > MaxCommits
    OBVIOUS
  <2>2. ASSUME NEW n \in Nat, NEW m \in Nat, n + 1 \in 1 .. m + 1, n + 1 > m PROVE n = m
    BY <2>2
  <2>3. Len(placements) + 1 > MaxCommits => Len(placements) = MaxCommits
    BY ONLY <1>1, <2>2
  <2>. QED BY ONLY <1>1, <2>1, <2>3
<1>4. history = "Ready" =>
        /\ visible \in Seq(1 .. MaxCommits)
        /\ Elements(visible) = query
        /\ \A k \in 1 .. Len(visible) - 1 : visible[k] < visible[k + 1]
  <2>. SUFFICES ASSUME history = "Ready"
                PROVE  /\ visible \in Seq(1 .. MaxCommits)
                       /\ Elements(visible) = query
                       /\ \A k \in 1 .. Len(visible) - 1 : visible[k] < visible[k + 1]
    OBVIOUS
  <2>1. visible = Matching("Ready", query)
    OBVIOUS
  <2>2. {i \in DOMAIN placements : Matches(i, query)} = query
    BY <1>3 DEF Matches
  <2>. QED BY <1>1, <1>3, <2>1, <2>2, RowsMatch
<1>5. RowsAreTheMatches
  BY <1>4 DEF RowsAreTheMatches, CommitAt, Cell
<1>6. ASSUME NEW k \in DOMAIN visible
      PROVE  /\ history = "Ready" /\ visible[k] \in DOMAIN placements
             /\ placements[visible[k]] \in Placement /\ Apart(placements[visible[k]])
             /\ \A c \in Touched(placements[visible[k]]) : c <= width
             /\ Cell(k).graph = GraphCell(placements[visible[k]])
  <2>1. history = "Ready"
    BY <1>2, <1>6
  <2>2. visible[k] \in DOMAIN placements
    <3>1. visible \in Seq(1 .. MaxCommits)
      BY <1>4, <2>1
    <3>2. DOMAIN visible = 1 .. Len(visible)
      BY <3>1, LenProperties
    <3>3. visible[k] \in 1 .. MaxCommits
      BY <1>6, <3>1, <3>2, ElementOfSeq
    <3>. QED BY <1>3, <2>1, <3>3
  <2>3. placements[visible[k]] \in Placement /\ placements[visible[k]] \in Elements(placements)
    BY <1>1, <2>2 DEF Elements
  <2>4. \A c \in Touched(placements[visible[k]]) : c <= width
    BY <2>3, WidthByRow DEF GraphInv, WidthOfRows
  <2>5. Meets(placements[visible[k]], visible[k], parents)
    BY <1>1, <2>2, MeetsByRow DEF GraphInv, RowsMeet
  <2>6. Apart(placements[visible[k]])
    BY <2>5 DEF Meets, Apart
  <2>. QED BY <2>1, <2>2, <2>3, <2>4, <2>6 DEF Cell
<1>7. width \in Nat
  BY DEF GraphInv, Inductive, TypeOK
<1>8. NothingIsClipped
  <2>. SUFFICES ASSUME NEW k \in DOMAIN visible, NEW e \in Extents(Cell(k).graph)
                PROVE  0 <= e.left /\ e.right <= column
    BY DEF NothingIsClipped
  <2>1. e.left \in Int /\ e.right \in Int /\ 0 <= e.left /\ e.right <= 12 * width
    BY <1>6, <1>7, RowFits
  <2>2. 12 * width <= column /\ column \in Nat
    BY <1>6, <1>7 DEF GutterWidth, LaneSpacing, Larger
  <2>. QED BY <1>7, <2>1, <2>2
<1>9. ASSUME NEW k \in DOMAIN visible, k < Len(visible), visible[k + 1] = visible[k] + 1
      PROVE  {<<s.bottom.x, s.color>> : s \in Cell(k).graph.outgoing}
               = {<<s.top.x, s.color>> : s \in Cell(k + 1).graph.incoming}
  <2>1. k + 1 \in DOMAIN visible
    BY <1>4, <1>6, <1>9
  <2>2. visible[k] \in 1 .. Len(placements) - 1
    BY <1>1, <1>6, <1>9, <2>1
  <2>3. {<<s.to, s.color>> : s \in Segments(placements[visible[k]])}
          = {<<s.from, s.color>> : s \in Elements(placements[visible[k + 1]].mapping)}
    BY <1>9, <2>2 DEF GraphInv, RowsContinue
  <2>4. {<<s.bottom.x, s.color>> : s \in GraphCell(placements[visible[k]]).outgoing}
          = {<<s.top.x, s.color>> : s \in GraphCell(placements[visible[k + 1]]).incoming}
    BY <2>3, RowsJoin
  <2>. QED BY <1>6, <2>1, <2>4
<1>10. StrokesJoin
  <2>. SUFFICES ASSUME NEW k \in DOMAIN visible
                PROVE  {<<s.bottom, s.color>> : s \in {t \in Cell(k).graph.incoming :
                                                         t.bottom # Cell(k).graph.node}}
                         = {<<s.top, s.color>> : s \in {t \in Cell(k).graph.outgoing :
                                                          t.top # Cell(k).graph.node}}
    BY <1>9 DEF StrokesJoin
  <2>. QED BY <1>6, HalvesJoin
<1>. QED BY <1>5, <1>8, <1>10 DEF TableShowsTheGraph

(* The history table lays out the graph before it shows it, so that what is
   proved of layout holds of the table. *)
THEOREM TableLaysOutTheGraph == TableSpec => Spec
<1>1. TableInit => Init
  BY DEF TableInit
<1>2. [TableNext]_<<vars, table>> => [Next]_vars
  BY DEF TableNext, ShowHistory, SetQuery
<1>. QED BY <1>1, <1>2, PTL DEF TableSpec, Spec

(* Whatever the history, the query and the order they are handed over in, the
   table's rows are the matching commits in order, a click asks for the row's
   commit, no stroke or disc is outside the graph's column, and strokes join
   at the middle of a row and where consecutive commits meet. *)
THEOREM TableAlwaysShowsTheGraph == TableSpec => []TableShowsTheGraph
<1>1. TableInv /\ [TableNext]_<<vars, table>> => TableInv'
  BY TableKept
<1>2. TableInv => TableShowsTheGraph
  BY TableShows
<1>. QED BY <1>1, <1>2, TableStarts, PTL DEF TableSpec
=============================================================================
