--------------------------- MODULE ReferenceTree ---------------------------
(***************************************************************************)
(* The references of a repository from git's to the rows of the sidebar:   *)
(* the listing of crates/vcs/src/gix_reader/references.rs and names.rs,    *)
(* ReferenceIndex in crates/ui/src/repository/model.rs, the forest of      *)
(* crates/ui/src/sidebar/branch_tree.rs, its rows in sidebar/mod.rs, the   *)
(* badges beside the commits they point at (history/badges.rs and          *)
(* delegate.rs) and the deletion both offer (branch_actions.rs).           *)
(*                                                                         *)
(* A name is its segments, the parts between slashes; a segment is a       *)
(* number, so that siblings have an order.                                 *)
(***************************************************************************)
EXTENDS Naturals, Sequences, FiniteSets, SequencesExt, FiniteSetsExt

CONSTANTS
  Repository,  \* sets of references git holds: [category, name, target,
               \* broken: gix cannot read it, resolves: its name is UTF-8 and
               \* its target and its upstream can be resolved]
  Fallback,    \* the names of FALLBACK_BRANCHES, in their order
  HeadBranch,  \* branches HEAD may be on
  NoBranch,    \* HEAD is detached, or not read; no branch to switch to
  NoReference  \* the None of RefTreeNode::reference

Section == {"local", "remote", "tag"}
Category == Section \cup {"other"}

Reference(ref) == [kind |-> ref.category, name |-> ref.name, target |-> ref.target]

(* Git keeps one reference of a name in a category. *)
ASSUME ReferenceTreeAssumption ==
  /\ \A refs \in Repository :
       /\ IsFiniteSet(refs)
       /\ \A ref \in refs :
            /\ ref.category \in Category /\ {ref.broken, ref.resolves} \subseteq BOOLEAN
            /\ ref.name \in Seq(Nat) \ {<<>>} /\ ref.name # NoBranch
            /\ Reference(ref) # NoReference
       /\ \A ref, other \in refs :
            ref.category = other.category /\ ref.name = other.name => ref = other
  /\ Fallback \in Seq(Seq(Nat))

VARIABLES
  held,    \* what git holds
  unread,  \* what is left of it, in the order it is listed
  entries, \* the references read_all has collected
  head,    \* the branch of HEAD as the window knows it
  listing  \* "reading", "listed", "failed" on a reference, or "refused" for
           \* another reason

treeVars == <<held, unread, entries, head, listing>>

----------------------------------------------------------------------------
(* branch_name, tag_name and remote_branch: a remote branch has a segment
   for its remote and one for itself at least.  All this is asked of the
   references of a section only; of any other, whether gix can read it. *)
Readable(ref) ==
  /\ ~ref.broken
  /\ ref.category \in Section => ref.resolves
  /\ ref.category = "remote" => Len(ref.name) > 1

(* Mutant: a reference that cannot be read is left out of the listing. *)
ReadReadableOnly ==
  /\ listing = "reading" /\ unread # <<>>
  /\ unread' = Tail(unread)
  /\ entries' = IF Head(unread).category \in Section /\ Readable(Head(unread))
                THEN Append(entries, Reference(Head(unread))) ELSE entries
  /\ UNCHANGED <<held, head, listing>>

(* One turn of read_all's loop: a reference that cannot be read ends the
   listing, a readable one of no section is passed over. *)
ReadReference ==
  /\ listing = "reading" /\ unread # <<>>
  /\ unread' = Tail(unread)
  /\ IF Readable(Head(unread))
     THEN /\ entries' = IF Head(unread).category \in Section
                        THEN Append(entries, Reference(Head(unread))) ELSE entries
          /\ UNCHANGED listing
     ELSE listing' = "failed" /\ UNCHANGED entries
  /\ UNCHANGED <<held, head>>

(* The references cannot be opened, or the walk over them fails midway. *)
RefuseListing ==
  /\ listing = "reading"
  /\ listing' = "refused"
  /\ UNCHANGED <<held, unread, entries, head>>

EndListing ==
  /\ listing = "reading" /\ unread = <<>>
  /\ listing' = "listed"
  /\ UNCHANGED <<held, unread, entries, head>>

----------------------------------------------------------------------------
(* A loop that pushes some of the references. *)
Among(references, those) ==
  LET pushed[i \in 0 .. Len(references)] ==
        IF i = 0 THEN <<>>
        ELSE IF references[i] \in those THEN Append(pushed[i - 1], references[i])
        ELSE pushed[i - 1]
  IN  pushed[Len(references)]

(* ReferenceIndex::from_entries *)
Index(section) ==
  Among(entries, {reference \in ToSet(entries) : reference.kind = section})

(* A forest maps the path of every node, and of the root above the first
   segments, to what it holds. *)
Leafless == [reference |-> NoReference, children |-> <<>>]
Root == <<>>

(* Mutant: only the last sibling is looked at for the segment. *)
InsertAfterLast(forest, reference) ==
  LET path == reference.name
      node(p) == IF p \in DOMAIN forest THEN forest[p] ELSE Leafless
      passes(p) == IsStrictPrefix(p, path)
      with(children, segment) ==
        IF children # <<>> /\ Last(children) = segment THEN children
        ELSE Append(children, segment)
  IN  [p \in DOMAIN forest \cup Prefixes(path) |->
         [reference |-> IF p = path THEN reference ELSE node(p).reference,
          children |-> IF passes(p) THEN with(node(p).children, path[Len(p) + 1])
                       ELSE node(p).children]]

(* insert, all the way down: every node on the path is found among its
   siblings or added after them. *)
Insert(forest, reference) ==
  LET path == reference.name
      node(p) == IF p \in DOMAIN forest THEN forest[p] ELSE Leafless
      passes(p) == IsStrictPrefix(p, path)
      with(children, segment) ==
        IF Contains(children, segment) THEN children ELSE Append(children, segment)
  IN  [p \in DOMAIN forest \cup Prefixes(path) |->
         [reference |-> IF p = path THEN reference ELSE node(p).reference,
          children |-> IF passes(p) THEN with(node(p).children, path[Len(p) + 1])
                       ELSE node(p).children]]

(* sort: each has as many before it as are smaller, or equal and there first. *)
Sorted(children) ==
  LET before(i) == {j \in DOMAIN children :
                      \/ children[j] < children[i]
                      \/ children[j] = children[i] /\ j < i}
  IN  [k \in DOMAIN children |->
         children[CHOOSE i \in DOMAIN children : Cardinality(before(i)) = k - 1]]

(* group_by_path: sorted at every level when all are inserted. *)
GroupByPath(references) ==
  LET grown[i \in 0 .. Len(references)] ==
        IF i = 0 THEN [p \in {Root} |-> Leafless] ELSE Insert(grown[i - 1], references[i])
      forest == grown[Len(references)]
  IN  [p \in DOMAIN forest |-> [forest[p] EXCEPT !.children = Sorted(@)]]

(* ReferenceIndex::fallback_branch *)
FallbackBranch ==
  LET names == {branch.name : branch \in ToSet(Index("local"))}
      listed == {i \in DOMAIN Fallback : Fallback[i] \in names}
  IN  IF listed = {} THEN NoBranch ELSE Fallback[Min(listed)]

(* Deletion::switch_to: whether a branch may be deleted, and where to. *)
Offers(branch) ==
  IF head # branch THEN {[switchTo |-> NoBranch]}
  ELSE IF FallbackBranch \in {NoBranch, branch} THEN {}
  ELSE {[switchTo |-> FallbackBranch]}

(* Mutant: a badge is the current branch's when it bears its name. *)
ClassifyByName(reference) ==
  IF reference.name = head THEN "current" ELSE reference.kind

(* classify *)
Classify(reference) ==
  IF reference.kind = "local" /\ reference.name = head THEN "current"
  ELSE reference.kind

(* deletable_branch *)
Deletable(reference) ==
  IF reference.kind = "local" THEN Offers(reference.name) ELSE {}

(* refs_by_commit: the references beside a commit, branches first. *)
ReferencesAt(commit) ==
  LET listed == Index("local") \o Index("remote") \o Index("tag")
  IN  Among(listed, {reference \in ToSet(listed) : reference.target = commit})

(* subject_cell: the badges of a row of the history table. *)
Badges(commit) ==
  LET references == ReferencesAt(commit)
  IN  [i \in DOMAIN references |->
         [reference |-> references[i], badge |-> Classify(references[i]),
          offers |-> Deletable(references[i])]]

(* tree_item, for a node of the forest branches_item, remotes_item or
   tags_item shows: what a click filters by, whether the row is marked as
   checked out, and the deletions its menu offers. *)
RowOf(section, forest, p) ==
  LET reference == forest[p].reference IN
  [reference |-> reference,
   active |-> /\ reference # NoReference
              /\ reference.kind = "local" /\ reference.name = head,
   offers |-> IF section = "local" /\ reference # NoReference THEN Offers(p) ELSE {}]

----------------------------------------------------------------------------
TreeInit ==
  /\ held \in Repository
  /\ unread \in SetToSeqs(held)
  /\ entries = <<>> /\ listing = "reading"
  /\ head \in HeadBranch \cup {NoBranch}

TreeIdle ==
  held = {} /\ unread = <<>> /\ entries = <<>> /\ head = NoBranch /\ listing = "refused"

TreeNext == ReadReference \/ RefuseListing \/ EndListing

----------------------------------------------------------------------------
Listed(section) == {ref \in held : ref.category = section}

(* The rows of a section are its references: each in one place, under the
   segments of its name, siblings in order, and nothing else but the
   namespaces that lead to one. *)
ShowsSection(section) ==
  LET forest == GroupByPath(Index(section))
      children(p) == forest[p].children
      names == {ref.name : ref \in Listed(section)}
  IN /\ DOMAIN forest = {Root} \cup UNION {Prefixes(name) : name \in names}
     /\ \A p \in DOMAIN forest :
          /\ \A i, j \in DOMAIN children(p) : i < j => children(p)[i] < children(p)[j]
          /\ {Append(p, children(p)[i]) : i \in DOMAIN children(p)}
               = {q \in DOMAIN forest : Len(q) = Len(p) + 1 /\ IsPrefix(p, q)}
          /\ IF p \in names
             THEN \E ref \in Listed(section) :
                    ref.name = p /\ forest[p].reference = Reference(ref)
             ELSE forest[p].reference = NoReference

(* Of the branches shown, the one HEAD is on is marked, wherever a tag or a
   remote has its name, and a menu never offers to delete it but by leaving it
   for another branch that is there. *)
MarksHead(section) ==
  LET forest == GroupByPath(Index(section)) IN
  \A p \in DOMAIN forest :
    LET row == RowOf(section, forest, p) IN
    /\ row.active <=> section = "local" /\ row.reference # NoReference /\ p = head
    /\ row.offers # {} => section = "local" /\ row.reference # NoReference
    /\ \A offer \in row.offers :
         (p = head) <=> (offer.switchTo # NoBranch)
    /\ \A offer \in row.offers : offer.switchTo # NoBranch =>
         offer.switchTo # p /\ forest[offer.switchTo].reference # NoReference

(* Every reference of a section has one badge, beside the commit it points at,
   that offers what its row in the sidebar offers and is the current branch's
   when the row is marked. *)
BadgesAgree(section) ==
  LET forest == GroupByPath(Index(section)) IN
  \A ref \in Listed(section) :
    LET row == RowOf(section, forest, ref.name)
        badges == Badges(ref.target)
        its == {i \in DOMAIN badges : badges[i].reference = row.reference}
    IN /\ Cardinality(its) = 1
       /\ \A i \in its : /\ badges[i].offers = row.offers
                         /\ badges[i].badge = "current" <=> row.active

(* A listing is whole or fails: in whichever order git lists its references,
   none that cannot be read, of a section or of none, is left out silently,
   the listing fails on a reference only if it cannot be read, and the sidebar
   shows exactly those of the sections, as do the badges (read_all,
   from_entries, group_by_path, tree_item, subject_cell,
   Deletion::switch_to). *)
SidebarListsReferences ==
  /\ listing = "listed" =>
       /\ \A ref \in held : Readable(ref)
       /\ \A section \in Section :
            ShowsSection(section) /\ MarksHead(section) /\ BadgesAgree(section)
  /\ listing = "failed" => \E ref \in held : ~Readable(ref)
=============================================================================
