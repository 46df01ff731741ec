---------------------------- MODULE MCGitOutput ----------------------------
(* Two small files in every form git prints, alone and one after another,
   a clone whose writes to its two pipes fill both, a panel that is handed
   three commits, one of which changes no file, clocks around the turns of the
   calendar, repositories of a few references, and URLs of up to four
   pieces after the scheme. *)
EXTENDS GitOutput

CONSTANTS p, q, sp, spb, w, wcr, lookcr, none

MCPath == {p, q, sp, spb}
MCSpaced == {sp, spb}
MCSplitting == {spb}
MCWord == {w, wcr, lookcr}

Line(origin, content) ==
  [origin |-> origin, content |-> content, unterminated |-> FALSE]
Unterminated(origin, content) ==
  [origin |-> origin, content |-> content, unterminated |-> TRUE]
HunkOf(old, new, lines) == [old |-> old, new |-> new, body |-> lines]

(* Two that end in a carriage return, one of them a look-alike but for it. *)
MCDecoded ==
  [c \in Content |-> IF c = wcr THEN w ELSE IF c = lookcr THEN LooksLike("old", p) ELSE c]

(* Bodies of hunks: a deletion and an addition that read as the sides of a
   file, the wrong way round once, and lines no newline ends. *)
LookAlikeBody ==
  <<Line("context", wcr), Line("deletion", LooksLike("old", p)),
    Line("addition", LooksLike("new", p)), Line("deletion", LooksLike("new", p))>>
Bodies ==
  {LookAlikeBody,
   <<Line("addition", LooksLike("new", sp))>>,
   <<Unterminated("deletion", w), Unterminated("addition", w)>>,
   <<Line("deletion", lookcr), Line("addition", wcr), Unterminated("context", w)>>}

HunkLists ==
  {<<HunkOf(1, 1, b)>> : b \in Bodies}
  \cup {<<HunkOf(1, 1, b), HunkOf(7, 8, LookAlikeBody)>> : b \in Bodies}

File(old, new, status, similarity, mode, binary, hunks) ==
  [old |-> old, new |-> new, status |-> status, similarity |-> similarity,
   mode |-> mode, binary |-> binary, hunks |-> hunks]

OneSided(origin) ==
  <<HunkOf(IF origin = "addition" THEN 0 ELSE 1, IF origin = "addition" THEN 1 ELSE 0,
           <<Line(origin, w), Unterminated(origin, w)>>)>>

Files ==
  {File(f, f, "modified", 100, mode, FALSE, hunks) :
     f \in MCPath, mode \in BOOLEAN, hunks \in HunkLists}
  \cup {File(f, f, "modified", 100, TRUE, FALSE, <<>>) : f \in MCPath}
  \cup {File(f, f, "modified", 100, FALSE, TRUE, <<>>) : f \in MCPath}
  \cup {File(p, to, how, similarity, FALSE, FALSE, hunks) :
          to \in MCPath \ {p}, how \in {"rename", "copy"}, similarity \in {100},
          hunks \in {<<>>}}
  \cup {File(p, to, how, 60, mode, FALSE, hunks) :
          to \in {q, sp}, how \in {"rename", "copy"}, mode \in BOOLEAN,
          hunks \in HunkLists}
  \cup {File(none, f, "added", 100, FALSE, binary,
             IF binary THEN <<>> ELSE OneSided("addition")) :
          f \in MCPath, binary \in BOOLEAN}
  \cup {File(f, none, "deleted", 100, FALSE, FALSE, hunks) :
          f \in MCPath, hunks \in {<<>>, OneSided("deletion")}}

ShortFiles ==
  {File(p, p, "modified", 100, TRUE, FALSE, <<HunkOf(1, 1, LookAlikeBody)>>),
   File(p, q, "rename", 60, FALSE, FALSE, <<>>),
   File(q, q, "modified", 100, FALSE, TRUE, <<>>),
   File(none, q, "added", 100, FALSE, FALSE, OneSided("addition"))}

MCSubject == {<<>>} \cup {<<file>> : file \in Files} \cup (ShortFiles \X ShortFiles)

Out == [to |-> "out", byte |-> 1]
Err(byte) == [to |-> "err", byte |-> byte]

(* A line nothing recognises, a phase of the server's, one with a percentage
   and a line left open, with more on stdout than its pipe holds before,
   between or after them. *)
Progress == <<Err(4), Err(0), Err(2), Err(1), Err(0), Err(5), Err(3), Err(0), Err(5)>>
OutBurst == <<Out, Out, Out, Out>>
MCScript ==
  {OutBurst \o Progress, Progress \o OutBurst, <<Err(0)>>,
   SubSeq(Progress, 1, 4) \o OutBurst \o SubSeq(Progress, 5, Len(Progress))}

(* The last days of February, and of a century and the epoch before it: years
   divisible by 4, 100 and 400, and years before 0. *)
Feb27(days, year) == [days |-> days, year |-> year, month |-> 2, day |-> 27]
MCAnchor ==
  {Feb27(-719471 - 146097, -400), Feb27(-719471, 0), Feb27(-135083, 1600),
   Feb27(11014, 2000), Feb27(47539, 2100),
   [days |-> -25569, year |-> 1899, month |-> 12, day |-> 30],
   [days |-> -2, year |-> 1969, month |-> 12, day |-> 30]}
MCOffset == {-720, 0, 345, 840}

(* Names whose order is not that of their segments, a namespace shared by two
   names, a tag named like a branch, a remote without a branch, a tag that leads
   nowhere, and of no section a note that does and one gix cannot read. *)
Ref(category, name) ==
  [category |-> category, name |-> name, target |-> Len(name) % 2,
   broken |-> FALSE, resolves |-> TRUE]
Main == <<3>>
Master == <<4>>
References ==
  {Ref("local", Main), Ref("local", <<1, 2>>), Ref("local", <<2>>),
   Ref("local", <<1, 1, 5>>), Ref("local", Master),
   Ref("remote", <<1, 3>>), Ref("remote", <<1, 1, 2>>), Ref("remote", <<1>>),
   Ref("tag", Main), [Ref("tag", <<1, 2>>) EXCEPT !.resolves = FALSE],
   [Ref("other", <<1>>) EXCEPT !.resolves = FALSE],
   [Ref("other", <<2>>) EXCEPT !.broken = TRUE]}
MCRepository == {refs \in SUBSET References : Cardinality(refs) <= 4}
MCFallback == <<Main, Master>>
MCPasted ==
  {<<scheme>> \o rest : scheme \in Scheme,
     rest \in UNION {[1 .. n -> Piece \ Scheme] : n \in 0 .. 4}}
  \cup {<<" ">> \o <<"https://", "word">> \o <<" ">>, <<" ", " ">>, <<"word">>}
MCHeadBranch == {Main, Master, <<1, 2>>}
=============================================================================
