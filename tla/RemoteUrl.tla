----------------------------- MODULE RemoteUrl -----------------------------
(***************************************************************************)
(* What becomes of a pasted URL (crates/ui/src/project.rs): whether it is  *)
(* accepted, the name its project shows and the readable part of the name  *)
(* of its clone's directory.                                               *)
(*                                                                         *)
(* A text is a sequence of pieces: a scheme with its slashes, "word" for   *)
(* letters, digits, dots and underscores, ".git", "-", "/", " " for        *)
(* anything trimmed or refused as white space, "?" for any other           *)
(* character.  A piece counts as one character for the cap on lengths.     *)
(***************************************************************************)
EXTENDS Naturals, Sequences, SequencesExt, FiniteSetsExt

CONSTANTS
  Pasted,  \* what is pasted
  MaxSlug  \* REMOTE_CACHE_SLUG_MAX_LEN

Scheme == {"https://", "HTTPS://", "ssh://"}
Piece == Scheme \cup {"word", ".git", "-", "/", " ", "?"}

ASSUME RemoteUrlAssumption ==
  /\ \A text \in Pasted : text \in Seq(Piece)
  /\ MaxSlug \in Nat \ {0}

VARIABLE pasted

Without(text, ends) ==
  LET kept == {i \in DOMAIN text : text[i] \notin ends}
  IN  IF kept = {} THEN <<>> ELSE SubSeq(text, Min(kept), Max(kept))

WithoutTrailing(text, end) ==
  SubSeq(text, 1, Max({0} \cup {i \in DOMAIN text : text[i] # end}))

(* The schemes are recognised whatever their case; the host may not be empty. *)
ValidateRemoteUrl(raw) ==
  LET trimmed == Without(raw, {" "}) IN
  IF trimmed = <<>> THEN "Empty"
  ELSE IF Contains(trimmed, " ") THEN "Malformed"
  ELSE IF Head(trimmed) \notin {"https://", "HTTPS://"} THEN "UnsupportedScheme"
  ELSE IF Tail(trimmed) = <<>> \/ trimmed[2] = "/" THEN "Malformed"
  ELSE "accepted"

(* The last segment without .git, or everything if that leaves nothing. *)
RemoteDisplayName(url) ==
  LET trimmed == WithoutTrailing(url, "/")
      ends == {i \in DOMAIN trimmed : trimmed[i] \in Scheme \cup {"/"}}
      segment == SubSeq(trimmed, Max({0} \cup ends) + 1, Len(trimmed))
      name == IF segment # <<>> /\ Last(segment) = ".git" THEN Front(segment) ELSE segment
  IN  IF name = <<>> THEN trimmed ELSE name

Safe == {"word", ".git", "-"}

(* A scheme in capitals is not stripped. *)
Spelled(url) ==
  IF Head(url) = "https://" THEN Tail(url) ELSE <<"word", "?">> \o Tail(url)

(* One character more: not beyond the cap, an unsafe one as a dash unless one
   is there. *)
Collapse(slug, piece) ==
  IF Len(slug) >= MaxSlug THEN slug
  ELSE IF piece \in Safe THEN Append(slug, piece)
  ELSE IF slug # <<>> /\ Last(slug) = "-" THEN slug
  ELSE Append(slug, "-")

(* The loop of sanitize_for_filesystem over the characters. *)
Collapsed(text) ==
  LET slug[i \in 0 .. Len(text)] == IF i = 0 THEN <<>> ELSE Collapse(slug[i - 1], text[i])
  IN  slug[Len(text)]

(* Mutant: what the cap leaves at the end is not trimmed. *)
SanitizeUntrimmed(url) ==
  LET slug == Collapsed(Spelled(url))
  IN  IF slug = <<>> THEN <<"remote">> ELSE slug

SanitizeForFilesystem(url) ==
  LET slug == Without(Collapsed(Spelled(url)), {"-"})
  IN  IF slug = <<>> THEN <<"remote">> ELSE slug

RemoteUrlInit == pasted \in Pasted
RemoteUrlIdle == pasted = <<>>

(* Whatever is pasted and accepted, the project has a name to show, the host
   if the URL has no path, and the
   directory name begins with a part that is short, names no other directory
   on the way, and neither begins nor ends with a dash, wherever the cap cuts
   (validate_remote_url, remote_display_name, sanitize_for_filesystem). *)
RemotesAreNamed ==
  LET url == Without(pasted, {" "})
      slug == SanitizeForFilesystem(url)
      name == RemoteDisplayName(url)
  IN  ValidateRemoteUrl(pasted) = "accepted" =>
        /\ ValidateRemoteUrl(url) = "accepted"
        /\ name # <<>> /\ Last(name) # "/"
        /\ Contains(name, "/") => name = WithoutTrailing(url, "/")
        /\ slug # <<>> /\ Len(slug) <= MaxSlug
        /\ ToSet(slug) \subseteq Safe \cup {"remote"}
        /\ Head(slug) # "-" /\ Last(slug) # "-"
(* "The URL's last path segment with a trailing `.git` stripped, or the whole
   trimmed URL if that segment is empty (a bare `https://host` with no path)",
   says remote_display_name, whose last segment is then the host. *)
BareHostIsShown ==
  LET url == WithoutTrailing(Without(pasted, {" "}), "/")
  IN  ValidateRemoteUrl(pasted) = "accepted" /\ ~Contains(Tail(url), "/")
        => RemoteDisplayName(url) = url
=============================================================================
