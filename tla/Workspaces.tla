------------------------------ MODULE Workspaces ------------------------------
(***************************************************************************)
(* Which directory a chat belongs to, which destination file serves that   *)
(* directory, and whether the allow list names it: workspace.rs,           *)
(* destination.rs and the routing decision of capture.rs.                  *)
(*                                                                         *)
(* The file system is a tree of directories whose names, git markers and   *)
(* slugs are given; the destination files in it change.  A destination     *)
(* file is the origin, the key and the organization it declares, where     *)
(* blank is a value that is missing or empty.                              *)
(***************************************************************************)
EXTENDS Naturals, FiniteSets, Sequences, Functions

CONSTANTS
  Dir, NoDir,
  Parent,      \* [Dir -> Dir \cup {NoDir}]
  Name, Leaf,  \* file names, and the one of each directory
  Lower,       \* a name or a path without its case
  Git,         \* a directory's marker: none, dir, foreign, malformed, or what
               \* the pointer of a linked worktree leads to
  Gone,        \* directories that chats mention and that are no more
  Skipped,     \* directories a scan does not enter (.git, target, ...)
  Root,        \* search_roots
  MaxDepth,    \* MAX_SCAN_DEPTH
  RowOrder,    \* all directories, by leaf without case and then as found
  Encoded,     \* the slug each directory's path becomes
  Origin, Key, Org,
  Absent, Conflict, Blank,
  Chat         \* chats: the tool, the cwd it recorded and the slug of its folder

Marker == {"none", "dir", "foreign", "malformed"}
Content == [url : Origin \cup {Blank, "path"}, key : Key \cup {Blank}, org : Org \cup {Blank}]

ASSUME WorkspacesAssumption ==
  /\ Parent \in [Dir -> Dir \cup {NoDir}] /\ Leaf \in [Dir -> Name]
  /\ Dir \cap Name = {} /\ {NoDir, Absent, Conflict, Blank} \cap (Dir \cup Name) = {}
  \* No directory is above itself, and no path is also a name.
  /\ \A some \in (SUBSET Dir) \ {{}} : \E d \in some : Parent[d] \notin some
  /\ DOMAIN Lower = Dir \cup Name /\ \A d \in Dir, n \in Name : Lower[d] # Lower[n]
  /\ Marker \cap Dir = {}
  /\ \A d \in Dir : Git[d] \in Marker \/ (Git[d] \in Dir \ {d} /\ Git[Git[d]] = "dir")
  /\ \A d \in Gone : Git[d] = "none"
  /\ Root \subseteq Dir /\ MaxDepth \in Nat
  /\ RowOrder \in Seq(Dir) /\ Range(RowOrder) = Dir /\ IsInjective(RowOrder)
  /\ Absent # Conflict /\ {Absent, Conflict} \cap (Content \cup [origin : Origin, key : Key]) = {}

VARIABLE files   \* what env.khotan.local and .env.khotan.local hold

\* is_dir of the marker, or a file that points anywhere.
HasMarker(d) == Git[d] # "none"
Linked(d) == Git[d] \in Dir

-----------------------------------------------------------------------------
(* Destination files *)

\* select_env_file: either name will do, both only when they agree.
SelectFile(d) ==
  LET f == files[d] IN
  IF f.canonical = Absent THEN f.dotted
  ELSE IF f.dotted \in {Absent, f.canonical} THEN f.canonical ELSE Conflict

\* From a directory up to the first git marker, or to the top.
Upward[d \in Dir] ==
  IF HasMarker(d) \/ Parent[d] = NoDir THEN <<d>> ELSE <<d>> \o Upward[Parent[d]]
Ascent(w) == IF w \in Gone /\ Parent[w] # NoDir THEN Upward[Parent[w]] ELSE Upward[w]

\* The nearest directory of the ascent with a destination file, or NoDir.
Nearest(w) ==
  LET path == Ascent(w)
      hits == {i \in DOMAIN path : SelectFile(path[i]) # Absent}
  IN IF hits = {} THEN NoDir ELSE path[CHOOSE i \in hits : \A j \in hits : i <= j]

\* find_env_within_repo: without a git marker above it, no file counts; but a
\* conflict is an error before that is known.
WithinRepo(w) ==
  LET at == Nearest(w) IN
  IF at = NoDir THEN Absent
  ELSE IF SelectFile(at) # Conflict /\ ~HasMarker(Ascent(w)[Len(Ascent(w))]) THEN Absent
  ELSE SelectFile(at)

\* load_route: a bare origin and a key; the organization is optional.
Usable(c) == c \in Content /\ c.url \in Origin /\ c.key # Blank
Loaded(c) == IF Usable(c) THEN [origin |-> c.url, key |-> c.key] ELSE Conflict

\* resolve: the route of a workspace, Absent without a file, Conflict for an error.
\* A linked worktree falls back on the file beside its primary's .git.
Resolve(w) ==
  IF WithinRepo(w) # Absent THEN Loaded(WithinRepo(w))
  ELSE IF Git[w] = "malformed" THEN Conflict
  ELSE IF Linked(w) /\ SelectFile(Git[w]) # Absent THEN Loaded(SelectFile(Git[w]))
  ELSE Absent

Blocked(w) == Resolve(w) = Conflict   \* readiness

\* nearest_env_file, which tolerates the conflict that select_env_file rejects.
Asked(w) == LET f == files[Nearest(w)] IN IF f.canonical # Absent THEN f.canonical ELSE f.dotted

\* Mutated: two files are taken for the first of them.
Reason_NoConflict(w) ==
  IF Nearest(w) = NoDir THEN "unreadable"
  ELSE IF Blank \in {Asked(w).url, Asked(w).key} THEN "missing"
  ELSE IF Asked(w).url \notin Origin THEN "origin" ELSE "unusable"

\* diagnose: what the list and `status` say of a blocked repository.
Reason(w) ==
  IF Nearest(w) = NoDir THEN "unreadable"
  ELSE IF Absent \notin {files[Nearest(w)].canonical, files[Nearest(w)].dotted} THEN "disagree"
  ELSE IF Blank \in {Asked(w).url, Asked(w).key} THEN "missing"
  ELSE IF Asked(w).url \notin Origin THEN "origin" ELSE "unusable"

-----------------------------------------------------------------------------
(* The allow list: a sequence of names, directories and blanks *)

Entries(list) == Range(list) \ {Blank}

\* matches_allow: a path is that path, a name is the leaf but for its case.
Names(e, w) == IF e \in Dir THEN e = w ELSE Lower[e] = Lower[Leaf[w]]
Matches(w, list) == \E e \in Entries(list) : Names(e, w)

\* Mutated: a worktree needs an entry of its own.
Allowed_NoPrimary(w, list) == Matches(w, list)

\* workspace_allowed: in its own name, or in that of its primary checkout.
Allowed(w, list) == Matches(w, list) \/ (Linked(w) /\ Matches(Git[w], list))

-----------------------------------------------------------------------------
(* Discovery and the decision about a chat *)

\* The depths at which a scan of the roots comes by a directory.
Depths[d \in Dir] ==
  {0 : r \in Root \cap {d}} \cup
  IF Parent[d] = NoDir \/ d \in Skipped THEN {} ELSE {n + 1 : n \in Depths[Parent[d]]}

\* WorkspaceIndex::discover
Candidates ==
  {d \in Dir \ Gone : /\ \E n \in Depths[d] : n <= MaxDepth
                      /\ HasMarker(d) \/ files[d] # [canonical |-> Absent, dotted |-> Absent]}

\* resolve_checked: the cwd the tool recorded, or the one directory whose path
\* is encoded as the chat's folder; Conflict when there are several.
WorkspaceOf(chat) ==
  LET slugged == {d \in Candidates : Encoded[d] = chat.slug} IN
  IF chat.tool \in {"claude", "codex"} /\ chat.cwd # NoDir THEN chat.cwd
  ELSE IF slugged = {} THEN NoDir
  ELSE IF Cardinality(slugged) > 1 THEN Conflict ELSE CHOOSE d \in slugged : TRUE

\* read_file: the lines of a chat are queued for a route, passed over for good,
\* or held until something is mended.
Decision(chat, list) ==
  LET w == WorkspaceOf(chat) IN
  IF w = Conflict THEN "hold"
  ELSE IF w = NoDir \/ ~Allowed(w, list) \/ Resolve(w) = Absent THEN "skip"
  ELSE IF Resolve(w) = Conflict THEN "hold" ELSE "send"
=============================================================================
