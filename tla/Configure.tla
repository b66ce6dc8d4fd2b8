------------------------------ MODULE Configure ------------------------------
(***************************************************************************)
(* The allow list from the keyboard to the observer: `configure` with its  *)
(* flags and its checkbox picker (main.rs, picker.rs), config.toml         *)
(* (config.rs) and the watch loop that reads it again.                     *)
(*                                                                         *)
(* A `configure` reads config.toml when it begins, may keep the picker     *)
(* open for as long as the person likes, and writes the whole file at the  *)
(* end, truncating it first.  What people type, the files they edit and    *)
(* the moment an event wakes the observer are external.                    *)
(***************************************************************************)
EXTENDS Workspaces, SequencesExt

CONSTANTS
  Terminal, Interactive,  \* where `configure` runs, and where someone can answer
  Letter, Matching,       \* what can be typed to filter, and the names each filter matches
  Chunk,                  \* bound: what one read of the keyboard may return
  Window,                 \* WINDOW
  Flags,                  \* bound: the command lines people use
  FirstFiles, FirstLists, \* bound: destination files and allow lists to begin with
  Edits,                  \* bound: destination files people write, as <<directory, files>>
  MaxCommands,            \* of each terminal
  MaxFaults,              \* edits by hand and kills together
  MaxFilter,              \* letters typed into the filter
  NoId                    \* no device id

Entry == Dir \cup Name \cup {Blank}
Special == {"up", "down", "toggle", "cancel", "escape", "confirm", "backspace"} \* Key, but for characters
EnvFiles == [canonical : Content \cup {Absent}, dotted : Content \cup {Absent}]

ASSUME ConfigureAssumption ==
  /\ Interactive \subseteq Terminal /\ Window \in Nat \ {0} /\ <<>> \in DOMAIN Matching
  /\ MaxCommands \in Nat /\ MaxFaults \in Nat /\ MaxFilter \in Nat /\ NoId \notin Nat
  /\ FirstLists \subseteq Seq(Entry) /\ Chunk \subseteq Seq(STRING) /\ Letter \cap Special = {}
  /\ Flags \subseteq [allow : Seq(Entry) \cup {Absent}, add : Seq(Entry), drop : Seq(Entry)]
  /\ FirstFiles \subseteq [Dir -> EnvFiles] /\ Edits \subseteq Dir \X EnvFiles

\* Paths that differ in case alone, which --add-repo takes for one entry and a
\* case-sensitive file system for two, are left out.
ASSUME CaseAssumption == \A d, e \in Dir : Lower[d] = Lower[e] => d = e

VARIABLES
  config,    \* config.toml: the device id and allow_repos
  term,      \* each terminal: where its `configure` is and what that remembers
  observer,  \* the watch loop: where it is, and the list it works with
  behind,    \* history: whether a scan began since config.toml changed
  asked,     \* history: what the last command to write wanted
  unsafe,    \* history: a command read config.toml while it was broken
  ids, commands, faults

bounds == <<commands, faults>>
vars == <<files, config, term, observer, behind, asked, unsafe, ids, bounds>>

\* A config.toml that is empty or does not parse.
Broken == [id |-> NoId, allow |-> <<>>]

NoAsk == [how |-> "nothing"]
Opened(rows) == [rows |-> rows, filter |-> <<>>, cursor |-> 0, offset |-> 0, end |-> ""]
NoPick == Opened(<<>>)
IdleTerm == [at |-> "idle", cfg |-> Broken, pick |-> NoPick, ask |-> NoAsk]
Saving(cfg, ask) == [at |-> "save", cfg |-> cfg, pick |-> NoPick, ask |-> ask]

-----------------------------------------------------------------------------
(* The flags of configure *)

\* The elements of a sequence that are in a set, in their order: a recursive
\* function, for ConfigureProofs says what is in the result.
Keep(list, S) ==
  LET upto[n \in 0..Len(list)] ==
        IF n = 0 THEN <<>>
        ELSE IF list[n] \in S THEN Append(upto[n - 1], list[n]) ELSE upto[n - 1]
  IN upto[Len(list)]

\* parse_configure_args: --allow-repo does not go with the other two.
Refused(flags) == flags.allow # Absent /\ flags.add \o flags.drop # <<>>

\* merge_allow: removals, then additions that are not there yet.
MergeAllow(list, flags) ==
  LET dropped == {Lower[e] : e \in Entries(flags.drop)}
      Add(sofar, e) == IF e = Blank \/ \E k \in Range(sofar) : Lower[k] = Lower[e]
                       THEN sofar ELSE Append(sofar, e)
      with[n \in 0..Len(flags.add)] ==
        IF n = 0 THEN Keep(list, {e \in Entries(list) : Lower[e] \notin dropped})
        ELSE Add(with[n - 1], flags.add[n])
  IN with[Len(flags.add)]

\* next_allow_repos; Absent leaves the choice to the picker.
NextAllow(list, flags) ==
  IF flags.allow # Absent THEN flags.allow
  ELSE IF flags.add \o flags.drop # <<>> THEN MergeAllow(list, flags) ELSE Absent

-----------------------------------------------------------------------------
(* The rows of the picker *)

\* repos_with_destination: a worktree stands for its primary, and everything
\* with a file that works or does not gets a row.
Repos ==
  LET standing == {IF Linked(d) THEN Git[d] ELSE d : d \in Candidates} IN
  Keep(RowOrder, {d \in standing : Resolve(d) # Absent})

\* Mutated: a bare name is written although two checkouts have it.
AllowEntry_Bare(d, list) == IF d \in Range(list) THEN d ELSE Leaf[d]

\* allow_entry: an absolute entry stays, a name only one repository has will do.
AllowEntry(d, list) ==
  IF d \in Range(list) \/ \E o \in Range(Repos) \ {d} : Leaf[o] = Leaf[d] THEN d ELSE Leaf[d]

\* Entries for which no repository was found.
Orphans(list) == Keep(list, {e \in Entries(list) : \A d \in Range(Repos) : ~Allowed(d, <<e>>)})

Label(e) == IF e \in Dir THEN Leaf[e] ELSE e

\* build_choices
BuildChoices(list) ==
  LET row(d) == [repo |-> d, entry |-> AllowEntry(d, list), label |-> Leaf[d],
                 selected |-> Allowed(d, list), disabled |-> Blocked(d) /\ ~Allowed(d, list)]
      orphan(e) == [repo |-> NoDir, entry |-> e, label |-> Label(e),
                    selected |-> TRUE, disabled |-> FALSE]
      repos == Repos
      orphans == Orphans(list)
  IN [i \in 1..Len(repos) |-> row(repos[i])] \o [i \in 1..Len(orphans) |-> orphan(orphans[i])]

-----------------------------------------------------------------------------
(* The picker *)

Arrow == [A |-> "up", B |-> "down"]
KeyOf == [ctrlC |-> "cancel", ctrlD |-> "cancel", ctrlN |-> "down", ctrlP |-> "up", enter |-> "confirm",
          backspace |-> "backspace", space |-> "toggle"]

\* parse_keys, of one read: an arrow is three bytes, a lone ESC is the escape
\* key, and bytes that mean nothing are passed over.
Keys(bytes) ==
  LET n == Len(bytes)
      from[i \in 1..n + 3] ==
        IF i > n THEN <<>>
        ELSE IF bytes[i] = "esc" /\ i < n /\ bytes[i + 1] \in {"[", "O"}
        THEN (IF i + 2 <= n /\ bytes[i + 2] \in DOMAIN Arrow THEN <<Arrow[bytes[i + 2]]>> ELSE <<>>)
             \o from[i + 3]
        ELSE (IF bytes[i] = "esc" THEN <<"escape">>
              ELSE IF bytes[i] \in DOMAIN KeyOf THEN <<KeyOf[bytes[i]]>>
              ELSE IF bytes[i] \in Letter THEN <<bytes[i]>> ELSE <<>>)
             \o from[i + 1]
  IN from[1]

\* visible_indices: the rows on view, which keep their order.
Visible(p) == {i \in DOMAIN p.rows : p.rows[i].label \in Matching[p.filter]}

Least(m, n) == IF m < n THEN m ELSE n
Less(m, n) == IF m > n THEN m - n ELSE 0   \* saturating_sub

\* Mutated: the window is not moved down to the cursor.
Clamp_Upwards(p) ==
  LET count == Cardinality(Visible(p))
      cursor == Least(p.cursor, Less(count, 1))
  IN [p EXCEPT !.cursor = cursor, !.offset = Least(Least(p.offset, cursor), Less(count, Window))]

\* clamp: the cursor on a row, the window around the cursor, the list in it.
Clamp(p) ==
  LET count == Cardinality(Visible(p))
      cursor == Least(p.cursor, Less(count, 1))
      above == Least(p.offset, cursor)
      around == IF cursor >= above + Window THEN cursor + 1 - Window ELSE above
  IN [p EXCEPT !.cursor = cursor, !.offset = Least(around, Less(count, Window))]

\* step, which goes round at both ends.
MoveTo(p, up) ==
  LET count == Cardinality(Visible(p)) IN
  IF count = 0 THEN p
  ELSE Clamp([p EXCEPT !.cursor = IF up THEN (IF @ = 0 THEN count - 1 ELSE @ - 1)
                                  ELSE (IF @ >= count - 1 THEN 0 ELSE @ + 1)])

\* toggle: the row under the cursor, unless it is disabled.
Toggle(p) ==
  LET here == {i \in Visible(p) : Cardinality({j \in Visible(p) : j < i}) = p.cursor}
      row(i) == IF i \in here /\ ~p.rows[i].disabled
                THEN [p.rows[i] EXCEPT !.selected = ~@] ELSE p.rows[i]
  IN [p EXCEPT !.rows = [i \in DOMAIN p.rows |-> row(i)]]

\* apply, for one key; after enter or cancel the rest of the read is dropped.
Press(p, key) ==
  CASE p.end # "" -> p
    [] p.end = "" /\ key \in {"up", "down"} -> MoveTo(p, key = "up")
    [] p.end = "" /\ key = "toggle" -> Toggle(p)
    [] p.end = "" /\ (key = "cancel" \/ (key = "escape" /\ p.filter = <<>>)) -> [p EXCEPT !.end = "cancel"]
    [] p.end = "" /\ key = "confirm" -> [p EXCEPT !.end = "save"]
    [] p.end = "" /\ key = "escape" /\ p.filter # <<>> -> Clamp([p EXCEPT !.filter = <<>>])
    [] p.end = "" /\ key = "backspace" -> Clamp([p EXCEPT !.filter = IF @ = <<>> THEN @ ELSE Front(@)])
    [] p.end = "" /\ key \in Letter -> Clamp([p EXCEPT !.filter = Append(@, key), !.cursor = 0])

Pressed(p, bytes) ==
  LET keys == Keys(bytes)
      after[n \in 0..Len(keys)] == IF n = 0 THEN p ELSE Press(after[n - 1], keys[n])
  IN after[Len(keys)]

\* selected_entries
Selected(rows) ==
  LET on == Keep(rows, {row \in Range(rows) : row.selected}) IN [i \in DOMAIN on |-> on[i].entry]

-----------------------------------------------------------------------------
(* One configure *)

Init ==
  /\ files \in FirstFiles
  /\ \E list \in FirstLists : config = [id |-> 0, allow |-> list]
  /\ term = [t \in Terminal |-> IdleTerm]
  /\ observer = [at |-> "off", allow |-> <<>>]
  /\ behind = FALSE /\ asked = NoAsk /\ unsafe = FALSE
  /\ ids = 0 /\ commands = [t \in Terminal |-> 0] /\ faults = 0

\* Mutated: every configure begins with a fresh config.
LoadedOrFresh_Fresh == [id |-> ids + 1, allow |-> <<>>]

\* Config::load, or Config::fresh with a new device id.
LoadedOrFresh == IF config # Broken THEN config ELSE [id |-> ids + 1, allow |-> <<>>]

\* Mutated: the picker opens where nobody can answer.
CanAsk_Anywhere(t, rows) == rows # <<>>

\* choose_allow_repos opens the picker on a terminal, when there are rows.
CanAsk(t, rows) == t \in Interactive /\ rows # <<>>

\* configure up to the write, or up to the open picker.
Begin(t, flags) ==
  LET cfg == LoadedOrFresh
      next == NextAllow(cfg.allow, flags)
      rows == BuildChoices(cfg.allow)
      ask == [how |-> "flags", before |-> cfg.allow, flags |-> flags, rows |-> <<>>, files |-> files]
  IN
  /\ term[t].at = "idle" /\ commands[t] < MaxCommands /\ ~Refused(flags)
  /\ term' = [term EXCEPT ![t] =
       IF next # Absent
       THEN Saving([cfg EXCEPT !.allow = next], ask)
       ELSE IF CanAsk(t, rows)
       THEN [at |-> "pick", cfg |-> cfg, pick |-> Opened(rows),
             ask |-> [ask EXCEPT !.how = "pick"]]
       ELSE Saving(cfg, NoAsk)]
  /\ ids' = IF config = Broken THEN ids + 1 ELSE ids
  /\ unsafe' = (unsafe \/ \E u \in Terminal : term[u].at # "idle")
  /\ commands' = [commands EXCEPT ![t] = @ + 1]
  /\ UNCHANGED <<files, config, observer, behind, asked, faults>>

\* picker::run, one read: an end of input cancels, and a cancelled picker leaves
\* the list as it was loaded, to be written like any other.
ReadKeys(t, bytes) ==
  LET p == IF bytes = <<>> THEN [term[t].pick EXCEPT !.end = "cancel"]
           ELSE Pressed(term[t].pick, bytes) IN
  /\ term[t].at = "pick" /\ p.filter \in DOMAIN Matching /\ Len(p.filter) <= MaxFilter
  /\ term' = [term EXCEPT ![t] =
       IF p.end = "" THEN [@ EXCEPT !.pick = p]
       ELSE IF p.end = "cancel" THEN Saving(@.cfg, NoAsk)
       ELSE Saving([@.cfg EXCEPT !.allow = Selected(p.rows)], [@.ask EXCEPT !.rows = p.rows])]
  /\ UNCHANGED <<files, config, observer, behind, asked, unsafe, ids, bounds>>

\* Config::save: fs::write truncates ...
Truncate(t) ==
  /\ term[t].at = "save"
  /\ config' = Broken /\ behind' = FALSE /\ asked' = NoAsk
  /\ term' = [term EXCEPT ![t].at = "write"]
  /\ UNCHANGED <<files, observer, unsafe, ids, bounds>>

\* ... and then writes what render made.
Save(t) ==
  /\ term[t].at = "write"
  /\ config' = term[t].cfg /\ behind' = FALSE /\ asked' = term[t].ask
  /\ term' = [term EXCEPT ![t] = IdleTerm]
  /\ UNCHANGED <<files, observer, unsafe, ids, bounds>>

\* A closed window, a kill (external).
Kill(t) ==
  /\ term[t].at # "idle" /\ faults < MaxFaults
  /\ term' = [term EXCEPT ![t] = IdleTerm]
  /\ faults' = faults + 1 /\ unsafe' = (unsafe \/ term[t].at = "write")
  /\ UNCHANGED <<files, config, observer, behind, asked, ids, commands>>

-----------------------------------------------------------------------------
(* People with an editor (external) *)

EditFile(d, f) ==
  /\ faults < MaxFaults /\ files[d] # f
  /\ files' = [files EXCEPT ![d] = f] /\ faults' = faults + 1
  /\ UNCHANGED <<config, term, observer, behind, asked, unsafe, ids, commands>>

\* allow_repos by hand, or a slip that leaves no TOML.
EditConfig ==
  /\ faults < MaxFaults
  /\ \/ \E list \in FirstLists : config # Broken /\ config' = [config EXCEPT !.allow = list] /\ UNCHANGED unsafe
     \/ config' = Broken /\ unsafe' = TRUE
  /\ config' # config /\ behind' = FALSE /\ asked' = NoAsk /\ faults' = faults + 1
  /\ UNCHANGED <<files, term, observer, ids, commands>>

-----------------------------------------------------------------------------
(* The watch loop *)

\* Without a config that parses, `run` ends with an error.
Boot ==
  /\ observer.at = "off" /\ config # Broken
  /\ observer' = [at |-> "wait", allow |-> config.allow]
  /\ UNCHANGED <<files, config, term, behind, asked, unsafe, ids, bounds>>

\* An event, or poll_secs: the scan works with the list read before the wait.
Scan ==
  /\ observer.at = "wait"
  /\ observer' = [observer EXCEPT !.at = "reload"] /\ behind' = TRUE
  /\ UNCHANGED <<files, config, term, asked, unsafe, ids, bounds>>

\* Mutated: config.toml is read once.
Reload_Never ==
  /\ observer.at = "reload"
  /\ observer' = [observer EXCEPT !.at = "wait"]
  /\ UNCHANGED <<files, config, term, behind, asked, unsafe, ids, bounds>>

\* A config that does not load leaves the loop with the one it has.
Reload ==
  /\ observer.at = "reload"
  /\ observer' = [at |-> "wait", allow |-> IF config # Broken THEN config.allow ELSE observer.allow]
  /\ UNCHANGED <<files, config, term, behind, asked, unsafe, ids, bounds>>

Next ==
  \/ \E t \in Terminal : \/ \E flags \in Flags : Begin(t, flags)
                         \/ \E bytes \in Chunk : ReadKeys(t, bytes)
                         \/ Truncate(t) \/ Save(t) \/ Kill(t)
  \/ \E e \in Edits : EditFile(e[1], e[2])
  \/ EditConfig
  \/ Boot \/ Scan \/ Reload

Spec == Init /\ [][Next]_vars

-----------------------------------------------------------------------------
(* Properties *)

Standing(w) == IF Linked(w) THEN Git[w] ELSE w

\* The latest write of config.toml came from a saved picker, and the files are
\* what they were when it opened.
Picked == asked.how = "pick" /\ asked.files = files /\ config # Broken

\* Config, terminals and observer hold what they can hold.
TypeOK ==
  /\ config = Broken \/ (config.id \in 0..ids /\ Entries(config.allow) \subseteq Dir \cup Name)
  /\ \A t \in Terminal :
       /\ term[t].at \in {"idle", "pick", "save", "write"}
       /\ term[t].at # "idle" => Entries(term[t].cfg.allow) \subseteq Dir \cup Name
       /\ term[t].at = "pick" => t \in Interactive /\ term[t].pick.rows # <<>> /\ term[t].pick.end = ""
       /\ term[t].at = "write" => config = Broken \/ unsafe \/ faults > 0
  /\ observer.at \in {"off", "wait", "reload"}
  /\ Entries(observer.allow) \subseteq Dir \cup Name
  /\ behind \in BOOLEAN /\ unsafe \in BOOLEAN
  /\ commands \in [Terminal -> 0..MaxCommands] /\ faults \in 0..MaxFaults

\* The cursor is on a row the screen shows, and the window is full while there
\* are rows to fill it, whatever is typed, erased and moved: space never toggles
\* a row the person does not see.
CursorOnScreen ==
  \A t \in Terminal : term[t].at = "pick" =>
    LET p == term[t].pick
        count == Cardinality(Visible(p))
    IN /\ p.cursor <= Less(count, 1)
       /\ p.offset <= p.cursor /\ p.cursor < p.offset + Window
       /\ p.offset <= Less(count, Window)

\* Two rows may differ in case alone: their bare names allow each other.
Twin(row) == \E i \in DOMAIN asked.rows : LET other == asked.rows[i] IN
  other.selected /\ other.label # row.label /\ Lower[other.label] = Lower[row.label]

\* What is written allows exactly the repositories whose boxes were ticked and
\* keeps the entries without a repository; and --add-repo and --remove-repo
\* change no other entry ("saving never drops an entry silently", README.md).
SavedAsAsked ==
  /\ Picked => \A i \in DOMAIN asked.rows : LET row == asked.rows[i] IN
       IF row.repo = NoDir THEN row.selected => row.entry \in Range(config.allow)
       ELSE IF row.selected THEN Allowed(row.repo, config.allow)
       ELSE Allowed(row.repo, config.allow) => Twin(row)
  /\ Picked => \A e \in Entries(asked.before) :
       \/ \E i \in DOMAIN asked.rows : asked.rows[i].repo = NoDir /\ asked.rows[i].entry = e
       \/ \E i \in DOMAIN asked.rows : asked.rows[i].repo # NoDir /\ Allowed(asked.rows[i].repo, <<e>>)
  /\ asked.how = "flags" /\ asked.flags.allow = Absent => \A d \in Dir :
       Matches(d, config.allow) <=>
         \/ Matches(d, asked.flags.add)
         \/ \E e \in Entries(asked.before) :
              Names(e, d) /\ Lower[e] \notin {Lower[x] : x \in Entries(asked.flags.drop)}

\* A chat is queued once its repository, or the primary of its worktree, is
\* ticked, and held if the file there is broken; it is not queued unless some
\* ticked row has the name of its folder or of its repository.
TickedIsSent ==
  Picked => \A chat \in Chat, i \in DOMAIN asked.rows :
    LET w == WorkspaceOf(chat)
        row == asked.rows[i]
    IN w \in Dir /\ row.repo = Standing(w) =>
         /\ row.selected => Decision(chat, config.allow) = IF Blocked(w) THEN "hold" ELSE "send"
         /\ Decision(chat, config.allow) = "send" =>
              \/ row.selected
              \/ \E j \in DOMAIN asked.rows :
                   /\ asked.rows[j].selected
                   /\ Lower[asked.rows[j].label] \in {Lower[Leaf[w]], Lower[row.label]}

\* What is wrong with a file that resolve does not take.
Fault(c) ==
  IF c = Conflict THEN "disagree" ELSE IF Blank \in {c.url, c.key} THEN "missing" ELSE "origin"

\* The two cases in which diagnose names the wrong thing: two files that agree, if
\* they are no good, "disagree", and a malformed .git is put down to a file.
Misdiagnosed(d) ==
  \/ Nearest(d) # NoDir /\ files[Nearest(d)].canonical = files[Nearest(d)].dotted
  \/ WithinRepo(d) = Absent /\ Git[d] = "malformed"

\* A repository that cannot upload is listed with what is wrong with the file that
\* resolve rejects ("with the reason", README.md), except where it is Misdiagnosed.
BlockedSaysWhy ==
  \A d \in Range(Repos) :
    Blocked(d) /\ ~Misdiagnosed(d) => Reason(d) = Fault(WithinRepo(d))

\* A change of config.toml is in force from the second scan after it on, however
\* saves, hand edits and scans fall.
OneScanBehind ==
  observer.at = "wait" /\ behind /\ config # Broken => observer.allow = config.allow

\* The device id is generated once (config.rs:15) and the file is whole while
\* nobody writes it, as long as commands do not overlap, none is killed while it
\* writes and nobody breaks the file by hand.
StableAlone ==
  ~unsafe => IF config = Broken THEN \E t \in Terminal : term[t].at = "write" ELSE config.id = 0

\* "The next scan reads the file; you do not need to restart" (README.md).
NextScanReads ==
  [][observer.at = "wait" /\ observer'.at = "reload" /\ config # Broken
     => observer.allow = config.allow]_vars
=============================================================================
