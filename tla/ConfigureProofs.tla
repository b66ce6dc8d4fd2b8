--------------------------- MODULE ConfigureProofs ---------------------------
(***************************************************************************)
(* What `configure` makes of the list it began with, what the picker shows *)
(* and writes, what the observer works with and what becomes of the device *)
(* id: for any tree of directories, any lists, files and command lines,    *)
(* any number of terminals and whatever is typed.                          *)
(*                                                                         *)
(* The recursive functions of Configure and Workspaces are reasoned about  *)
(* by induction: over numbers from the library's theorem that < is         *)
(* well-founded, over directories from their having no cycle.              *)
(***************************************************************************)
EXTENDS Configure, TLAPS, WellFoundedInduction, FiniteSetTheorems

-----------------------------------------------------------------------------
(* The observer is at most one scan behind config.toml. *)

LEMMA InitBehind == Init => OneScanBehind
  BY DEF Init, OneScanBehind

\* A change of the file starts the count again; a reload with a file that
\* parses catches up.
LEMMA StepBehind == ASSUME OneScanBehind, [Next]_vars PROVE OneScanBehind'
  <1>1. ASSUME NEW t \in Terminal, NEW flags, Begin(t, flags) PROVE OneScanBehind'
    BY <1>1 DEF Begin, OneScanBehind
  <1>2. ASSUME NEW t \in Terminal, NEW bytes, ReadKeys(t, bytes) PROVE OneScanBehind'
    BY <1>2 DEF ReadKeys, OneScanBehind
  <1>3. ASSUME NEW t \in Terminal, Truncate(t) \/ Save(t) PROVE OneScanBehind'
    BY <1>3 DEF Truncate, Save, OneScanBehind
  <1>4. ASSUME NEW t \in Terminal, Kill(t) PROVE OneScanBehind'
    BY <1>4 DEF Kill, OneScanBehind
  <1>5. ASSUME NEW d, NEW f, EditFile(d, f) PROVE OneScanBehind'
    BY <1>5 DEF EditFile, OneScanBehind
  <1>6. CASE EditConfig
    BY <1>6 DEF EditConfig, OneScanBehind
  <1>7. CASE Boot
    BY <1>7 DEF Boot, OneScanBehind
  <1>8. CASE Scan
    BY <1>8 DEF Scan, OneScanBehind
  <1>9. CASE Reload
    BY <1>9 DEF Reload, OneScanBehind
  <1>10. CASE UNCHANGED vars
    BY <1>10 DEF vars, OneScanBehind
  <1>. QED BY <1>1, <1>2, <1>3, <1>4, <1>5, <1>6, <1>7, <1>8, <1>9, <1>10 DEF Next

\* A change of config.toml is in force from the second scan after it on (main.rs,
\* the watch loop), whatever saves, hand edits and scans there are.
THEOREM AtMostOneScanBehind == Spec => []OneScanBehind
  <1>. QED BY InitBehind, StepBehind, PTL DEF Spec

-----------------------------------------------------------------------------
(* The device id, and the file itself, outlive every command that has        *)
(* config.toml to itself.                                                    *)

IsConfig(c) == c = [id |-> c.id, allow |-> c.allow]

\* A terminal remembers four things.
Form ==
  /\ DOMAIN term = Terminal
  /\ \A t \in Terminal : DOMAIN term[t] = {"at", "cfg", "pick", "ask"}

\* One command at a time has the file in hand, with the device id it had first.
Alone == ~unsafe =>
  /\ \A t, u \in Terminal : term[t].at # "idle" /\ term[u].at # "idle" => t = u
  /\ \A t \in Terminal : term[t].at # "idle" => IsConfig(term[t].cfg) /\ term[t].cfg.id = 0
  /\ config = Broken => \E t \in Terminal : term[t].at = "write"
  /\ config # Broken => IsConfig(config) /\ config.id = 0

LEMMA Whole == ASSUME NEW c, c.id = 0 PROVE c # Broken
  BY ConfigureAssumption DEF Broken

LEMMA NewList ==
  ASSUME NEW c, IsConfig(c), NEW list, NEW d, d = [c EXCEPT !.allow = list]
  PROVE  IsConfig(d) /\ d.id = c.id
  BY DEF IsConfig

LEMMA InitAlone == Init => Form /\ Alone
  <1>. SUFFICES ASSUME Init PROVE Form /\ Alone
    OBVIOUS
  <1>1. PICK list : config = [id |-> 0, allow |-> list]
    BY DEF Init
  <1>2. IsConfig(config) /\ config.id = 0
    BY <1>1 DEF IsConfig
  <1>3. \A t \in Terminal : term[t] = IdleTerm /\ DOMAIN term = Terminal
    BY DEF Init
  <1>4. IdleTerm.at = "idle" /\ DOMAIN IdleTerm = {"at", "cfg", "pick", "ask"}
    BY DEF IdleTerm
  <1>5. DOMAIN term = Terminal
    BY DEF Init
  <1>. QED BY <1>2, <1>3, <1>4, <1>5, Whole DEF Form, Alone

LEMMA OneTerm ==
  ASSUME Form, NEW t \in Terminal, NEW x, DOMAIN x = {"at", "cfg", "pick", "ask"},
         term' = [term EXCEPT ![t] = x]
  PROVE  Form' /\ term'[t] = x /\ \A u \in Terminal \ {t} : term'[u] = term[u]
  BY DEF Form

LEMMA SavingForm ==
  ASSUME NEW cfg, NEW ask
  PROVE  /\ DOMAIN Saving(cfg, ask) = {"at", "cfg", "pick", "ask"}
         /\ Saving(cfg, ask).at = "save" /\ Saving(cfg, ask).cfg = cfg
  BY DEF Saving

LEMMA BeginAlone ==
  ASSUME Form, Alone, NEW t \in Terminal, NEW flags, Begin(t, flags)
  PROVE  Form' /\ Alone'
  <1>. DEFINE next == NextAllow(LoadedOrFresh.allow, flags)
              rows == BuildChoices(LoadedOrFresh.allow)
              ask == [how |-> "flags", before |-> LoadedOrFresh.allow, flags |-> flags,
                      rows |-> <<>>, files |-> files]
              x == IF next # Absent THEN Saving([LoadedOrFresh EXCEPT !.allow = next], ask)
                   ELSE IF CanAsk(t, rows)
                   THEN [at |-> "pick", cfg |-> LoadedOrFresh, pick |-> Opened(rows),
                         ask |-> [ask EXCEPT !.how = "pick"]]
                   ELSE Saving(LoadedOrFresh, NoAsk)
  <1>1. /\ term[t].at = "idle" /\ UNCHANGED config
        /\ term' = [term EXCEPT ![t] = x]
        /\ unsafe' = (unsafe \/ \E u \in Terminal : term[u].at # "idle")
    BY Zenon DEF Begin
  <1>. HIDE DEF next, rows, ask
  <1>2. DOMAIN x = {"at", "cfg", "pick", "ask"} /\ x.at \in {"save", "pick"}
    BY SavingForm
  <1>3. ASSUME IsConfig(LoadedOrFresh) PROVE IsConfig(x.cfg) /\ x.cfg.id = LoadedOrFresh.id
    BY <1>3, SavingForm, NewList
  <1>. HIDE DEF x
  <1>4. Form' /\ term'[t] = x /\ \A u \in Terminal \ {t} : term'[u] = term[u]
    BY <1>1, <1>2, OneTerm
  <1>5. ASSUME ~unsafe' PROVE ~unsafe /\ \A u \in Terminal : term[u].at = "idle"
    BY <1>1, <1>5, Zenon
  <1>6. ASSUME ~unsafe' PROVE LoadedOrFresh = config /\ IsConfig(config) /\ config.id = 0 /\ config # Broken
    BY <1>5, <1>6 DEF Alone, LoadedOrFresh
  <1>. QED BY <1>1, <1>2, <1>3, <1>4, <1>5, <1>6 DEF Alone

LEMMA OtherPick ==
  ASSUME NEW r, DOMAIN r = {"at", "cfg", "pick", "ask"}, NEW p, NEW x, x = [r EXCEPT !.pick = p]
  PROVE  DOMAIN x = {"at", "cfg", "pick", "ask"} /\ x.at = r.at /\ x.cfg = r.cfg
  OBVIOUS

LEMMA ReadAlone ==
  ASSUME Form, Alone, NEW t \in Terminal, NEW bytes, ReadKeys(t, bytes)
  PROVE  Form' /\ Alone'
  <1>. DEFINE p == IF bytes = <<>> THEN [term[t].pick EXCEPT !.end = "cancel"]
                   ELSE Pressed(term[t].pick, bytes)
              open == [term[t] EXCEPT !.pick = p]
              cancel == Saving(term[t].cfg, NoAsk)
              save == Saving([term[t].cfg EXCEPT !.allow = Selected(p.rows)],
                             [term[t].ask EXCEPT !.rows = p.rows])
              x == IF p.end = "" THEN open ELSE IF p.end = "cancel" THEN cancel ELSE save
  <1>1. term[t].at = "pick" /\ UNCHANGED <<config, unsafe>> /\ term' = [term EXCEPT ![t] = x]
    BY DEF ReadKeys
  <1>. HIDE DEF p
  <1>2. PICK l, a : save = Saving([term[t].cfg EXCEPT !.allow = l], a)
    OBVIOUS
  <1>3. DOMAIN open = {"at", "cfg", "pick", "ask"} /\ open.at = "pick" /\ open.cfg = term[t].cfg
    BY <1>1, OtherPick DEF Form
  <1>4. DOMAIN cancel = {"at", "cfg", "pick", "ask"} /\ cancel.at = "save" /\ cancel.cfg = term[t].cfg
    BY SavingForm
  <1>5. /\ DOMAIN save = {"at", "cfg", "pick", "ask"} /\ save.at = "save"
        /\ save.cfg = [term[t].cfg EXCEPT !.allow = l]
    BY <1>2, SavingForm
  <1>6. x \in {open, cancel, save}
    OBVIOUS
  <1>. HIDE DEF x, open, cancel, save
  <1>7. ASSUME IsConfig(term[t].cfg) PROVE IsConfig(save.cfg) /\ save.cfg.id = term[t].cfg.id
    BY <1>5, <1>7, NewList
  <1>8. DOMAIN x = {"at", "cfg", "pick", "ask"} /\ x.at # "idle" /\ x.at # "write"
    BY <1>3, <1>4, <1>5, <1>6
  <1>9. ASSUME IsConfig(term[t].cfg) PROVE IsConfig(x.cfg) /\ x.cfg.id = term[t].cfg.id
    BY <1>3, <1>4, <1>6, <1>7, <1>9
  <1>10. Form' /\ term'[t] = x /\ \A u \in Terminal \ {t} : term'[u] = term[u]
    BY <1>1, <1>8, OneTerm
  <1>. QED BY <1>1, <1>8, <1>9, <1>10 DEF Alone

LEMMA WriteAlone ==
  ASSUME Form, Alone, NEW t \in Terminal, Truncate(t) \/ Save(t) \/ Kill(t)
  PROVE  Form' /\ Alone'
  <1>0. IdleTerm.at = "idle" /\ DOMAIN IdleTerm = {"at", "cfg", "pick", "ask"}
    BY DEF IdleTerm
  <1>1. CASE Truncate(t)
    <2>. DEFINE x == [term[t] EXCEPT !.at = "write"]
    <2>1. term[t].at = "save" /\ config' = Broken /\ UNCHANGED unsafe
          /\ term' = [term EXCEPT ![t] = x]
      BY <1>1 DEF Truncate
    <2>2. DOMAIN x = {"at", "cfg", "pick", "ask"} /\ x.at = "write" /\ x.cfg = term[t].cfg
      BY DEF Form
    <2>. HIDE DEF x
    <2>3. Form' /\ term'[t] = x /\ \A u \in Terminal \ {t} : term'[u] = term[u]
      BY <2>1, <2>2, OneTerm
    <2>. QED BY <2>1, <2>2, <2>3 DEF Alone
  <1>2. CASE Save(t)
    <2>1. term[t].at = "write" /\ config' = term[t].cfg /\ UNCHANGED unsafe
          /\ term' = [term EXCEPT ![t] = IdleTerm]
      BY <1>2 DEF Save
    <2>2. Form' /\ term'[t] = IdleTerm /\ \A u \in Terminal \ {t} : term'[u] = term[u]
      BY <1>0, <2>1, OneTerm
    <2>3. ASSUME ~unsafe PROVE IsConfig(config') /\ config'.id = 0 /\ config' # Broken
      BY <2>1, <2>3, Whole DEF Alone
    <2>. QED BY <1>0, <2>1, <2>2, <2>3 DEF Alone
  <1>3. CASE Kill(t)
    <2>1. /\ term[t].at # "idle" /\ UNCHANGED config /\ term' = [term EXCEPT ![t] = IdleTerm]
          /\ unsafe' = (unsafe \/ term[t].at = "write")
      BY <1>3 DEF Kill
    <2>2. Form' /\ term'[t] = IdleTerm /\ \A u \in Terminal \ {t} : term'[u] = term[u]
      BY <1>0, <2>1, OneTerm
    <2>3. ASSUME ~unsafe' PROVE ~unsafe /\ term[t].at # "write"
      BY <2>1, <2>3, Zenon
    <2>. QED BY <1>0, <2>1, <2>2, <2>3 DEF Alone
  <1>. QED BY <1>1, <1>2, <1>3

LEMMA EditAlone ==
  ASSUME Form, Alone, EditConfig
  PROVE  Form' /\ Alone'
  <1>1. UNCHANGED term
    BY DEF EditConfig
  <1>2. CASE unsafe' = TRUE
    BY <1>1, <1>2 DEF Form, Alone
  <1>3. ASSUME NEW list, config # Broken, config' = [config EXCEPT !.allow = list], UNCHANGED unsafe
        PROVE  Form' /\ Alone'
    <2>1. ASSUME ~unsafe PROVE IsConfig(config') /\ config'.id = 0
      BY <1>3, <2>1, NewList DEF Alone
    <2>. QED BY <1>1, <1>3, <2>1, Whole DEF Form, Alone
  <1>. QED BY <1>2, <1>3, Zenon DEF EditConfig

LEMMA StepAlone == ASSUME Form, Alone, [Next]_vars PROVE Form' /\ Alone'
  <1>1. ASSUME UNCHANGED <<term, config, unsafe>> PROVE Form' /\ Alone'
    BY <1>1 DEF Form, Alone
  <1>2. ASSUME NEW d, NEW f, EditFile(d, f) PROVE Form' /\ Alone'
    BY <1>1, <1>2 DEF EditFile
  <1>3. CASE Boot \/ Scan \/ Reload \/ UNCHANGED vars
    BY <1>1, <1>3 DEF Boot, Scan, Reload, vars
  <1>. QED BY <1>2, <1>3, BeginAlone, ReadAlone, WriteAlone, EditAlone DEF Next

\* The device id is generated once (config.rs:15) and config.toml is whole while
\* nobody writes it, for any number of terminals and any keys pressed, unless
\* commands overlap, one is killed while it writes or someone breaks the file.
THEOREM DeviceIdLasts == Spec => []StableAlone
  <1>1. Form /\ Alone => StableAlone
    BY DEF Alone, StableAlone
  <1>2. Spec => [](Form /\ Alone)
    BY InitAlone, StepAlone, PTL DEF Spec
  <1>. QED BY <1>1, <1>2, PTL
-----------------------------------------------------------------------------
(* Induction over numbers, from the library's theorem about well-founded     *)
(* orders, and the recursive functions of Configure.                         *)

LEMMA Smallest ==
  ASSUME NEW some, some \subseteq Nat, some # {}
  PROVE  \E n \in some : \A m \in some : n <= m
  <1>1. PICK n \in some : \A m \in some : ~(<<m, n>> \in OpToRel(<, Nat))
    BY NatLessThanWellFounded, WFMin, Zenon
  <1>2. \A m \in some : <<m, n>> \in Nat \X Nat /\ <<m, n>>[1] = m /\ <<m, n>>[2] = n
    OBVIOUS
  <1>3. \A m \in some : ~(m < n)
    BY <1>1, <1>2, Zenon DEF OpToRel
  <1>4. n \in Nat /\ \A m \in some : m \in Nat
    OBVIOUS
  <1>5. \A m \in some : n <= m
    BY <1>3, <1>4
  <1>. QED BY <1>5

LEMMA UpTo ==
  ASSUME NEW N \in Nat, NEW good, 0 \in good, \A n \in 1..N : n - 1 \in good => n \in good
  PROVE  0..N \subseteq good
  <1>. SUFFICES ASSUME (0..N) \ good # {} PROVE FALSE
    OBVIOUS
  <1>0. (0..N) \ good \subseteq Nat
    OBVIOUS
  <1>1. PICK n \in (0..N) \ good : \A m \in (0..N) \ good : n <= m
    BY <1>0, Smallest, Zenon
  <1>2. n \in 1..N /\ n - 1 \in 0..N /\ ~(n <= n - 1)
    BY <1>1
  <1>. QED BY <1>1, <1>2

\* The step of a recursive function, and the function over 0..N that it makes.
IsStep(step, N, V) == step \in [V \X (1..N) -> V]
Recursive(f, N, V, base, step) ==
  /\ f \in [0..N -> V]
  /\ f = [n \in 0..N |-> IF n = 0 THEN base ELSE step[<<f[n - 1], n>>]]

LEMMA Recursion ==
  ASSUME NEW V, NEW N \in Nat, NEW base \in V, NEW step, IsStep(step, N, V)
  PROVE  \E f : Recursive(f, N, V, base, step)
  <1>0. step \in [V \X (1..N) -> V]
    BY DEF IsStep
  <1>. DEFINE Part(k, f) == f = [n \in 0..k |-> IF n = 0 THEN base ELSE step[<<f[n - 1], n>>]]
              good == {k \in 0..N : \E f \in [0..k -> V] : Part(k, f)}
  <1>1. 0 \in good
    <2>. DEFINE f == [n \in 0..0 |-> base]
    <2>1. f \in [0..0 -> V] /\ Part(0, f) /\ 0 \in 0..N
      OBVIOUS
    <2>. QED BY <2>1, Zenon
  <1>2. ASSUME NEW k \in 1..N, k - 1 \in good PROVE k \in good
    <2>1. PICK f \in [0..k - 1 -> V] : Part(k - 1, f)
      BY <1>2
    <2>2. \A n \in 0..k - 1 : f[n] = IF n = 0 THEN base ELSE step[<<f[n - 1], n>>]
      BY <2>1
    <2>. DEFINE h == [n \in 0..k |-> IF n = k THEN step[<<f[k - 1], k>>] ELSE f[n]]
    <2>3. f[k - 1] \in V /\ <<f[k - 1], k>> \in V \X (1..N)
      OBVIOUS
    <2>4. step[<<f[k - 1], k>>] \in V
      BY <1>0, <2>3
    <2>5. h \in [0..k -> V]
      BY <2>4
    <2>6. \A n \in 0..k : h[n] = IF n = 0 THEN base ELSE step[<<h[n - 1], n>>]
      <3>. TAKE n \in 0..k
      <3>1. CASE n = k
        <4>1. h[n] = step[<<f[k - 1], k>>] /\ h[n - 1] = f[k - 1]
          BY <3>1
        <4>. QED BY <3>1, <4>1
      <3>2. CASE n # k
        <4>1. n \in 0..k - 1 /\ (n # 0 => n - 1 \in 0..k - 1)
          BY <3>2
        <4>2. h[n] = f[n] /\ (n # 0 => h[n - 1] = f[n - 1])
          BY <3>2, <4>1
        <4>. HIDE DEF h
        <4>. QED BY <2>2, <4>1, <4>2
      <3>. QED BY <3>1, <3>2
    <2>. HIDE DEF h
    <2>7. Part(k, h)
      BY <2>5, <2>6
    <2>8. k \in 0..N
      OBVIOUS
    <2>. QED BY <2>5, <2>7, <2>8, Zenon
  <1>. HIDE DEF good
  <1>3. N \in good
    BY <1>1, <1>2, UpTo
  <1>. QED BY <1>3, Zenon DEF good, Recursive

-----------------------------------------------------------------------------
(* The elements of a sequence that are in a set *)

Kept(list, S, f) ==
  f = [n \in 0..Len(list) |->
         IF n = 0 THEN <<>>
         ELSE IF list[n] \in S THEN Append(f[n - 1], list[n]) ELSE f[n - 1]]

LEMMA KeepIs ==
  ASSUME NEW T, NEW list \in Seq(T), NEW S
  PROVE  \E f : Kept(list, S, f) /\ Keep(list, S) = f[Len(list)]
  <1>. DEFINE step == [x \in Seq(T) \X (1..Len(list)) |->
                         IF list[x[2]] \in S THEN Append(x[1], list[x[2]]) ELSE x[1]]
  <1>1. step \in [Seq(T) \X (1..Len(list)) -> Seq(T)]
    OBVIOUS
  <1>2. <<>> \in Seq(T) /\ Len(list) \in Nat
    OBVIOUS
  <1>3. \A s \in Seq(T), n \in 1..Len(list) :
          step[<<s, n>>] = IF list[n] \in S THEN Append(s, list[n]) ELSE s
    OBVIOUS
  <1>. HIDE DEF step
  <1>4. PICK f : Recursive(f, Len(list), Seq(T), <<>>, step)
    BY <1>1, <1>2, Recursion DEF IsStep
  <1>5. \A n \in 0..Len(list) : n # 0 => n - 1 \in 0..Len(list) /\ n \in 1..Len(list)
    BY <1>2
  <1>6. \A n \in 0..Len(list) : n # 0 => f[n - 1] \in Seq(T)
    BY <1>4, <1>5 DEF Recursive
  <1>7. \A n \in 0..Len(list) : n # 0 =>
          step[<<f[n - 1], n>>] = IF list[n] \in S THEN Append(f[n - 1], list[n]) ELSE f[n - 1]
    BY <1>3, <1>5, <1>6
  <1>8. f = [n \in 0..Len(list) |->
               IF n = 0 THEN <<>>
               ELSE IF list[n] \in S THEN Append(f[n - 1], list[n]) ELSE f[n - 1]]
    BY <1>4, <1>7, Zenon DEF Recursive
  <1>9. \E g : g = [n \in 0..Len(list) |->
               IF n = 0 THEN <<>>
               ELSE IF list[n] \in S THEN Append(g[n - 1], list[n]) ELSE g[n - 1]]
    BY <1>8
  <1>. QED BY <1>9, Zenon DEF Keep, Kept

LEMMA Longer ==
  ASSUME NEW T, NEW s \in Seq(T), NEW e \in T
  PROVE  /\ Append(s, e) \in Seq(T) /\ Range(Append(s, e)) = Range(s) \cup {e}
         /\ IsInjective(s) /\ e \notin Range(s) => IsInjective(Append(s, e))
  <1>1. /\ Append(s, e) \in Seq(T) /\ Len(s) \in Nat /\ DOMAIN s = 1..Len(s)
        /\ DOMAIN Append(s, e) = 1..Len(s) + 1
        /\ Append(s, e)[Len(s) + 1] = e /\ \A i \in 1..Len(s) : Append(s, e)[i] = s[i]
    OBVIOUS
  <1>2. \A i : i \in 1..Len(s) + 1 <=> i \in 1..Len(s) \/ i = Len(s) + 1
    BY <1>1
  <1>3. Range(Append(s, e)) = Range(s) \cup {e}
    BY <1>1, <1>2 DEF Range
  <1>4. ASSUME IsInjective(s), e \notin Range(s) PROVE IsInjective(Append(s, e))
    BY <1>1, <1>2, <1>4 DEF Range, IsInjective
  <1>. QED BY <1>1, <1>3, <1>4

LEMMA KeepFacts ==
  ASSUME NEW T, NEW list \in Seq(T), NEW S
  PROVE  /\ Keep(list, S) \in Seq(T) /\ Range(Keep(list, S)) = Range(list) \cap S
         /\ IsInjective(list) => IsInjective(Keep(list, S))
  <1>1. PICK f : Kept(list, S, f) /\ Keep(list, S) = f[Len(list)]
    BY KeepIs
  <1>2. Len(list) \in Nat /\ DOMAIN list = 1..Len(list) /\ \A n \in 1..Len(list) : list[n] \in T
    OBVIOUS
  <1>. DEFINE so(n) == {list[i] : i \in 1..n}
              good == {n \in 0..Len(list) :
                         /\ f[n] \in Seq(T) /\ Range(f[n]) = so(n) \cap S
                         /\ IsInjective(list) => IsInjective(f[n])}
  <1>3. 0 \in good
    <2>1. f[0] = <<>>
      BY <1>1, <1>2 DEF Kept
    <2>2. <<>> \in Seq(T) /\ Range(<<>>) = {} /\ IsInjective(<<>>) /\ so(0) = {} /\ 0 \in 0..Len(list)
      BY <1>2 DEF Range, IsInjective
    <2>. HIDE DEF so
    <2>. QED BY <2>1, <2>2
  <1>4. ASSUME NEW n \in 1..Len(list), n - 1 \in good PROVE n \in good
    <2>0. n \in 0..Len(list) /\ n # 0
      BY <1>2
    <2>1. f[n] = IF list[n] \in S THEN Append(f[n - 1], list[n]) ELSE f[n - 1]
      BY <1>1, <2>0, Zenon DEF Kept
    <2>2. so(n) = so(n - 1) \cup {list[n]}
      <3>1. \A i : i \in 1..n <=> i \in 1..n - 1 \/ i = n
        BY <1>2
      <3>. QED BY <3>1
    <2>3. IsInjective(list) => list[n] \notin so(n - 1)
      <3>1. \A i \in 1..n - 1 : i \in 1..Len(list) /\ i # n
        BY <1>2
      <3>. QED BY <1>2, <3>1 DEF IsInjective
    <2>4. n \in 0..Len(list) /\ list[n] \in T
      BY <1>2
    <2>. HIDE DEF so
    <2>5. f[n - 1] \in Seq(T) /\ Range(f[n - 1]) = so(n - 1) \cap S
          /\ (IsInjective(list) => IsInjective(f[n - 1]))
      BY <1>4
    <2>6. CASE list[n] \in S
      <3>1. /\ f[n] \in Seq(T) /\ Range(f[n]) = Range(f[n - 1]) \cup {list[n]}
            /\ IsInjective(f[n - 1]) /\ list[n] \notin Range(f[n - 1]) => IsInjective(f[n])
        BY <2>1, <2>4, <2>5, <2>6, Longer
      <3>2. Range(f[n]) = so(n) \cap S
        BY <2>2, <2>5, <2>6, <3>1
      <3>3. IsInjective(list) => IsInjective(f[n])
        BY <2>3, <2>5, <3>1
      <3>. QED BY <2>4, <3>1, <3>2, <3>3
    <2>7. CASE list[n] \notin S
      BY <2>1, <2>2, <2>4, <2>5, <2>7
    <2>. QED BY <2>6, <2>7
  <1>5. Len(list) \in good
    <2>. HIDE DEF good
    <2>1. 0..Len(list) \subseteq good
      BY <1>2, <1>3, <1>4, UpTo
    <2>. QED BY <1>2, <2>1
  <1>6. Range(list) = so(Len(list))
    BY <1>2 DEF Range
  <1>. HIDE DEF so
  <1>. QED BY <1>1, <1>5, <1>6

-----------------------------------------------------------------------------
(* What a read of the keyboard means *)

Meaning == Special \cup Letter

\* The key at a place and the rest, from one place on or, behind an arrow, three.
Here(bytes, i, one, three) ==
  IF i > Len(bytes) THEN <<>>
  ELSE IF bytes[i] = "esc" /\ i < Len(bytes) /\ bytes[i + 1] \in {"[", "O"}
  THEN (IF i + 2 <= Len(bytes) /\ bytes[i + 2] \in DOMAIN Arrow THEN <<Arrow[bytes[i + 2]]>> ELSE <<>>)
       \o three
  ELSE (IF bytes[i] = "esc" THEN <<"escape">>
        ELSE IF bytes[i] \in DOMAIN KeyOf THEN <<KeyOf[bytes[i]]>>
        ELSE IF bytes[i] \in Letter THEN <<bytes[i]>> ELSE <<>>)
       \o one

LEMMA HereMeans ==
  ASSUME NEW bytes \in Seq(STRING), NEW i \in Nat,
         NEW one, NEW three, i <= Len(bytes) => one \in Seq(Meaning) /\ three \in Seq(Meaning)
  PROVE  Here(bytes, i, one, three) \in Seq(Meaning)
  <1>1. \A x \in DOMAIN Arrow : Arrow[x] \in Meaning
    BY DEF Arrow, Meaning, Special
  <1>2. \A x \in DOMAIN KeyOf : KeyOf[x] \in Meaning
    BY DEF KeyOf, Meaning, Special
  <1>3. "escape" \in Meaning /\ Letter \subseteq Meaning
    BY DEF Meaning, Special
  <1>. DEFINE a == IF i + 2 <= Len(bytes) /\ bytes[i + 2] \in DOMAIN Arrow
                   THEN <<Arrow[bytes[i + 2]]>> ELSE <<>>
              b == IF bytes[i] = "esc" THEN <<"escape">>
                   ELSE IF bytes[i] \in DOMAIN KeyOf THEN <<KeyOf[bytes[i]]>>
                   ELSE IF bytes[i] \in Letter THEN <<bytes[i]>> ELSE <<>>
  <1>4. a \in Seq(Meaning) /\ b \in Seq(Meaning)
    BY <1>1, <1>2, <1>3
  <1>5. /\ <<>> \in Seq(Meaning)
        /\ i <= Len(bytes) => a \o three \in Seq(Meaning) /\ b \o one \in Seq(Meaning)
    BY <1>4
  <1>6. i > Len(bytes) \/ i <= Len(bytes)
    OBVIOUS
  <1>7. Here(bytes, i, one, three) \in {<<>>, a \o three, b \o one}
        /\ (~(i > Len(bytes)) => Here(bytes, i, one, three) \in {a \o three, b \o one})
    BY Zenon DEF Here
  <1>8. i > Len(bytes) => Here(bytes, i, one, three) = <<>>
    BY Zenon DEF Here
  <1>. HIDE DEF a, b
  <1>. QED BY <1>5, <1>6, <1>7, <1>8, Zenon

LEMMA KeysAreMeant ==
  ASSUME NEW bytes \in Seq(STRING)
  PROVE  Keys(bytes) \in Seq(Meaning)
  <1>. DEFINE n == Len(bytes)
              Read(k, g) == \A i \in k..n + 3 : g[i] = Here(bytes, i, g[i + 1], g[i + 3])
              good == {k \in 0..n + 2 : \E g \in [n + 3 - k..n + 3 -> Seq(Meaning)] : Read(n + 3 - k, g)}
  <1>1. n \in Nat
    OBVIOUS
  <1>. HIDE DEF n
  <1>2. 0 \in good
    <2>. DEFINE g == [i \in n + 3..n + 3 |-> <<>>]
    <2>1. \A i \in n + 3..n + 3 : i > n /\ i \in Nat
      BY <1>1
    <2>2. \A i \in n + 3..n + 3 : g[i] = Here(bytes, i, g[i + 1], g[i + 3])
      BY <2>1, Zenon DEF Here, n
    <2>3. g \in [n + 3..n + 3 -> Seq(Meaning)]
      OBVIOUS
    <2>4. n + 3 - 0 = n + 3 /\ 0 \in 0..n + 2
      BY <1>1
    <2>. HIDE DEF g
    <2>. QED BY <2>2, <2>3, <2>4, Zenon
  <1>3. ASSUME NEW k \in 1..n + 2, k - 1 \in good PROVE k \in good
    <2>. DEFINE m == n + 3 - k
    <2>1. /\ n + 3 - (k - 1) = m + 1 /\ m \in Nat /\ m >= 1 /\ m <= n + 2 /\ k \in 0..n + 2
          /\ \A i : i \in m..n + 3 <=> i = m \/ i \in m + 1..n + 3
          /\ m \notin m + 1..n + 3
      BY <1>1
    <2>. HIDE DEF m
    <2>2. PICK g \in [m + 1..n + 3 -> Seq(Meaning)] : Read(m + 1, g)
      BY <1>3, <2>1, Zenon
    <2>. DEFINE top == Here(bytes, m, g[m + 1], g[m + 3])
                h == [i \in m..n + 3 |-> IF i = m THEN top ELSE g[i]]
    <2>3. m <= n => g[m + 1] \in Seq(Meaning) /\ g[m + 3] \in Seq(Meaning)
      BY <1>1, <2>1
    <2>4. top \in Seq(Meaning)
      BY <2>1, <2>3, HereMeans DEF n
    <2>. HIDE DEF top
    <2>5. h \in [m..n + 3 -> Seq(Meaning)]
      BY <2>1, <2>4
    <2>6. /\ h[m] = top
          /\ \A i \in m + 1..n + 3 : h[i] = g[i]
      BY <2>1
    <2>. HIDE DEF h
    <2>7. \A i \in m..n + 3 : h[i] = Here(bytes, i, h[i + 1], h[i + 3])
      <3>. TAKE i \in m..n + 3
      <3>1. i > n => /\ \A x, y : Here(bytes, i, x, y) = <<>>
        BY Zenon DEF Here, n
      <3>2. i <= n \/ i > n
        BY <1>1, <2>1
      <3>3. i <= n => i + 1 \in m + 1..n + 3 /\ i + 3 \in m + 1..n + 3
        BY <1>1, <2>1
      <3>4. i \in m + 1..n + 3 => g[i] = Here(bytes, i, g[i + 1], g[i + 3])
        BY <2>2
      <3>5. CASE i <= n
        <4>1. h[i + 1] = g[i + 1] /\ h[i + 3] = g[i + 3]
          BY <2>6, <3>3, <3>5
        <4>. QED BY <2>1, <2>6, <3>4, <4>1 DEF top
      <3>6. CASE i > n
        BY <2>1, <2>6, <3>1, <3>4, <3>6 DEF top
      <3>. QED BY <3>2, <3>5, <3>6
    <2>. QED BY <2>1, <2>5, <2>7, Zenon DEF m
  <1>4. n + 2 \in good
    <2>. HIDE DEF good
    <2>1. 0..n + 2 \subseteq good
      BY <1>1, <1>2, <1>3, UpTo
    <2>. QED BY <1>1, <2>1
  <1>5. PICK g : g = [i \in 1..n + 3 |-> Here(bytes, i, g[i + 1], g[i + 3])]
    <2>1. PICK g \in [1..n + 3 -> Seq(Meaning)] : Read(1, g)
      <3>1. n + 3 - (n + 2) = 1
        BY <1>1
      <3>. QED BY <1>4, <3>1, Zenon
    <2>. QED BY <2>1
  <1>6. PICK from : Keys(bytes) = from[1] /\ from = [i \in 1..n + 3 |-> Here(bytes, i, from[i + 1], from[i + 3])]
    BY <1>5, Zenon DEF Keys, Here, n
  <1>. DEFINE typed == {k \in 0..n + 2 : \A i \in n + 3 - k..n + 3 : from[i] \in Seq(Meaning)}
  <1>7. \A i \in 1..n + 3 : from[i] = Here(bytes, i, from[i + 1], from[i + 3])
    BY <1>6, Zenon
  <1>8. 0 \in typed
    <2>1. /\ n + 3 > n /\ n + 3 \in 1..n + 3 /\ 0 \in 0..n + 2
          /\ \A i \in n + 3 - 0..n + 3 : i = n + 3
      BY <1>1
    <2>2. from[n + 3] = <<>>
      BY <1>7, <2>1, Zenon DEF Here, n
    <2>3. <<>> \in Seq(Meaning)
      OBVIOUS
    <2>. QED BY <2>1, <2>2, <2>3, Zenon
  <1>9. ASSUME NEW k \in 1..n + 2, k - 1 \in typed PROVE k \in typed
    <2>. DEFINE m == n + 3 - k
    <2>1. /\ m \in 1..n + 3 /\ k \in 0..n + 2
          /\ \A i \in n + 3 - k..n + 3 : i = m \/ i \in n + 3 - (k - 1)..n + 3
          /\ m <= n => m + 1 \in n + 3 - (k - 1)..n + 3 /\ m + 3 \in n + 3 - (k - 1)..n + 3
      BY <1>1
    <2>2. \A i \in n + 3 - (k - 1)..n + 3 : from[i] \in Seq(Meaning)
      BY <1>9
    <2>. HIDE DEF m
    <2>3. m <= n => from[m + 1] \in Seq(Meaning) /\ from[m + 3] \in Seq(Meaning)
      BY <2>1, <2>2
    <2>4. from[m] \in Seq(Meaning)
      BY <1>7, <2>1, <2>3, HereMeans DEF n
    <2>5. \A i \in n + 3 - k..n + 3 : from[i] \in Seq(Meaning)
      BY <2>1, <2>2, <2>4
    <2>. QED BY <2>1, <2>5, Zenon
  <1>10. n + 2 \in typed
    <2>. HIDE DEF typed
    <2>1. 0..n + 2 \subseteq typed
      BY <1>1, <1>8, <1>9, UpTo
    <2>. QED BY <1>1, <2>1
  <1>11. 1 \in n + 3 - (n + 2)..n + 3
    BY <1>1
  <1>. QED BY <1>6, <1>10, <1>11, Zenon

-----------------------------------------------------------------------------
(* The picker: whatever is pressed, the cursor stays on the screen. *)

Row == [repo : Dir \cup {NoDir}, entry : Dir \cup Name, label : Name,
        selected : BOOLEAN, disabled : BOOLEAN]
Picker == [rows : Seq(Row), filter : Seq(Letter), cursor : Nat, offset : Nat,
           end : {"", "cancel", "save"}]

\* The rows are those of another picker, up to what is ticked.
SameRows(p, q) ==
  /\ Len(p.rows) = Len(q.rows)
  /\ \A i \in 1..Len(p.rows) :
       /\ p.rows[i].repo = q.rows[i].repo /\ p.rows[i].entry = q.rows[i].entry
       /\ p.rows[i].label = q.rows[i].label

OnScreen(p) ==
  LET count == Cardinality(Visible(p)) IN
  /\ p.cursor <= Less(count, 1)
  /\ p.offset <= p.cursor /\ p.cursor < p.offset + Window
  /\ p.offset <= Less(count, Window)

LEMMA RowsAre ==
  ASSUME NEW p \in Picker
  PROVE  /\ Len(p.rows) \in Nat /\ DOMAIN p.rows = 1..Len(p.rows)
         /\ \A i \in 1..Len(p.rows) : p.rows[i] \in Row
  <1>1. p.rows \in Seq(Row)
    BY DEF Picker
  <1>. QED BY <1>1

LEMMA CountIsNat == ASSUME NEW p \in Picker PROVE Cardinality(Visible(p)) \in Nat
  <1>1. Visible(p) \subseteq 1..Len(p.rows) /\ Len(p.rows) \in Nat
    BY RowsAre DEF Visible
  <1>2. IsFiniteSet(1..Len(p.rows))
    BY <1>1, FS_Interval
  <1>3. IsFiniteSet(Visible(p))
    BY <1>1, <1>2, FS_Subset
  <1>. QED BY <1>3, FS_CardinalityType

LEMMA ClampOnScreen ==
  ASSUME NEW p \in Picker
  PROVE  /\ Clamp(p) \in Picker /\ OnScreen(Clamp(p)) /\ SameRows(Clamp(p), p)
         /\ Clamp(p).end = p.end
  <1>. DEFINE count == Cardinality(Visible(p))
              cursor == Least(p.cursor, Less(count, 1))
              above == Least(p.offset, cursor)
              around == IF cursor >= above + Window THEN cursor + 1 - Window ELSE above
              offset == Least(around, Less(count, Window))
              q == [p EXCEPT !.cursor = cursor, !.offset = offset]
  <1>1. Clamp(p) = q
    BY DEF Clamp
  <1>2. count \in Nat /\ p.cursor \in Nat /\ p.offset \in Nat /\ Window \in Nat /\ Window >= 1
    <2>1. count \in Nat
      BY CountIsNat
    <2>2. p.cursor \in Nat /\ p.offset \in Nat
      BY DEF Picker
    <2>. QED BY <2>1, <2>2, ConfigureAssumption
  <1>. HIDE DEF count
  <1>3. cursor \in Nat /\ cursor <= Less(count, 1)
    BY <1>2 DEF Least, Less
  <1>4. cursor < count \/ (count = 0 /\ cursor = 0)
    BY <1>2, <1>3 DEF Less
  <1>. HIDE DEF cursor
  <1>5. above \in Nat /\ above <= cursor
    BY <1>2, <1>3 DEF Least
  <1>. HIDE DEF above
  <1>6. around \in Nat /\ around <= cursor /\ cursor < around + Window
    BY <1>2, <1>3, <1>5
  <1>. HIDE DEF around
  <1>7. offset \in Nat /\ offset <= around /\ offset <= Less(count, Window)
    BY <1>2, <1>6 DEF Least, Less
  <1>8. offset = around \/ offset = Less(count, Window)
    BY DEF Least
  <1>9. cursor < offset + Window /\ offset <= cursor
    BY <1>2, <1>3, <1>4, <1>6, <1>7, <1>8 DEF Less
  <1>. HIDE DEF offset
  <1>10. q \in Picker
    BY <1>3, <1>7 DEF Picker
  <1>11. q.rows = p.rows /\ q.filter = p.filter /\ q.cursor = cursor /\ q.offset = offset /\ q.end = p.end
    BY DEF Picker
  <1>. HIDE DEF q
  <1>12. Visible(q) = Visible(p)
    BY <1>11 DEF Visible
  <1>. QED BY <1>1, <1>3, <1>7, <1>9, <1>10, <1>11, <1>12 DEF OnScreen, SameRows, count

LEMMA MoveOnScreen ==
  ASSUME NEW p \in Picker, OnScreen(p), NEW up
  PROVE  MoveTo(p, up) \in Picker /\ OnScreen(MoveTo(p, up)) /\ SameRows(MoveTo(p, up), p)
  <1>. DEFINE count == Cardinality(Visible(p))
              q == [p EXCEPT !.cursor = IF up THEN (IF @ = 0 THEN count - 1 ELSE @ - 1)
                                        ELSE (IF @ >= count - 1 THEN 0 ELSE @ + 1)]
  <1>1. MoveTo(p, up) = IF count = 0 THEN p ELSE Clamp(q)
    BY DEF MoveTo
  <1>2. SameRows(p, p)
    BY DEF SameRows
  <1>3. CASE count = 0
    BY <1>1, <1>2, <1>3
  <1>4. CASE count # 0
    <2>1. count \in Nat /\ p.cursor \in Nat
      <3>1. p.cursor \in Nat
        BY DEF Picker
      <3>. QED BY <3>1, CountIsNat
    <2>. HIDE DEF count
    <2>. DEFINE to == IF up THEN (IF p.cursor = 0 THEN count - 1 ELSE p.cursor - 1)
                      ELSE (IF p.cursor >= count - 1 THEN 0 ELSE p.cursor + 1)
    <2>2. to \in Nat /\ q = [p EXCEPT !.cursor = to]
      BY <1>4, <2>1
    <2>. HIDE DEF q, to
    <2>3. q \in Picker /\ q.rows = p.rows
      BY <2>2 DEF Picker
    <2>4. SameRows(Clamp(q), p)
      BY <2>3, ClampOnScreen DEF SameRows
    <2>. QED BY <1>1, <1>4, <2>3, <2>4, ClampOnScreen DEF count
  <1>. QED BY <1>3, <1>4

LEMMA ToggleOnScreen ==
  ASSUME NEW p \in Picker, OnScreen(p)
  PROVE  Toggle(p) \in Picker /\ OnScreen(Toggle(p)) /\ SameRows(Toggle(p), p)
  <1>. DEFINE here == {i \in Visible(p) : Cardinality({j \in Visible(p) : j < i}) = p.cursor}
              row(i) == IF i \in here /\ ~p.rows[i].disabled
                        THEN [p.rows[i] EXCEPT !.selected = ~@] ELSE p.rows[i]
              rows == [i \in DOMAIN p.rows |-> row(i)]
              q == [p EXCEPT !.rows = rows]
  <1>1. Toggle(p) = q
    BY Zenon DEF Toggle
  <1>. HIDE DEF here
  <1>2. Len(p.rows) \in Nat /\ DOMAIN p.rows = 1..Len(p.rows)
        /\ \A i \in 1..Len(p.rows) : p.rows[i] \in Row
    BY RowsAre
  <1>3. \A i \in 1..Len(p.rows) : /\ row(i) \in Row /\ row(i).repo = p.rows[i].repo
                                  /\ row(i).entry = p.rows[i].entry /\ row(i).label = p.rows[i].label
    BY <1>2 DEF Row
  <1>. HIDE DEF row
  <1>4. rows \in Seq(Row) /\ Len(rows) = Len(p.rows)
    BY <1>2, <1>3
  <1>5. \A i \in 1..Len(p.rows) : rows[i] = row(i)
    BY <1>2
  <1>. HIDE DEF rows
  <1>6. q \in Picker /\ q.rows = rows /\ q.filter = p.filter /\ q.cursor = p.cursor /\ q.offset = p.offset
    BY <1>4 DEF Picker
  <1>. HIDE DEF q
  <1>7. DOMAIN q.rows = DOMAIN p.rows
    BY <1>2, <1>4, <1>6
  <1>8. Visible(q) = Visible(p)
    BY <1>2, <1>3, <1>5, <1>6, <1>7 DEF Visible
  <1>9. OnScreen(q)
    BY <1>6, <1>8, Zenon DEF OnScreen
  <1>. QED BY <1>1, <1>3, <1>4, <1>5, <1>6, <1>9 DEF SameRows

LEMMA PressOnScreen ==
  ASSUME NEW p \in Picker, OnScreen(p), NEW key \in Meaning
  PROVE  Press(p, key) \in Picker /\ OnScreen(Press(p, key)) /\ SameRows(Press(p, key), p)
  <1>0. SameRows(p, p)
    BY DEF SameRows
  <1>1. ASSUME NEW q \in Picker, q.rows = p.rows
        PROVE  Clamp(q) \in Picker /\ OnScreen(Clamp(q)) /\ SameRows(Clamp(q), p)
    BY <1>1, ClampOnScreen DEF SameRows
  <1>2. ASSUME NEW end \in {"cancel", "save"}, NEW q, q = [p EXCEPT !.end = end]
        PROVE  q \in Picker /\ OnScreen(q) /\ SameRows(q, p)
    <2>1. q \in Picker /\ q.rows = p.rows /\ q.filter = p.filter /\ q.cursor = p.cursor /\ q.offset = p.offset
      BY <1>2 DEF Picker
    <2>2. Visible(q) = Visible(p)
      BY <2>1 DEF Visible
    <2>. QED BY <2>1, <2>2 DEF OnScreen, SameRows
  <1>3. ASSUME NEW f \in Seq(Letter) PROVE [p EXCEPT !.filter = f] \in Picker
                                          /\ [p EXCEPT !.filter = f].rows = p.rows
    BY <1>3 DEF Picker
  <1>4. ASSUME NEW f \in Seq(Letter) PROVE [p EXCEPT !.filter = f, !.cursor = 0] \in Picker
                                          /\ [p EXCEPT !.filter = f, !.cursor = 0].rows = p.rows
    BY <1>4 DEF Picker
  <1>5. /\ p.filter \in Seq(Letter) /\ <<>> \in Seq(Letter)
        /\ key \in Letter => Append(p.filter, key) \in Seq(Letter)
        /\ p.filter # <<>> => Front(p.filter) \in Seq(Letter)
    <2>1. p.filter \in Seq(Letter)
      BY DEF Picker
    <2>2. ASSUME p.filter # <<>> PROVE Front(p.filter) \in Seq(Letter)
      BY <2>1, <2>2 DEF Front
    <2>. QED BY <2>1, <2>2
  <1>. DEFINE shorter == IF p.filter = <<>> THEN p.filter ELSE Front(p.filter)
  <1>6. \/ Press(p, key) \in {p, MoveTo(p, key = "up"), Toggle(p), [p EXCEPT !.end = "cancel"],
                            [p EXCEPT !.end = "save"], Clamp([p EXCEPT !.filter = <<>>]),
                            Clamp([p EXCEPT !.filter = shorter])}
        \/ key \in Letter /\ Press(p, key) = Clamp([p EXCEPT !.filter = Append(p.filter, key), !.cursor = 0])
    <2>. DEFINE back == Clamp([p EXCEPT !.filter = IF @ = <<>> THEN @ ELSE Front(@)])
                letter == Clamp([p EXCEPT !.filter = Append(@, key), !.cursor = 0])
    <2>1. back = Clamp([p EXCEPT !.filter = shorter])
          /\ letter = Clamp([p EXCEPT !.filter = Append(p.filter, key), !.cursor = 0])
      OBVIOUS
    <2>. DEFINE all == {p, MoveTo(p, key = "up"), Toggle(p), [p EXCEPT !.end = "cancel"],
                        [p EXCEPT !.end = "save"], Clamp([p EXCEPT !.filter = <<>>]), back}
    <2>2. key \in Letter \/ (key \in Special /\ key \notin Letter)
      BY ConfigureAssumption DEF Meaning
    <2>3. CASE p.end # ""
      BY <2>3 DEF Press
    <2>4. CASE p.end = "" /\ key \in Letter
      <3>1. key \notin Special
        BY <2>4, ConfigureAssumption
      <3>2. Press(p, key) = letter
        BY <2>4, <3>1 DEF Press, Special
      <3>. QED BY <2>1, <2>4, <3>2
    <2>5. CASE p.end = "" /\ key \in Special /\ key \notin Letter
      <3>1. Press(p, key) \in all
        BY <2>5 DEF Press, Special
      <3>. QED BY <2>1, <3>1, Zenon
    <2>. QED BY <2>2, <2>3, <2>4, <2>5
  <1>7. shorter \in Seq(Letter)
    BY <1>5
  <1>. HIDE DEF shorter
  <1>8. CASE Press(p, key) = [p EXCEPT !.end = "cancel"]
    BY <1>2, <1>8
  <1>9. CASE Press(p, key) = [p EXCEPT !.end = "save"]
    BY <1>2, <1>9
  <1>10. CASE Press(p, key) \in {Clamp([p EXCEPT !.filter = <<>>]), Clamp([p EXCEPT !.filter = shorter])}
    BY <1>1, <1>3, <1>5, <1>7, <1>10
  <1>11. CASE key \in Letter /\ Press(p, key) = Clamp([p EXCEPT !.filter = Append(p.filter, key), !.cursor = 0])
    BY <1>1, <1>4, <1>5, <1>11
  <1>12. CASE Press(p, key) \in {p, MoveTo(p, key = "up"), Toggle(p)}
    BY <1>0, <1>12, MoveOnScreen, ToggleOnScreen
  <1>. QED BY <1>6, <1>8, <1>9, <1>10, <1>11, <1>12

\* picker::run, one read: all of its keys, in their order.
LEMMA PressedOnScreen ==
  ASSUME NEW p \in Picker, OnScreen(p), NEW bytes \in Seq(STRING)
  PROVE  Pressed(p, bytes) \in Picker /\ OnScreen(Pressed(p, bytes)) /\ SameRows(Pressed(p, bytes), p)
  <1>. DEFINE keys == Keys(bytes)
              N == Len(keys)
              V == {q \in Picker : OnScreen(q) /\ SameRows(q, p)}
              After(f) == f = [n \in 0..N |-> IF n = 0 THEN p ELSE Press(f[n - 1], keys[n])]
              step == [x \in V \X (1..N) |-> Press(x[1], keys[x[2]])]
  <1>1. N \in Nat /\ \A n \in 1..N : keys[n] \in Meaning
    BY KeysAreMeant
  <1>2. p \in V
    BY DEF SameRows
  <1>3. ASSUME NEW q \in V, NEW key \in Meaning PROVE Press(q, key) \in V
    <2>1. SameRows(Press(q, key), q) /\ SameRows(q, p) /\ Press(q, key) \in Picker /\ OnScreen(Press(q, key))
      BY <1>3, PressOnScreen
    <2>. QED BY <2>1 DEF SameRows
  <1>. HIDE DEF keys, N, V
  <1>4. step \in [V \X (1..N) -> V] /\ \A q \in V, n \in 1..N : step[<<q, n>>] = Press(q, keys[n])
    BY <1>1, <1>3
  <1>5. \E f : After(f)
    <2>1. PICK f : Recursive(f, N, V, p, step)
      BY <1>1, <1>2, <1>4, Recursion DEF IsStep
    <2>2. \A n \in 0..N : n # 0 => n - 1 \in 0..N /\ n \in 1..N
      BY <1>1
    <2>3. \A n \in 0..N : n # 0 => step[<<f[n - 1], n>>] = Press(f[n - 1], keys[n])
      BY <1>4, <2>1, <2>2 DEF Recursive
    <2>4. f = [n \in 0..N |-> IF n = 0 THEN p ELSE step[<<f[n - 1], n>>]]
      BY <2>1 DEF Recursive
    <2>. HIDE DEF step
    <2>5. f = [n \in 0..N |-> IF n = 0 THEN p ELSE Press(f[n - 1], keys[n])]
      BY <2>3, <2>4
    <2>. QED BY <2>5, Zenon
  <1>6. PICK f : After(f) /\ Pressed(p, bytes) = f[N]
    BY <1>5, Zenon DEF Pressed, keys, N
  <1>. DEFINE good == {n \in 0..N : f[n] \in V}
  <1>7. 0 \in good
    BY <1>1, <1>2, <1>6
  <1>8. ASSUME NEW n \in 1..N, n - 1 \in good PROVE n \in good
    <2>1. n \in 0..N /\ n # 0
      BY <1>1
    <2>2. f[n] = Press(f[n - 1], keys[n])
      BY <1>6, <2>1, Zenon
    <2>. QED BY <1>1, <1>3, <1>8, <2>1, <2>2
  <1>9. N \in good
    <2>. HIDE DEF good
    <2>1. 0..N \subseteq good
      BY <1>1, <1>7, <1>8, UpTo
    <2>. QED BY <1>1, <2>1
  <1>. QED BY <1>6, <1>9 DEF V

-----------------------------------------------------------------------------
(* The rows: one for each repository and each entry without one. *)

LEMMA ReposFacts ==
  /\ Repos \in Seq(Dir) /\ IsInjective(Repos)
  /\ \A d \in Range(Repos) : d \in Dir /\ ~Linked(d) /\ Resolve(d) # Absent
  <1>. DEFINE standing == {IF Linked(d) THEN Git[d] ELSE d : d \in Candidates}
  <1>1. /\ Repos \in Seq(Dir) /\ IsInjective(Repos)
        /\ Range(Repos) = Range(RowOrder) \cap {d \in standing : Resolve(d) # Absent}
    BY KeepFacts, WorkspacesAssumption DEF Repos
  <1>2. ASSUME NEW c \in Dir PROVE LET d == IF Linked(c) THEN Git[c] ELSE c IN d \in Dir /\ ~Linked(d)
    <2>1. Linked(c) => Git[c] \in Dir /\ Git[Git[c]] = "dir" /\ "dir" \notin Dir
      BY WorkspacesAssumption DEF Linked, Marker
    <2>. QED BY <2>1 DEF Linked
  <1>3. Candidates \subseteq Dir
    BY DEF Candidates
  <1>. QED BY <1>1, <1>2, <1>3

LEMMA OrphansFacts ==
  ASSUME NEW list \in Seq(Entry)
  PROVE  /\ Orphans(list) \in Seq(Entry)
         /\ Range(Orphans(list)) = {e \in Entries(list) : \A d \in Range(Repos) : ~Allowed(d, <<e>>)}
  <1>1. Entries(list) \subseteq Range(list)
    BY DEF Entries
  <1>. QED BY <1>1, KeepFacts DEF Orphans

LEMMA EntriesAre ==
  ASSUME NEW list \in Seq(Entry)
  PROVE  Entries(list) \subseteq Dir \cup Name /\ Range(list) \subseteq Entry
  <1>1. Range(list) \subseteq Entry
    BY DEF Range
  <1>. QED BY <1>1 DEF Entries, Entry

\* What rows have to do with the list they were made for, whatever becomes of the
\* files since.
RowsOf(rows, list) ==
  LET own(i) == rows[i].repo \in Dir IN
  /\ rows \in Seq(Row)
  /\ \A i \in DOMAIN rows : own(i) =>
       /\ rows[i].label = Leaf[rows[i].repo] /\ ~Linked(rows[i].repo)
       /\ rows[i].entry = IF \/ rows[i].repo \in Range(list)
                             \/ \E j \in DOMAIN rows : /\ own(j) /\ rows[j].repo # rows[i].repo
                                                       /\ Leaf[rows[j].repo] = Leaf[rows[i].repo]
                          THEN rows[i].repo ELSE Leaf[rows[i].repo]
       /\ \A j \in DOMAIN rows : rows[j].repo = rows[i].repo => j = i
  /\ \A i \in DOMAIN rows : rows[i].repo = NoDir =>
       /\ rows[i].entry \in Entries(list) /\ rows[i].label = Label(rows[i].entry)
       /\ \A j \in DOMAIN rows : own(j) => ~Allowed(rows[j].repo, <<rows[i].entry>>)
  /\ \A e \in Entries(list) :
       \/ \E i \in DOMAIN rows : rows[i].repo = NoDir /\ rows[i].entry = e
       \/ \E i \in DOMAIN rows : own(i) /\ Allowed(rows[i].repo, <<e>>)

LEMMA BuildRows ==
  ASSUME NEW list \in Seq(Entry)
  PROVE  /\ RowsOf(BuildChoices(list), list)
         /\ \A i \in DOMAIN BuildChoices(list) :
              BuildChoices(list)[i].repo \in Dir => Resolve(BuildChoices(list)[i].repo) # Absent
  <1>. DEFINE row(d) == [repo |-> d, entry |-> AllowEntry(d, list), label |-> Leaf[d],
                         selected |-> Allowed(d, list), disabled |-> Blocked(d) /\ ~Allowed(d, list)]
              orphan(e) == [repo |-> NoDir, entry |-> e, label |-> Label(e),
                            selected |-> TRUE, disabled |-> FALSE]
              m == Len(Repos)
              k == Len(Orphans(list))
              A == [i \in 1..m |-> row(Repos[i])]
              B == [i \in 1..k |-> orphan(Orphans(list)[i])]
              rows == A \o B
  <1>1. BuildChoices(list) = rows
    BY Zenon DEF BuildChoices
  <1>2. /\ m \in Nat /\ k \in Nat /\ DOMAIN Repos = 1..m /\ DOMAIN Orphans(list) = 1..k
        /\ \A i \in 1..m : Repos[i] \in Dir
        /\ \A i \in 1..k : Orphans(list)[i] \in Entries(list)
    <2>1. Repos \in Seq(Dir) /\ Orphans(list) \in Seq(Entry) /\ Range(Orphans(list)) \subseteq Entries(list)
      BY ReposFacts, OrphansFacts
    <2>. QED BY <2>1 DEF Range
  <1>3. ASSUME NEW d \in Dir PROVE row(d) \in Row /\ Leaf[d] \in Name
    <2>1. AllowEntry(d, list) \in Dir \cup Name /\ Leaf[d] \in Name
      BY WorkspacesAssumption DEF AllowEntry
    <2>2. Allowed(d, list) \in BOOLEAN
      BY Zenon DEF Allowed
    <2>3. (Blocked(d) /\ ~Allowed(d, list)) \in BOOLEAN
      BY Zenon
    <2>. QED BY <2>1, <2>2, <2>3 DEF Row
  <1>4. ASSUME NEW e \in Entries(list) PROVE orphan(e) \in Row
    <2>1. e \in Dir \cup Name /\ Label(e) \in Name
      BY EntriesAre, WorkspacesAssumption DEF Label
    <2>. QED BY <2>1 DEF Row
  <1>5. A \in Seq(Row) /\ Len(A) = m /\ B \in Seq(Row) /\ Len(B) = k
    <2>. HIDE DEF row, orphan
    <2>. QED BY <1>2, <1>3, <1>4
  <1>6. /\ rows \in Seq(Row) /\ DOMAIN rows = 1..m + k
        /\ \A i \in 1..m : rows[i] = row(Repos[i])
        /\ \A i \in 1..k : rows[i + m] = orphan(Orphans(list)[i])
    <2>1. /\ A \o B \in Seq(Row) /\ DOMAIN (A \o B) = 1..m + k
          /\ \A i \in 1..m : (A \o B)[i] = A[i]
          /\ \A i \in 1..k : (A \o B)[i + m] = B[i]
      <3>. HIDE DEF A, B, m, k
      <3>. QED BY <1>2, <1>5
    <2>2. (\A i \in 1..m : A[i] = row(Repos[i])) /\ \A i \in 1..k : B[i] = orphan(Orphans(list)[i])
      OBVIOUS
    <2>. HIDE DEF A, B, row, orphan, m, k
    <2>. QED BY <2>1, <2>2
  <1>7. ASSUME NEW i \in 1..m
        PROVE  /\ i \in DOMAIN rows /\ rows[i].repo = Repos[i] /\ rows[i].label = Leaf[Repos[i]]
               /\ rows[i].entry = AllowEntry(Repos[i], list) /\ rows[i].repo \in Dir
    <2>. HIDE DEF rows, m, k, row, orphan
    <2>1. i \in DOMAIN rows /\ rows[i] = row(Repos[i]) /\ Repos[i] \in Dir
      BY <1>2, <1>6
    <2>. QED BY <2>1 DEF row
  <1>8. ASSUME NEW i \in DOMAIN rows, i \notin 1..m
        PROVE  /\ rows[i].repo = NoDir /\ rows[i].label = Label(rows[i].entry)
               /\ i - m \in 1..k /\ rows[i].entry = Orphans(list)[i - m]
    <2>. HIDE DEF rows, m, k
    <2>1. i - m \in 1..k /\ i = (i - m) + m
      BY <1>2, <1>6, <1>8
    <2>2. rows[i] = orphan(Orphans(list)[i - m])
      BY <1>6, <2>1, Zenon
    <2>. QED BY <2>1, <2>2
  <1>9. ASSUME NEW j \in 1..k PROVE j + m \in DOMAIN rows /\ rows[j + m].repo = NoDir /\ rows[j + m].entry = Orphans(list)[j]
    <2>. HIDE DEF rows, m, k, row, orphan
    <2>1. j + m \in DOMAIN rows /\ rows[j + m] = orphan(Orphans(list)[j])
      BY <1>2, <1>6
    <2>. QED BY <2>1 DEF orphan
  <1>. HIDE DEF rows, m, k, row, orphan, A, B
  <1>10. NoDir \notin Dir
    BY WorkspacesAssumption
  <1>11. \A i \in DOMAIN rows : rows[i].repo \in Dir <=> i \in 1..m
    BY <1>7, <1>8, <1>10
  <1>12. Range(Repos) = {Repos[i] : i \in 1..m} /\ Range(Orphans(list)) = {Orphans(list)[i] : i \in 1..k}
    BY <1>2 DEF Range
  <1>13. ASSUME NEW i \in 1..m
         PROVE  rows[i].entry = IF \/ rows[i].repo \in Range(list)
                                   \/ \E j \in DOMAIN rows : /\ rows[j].repo \in Dir /\ rows[j].repo # rows[i].repo
                                                             /\ Leaf[rows[j].repo] = Leaf[rows[i].repo]
                                THEN rows[i].repo ELSE Leaf[rows[i].repo]
    <2>1. (\E o \in Range(Repos) \ {Repos[i]} : Leaf[o] = Leaf[Repos[i]])
          <=> \E j \in DOMAIN rows : /\ rows[j].repo \in Dir /\ rows[j].repo # rows[i].repo
                                    /\ Leaf[rows[j].repo] = Leaf[rows[i].repo]
      BY <1>7, <1>11, <1>12
    <2>. QED BY <1>7, <2>1, Zenon DEF AllowEntry
  <1>14. ASSUME NEW i \in 1..m, NEW j \in DOMAIN rows, rows[j].repo = rows[i].repo PROVE j = i
    <2>1. j \in 1..m
      BY <1>7, <1>11, <1>14
    <2>2. Repos[j] = Repos[i]
      BY <1>7, <1>14, <2>1
    <2>. QED BY <1>2, <2>1, <2>2, ReposFacts DEF IsInjective
  <1>15. ASSUME NEW i \in DOMAIN rows, rows[i].repo = NoDir
         PROVE  /\ rows[i].entry \in Entries(list) /\ rows[i].label = Label(rows[i].entry)
                /\ \A j \in DOMAIN rows : rows[j].repo \in Dir => ~Allowed(rows[j].repo, <<rows[i].entry>>)
    <2>1. i \notin 1..m
      BY <1>7, <1>10, <1>15
    <2>2. rows[i].entry \in Range(Orphans(list)) /\ rows[i].label = Label(rows[i].entry)
      BY <1>8, <1>12, <2>1
    <2>3. rows[i].entry \in Entries(list) /\ \A d \in Range(Repos) : ~Allowed(d, <<rows[i].entry>>)
      BY <2>2, OrphansFacts
    <2>4. \A j \in DOMAIN rows : rows[j].repo \in Dir => rows[j].repo \in Range(Repos)
      BY <1>7, <1>11, <1>12
    <2>. QED BY <2>2, <2>3, <2>4
  <1>16. ASSUME NEW e \in Entries(list)
         PROVE  \/ \E i \in DOMAIN rows : rows[i].repo = NoDir /\ rows[i].entry = e
                \/ \E i \in DOMAIN rows : rows[i].repo \in Dir /\ Allowed(rows[i].repo, <<e>>)
    <2>1. CASE e \in Range(Orphans(list))
      BY <1>9, <1>12, <2>1
    <2>2. CASE \E d \in Range(Repos) : Allowed(d, <<e>>)
      BY <1>7, <1>12, <2>2
    <2>. QED BY <2>1, <2>2, OrphansFacts
  <1>17. \A i \in DOMAIN rows : rows[i].repo \in Dir =>
           ~Linked(rows[i].repo) /\ Resolve(rows[i].repo) # Absent /\ rows[i].label = Leaf[rows[i].repo]
    BY <1>7, <1>11, <1>12, ReposFacts
  <1>18. \A i \in DOMAIN rows : rows[i].repo \in Dir =>
           /\ rows[i].entry = IF \/ rows[i].repo \in Range(list)
                                 \/ \E j \in DOMAIN rows : /\ rows[j].repo \in Dir /\ rows[j].repo # rows[i].repo
                                                           /\ Leaf[rows[j].repo] = Leaf[rows[i].repo]
                              THEN rows[i].repo ELSE Leaf[rows[i].repo]
           /\ \A j \in DOMAIN rows : rows[j].repo = rows[i].repo => j = i
    BY <1>11, <1>13, <1>14, Zenon
  <1>19. RowsOf(rows, list)
    BY <1>6, <1>15, <1>16, <1>17, <1>18, Zenon DEF RowsOf
  <1>. QED BY <1>1, <1>17, <1>19, Zenon

\* Ticking and unticking leaves the rows those of the list.
LEMMA SameRowsOf ==
  ASSUME NEW p, NEW q, NEW list, RowsOf(q.rows, list), p.rows \in Seq(Row), SameRows(p, q)
  PROVE  RowsOf(p.rows, list) /\ DOMAIN p.rows = DOMAIN q.rows
         /\ \A i \in DOMAIN p.rows : p.rows[i].repo = q.rows[i].repo
  <1>. DEFINE r == p.rows
              s == q.rows
  <1>1. /\ s \in Seq(Row)
        /\ DOMAIN r = DOMAIN s /\ \A i \in DOMAIN r : r[i].repo = s[i].repo /\ r[i].entry = s[i].entry
                                                      /\ r[i].label = s[i].label
    <2>1. s \in Seq(Row)
      BY DEF RowsOf
    <2>2. r \in Seq(Row) /\ Len(r) = Len(s)
      BY DEF SameRows
    <2>3. DOMAIN r = 1..Len(r) /\ DOMAIN s = 1..Len(s)
      BY <2>1, <2>2
    <2>. QED BY <2>1, <2>2, <2>3 DEF SameRows
  <1>2. RowsOf(s, list)
    OBVIOUS
  <1>. HIDE DEF r, s
  <1>3. r \in Seq(Row)
    BY DEF r
  <1>4. RowsOf(r, list)
    <2>1. ASSUME NEW i \in DOMAIN r, r[i].repo \in Dir
          PROVE  /\ r[i].label = Leaf[r[i].repo] /\ ~Linked(r[i].repo)
                 /\ r[i].entry = IF \/ r[i].repo \in Range(list)
                                    \/ \E j \in DOMAIN r : /\ r[j].repo \in Dir /\ r[j].repo # r[i].repo
                                                           /\ Leaf[r[j].repo] = Leaf[r[i].repo]
                                 THEN r[i].repo ELSE Leaf[r[i].repo]
                 /\ \A j \in DOMAIN r : r[j].repo = r[i].repo => j = i
      <3>1. /\ s[i].label = Leaf[s[i].repo] /\ ~Linked(s[i].repo)
            /\ s[i].entry = IF \/ s[i].repo \in Range(list)
                               \/ \E j \in DOMAIN s : /\ s[j].repo \in Dir /\ s[j].repo # s[i].repo
                                                      /\ Leaf[s[j].repo] = Leaf[s[i].repo]
                            THEN s[i].repo ELSE Leaf[s[i].repo]
            /\ \A j \in DOMAIN s : s[j].repo = s[i].repo => j = i
        BY <1>1, <1>2, <2>1, Zenon DEF RowsOf
      <3>. QED BY <1>1, <3>1
    <2>2. ASSUME NEW i \in DOMAIN r, r[i].repo = NoDir
          PROVE  /\ r[i].entry \in Entries(list) /\ r[i].label = Label(r[i].entry)
                 /\ \A j \in DOMAIN r : r[j].repo \in Dir => ~Allowed(r[j].repo, <<r[i].entry>>)
      <3>1. /\ s[i].entry \in Entries(list) /\ s[i].label = Label(s[i].entry)
            /\ \A j \in DOMAIN s : s[j].repo \in Dir => ~Allowed(s[j].repo, <<s[i].entry>>)
        BY <1>1, <1>2, <2>2, Zenon DEF RowsOf
      <3>. QED BY <1>1, <3>1
    <2>3. ASSUME NEW e \in Entries(list)
          PROVE  \/ \E i \in DOMAIN r : r[i].repo = NoDir /\ r[i].entry = e
                 \/ \E i \in DOMAIN r : r[i].repo \in Dir /\ Allowed(r[i].repo, <<e>>)
      <3>1. \/ \E i \in DOMAIN s : s[i].repo = NoDir /\ s[i].entry = e
            \/ \E i \in DOMAIN s : s[i].repo \in Dir /\ Allowed(s[i].repo, <<e>>)
        BY <1>2, Zenon DEF RowsOf
      <3>. QED BY <1>1, <3>1
    <2>. QED BY <1>3, <2>1, <2>2, <2>3, Zenon DEF RowsOf
  <1>. QED BY <1>1, <1>4 DEF r, s

LEMMA SelectedFacts ==
  ASSUME NEW rows \in Seq(Row)
  PROVE  /\ Selected(rows) \in Seq(Dir \cup Name)
         /\ Range(Selected(rows)) = {rows[i].entry : i \in {j \in DOMAIN rows : rows[j].selected}}
  <1>. DEFINE on == Keep(rows, {row \in Range(rows) : row.selected})
  <1>1. on \in Seq(Row) /\ Range(on) = {row \in Range(rows) : row.selected}
    BY KeepFacts
  <1>2. Selected(rows) = [i \in DOMAIN on |-> on[i].entry]
    BY DEF Selected
  <1>. HIDE DEF on
  <1>3. DOMAIN on = 1..Len(on) /\ Len(on) \in Nat /\ \A i \in 1..Len(on) : on[i] \in Row
    BY <1>1
  <1>4. \A i \in 1..Len(on) : on[i].entry \in Dir \cup Name
    BY <1>3 DEF Row
  <1>5. Selected(rows) \in Seq(Dir \cup Name)
    BY <1>2, <1>3, <1>4
  <1>6. Range(Selected(rows)) = {row.entry : row \in Range(on)}
    BY <1>2, <1>3 DEF Range
  <1>7. {row.entry : row \in Range(on)} = {rows[i].entry : i \in {j \in DOMAIN rows : rows[j].selected}}
    BY <1>1 DEF Range
  <1>. QED BY <1>5, <1>6, <1>7

\* One entry alone: a path names one directory, a name every directory called so.
LEMMA OneEntry ==
  ASSUME NEW d \in Dir, NEW e \in Dir \cup Name
  PROVE  Matches(d, <<e>>) <=> Names(e, d)
  <1>1. Entries(<<e>>) = {e}
    BY WorkspacesAssumption DEF Entries, Range
  <1>. QED BY <1>1 DEF Matches

\* A saved picker: ticked rows are allowed, the others only by a twin, and every
\* entry of the list it began with has its row.
LEMMA WrittenAsTicked ==
  ASSUME NEW rows, NEW list, RowsOf(rows, list), list \in Seq(Entry)
  PROVE  /\ \A i \in DOMAIN rows : rows[i].repo = NoDir /\ rows[i].selected =>
                rows[i].entry \in Range(Selected(rows))
         /\ \A i \in DOMAIN rows : rows[i].repo \in Dir /\ rows[i].selected =>
                Matches(rows[i].repo, Selected(rows))
         /\ \A i \in DOMAIN rows :
              rows[i].repo \in Dir /\ ~rows[i].selected /\ Allowed(rows[i].repo, Selected(rows)) =>
                \E j \in DOMAIN rows : /\ rows[j].selected /\ rows[j].label # rows[i].label
                                       /\ Lower[rows[j].label] = Lower[rows[i].label]
  <1>1. rows \in Seq(Row) /\ DOMAIN rows = 1..Len(rows) /\ \A i \in DOMAIN rows : rows[i] \in Row
    <2>1. rows \in Seq(Row)
      BY DEF RowsOf
    <2>. QED BY <2>1
  <1>2. Range(Selected(rows)) = {rows[i].entry : i \in {j \in DOMAIN rows : rows[j].selected}}
    BY <1>1, SelectedFacts
  <1>3. Entries(Selected(rows)) = Range(Selected(rows))
    <2>1. Range(Selected(rows)) \subseteq Dir \cup Name
      BY <1>1, <1>2 DEF Row
    <2>. QED BY <2>1, WorkspacesAssumption DEF Entries
  <1>4. ASSUME NEW i \in DOMAIN rows, rows[i].repo \in Dir
        PROVE  Names(rows[i].entry, rows[i].repo) /\ rows[i].label = Leaf[rows[i].repo] /\ Leaf[rows[i].repo] \in Name
    <2>1. rows[i].entry \in {rows[i].repo, Leaf[rows[i].repo]} /\ rows[i].label = Leaf[rows[i].repo]
      BY <1>4 DEF RowsOf
    <2>2. Leaf[rows[i].repo] \in Name /\ Dir \cap Name = {}
      BY <1>4, WorkspacesAssumption
    <2>. QED BY <1>4, <2>1, <2>2 DEF Names
  <1>5. ASSUME NEW i \in DOMAIN rows, rows[i].repo \in Dir, rows[i].selected
        PROVE  Matches(rows[i].repo, Selected(rows))
    BY <1>2, <1>3, <1>4, <1>5 DEF Matches
  <1>6. ASSUME NEW i \in DOMAIN rows, rows[i].repo \in Dir, ~rows[i].selected,
               Allowed(rows[i].repo, Selected(rows))
        PROVE  \E j \in DOMAIN rows : /\ rows[j].selected /\ rows[j].label # rows[i].label
                                      /\ Lower[rows[j].label] = Lower[rows[i].label]
    <2>. DEFINE d == rows[i].repo
    <2>1. ~Linked(d) /\ d \in Dir
      BY <1>6 DEF RowsOf
    <2>2. PICK j \in DOMAIN rows : rows[j].selected /\ Names(rows[j].entry, d)
      BY <1>2, <1>3, <1>6, <2>1 DEF Allowed, Matches
    <2>3. rows[j].entry \in Dir \cup Name /\ rows[j].repo \in Dir \cup {NoDir} /\ rows[j].label \in Name
      BY <1>1 DEF Row
    <2>4. rows[j].repo # NoDir
      <3>1. rows[j].repo = NoDir => ~Allowed(d, <<rows[j].entry>>)
        BY <1>6 DEF RowsOf
      <3>2. Allowed(d, <<rows[j].entry>>)
        BY <2>1, <2>2, <2>3, OneEntry DEF Allowed
      <3>. QED BY <3>1, <3>2
    <2>5. rows[j].repo # d
      BY <1>6, <2>2 DEF RowsOf
    <2>. DEFINE o == rows[j].repo
    <2>6. o \in Dir /\ rows[j].label = Leaf[o] /\ rows[i].label = Leaf[d] /\ rows[j].entry \in {o, Leaf[o]}
          /\ Leaf[o] \in Name /\ Leaf[o] \notin Dir
      BY <1>4, <1>6, <2>3, <2>4, WorkspacesAssumption DEF RowsOf
    <2>7. rows[j].entry = Leaf[o] /\ Lower[Leaf[o]] = Lower[Leaf[d]]
      BY <2>2, <2>5, <2>6 DEF Names
    <2>8. Leaf[o] # Leaf[d]
      <3>1. rows[j].entry # o
        BY <2>6, <2>7
      <3>2. ~\E l \in DOMAIN rows : rows[l].repo \in Dir /\ rows[l].repo # o /\ Leaf[rows[l].repo] = Leaf[o]
        BY <2>6, <3>1 DEF RowsOf
      <3>. QED BY <1>6, <2>5, <3>2
    <2>. QED BY <2>2, <2>6, <2>7, <2>8
  <1>. QED BY <1>2, <1>5, <1>6

-----------------------------------------------------------------------------
(* --add-repo and --remove-repo *)

\* What merge_allow adds an entry to, and what it begins with.
Added(sofar, e) == IF e = Blank \/ \E k \in Range(sofar) : Lower[k] = Lower[e]
                   THEN sofar ELSE Append(sofar, e)
Remaining(list, flags) ==
  {e \in Entries(list) : Lower[e] \notin {Lower[x] : x \in Entries(flags.drop)}}

LEMMA MergeIs ==
  ASSUME NEW list \in Seq(Entry), NEW flags, flags.add \in Seq(Entry)
  PROVE  /\ MergeAllow(list, flags) \in Seq(Entry)
         /\ Remaining(list, flags) \subseteq Range(MergeAllow(list, flags))
         /\ Range(MergeAllow(list, flags)) \subseteq Remaining(list, flags) \cup Entries(flags.add)
         /\ \A e \in Entries(flags.add) : \E k \in Range(MergeAllow(list, flags)) : Lower[k] = Lower[e]
  <1>. DEFINE add == flags.add
              N == Len(add)
              first == Keep(list, Remaining(list, flags))
              With(f) == f = [n \in 0..N |-> IF n = 0 THEN first ELSE Added(f[n - 1], add[n])]
              step == [x \in Seq(Entry) \X (1..N) |-> Added(x[1], add[x[2]])]
  <1>1. N \in Nat /\ DOMAIN add = 1..N /\ \A n \in 1..N : add[n] \in Entry
    OBVIOUS
  <1>2. first \in Seq(Entry) /\ Range(first) = Remaining(list, flags)
    <2>1. Remaining(list, flags) \subseteq Range(list)
      BY DEF Remaining, Entries
    <2>2. first \in Seq(Entry) /\ Range(first) = Range(list) \cap Remaining(list, flags)
      BY KeepFacts
    <2>. QED BY <2>1, <2>2
  <1>. HIDE DEF add, N, first
  <1>3. ASSUME NEW s \in Seq(Entry), NEW e \in Entry
        PROVE  /\ Added(s, e) \in Seq(Entry)
               /\ Range(s) \subseteq Range(Added(s, e))
               /\ Range(Added(s, e)) \subseteq Range(s) \cup ({e} \ {Blank})
               /\ e # Blank => \E k \in Range(Added(s, e)) : Lower[k] = Lower[e]
    <2>1. Append(s, e) \in Seq(Entry) /\ Range(Append(s, e)) = Range(s) \cup {e}
      BY Longer
    <2>2. CASE e = Blank \/ \E k \in Range(s) : Lower[k] = Lower[e]
      <3>1. Added(s, e) = s
        BY <2>2, Zenon DEF Added
      <3>. QED BY <2>2, <3>1
    <2>3. CASE ~(e = Blank \/ \E k \in Range(s) : Lower[k] = Lower[e])
      <3>1. Added(s, e) = Append(s, e)
        BY <2>3, Zenon DEF Added
      <3>. QED BY <2>1, <2>3, <3>1
    <2>. QED BY <2>2, <2>3
  <1>4. step \in [Seq(Entry) \X (1..N) -> Seq(Entry)]
        /\ \A s \in Seq(Entry), n \in 1..N : step[<<s, n>>] = Added(s, add[n])
    <2>1. \A s \in Seq(Entry), e \in Entry : Added(s, e) \in Seq(Entry)
      BY <1>3
    <2>. QED BY <1>1, <2>1
  <1>5. \E f : With(f)
    <2>1. PICK f : Recursive(f, N, Seq(Entry), first, step)
      BY <1>1, <1>2, <1>4, Recursion DEF IsStep
    <2>2. \A n \in 0..N : n # 0 => n - 1 \in 0..N /\ n \in 1..N
      BY <1>1
    <2>3. \A n \in 0..N : n # 0 => step[<<f[n - 1], n>>] = Added(f[n - 1], add[n])
      BY <1>4, <2>1, <2>2 DEF Recursive
    <2>4. f = [n \in 0..N |-> IF n = 0 THEN first ELSE step[<<f[n - 1], n>>]]
      BY <2>1 DEF Recursive
    <2>. HIDE DEF step
    <2>5. f = [n \in 0..N |-> IF n = 0 THEN first ELSE Added(f[n - 1], add[n])]
      BY <2>3, <2>4
    <2>. QED BY <2>5, Zenon
  <1>6. PICK f : With(f) /\ MergeAllow(list, flags) = f[N]
    BY <1>5, Zenon DEF MergeAllow, Added, Remaining, add, N, first
  <1>. DEFINE so(n) == {add[i] : i \in 1..n} \ {Blank}
              good == {n \in 0..N :
                         /\ f[n] \in Seq(Entry)
                         /\ Remaining(list, flags) \subseteq Range(f[n])
                         /\ Range(f[n]) \subseteq Remaining(list, flags) \cup so(n)
                         /\ \A e \in so(n) : \E k \in Range(f[n]) : Lower[k] = Lower[e]}
  <1>7. 0 \in good
    <2>1. f[0] = first /\ so(0) = {} /\ 0 \in 0..N
      BY <1>1, <1>6
    <2>. HIDE DEF so
    <2>. QED BY <1>2, <2>1
  <1>8. ASSUME NEW n \in 1..N, n - 1 \in good PROVE n \in good
    <2>1. n \in 0..N /\ n # 0
      BY <1>1
    <2>2. f[n] = Added(f[n - 1], add[n])
      BY <1>6, <2>1, Zenon
    <2>3. so(n) = so(n - 1) \cup ({add[n]} \ {Blank})
      <3>1. \A i : i \in 1..n <=> i \in 1..n - 1 \/ i = n
        BY <1>1
      <3>. QED BY <3>1
    <2>. DEFINE s == f[n - 1]
                e == add[n]
    <2>4. s \in Seq(Entry) /\ e \in Entry
      BY <1>1, <1>8
    <2>5. /\ Added(s, e) \in Seq(Entry)
          /\ Range(s) \subseteq Range(Added(s, e))
          /\ Range(Added(s, e)) \subseteq Range(s) \cup ({e} \ {Blank})
          /\ e # Blank => \E k \in Range(Added(s, e)) : Lower[k] = Lower[e]
      BY <1>3, <2>4
    <2>. HIDE DEF so
    <2>. QED BY <1>8, <2>1, <2>2, <2>3, <2>5
  <1>9. N \in good
    <2>. HIDE DEF good
    <2>1. 0..N \subseteq good
      BY <1>1, <1>7, <1>8, UpTo
    <2>. QED BY <1>1, <2>1
  <1>10. so(N) = Entries(add)
    BY <1>1 DEF Entries, Range
  <1>. HIDE DEF so
  <1>. QED BY <1>6, <1>9, <1>10 DEF add

\* Two entries alike but for their case name the same directories.
LEMMA Alike ==
  ASSUME NEW e \in Dir \cup Name, NEW k \in Dir \cup Name, Lower[k] = Lower[e], NEW d \in Dir
  PROVE  Names(k, d) <=> Names(e, d)
  <1>1. e \in Dir <=> k \in Dir
    BY WorkspacesAssumption
  <1>2. CASE e \in Dir
    BY <1>1, <1>2, CaseAssumption DEF Names
  <1>3. CASE e \notin Dir
    BY <1>1, <1>3 DEF Names
  <1>. QED BY <1>2, <1>3

\* What the merged list names is what the remaining entries and the added ones name.
LEMMA MergeMatches ==
  ASSUME NEW list \in Seq(Entry), NEW flags, flags.add \in Seq(Entry), NEW d \in Dir
  PROVE  Matches(d, MergeAllow(list, flags)) <=>
           \/ Matches(d, flags.add)
           \/ \E e \in Remaining(list, flags) : Names(e, d)
  <1>. DEFINE M == MergeAllow(list, flags)
  <1>1. /\ M \in Seq(Entry) /\ Remaining(list, flags) \subseteq Range(M)
        /\ Range(M) \subseteq Remaining(list, flags) \cup Entries(flags.add)
        /\ \A e \in Entries(flags.add) : \E k \in Range(M) : Lower[k] = Lower[e]
    BY MergeIs
  <1>. HIDE DEF M
  <1>2. Entries(list) \subseteq Dir \cup Name /\ Entries(flags.add) \subseteq Dir \cup Name
    BY EntriesAre
  <1>3. Remaining(list, flags) \subseteq Entries(list) /\ Blank \notin Dir \cup Name
    BY WorkspacesAssumption DEF Remaining
  <1>4. Entries(M) = Range(M)
    BY <1>1, <1>2, <1>3 DEF Entries
  <1>5. ASSUME Matches(d, flags.add) PROVE Matches(d, M)
    <2>1. PICK e \in Entries(flags.add) : Names(e, d)
      BY <1>5 DEF Matches
    <2>2. PICK k \in Range(M) : Lower[k] = Lower[e]
      BY <1>1
    <2>3. k \in Dir \cup Name /\ e \in Dir \cup Name
      BY <1>1, <1>2, <1>3
    <2>. QED BY <1>4, <2>1, <2>2, <2>3, Alike DEF Matches
  <1>6. ASSUME NEW e \in Remaining(list, flags), Names(e, d) PROVE Matches(d, M)
    BY <1>1, <1>4, <1>6 DEF Matches
  <1>7. ASSUME Matches(d, M)
        PROVE Matches(d, flags.add) \/ \E e \in Remaining(list, flags) : Names(e, d)
    BY <1>1, <1>4, <1>7 DEF Matches
  <1>. QED BY <1>5, <1>6, <1>7 DEF M

-----------------------------------------------------------------------------
(* What the files were when a picker opened is remembered with it. *)

Then(fs) == INSTANCE Workspaces WITH files <- fs

LEMMA ThenIsNow ==
  ASSUME NEW fs, fs = files, NEW d
  PROVE  Then(fs)!Resolve(d) = Resolve(d)
  <1>1. ASSUME NEW w PROVE Then(fs)!SelectFile(w) = SelectFile(w)
    BY DEF Then!SelectFile, SelectFile
  <1>2. ASSUME NEW w PROVE Then(fs)!Ascent(w) = Ascent(w)
    BY DEF Then!Ascent, Ascent, Then!Upward, Upward, Then!HasMarker, HasMarker
  <1>3. ASSUME NEW w PROVE Then(fs)!Nearest(w) = Nearest(w)
    <2>1. {i \in DOMAIN Then(fs)!Ascent(w) : Then(fs)!SelectFile(Then(fs)!Ascent(w)[i]) # Absent}
          = {i \in DOMAIN Ascent(w) : SelectFile(Ascent(w)[i]) # Absent}
      BY <1>1, <1>2
    <2>. DEFINE hits == {i \in DOMAIN Ascent(w) : SelectFile(Ascent(w)[i]) # Absent}
    <2>2. Nearest(w) = IF hits = {} THEN NoDir ELSE Ascent(w)[CHOOSE i \in hits : \A j \in hits : i <= j]
      BY Zenon DEF Nearest
    <2>. DEFINE then == {i \in DOMAIN Then(fs)!Ascent(w) : Then(fs)!SelectFile(Then(fs)!Ascent(w)[i]) # Absent}
    <2>3. Then(fs)!Nearest(w) = IF then = {} THEN NoDir
                                ELSE Then(fs)!Ascent(w)[CHOOSE i \in then : \A j \in then : i <= j]
      BY Zenon DEF Then!Nearest
    <2>4. hits = then
      BY <2>1
    <2>. HIDE DEF hits, then
    <2>. QED BY <1>2, <2>2, <2>3, <2>4
  <1>4. ASSUME NEW w PROVE Then(fs)!WithinRepo(w) = WithinRepo(w)
    BY <1>1, <1>2, <1>3 DEF Then!WithinRepo, WithinRepo, Then!HasMarker, HasMarker
  <1>5. ASSUME NEW c PROVE Then(fs)!Loaded(c) = Loaded(c)
    BY DEF Then!Loaded, Loaded, Then!Usable, Usable, Then!Content, Content
  <1>. QED BY <1>1, <1>4, <1>5 DEF Then!Resolve, Resolve, Then!Linked, Linked

\* Every repository among the rows has a file that works or does not.
Listed(rows, fs) == \A i \in DOMAIN rows : rows[i].repo \in Dir => Then(fs)!Resolve(rows[i].repo) # Absent

-----------------------------------------------------------------------------
(* The inductive invariant: what a terminal remembers, and what config.toml  *)
(* holds, is what the flags or the ticks of its command make of the list     *)
(* that it began with.                                                       *)

Cfg(n) == [id : 0..n, allow : Seq(Entry)]

Sound(ask, list) ==
  \/ ask = NoAsk
  \/ /\ ask.how = "flags" /\ ask.before \in Seq(Entry) /\ ask.flags \in Flags
     /\ list = NextAllow(ask.before, ask.flags) /\ list # Absent
  \/ /\ ask.how = "pick" /\ ask.before \in Seq(Entry) /\ RowsOf(ask.rows, ask.before)
     /\ Listed(ask.rows, ask.files) /\ list = Selected(ask.rows)

Open(p, ask) ==
  /\ p \in Picker /\ p.rows # <<>> /\ p.end = "" /\ OnScreen(p)
  /\ ask.how = "pick" /\ ask.before \in Seq(Entry)
  /\ RowsOf(p.rows, ask.before) /\ Listed(p.rows, ask.files)

OkTerm(t, r, n) ==
  /\ r.at \in {"idle", "pick", "save", "write"}
  /\ r.at # "idle" => r.cfg \in Cfg(n)
  /\ r.at = "pick" => t \in Interactive /\ Open(r.pick, r.ask)
  /\ r.at \in {"save", "write"} => Sound(r.ask, r.cfg.allow)

Typed ==
  /\ files \in [Dir -> EnvFiles] /\ ids \in Nat
  /\ config = Broken \/ config \in Cfg(ids)
  /\ observer.at \in {"off", "wait", "reload"} /\ observer.allow \in Seq(Entry)
  /\ behind \in BOOLEAN /\ unsafe \in BOOLEAN
  /\ commands \in [Terminal -> 0..MaxCommands] /\ faults \in 0..MaxFaults

Terms == \A t \in Terminal : OkTerm(t, term[t], ids)

Kinv ==
  /\ Form /\ Alone /\ Typed /\ Terms /\ Sound(asked, config.allow)
  /\ \A t \in Terminal : term[t].at = "write" => config = Broken \/ unsafe \/ faults > 0

LEMMA CfgIs ==
  ASSUME NEW n \in Nat, NEW c \in Cfg(n)
  PROVE  /\ c # Broken /\ c.allow \in Seq(Entry) /\ c.id \in 0..n /\ c \in Cfg(n + 1)
         /\ \A list \in Seq(Entry) : [c EXCEPT !.allow = list] \in Cfg(n) /\ [c EXCEPT !.allow = list].allow = list
  BY ConfigureAssumption DEF Cfg, Broken

LEMMA OkLater ==
  ASSUME NEW t, NEW r, NEW n \in Nat, OkTerm(t, r, n)
  PROVE  OkTerm(t, r, n + 1)
  BY CfgIs DEF OkTerm

LEMMA OkIdle == ASSUME NEW t, NEW n PROVE OkTerm(t, IdleTerm, n)
  BY DEF OkTerm, IdleTerm

LEMMA OneOk ==
  ASSUME Form, Terms, ids \in Nat, ids' \in {ids, ids + 1},
         NEW t \in Terminal, NEW x, DOMAIN x = {"at", "cfg", "pick", "ask"},
         term' = [term EXCEPT ![t] = x], OkTerm(t, x, ids')
  PROVE  Terms'
  <1>1. Form' /\ term'[t] = x /\ \A u \in Terminal \ {t} : term'[u] = term[u]
    BY OneTerm
  <1>2. ASSUME NEW u \in Terminal \ {t} PROVE OkTerm(u, term[u], ids')
    BY OkLater DEF Terms
  <1>. QED BY <1>1, <1>2 DEF Terms

LEMMA InitKinv == Init => Kinv
  <1>. SUFFICES ASSUME Init PROVE Kinv
    OBVIOUS
  <1>1. PICK list \in FirstLists : config = [id |-> 0, allow |-> list]
    BY DEF Init
  <1>2. list \in Seq(Entry) /\ ids = 0
    BY <1>1, ConfigureAssumption DEF Init
  <1>3. Typed
    <2>1. <<>> \in Seq(Entry)
      OBVIOUS
    <2>2. config \in Cfg(ids)
      BY <1>1, <1>2 DEF Cfg
    <2>3. files \in [Dir -> EnvFiles] /\ ids \in Nat
      BY <1>2, ConfigureAssumption DEF Init
    <2>6. faults \in 0..MaxFaults /\ behind \in BOOLEAN /\ unsafe \in BOOLEAN
      <3>1. faults = 0 /\ behind = FALSE /\ unsafe = FALSE /\ MaxFaults \in Nat
        BY ConfigureAssumption, Zenon DEF Init
      <3>2. faults \in 0..MaxFaults
        BY <3>1
      <3>. QED BY <3>1, <3>2, Zenon
    <2>4. observer.at = "off" /\ observer.allow = <<>>
      BY DEF Init
    <2>5. commands \in [Terminal -> 0..MaxCommands]
      BY ConfigureAssumption DEF Init
    <2>. QED BY <2>1, <2>2, <2>3, <2>4, <2>5, <2>6 DEF Typed
  <1>4. \A t \in Terminal : term[t] = IdleTerm
    BY DEF Init
  <1>5. IdleTerm.at = "idle"
    BY DEF IdleTerm
  <1>6. Terms
    BY <1>4, OkIdle DEF Terms
  <1>7. Sound(asked, config.allow)
    BY DEF Init, Sound
  <1>. QED BY <1>3, <1>4, <1>5, <1>6, <1>7, InitAlone DEF Kinv

LEMMA LoadedIs ==
  ASSUME Typed
  PROVE  /\ LoadedOrFresh \in Cfg(IF config = Broken THEN ids + 1 ELSE ids)
         /\ LoadedOrFresh.allow \in Seq(Entry)
  <1>1. ids \in Nat /\ (config = Broken \/ config \in Cfg(ids)) /\ <<>> \in Seq(Entry)
    BY DEF Typed
  <1>2. CASE config = Broken
    <2>1. LoadedOrFresh = [id |-> ids + 1, allow |-> <<>>]
      BY <1>2 DEF LoadedOrFresh
    <2>. QED BY <1>1, <1>2, <2>1 DEF Cfg
  <1>3. CASE config # Broken
    BY <1>1, <1>3, CfgIs DEF LoadedOrFresh
  <1>. QED BY <1>2, <1>3

LEMMA NextIs ==
  ASSUME NEW list \in Seq(Entry), NEW flags \in Flags, NextAllow(list, flags) # Absent
  PROVE  NextAllow(list, flags) \in Seq(Entry)
  <1>1. flags.allow \in Seq(Entry) \cup {Absent} /\ flags.add \in Seq(Entry)
    BY ConfigureAssumption
  <1>2. MergeAllow(list, flags) \in Seq(Entry)
    BY <1>1, MergeIs
  <1>. QED BY <1>1, <1>2 DEF NextAllow

LEMMA PickerIs ==
  ASSUME NEW r \in Seq(Row), NEW f \in Seq(Letter), NEW c \in Nat, NEW o \in Nat,
         NEW e \in {"", "cancel", "save"}
  PROVE  [rows |-> r, filter |-> f, cursor |-> c, offset |-> o, end |-> e] \in Picker
  BY DEF Picker

\* The picker opens with the cursor on the first row and the window at the top.
LEMMA OpensOnScreen ==
  ASSUME NEW rows, rows \in Seq(Row)
  PROVE  Opened(rows) \in Picker /\ OnScreen(Opened(rows)) /\ Opened(rows).rows = rows /\ Opened(rows).end = ""
  <1>1. /\ Opened(rows).rows = rows /\ Opened(rows).end = "" /\ Opened(rows).filter = <<>>
        /\ Opened(rows).cursor = 0 /\ Opened(rows).offset = 0
    BY DEF Opened
  <1>2. Opened(rows) \in Picker
    <2>2. <<>> \in Seq(Letter) /\ 0 \in Nat /\ "" \in {"", "cancel", "save"}
      OBVIOUS
    <2>. QED BY <2>2, PickerIs, Zenon DEF Opened
  <1>3. Cardinality(Visible(Opened(rows))) \in Nat /\ Window \in Nat /\ Window > 0
    <2>1. Cardinality(Visible(Opened(rows))) \in Nat
      BY <1>2, CountIsNat, Zenon
    <2>. QED BY <2>1, ConfigureAssumption
  <1>4. OnScreen(Opened(rows))
    <2>. DEFINE count == Cardinality(Visible(Opened(rows)))
    <2>1. count \in Nat /\ Window \in Nat /\ Window > 0
      BY <1>3
    <2>. HIDE DEF count
    <2>2. 0 <= Less(count, 1) /\ 0 <= 0 /\ 0 < 0 + Window /\ 0 <= Less(count, Window)
      BY <2>1 DEF Less
    <2>. QED BY <1>1, <2>2, Zenon DEF OnScreen, count
  <1>. QED BY <1>1, <1>2, <1>4

LEMMA BeginKinv ==
  ASSUME Kinv, NEW t \in Terminal, NEW flags \in Flags, Begin(t, flags)
  PROVE  Kinv'
  <1>. DEFINE cfg == LoadedOrFresh
              next == NextAllow(cfg.allow, flags)
              rows == BuildChoices(cfg.allow)
              ask == [how |-> "flags", before |-> cfg.allow, flags |-> flags,
                      rows |-> <<>>, files |-> files]
              new == Saving([cfg EXCEPT !.allow = next], ask)
              pick == [at |-> "pick", cfg |-> cfg, pick |-> Opened(rows),
                       ask |-> [ask EXCEPT !.how = "pick"]]
              old == Saving(cfg, NoAsk)
              x == IF next # Absent THEN new ELSE IF CanAsk(t, rows) THEN pick ELSE old
  <1>1. /\ term[t].at = "idle" /\ UNCHANGED <<files, config, observer, behind, asked, faults>>
        /\ commands[t] < MaxCommands
        /\ term' = [term EXCEPT ![t] = x]
        /\ ids' = IF config = Broken THEN ids + 1 ELSE ids
        /\ unsafe' = (unsafe \/ \E u \in Terminal : term[u].at # "idle")
        /\ commands' = [commands EXCEPT ![t] = @ + 1]
    BY Zenon DEF Begin
  <1>2. Form' /\ Alone'
    BY BeginAlone DEF Kinv
  <1>3. Form /\ Typed /\ Terms /\ ids \in Nat
    BY DEF Kinv, Typed
  <1>4. cfg \in Cfg(ids') /\ cfg.allow \in Seq(Entry) /\ ids' \in {ids, ids + 1} /\ ids' \in Nat
    <2>1. ids' = (IF config = Broken THEN ids + 1 ELSE ids)
      BY <1>1
    <2>2. cfg \in Cfg(IF config = Broken THEN ids + 1 ELSE ids) /\ cfg.allow \in Seq(Entry)
      BY <1>3, LoadedIs
    <2>. HIDE DEF cfg
    <2>. QED BY <1>3, <2>1, <2>2
  <1>5. RowsOf(rows, cfg.allow) /\ rows \in Seq(Row) /\ Listed(rows, files)
    <2>1. RowsOf(rows, cfg.allow)
          /\ \A i \in DOMAIN rows : rows[i].repo \in Dir => Resolve(rows[i].repo) # Absent
      BY <1>4, BuildRows
    <2>. HIDE DEF rows, cfg
    <2>2. Listed(rows, files)
      BY <2>1, ThenIsNow DEF Listed
    <2>. QED BY <2>1, <2>2 DEF RowsOf
  <1>. HIDE DEF cfg, next, rows
  <1>6. ASSUME next # Absent PROVE OkTerm(t, new, ids') /\ DOMAIN new = {"at", "cfg", "pick", "ask"} /\ new.at = "save"
    <2>1. next \in Seq(Entry)
      BY <1>4, <1>6, NextIs DEF next
    <2>2. [cfg EXCEPT !.allow = next] \in Cfg(ids') /\ [cfg EXCEPT !.allow = next].allow = next
      BY <1>4, <2>1, CfgIs
    <2>3. Sound(ask, next)
      <3>1. ask.how = "flags" /\ ask.before = cfg.allow /\ ask.flags = flags
        OBVIOUS
      <3>. HIDE DEF ask
      <3>. QED BY <1>4, <1>6, <3>1 DEF Sound, next
    <2>4. /\ DOMAIN new = {"at", "cfg", "pick", "ask"} /\ new.at = "save" /\ new.ask = ask
          /\ new.cfg = [cfg EXCEPT !.allow = next]
      BY DEF Saving
    <2>. HIDE DEF new, ask
    <2>. QED BY <2>2, <2>3, <2>4 DEF OkTerm
  <1>7. ASSUME CanAsk(t, rows) PROVE OkTerm(t, pick, ids') /\ DOMAIN pick = {"at", "cfg", "pick", "ask"} /\ pick.at = "pick"
    <2>. DEFINE p == Opened(rows)
                picking == [ask EXCEPT !.how = "pick"]
    <2>1. p \in Picker /\ OnScreen(p) /\ p.rows = rows /\ p.end = ""
      BY <1>5, OpensOnScreen
    <2>2. picking.how = "pick" /\ picking.before = cfg.allow /\ picking.files = files
      OBVIOUS
    <2>3. /\ DOMAIN pick = {"at", "cfg", "pick", "ask"} /\ pick.at = "pick" /\ pick.ask = picking
          /\ pick.cfg = cfg /\ pick.pick = p
      OBVIOUS
    <2>. HIDE DEF p, picking, pick
    <2>4. Open(p, picking) /\ t \in Interactive
      BY <1>4, <1>5, <1>7, <2>1, <2>2 DEF Open, CanAsk
    <2>. QED BY <1>4, <2>3, <2>4 DEF OkTerm
  <1>8. OkTerm(t, old, ids') /\ DOMAIN old = {"at", "cfg", "pick", "ask"} /\ old.at = "save"
    <2>1. /\ DOMAIN old = {"at", "cfg", "pick", "ask"} /\ old.at = "save" /\ old.ask = NoAsk
          /\ old.cfg = cfg
      BY DEF Saving
    <2>. QED BY <1>4, <2>1 DEF OkTerm, Sound
  <1>9. OkTerm(t, x, ids') /\ DOMAIN x = {"at", "cfg", "pick", "ask"} /\ x.at # "write"
    <2>. HIDE DEF new, pick, old, ask
    <2>. QED BY <1>6, <1>7, <1>8
  <1>. HIDE DEF x
  <1>10. Terms'
    BY <1>1, <1>3, <1>4, <1>9, OneOk
  <1>11. Typed'
    <2>1. config' = Broken \/ config' \in Cfg(ids')
      BY <1>1, <1>3, <1>4, CfgIs DEF Typed
    <2>2. commands' \in [Terminal -> 0..MaxCommands]
      BY <1>1, <1>3, ConfigureAssumption DEF Typed
    <2>3. unsafe' \in BOOLEAN
      BY <1>1, <1>3, Zenon DEF Typed
    <2>. QED BY <1>1, <1>3, <1>4, <2>1, <2>2, <2>3 DEF Typed
  <1>12. Sound(asked, config.allow)'
    BY <1>1 DEF Kinv
  <1>13. ASSUME NEW u \in Terminal, term'[u].at = "write" PROVE config' = Broken \/ unsafe' \/ faults' > 0
    <2>1. term'[t] = x /\ \A v \in Terminal \ {t} : term'[v] = term[v]
      BY <1>1, <1>3, <1>9, OneTerm
    <2>2. u # t /\ term[u].at = "write"
      BY <1>9, <1>13, <2>1
    <2>. QED BY <1>1, <2>2, Zenon
  <1>. QED BY <1>2, <1>10, <1>11, <1>12, <1>13 DEF Kinv

\* What is remembered stays sound while ticks change and keys move the cursor.
LEMMA StaysListed ==
  ASSUME NEW p, NEW q, NEW fs, Listed(q.rows, fs), DOMAIN p.rows = DOMAIN q.rows,
         \A i \in DOMAIN p.rows : p.rows[i].repo = q.rows[i].repo
  PROVE  Listed(p.rows, fs)
  BY DEF Listed

LEMMA ReadKinv ==
  ASSUME Kinv, NEW t \in Terminal, NEW bytes \in Chunk, ReadKeys(t, bytes)
  PROVE  Kinv'
  <1>. DEFINE q == term[t].pick
              p == IF bytes = <<>> THEN [q EXCEPT !.end = "cancel"] ELSE Pressed(q, bytes)
              open == [term[t] EXCEPT !.pick = p]
              cancel == Saving(term[t].cfg, NoAsk)
              ask == [term[t].ask EXCEPT !.rows = p.rows]
              save == Saving([term[t].cfg EXCEPT !.allow = Selected(p.rows)], ask)
              x == IF p.end = "" THEN open ELSE IF p.end = "cancel" THEN cancel ELSE save
  <1>1. /\ term[t].at = "pick" /\ term' = [term EXCEPT ![t] = x]
        /\ UNCHANGED <<files, config, observer, behind, asked, unsafe, ids, bounds>>
    BY DEF ReadKeys
  <1>2. Form' /\ Alone'
    BY ReadAlone DEF Kinv
  <1>3. Form /\ Typed /\ Terms /\ ids \in Nat
    BY DEF Kinv, Typed
  <1>4. t \in Interactive /\ Open(q, term[t].ask) /\ term[t].cfg \in Cfg(ids)
    BY <1>1, <1>3 DEF Terms, OkTerm
  <1>5. q \in Picker /\ q.rows # <<>> /\ OnScreen(q) /\ bytes \in Seq(STRING)
    <2>1. bytes \in Seq(STRING)
      BY ConfigureAssumption
    <2>. QED BY <1>4, <2>1 DEF Open
  <1>. HIDE DEF q
  <1>6. p \in Picker /\ SameRows(p, q) /\ (p.end = "" => OnScreen(p))
    <2>1. CASE bytes = <<>>
      <3>1. p = [q EXCEPT !.end = "cancel"]
        BY <2>1
      <3>2. p \in Picker /\ p.rows = q.rows /\ p.end = "cancel"
        BY <1>5, <3>1 DEF Picker
      <3>. HIDE DEF p
      <3>. QED BY <3>2 DEF SameRows
    <2>2. CASE bytes # <<>>
      <3>1. p = Pressed(q, bytes)
        BY <2>2
      <3>. QED BY <1>5, <3>1, PressedOnScreen
    <2>. QED BY <2>1, <2>2
  <1>. HIDE DEF p
  <1>7. p.rows \in Seq(Row) /\ p.rows # <<>> /\ p.end \in {"", "cancel", "save"}
    <2>1. p.rows \in Seq(Row) /\ q.rows \in Seq(Row) /\ p.end \in {"", "cancel", "save"}
      BY <1>5, <1>6 DEF Picker
    <2>2. Len(p.rows) = Len(q.rows)
      BY <1>6 DEF SameRows
    <2>3. \A r, s \in Seq(Row) : Len(r) = Len(s) /\ s # <<>> => r # <<>>
      OBVIOUS
    <2>. QED BY <1>5, <2>1, <2>2, <2>3, Zenon
  <1>8. /\ term[t].ask.how = "pick" /\ term[t].ask.before \in Seq(Entry)
        /\ RowsOf(q.rows, term[t].ask.before) /\ Listed(q.rows, term[t].ask.files)
    BY <1>4 DEF Open
  <1>9. RowsOf(p.rows, term[t].ask.before) /\ Listed(p.rows, term[t].ask.files)
    <2>1. /\ RowsOf(p.rows, term[t].ask.before) /\ DOMAIN p.rows = DOMAIN q.rows
          /\ \A i \in DOMAIN p.rows : p.rows[i].repo = q.rows[i].repo
      BY <1>6, <1>7, <1>8, SameRowsOf
    <2>. QED BY <1>8, <2>1, StaysListed
  <1>10. DOMAIN term[t] = {"at", "cfg", "pick", "ask"}
    BY <1>3 DEF Form
  <1>11. ASSUME p.end = "" PROVE OkTerm(t, open, ids) /\ DOMAIN open = {"at", "cfg", "pick", "ask"} /\ open.at = "pick"
    <2>1. /\ DOMAIN open = {"at", "cfg", "pick", "ask"} /\ open.at = "pick" /\ open.pick = p
          /\ open.cfg = term[t].cfg /\ open.ask = term[t].ask
      BY <1>1, <1>10
    <2>. HIDE DEF open
    <2>2. Open(p, term[t].ask)
      BY <1>6, <1>7, <1>8, <1>9, <1>11 DEF Open
    <2>. QED BY <1>4, <2>1, <2>2 DEF OkTerm
  <1>12. OkTerm(t, cancel, ids) /\ DOMAIN cancel = {"at", "cfg", "pick", "ask"} /\ cancel.at = "save"
    <2>1. /\ DOMAIN cancel = {"at", "cfg", "pick", "ask"} /\ cancel.at = "save" /\ cancel.ask = NoAsk
          /\ cancel.cfg = term[t].cfg
      BY DEF Saving
    <2>. HIDE DEF cancel
    <2>. QED BY <1>4, <2>1 DEF OkTerm, Sound
  <1>13. OkTerm(t, save, ids) /\ DOMAIN save = {"at", "cfg", "pick", "ask"} /\ save.at = "save"
    <2>1. /\ DOMAIN save = {"at", "cfg", "pick", "ask"} /\ save.at = "save" /\ save.ask = ask
          /\ save.cfg = [term[t].cfg EXCEPT !.allow = Selected(p.rows)]
      BY DEF Saving
    <2>2. Selected(p.rows) \in Seq(Entry)
      <3>1. Selected(p.rows) \in Seq(Dir \cup Name)
        BY <1>7, SelectedFacts
      <3>. QED BY <3>1 DEF Entry
    <2>3. save.cfg \in Cfg(ids) /\ save.cfg.allow = Selected(p.rows)
      <3>1. \A list \in Seq(Entry) : /\ [term[t].cfg EXCEPT !.allow = list] \in Cfg(ids)
                                     /\ [term[t].cfg EXCEPT !.allow = list].allow = list
        BY <1>3, <1>4, CfgIs
      <3>. QED BY <2>1, <2>2, <3>1, Zenon
    <2>4. Sound(ask, Selected(p.rows))
      <3>1. /\ ask.how = "pick" /\ ask.before = term[t].ask.before
            /\ ask.files = term[t].ask.files
        BY <1>8
      <3>2. ask.rows = p.rows
        BY <1>8
      <3>. HIDE DEF ask
      <3>. QED BY <1>8, <1>9, <3>1, <3>2 DEF Sound
    <2>. HIDE DEF save, ask
    <2>. QED BY <2>1, <2>3, <2>4 DEF OkTerm
  <1>14. OkTerm(t, x, ids) /\ DOMAIN x = {"at", "cfg", "pick", "ask"} /\ x.at # "write"
    <2>. HIDE DEF open, cancel, save
    <2>. QED BY <1>11, <1>12, <1>13
  <1>. HIDE DEF x
  <1>15. ids' \in {ids, ids + 1} /\ OkTerm(t, x, ids')
    BY <1>1, <1>14
  <1>16. Terms'
    BY <1>1, <1>3, <1>14, <1>15, OneOk
  <1>17. Typed' /\ Sound(asked, config.allow)'
    BY <1>1, <1>3 DEF Kinv, Typed, bounds
  <1>18. ASSUME NEW u \in Terminal, term'[u].at = "write" PROVE config' = Broken \/ unsafe' \/ faults' > 0
    <2>1. term'[t] = x /\ \A v \in Terminal \ {t} : term'[v] = term[v]
      BY <1>1, <1>3, <1>14, OneTerm
    <2>2. u # t /\ term[u].at = "write"
      BY <1>14, <1>18, <2>1
    <2>. QED BY <1>1, <2>2, Zenon DEF Kinv, bounds
  <1>. QED BY <1>2, <1>16, <1>17, <1>18 DEF Kinv

LEMMA TruncateKinv ==
  ASSUME Kinv, NEW t \in Terminal, Truncate(t)
  PROVE  Kinv'
  <1>. DEFINE x == [term[t] EXCEPT !.at = "write"]
  <1>1. /\ term[t].at = "save" /\ term' = [term EXCEPT ![t] = x] /\ config' = Broken
        /\ behind' = FALSE /\ asked' = NoAsk
        /\ UNCHANGED <<files, observer, unsafe, ids, bounds>>
    BY DEF Truncate
  <1>2. Form' /\ Alone'
    BY WriteAlone DEF Kinv
  <1>3. Form /\ Typed /\ Terms /\ ids \in Nat /\ OkTerm(t, term[t], ids)
    BY DEF Kinv, Typed, Terms
  <1>4. /\ DOMAIN x = {"at", "cfg", "pick", "ask"} /\ x.at = "write" /\ x.cfg = term[t].cfg
        /\ x.ask = term[t].ask
    BY <1>3 DEF Form
  <1>. HIDE DEF x
  <1>5. OkTerm(t, x, ids) /\ ids' \in {ids, ids + 1} /\ ids' = ids
    BY <1>1, <1>3, <1>4 DEF OkTerm
  <1>6. Terms'
    BY <1>1, <1>3, <1>4, <1>5, OneOk
  <1>7. Typed'
    BY <1>1, <1>3 DEF Typed, bounds
  <1>8. Sound(asked, config.allow)'
    BY <1>1 DEF Sound
  <1>. QED BY <1>1, <1>2, <1>6, <1>7, <1>8 DEF Kinv

LEMMA SaveKinv ==
  ASSUME Kinv, NEW t \in Terminal, Save(t)
  PROVE  Kinv'
  <1>1. /\ term[t].at = "write" /\ term' = [term EXCEPT ![t] = IdleTerm] /\ config' = term[t].cfg
        /\ behind' = FALSE /\ asked' = term[t].ask
        /\ UNCHANGED <<files, observer, unsafe, ids, bounds>>
    BY DEF Save
  <1>2. Form' /\ Alone'
    BY WriteAlone DEF Kinv
  <1>3. Form /\ Typed /\ Terms /\ ids \in Nat /\ OkTerm(t, term[t], ids)
    BY DEF Kinv, Typed, Terms
  <1>4. DOMAIN IdleTerm = {"at", "cfg", "pick", "ask"} /\ IdleTerm.at = "idle"
    BY DEF IdleTerm
  <1>5. OkTerm(t, IdleTerm, ids) /\ ids' \in {ids, ids + 1} /\ ids' = ids
    BY <1>1, OkIdle
  <1>6. Terms'
    BY <1>1, <1>3, <1>4, <1>5, OneOk
  <1>7. config' \in Cfg(ids') /\ Sound(term[t].ask, term[t].cfg.allow)
    BY <1>1, <1>3, <1>5 DEF OkTerm
  <1>8. Typed'
    BY <1>1, <1>3, <1>7 DEF Typed, bounds
  <1>9. Sound(asked, config.allow)'
    BY <1>1, <1>7 DEF Sound
  <1>10. ASSUME NEW u \in Terminal, term'[u].at = "write" PROVE unsafe'
    <2>1. term'[t] = IdleTerm /\ \A v \in Terminal \ {t} : term'[v] = term[v]
      BY <1>1, <1>3, <1>4, OneTerm
    <2>2. u # t /\ term[u].at = "write"
      BY <1>4, <1>10, <2>1
    <2>. QED BY <1>1, <2>2 DEF Kinv, Alone
  <1>. QED BY <1>2, <1>6, <1>8, <1>9, <1>10 DEF Kinv

LEMMA KillKinv ==
  ASSUME Kinv, NEW t \in Terminal, Kill(t)
  PROVE  Kinv'
  <1>1. /\ term' = [term EXCEPT ![t] = IdleTerm] /\ faults < MaxFaults
        /\ faults' = faults + 1 /\ unsafe' = (unsafe \/ term[t].at = "write")
        /\ UNCHANGED <<files, config, observer, behind, asked, ids, commands>>
    BY DEF Kill
  <1>2. Form' /\ Alone'
    BY WriteAlone DEF Kinv
  <1>3. Form /\ Typed /\ Terms /\ ids \in Nat /\ faults \in Nat
    BY ConfigureAssumption DEF Kinv, Typed
  <1>4. DOMAIN IdleTerm = {"at", "cfg", "pick", "ask"}
    BY DEF IdleTerm
  <1>5. OkTerm(t, IdleTerm, ids') /\ ids' \in {ids, ids + 1}
    BY <1>1, OkIdle
  <1>6. Terms'
    BY <1>1, <1>3, <1>4, <1>5, OneOk
  <1>7. unsafe' \in BOOLEAN
    BY <1>1, <1>3, Zenon DEF Typed
  <1>8. Typed'
    BY <1>1, <1>3, <1>7, ConfigureAssumption DEF Typed
  <1>9. Sound(asked, config.allow)'
    BY <1>1 DEF Kinv
  <1>10. faults' > 0
    BY <1>1, <1>3
  <1>. QED BY <1>2, <1>6, <1>8, <1>9, <1>10 DEF Kinv

LEMMA EditConfigKinv ==
  ASSUME Kinv, EditConfig
  PROVE  Kinv'
  <1>1. /\ faults < MaxFaults /\ faults' = faults + 1 /\ behind' = FALSE /\ asked' = NoAsk
        /\ UNCHANGED <<files, term, observer, ids, commands>>
        /\ unsafe' \in {unsafe, TRUE}
    BY DEF EditConfig
  <1>2. Form' /\ Alone'
    BY EditAlone DEF Kinv
  <1>3. Typed /\ Terms /\ ids \in Nat /\ faults \in Nat /\ MaxFaults \in Nat
    BY ConfigureAssumption DEF Kinv, Typed
  <1>4. config' = Broken \/ config' \in Cfg(ids)
    <2>1. ASSUME NEW list \in FirstLists, config # Broken, config' = [config EXCEPT !.allow = list]
          PROVE  config' \in Cfg(ids)
      <3>1. config \in Cfg(ids) /\ list \in Seq(Entry)
        BY <1>3, <2>1, ConfigureAssumption DEF Typed
      <3>. QED BY <1>3, <2>1, <3>1, CfgIs
    <2>. QED BY <2>1, Zenon DEF EditConfig
  <1>5. Typed'
    <2>1. unsafe' \in BOOLEAN /\ faults' \in 0..MaxFaults
      <3>1. unsafe \in BOOLEAN
        BY <1>3 DEF Typed
      <3>2. unsafe' \in BOOLEAN
        BY <1>1, <3>1, Zenon
      <3>. QED BY <1>1, <1>3, <3>2
    <2>. QED BY <1>1, <1>3, <1>4, <2>1 DEF Typed
  <1>6. Terms'
    BY <1>1, <1>3 DEF Terms
  <1>7. Sound(asked, config.allow)'
    BY <1>1 DEF Sound
  <1>8. faults' > 0
    BY <1>1, <1>3
  <1>. QED BY <1>2, <1>5, <1>6, <1>7, <1>8 DEF Kinv

LEMMA EditFileKinv ==
  ASSUME Kinv, NEW d \in Dir, NEW f \in EnvFiles, EditFile(d, f)
  PROVE  Kinv'
  <1>1. /\ faults < MaxFaults /\ faults' = faults + 1 /\ files' = [files EXCEPT ![d] = f]
        /\ UNCHANGED <<config, term, observer, behind, asked, unsafe, ids, commands>>
    BY DEF EditFile
  <1>2. Typed /\ Terms /\ faults \in Nat /\ MaxFaults \in Nat
    BY ConfigureAssumption DEF Kinv, Typed
  <1>3. files' \in [Dir -> EnvFiles]
    BY <1>1, <1>2 DEF Typed
  <1>4. Typed'
    <2>1. faults' \in 0..MaxFaults
      BY <1>1, <1>2
    <2>. QED BY <1>1, <1>2, <1>3, <2>1 DEF Typed
  <1>5. Form' /\ Alone'
    BY <1>1 DEF Kinv, Form, Alone
  <1>6. Terms' /\ Sound(asked, config.allow)'
    BY <1>1 DEF Kinv, Terms
  <1>7. faults' > 0
    BY <1>1, <1>2
  <1>. QED BY <1>4, <1>5, <1>6, <1>7 DEF Kinv

LEMMA WatchKinv ==
  ASSUME Kinv, Boot \/ Scan \/ Reload \/ UNCHANGED vars
  PROVE  Kinv'
  <1>1. UNCHANGED <<files, config, term, asked, unsafe, ids, bounds>>
    BY DEF Boot, Scan, Reload, vars
  <1>2. Typed
    BY DEF Kinv
  <1>3. /\ observer'.at \in {"off", "wait", "reload"} /\ observer'.allow \in Seq(Entry)
        /\ behind' \in BOOLEAN
    <2>1. config # Broken => config.allow \in Seq(Entry)
      BY <1>2, CfgIs DEF Typed
    <2>2. CASE Boot
      BY <1>2, <2>1, <2>2 DEF Boot, Typed
    <2>3. CASE Scan
      <3>1. observer' = [observer EXCEPT !.at = "reload"] /\ behind' = TRUE /\ observer.at = "wait"
        BY <2>3 DEF Scan
      <3>2. observer'.allow = observer.allow /\ observer'.at \in {"wait", "reload"}
        BY <3>1
      <3>. QED BY <1>2, <3>1, <3>2 DEF Typed
    <2>4. CASE Reload
      BY <1>2, <2>1, <2>4 DEF Reload, Typed
    <2>5. CASE UNCHANGED vars
      BY <1>2, <2>5 DEF Typed, vars
    <2>. QED BY <2>2, <2>3, <2>4, <2>5
  <1>4. Typed'
    BY <1>1, <1>2, <1>3 DEF Typed, bounds
  <1>5. Form' /\ Alone'
    BY <1>1 DEF Kinv, Form, Alone
  <1>6. Terms' /\ Sound(asked, config.allow)'
    BY <1>1 DEF Kinv, Terms
  <1>7. \A t \in Terminal : term'[t].at = "write" => config' = Broken \/ unsafe' \/ faults' > 0
    BY <1>1 DEF Kinv, bounds
  <1>. QED BY <1>4, <1>5, <1>6, <1>7 DEF Kinv

LEMMA StepKinv == Kinv /\ [Next]_vars => Kinv'
  <1>. SUFFICES ASSUME Kinv, [Next]_vars PROVE Kinv'
    OBVIOUS
  <1>1. ASSUME NEW e \in Edits, EditFile(e[1], e[2]) PROVE Kinv'
    <2>1. e[1] \in Dir /\ e[2] \in EnvFiles
      BY ConfigureAssumption
    <2>. QED BY <1>1, <2>1, EditFileKinv
  <1>. QED BY <1>1, BeginKinv, ReadKinv, TruncateKinv, SaveKinv, KillKinv, EditConfigKinv, WatchKinv DEF Next

LEMMA Invariant == Spec => []Kinv
  BY InitKinv, StepKinv, PTL DEF Spec

-----------------------------------------------------------------------------
(* What follows from the invariant *)

LEMMA NoAskIs == NoAsk.how = "nothing"
  BY DEF NoAsk

LEMMA KinvType == Kinv => TypeOK
  <1>. SUFFICES ASSUME Kinv PROVE TypeOK
    OBVIOUS
  <1>1. Typed /\ Terms /\ ids \in Nat
    BY DEF Kinv, Typed
  <1>2. config = Broken \/ (config.id \in 0..ids /\ Entries(config.allow) \subseteq Dir \cup Name)
    <2>1. config = Broken \/ config \in Cfg(ids)
      BY <1>1 DEF Typed
    <2>2. ASSUME config \in Cfg(ids) PROVE config.id \in 0..ids /\ config.allow \in Seq(Entry)
      BY <1>1, <2>2, CfgIs
    <2>. QED BY <2>1, <2>2, EntriesAre
  <1>3. ASSUME NEW t \in Terminal
        PROVE  /\ term[t].at \in {"idle", "pick", "save", "write"}
               /\ term[t].at # "idle" => Entries(term[t].cfg.allow) \subseteq Dir \cup Name
               /\ term[t].at = "pick" => t \in Interactive /\ term[t].pick.rows # <<>> /\ term[t].pick.end = ""
    <2>1. OkTerm(t, term[t], ids)
      BY <1>1 DEF Terms
    <2>2. ASSUME term[t].at # "idle" PROVE Entries(term[t].cfg.allow) \subseteq Dir \cup Name
      <3>1. term[t].cfg \in Cfg(ids)
        BY <2>1, <2>2 DEF OkTerm
      <3>2. term[t].cfg.allow \in Seq(Entry)
        BY <1>1, <3>1, CfgIs
      <3>. QED BY <3>2, EntriesAre
    <2>. QED BY <2>1, <2>2 DEF OkTerm, Open
  <1>4. Entries(observer.allow) \subseteq Dir \cup Name
    <2>1. observer.allow \in Seq(Entry)
      BY <1>1 DEF Typed
    <2>. QED BY <2>1, EntriesAre
  <1>. QED BY <1>1, <1>2, <1>3, <1>4 DEF TypeOK, Typed, Kinv

LEMMA KinvCursor == Kinv => CursorOnScreen
  BY DEF Kinv, Terms, OkTerm, Open, OnScreen, CursorOnScreen

LEMMA KinvSaved == Kinv => SavedAsAsked
  <1>. SUFFICES ASSUME Kinv PROVE SavedAsAsked
    OBVIOUS
  <1>1. Sound(asked, config.allow)
    BY DEF Kinv
  <1>2. ASSUME Picked
        PROVE  /\ asked.before \in Seq(Entry) /\ RowsOf(asked.rows, asked.before)
               /\ config.allow = Selected(asked.rows) /\ asked.rows \in Seq(Row)
    <2>1. asked.how = "pick"
      BY <1>2 DEF Picked
    <2>. QED BY <1>1, <2>1, NoAskIs DEF Sound, RowsOf
  <1>3. ASSUME Picked, NEW i \in DOMAIN asked.rows
        PROVE  LET row == asked.rows[i] IN
               IF row.repo = NoDir THEN row.selected => row.entry \in Range(config.allow)
               ELSE IF row.selected THEN Allowed(row.repo, config.allow)
               ELSE Allowed(row.repo, config.allow) => Twin(row)
    <2>. DEFINE rows == asked.rows
    <2>1. rows[i].repo \in Dir \cup {NoDir}
      <3>1. rows[i] \in Row
        BY <1>2, <1>3
      <3>. QED BY <3>1 DEF Row
    <2>2. /\ rows[i].repo = NoDir /\ rows[i].selected => rows[i].entry \in Range(Selected(rows))
          /\ rows[i].repo \in Dir /\ rows[i].selected => Matches(rows[i].repo, Selected(rows))
          /\ rows[i].repo \in Dir /\ ~rows[i].selected /\ Allowed(rows[i].repo, Selected(rows)) =>
                \E j \in DOMAIN rows : /\ rows[j].selected /\ rows[j].label # rows[i].label
                                       /\ Lower[rows[j].label] = Lower[rows[i].label]
      BY <1>2, <1>3, WrittenAsTicked
    <2>3. config.allow = Selected(rows)
      BY <1>2, <1>3
    <2>. QED BY <2>1, <2>2, <2>3, Zenon DEF Allowed, Twin
  <1>4. ASSUME Picked, NEW e \in Entries(asked.before)
        PROVE  \/ \E i \in DOMAIN asked.rows : asked.rows[i].repo = NoDir /\ asked.rows[i].entry = e
               \/ \E i \in DOMAIN asked.rows : asked.rows[i].repo # NoDir /\ Allowed(asked.rows[i].repo, <<e>>)
    <2>1. NoDir \notin Dir
      BY WorkspacesAssumption
    <2>2. \/ \E i \in DOMAIN asked.rows : asked.rows[i].repo = NoDir /\ asked.rows[i].entry = e
          \/ \E i \in DOMAIN asked.rows : asked.rows[i].repo \in Dir /\ Allowed(asked.rows[i].repo, <<e>>)
      BY <1>2, <1>4, Zenon DEF RowsOf
    <2>. QED BY <2>1, <2>2
  <1>5. ASSUME asked.how = "flags", asked.flags.allow = Absent, NEW d \in Dir
        PROVE  Matches(d, config.allow) <=>
                 \/ Matches(d, asked.flags.add)
                 \/ \E e \in Entries(asked.before) :
                      Names(e, d) /\ Lower[e] \notin {Lower[x] : x \in Entries(asked.flags.drop)}
    <2>1. /\ asked.before \in Seq(Entry) /\ asked.flags \in Flags
          /\ config.allow = NextAllow(asked.before, asked.flags) /\ config.allow # Absent
      BY <1>1, <1>5, NoAskIs DEF Sound
    <2>2. config.allow = MergeAllow(asked.before, asked.flags)
      BY <1>5, <2>1 DEF NextAllow
    <2>3. asked.flags.add \in Seq(Entry)
      BY <2>1, ConfigureAssumption
    <2>4. Matches(d, MergeAllow(asked.before, asked.flags)) <=>
            \/ Matches(d, asked.flags.add)
            \/ \E e \in Remaining(asked.before, asked.flags) : Names(e, d)
      BY <2>1, <2>3, MergeMatches
    <2>. QED BY <2>2, <2>4, Zenon DEF Remaining
  <1>. QED BY <1>3, <1>4, <1>5, Zenon DEF SavedAsAsked

\* Whatever commands, keys, hand edits and kills there are, config.toml, the
\* terminals and the observer hold what they can hold (main.rs, config.rs).
THEOREM ConfigureTypeCorrect == Spec => []TypeOK
  BY Invariant, KinvType, PTL

\* However many rows there are and whatever is typed, erased and moved, the cursor
\* is on a row of the window (picker.rs, clamp).
THEOREM CursorStaysOnScreen == Spec => []CursorOnScreen
  BY Invariant, KinvCursor, PTL

\* A saved picker writes what was ticked and drops no entry it had no box for; the
\* flags change no other entry (main.rs, configure; picker.rs, build_choices).
THEOREM SavesWhatWasAsked == Spec => []SavedAsAsked
  BY Invariant, KinvSaved, PTL

-----------------------------------------------------------------------------
(* The way up from a directory: Upward is defined by recursion on directories, *)
(* of which none is above itself.                                              *)

Stop(d) == HasMarker(d) \/ Parent[d] = NoDir

IsPath(p, d) ==
  /\ p \in Seq(Dir) /\ p # <<>> /\ p[1] = d /\ Stop(p[Len(p)])
  /\ \A i \in 1..Len(p) - 1 : ~Stop(p[i]) /\ p[i + 1] = Parent[p[i]]

LEMMA ParentIs == ASSUME NEW d \in Dir, ~Stop(d) PROVE Parent[d] \in Dir
  BY WorkspacesAssumption DEF Stop

LEMMA SameSeq ==
  ASSUME NEW T, NEW s \in Seq(T), NEW t \in Seq(T), Len(s) = Len(t), \A i \in 1..Len(t) : s[i] = t[i]
  PROVE  t = s
  OBVIOUS

LEMMA PathEnds == ASSUME NEW d \in Dir, Stop(d) PROVE IsPath(<<d>>, d) /\ \A p : IsPath(p, d) => p = <<d>>
  <1>1. IsPath(<<d>>, d)
    BY DEF IsPath
  <1>2. ASSUME NEW p, IsPath(p, d) PROVE p = <<d>>
    <2>1. p \in Seq(Dir) /\ p # <<>> /\ p[1] = d /\ \A i \in 1..Len(p) - 1 : ~Stop(p[i])
      BY <1>2 DEF IsPath
    <2>2. 1 \notin 1..Len(p) - 1
      BY <2>1
    <2>3. Len(p) \in Nat /\ Len(p) # 0
      BY <2>1
    <2>4. Len(p) = 1
      <3>1. \A n \in Nat : n # 0 /\ 1 \notin 1..n - 1 => n = 1
        OBVIOUS
      <3>. QED BY <2>2, <2>3, <3>1
    <2>5. p = <<p[1]>>
      BY <2>1, <2>4
    <2>. QED BY <2>1, <2>5
  <1>. QED BY <1>1, <1>2

LEMMA PathGoesOn ==
  ASSUME NEW d \in Dir, ~Stop(d)
  PROVE  /\ \A q : IsPath(q, Parent[d]) => IsPath(<<d>> \o q, d)
         /\ \A p : IsPath(p, d) => IsPath(Tail(p), Parent[d]) /\ p = <<d>> \o Tail(p)
  <1>1. ASSUME NEW q, IsPath(q, Parent[d]) PROVE IsPath(<<d>> \o q, d)
    <2>1. /\ q \in Seq(Dir) /\ q # <<>> /\ q[1] = Parent[d] /\ Stop(q[Len(q)])
          /\ \A i \in 1..Len(q) - 1 : ~Stop(q[i]) /\ q[i + 1] = Parent[q[i]]
      BY <1>1 DEF IsPath
    <2>. DEFINE p == <<d>> \o q
    <2>2. /\ p \in Seq(Dir) /\ p # <<>> /\ Len(p) = Len(q) + 1 /\ Len(q) \in Nat /\ Len(q) >= 1
          /\ p[1] = d /\ \A i \in 1..Len(q) : p[i + 1] = q[i]
      BY <2>1
    <2>. HIDE DEF p
    <2>3. Stop(p[Len(p)])
      BY <2>1, <2>2
    <2>4. ASSUME NEW i \in 1..Len(p) - 1 PROVE ~Stop(p[i]) /\ p[i + 1] = Parent[p[i]]
      <3>1. CASE i = 1
        BY <2>1, <2>2, <3>1
      <3>2. CASE i # 1
        <4>1. i - 1 \in 1..Len(q) - 1 /\ (i - 1) + 1 = i /\ i \in 1..Len(q) /\ i - 1 \in 1..Len(q)
          BY <2>2, <3>2
        <4>2. p[i] = q[i - 1] /\ p[i + 1] = q[i] /\ ~Stop(q[i - 1]) /\ q[i] = Parent[q[i - 1]]
          BY <2>1, <2>2, <4>1
        <4>. QED BY <4>2
      <3>. QED BY <3>1, <3>2
    <2>. QED BY <2>2, <2>3, <2>4 DEF IsPath, p
  <1>2. ASSUME NEW p, IsPath(p, d) PROVE IsPath(Tail(p), Parent[d]) /\ p = <<d>> \o Tail(p)
    <2>1. /\ p \in Seq(Dir) /\ p # <<>> /\ p[1] = d /\ Stop(p[Len(p)])
          /\ \A i \in 1..Len(p) - 1 : ~Stop(p[i]) /\ p[i + 1] = Parent[p[i]]
      BY <1>2 DEF IsPath
    <2>2. Len(p) \in Nat /\ Len(p) > 1
      <3>1. Len(p) \in Nat /\ Len(p) # 0
        BY <2>1
      <3>. QED BY <2>1, <3>1
    <2>. DEFINE q == Tail(p)
    <2>3. q \in Seq(Dir) /\ Len(q) = Len(p) - 1 /\ \A i \in 1..Len(p) - 1 : q[i] = p[i + 1]
      BY <2>1, <2>2
    <2>. HIDE DEF q
    <2>4. q[1] = Parent[d] /\ q # <<>>
      BY <2>1, <2>2, <2>3
    <2>5. Stop(q[Len(q)])
      BY <2>1, <2>2, <2>3
    <2>6. ASSUME NEW i \in 1..Len(q) - 1 PROVE ~Stop(q[i]) /\ q[i + 1] = Parent[q[i]]
      <3>1. i + 1 \in 1..Len(p) - 1 /\ i \in 1..Len(p) - 1
        BY <2>2, <2>3
      <3>. QED BY <2>1, <2>3, <3>1
    <2>7. p = <<d>> \o q
      <3>1. <<d>> \o q \in Seq(Dir) /\ Len(<<d>> \o q) = Len(p)
            /\ \A i \in 1..Len(p) : (<<d>> \o q)[i] = p[i]
        BY <2>1, <2>2, <2>3
      <3>. HIDE DEF q
      <3>. QED BY <2>1, <3>1, SameSeq, Zenon
    <2>. QED BY <2>3, <2>4, <2>5, <2>6, <2>7 DEF IsPath, q
  <1>. QED BY <1>1, <1>2

LEMMA OnePath ==
  ASSUME NEW d \in Dir
  PROVE  \E p : IsPath(p, d) /\ \A q : IsPath(q, d) => q = p
  <1>. DEFINE bad == {e \in Dir : ~\E p : IsPath(p, e) /\ \A q : IsPath(q, e) => q = p}
  <1>. SUFFICES ASSUME bad # {} PROVE FALSE
    OBVIOUS
  <1>1. PICK e \in bad : Parent[e] \notin bad
    <2>1. bad \in (SUBSET Dir) \ {{}}
      OBVIOUS
    <2>. HIDE DEF bad
    <2>. QED BY <2>1, WorkspacesAssumption
  <1>2. e \in Dir
    OBVIOUS
  <1>3. CASE Stop(e)
    BY <1>2, <1>3, PathEnds
  <1>4. CASE ~Stop(e)
    <2>1. PICK p : IsPath(p, Parent[e]) /\ \A q : IsPath(q, Parent[e]) => q = p
      BY <1>1, <1>2, <1>4, ParentIs
    <2>2. IsPath(<<e>> \o p, e)
      BY <1>2, <1>4, <2>1, PathGoesOn
    <2>3. \A q : IsPath(q, e) => q = <<e>> \o p
      BY <1>2, <1>4, <2>1, PathGoesOn
    <2>. QED BY <2>2, <2>3
  <1>. QED BY <1>3, <1>4

LEMMA UpwardIs ==
  ASSUME NEW d \in Dir
  PROVE  /\ Upward[d] \in Seq(Dir) /\ Upward[d] # <<>>
         /\ HasMarker(d) => Upward[d] = <<d>>
  <1>. DEFINE f == [e \in Dir |-> CHOOSE p : IsPath(p, e)]
  <1>1. \A e \in Dir : IsPath(f[e], e) /\ \A q : IsPath(q, e) => q = f[e]
    <2>. TAKE e \in Dir
    <2>1. f[e] = CHOOSE p : IsPath(p, e)
      OBVIOUS
    <2>. QED BY <2>1, OnePath, Zenon
  <1>2. \A e \in Dir : f[e] = IF HasMarker(e) \/ Parent[e] = NoDir THEN <<e>> ELSE <<e>> \o f[Parent[e]]
    <2>. TAKE e \in Dir
    <2>. HIDE DEF f
    <2>1. CASE Stop(e)
      BY <1>1, <2>1, PathEnds DEF Stop
    <2>2. CASE ~Stop(e)
      <3>1. IsPath(<<e>> \o f[Parent[e]], e)
        BY <1>1, <2>2, ParentIs, PathGoesOn
      <3>. QED BY <1>1, <2>2, <3>1 DEF Stop
    <2>. QED BY <2>1, <2>2
  <1>3. f = [e \in Dir |-> IF HasMarker(e) \/ Parent[e] = NoDir THEN <<e>> ELSE <<e>> \o f[Parent[e]]]
    <2>. DEFINE g == [e \in Dir |-> IF HasMarker(e) \/ Parent[e] = NoDir THEN <<e>> ELSE <<e>> \o f[Parent[e]]]
    <2>1. DOMAIN f = Dir /\ DOMAIN g = Dir /\ \A e \in Dir : f[e] = g[e]
      BY <1>2
    <2>2. f = [e \in Dir |-> f[e]] /\ g = [e \in Dir |-> g[e]]
      OBVIOUS
    <2>. HIDE DEF f, g
    <2>3. f = g
      BY <2>1, <2>2
    <2>. QED BY <2>3 DEF g
  <1>. HIDE DEF f
  <1>4. Upward = [e \in Dir |-> IF HasMarker(e) \/ Parent[e] = NoDir THEN <<e>> ELSE <<e>> \o Upward[Parent[e]]]
    BY <1>3, Zenon DEF Upward
  <1>5. \A e \in Dir : Upward[e] = IF Stop(e) THEN <<e>> ELSE <<e>> \o Upward[Parent[e]]
    BY <1>4, Zenon DEF Stop
  <1>. DEFINE bad == {e \in Dir : ~(Upward[e] \in Seq(Dir) /\ Upward[e] # <<>>)}
  <1>6. bad = {}
    <2>. SUFFICES ASSUME bad # {} PROVE FALSE
      OBVIOUS
    <2>1. PICK e \in bad : Parent[e] \notin bad
      <3>1. bad \in (SUBSET Dir) \ {{}}
        OBVIOUS
      <3>. HIDE DEF bad
      <3>. QED BY <3>1, WorkspacesAssumption
    <2>2. e \in Dir /\ Upward[e] = IF Stop(e) THEN <<e>> ELSE <<e>> \o Upward[Parent[e]]
      BY <1>5
    <2>3. CASE Stop(e)
      <3>1. <<e>> \in Seq(Dir) /\ <<e>> # <<>>
        BY <2>2
      <3>. QED BY <2>2, <2>3, <3>1
    <2>4. CASE ~Stop(e)
      <3>1. Upward[Parent[e]] \in Seq(Dir)
        BY <2>1, <2>2, <2>4, ParentIs
      <3>2. <<e>> \o Upward[Parent[e]] \in Seq(Dir) /\ <<e>> \o Upward[Parent[e]] # <<>>
        BY <2>2, <3>1
      <3>. QED BY <2>2, <2>4, <3>2
    <2>. QED BY <2>3, <2>4
  <1>7. HasMarker(d) => Upward[d] = <<d>>
    BY <1>5 DEF Stop
  <1>. QED BY <1>6, <1>7

-----------------------------------------------------------------------------
(* The file that serves a directory *)

LEMMA AscentIs ==
  ASSUME NEW w \in Dir
  PROVE  /\ Ascent(w) \in Seq(Dir) /\ Ascent(w) # <<>>
         /\ HasMarker(w) => w \notin Gone /\ Ascent(w) = <<w>>
  <1>1. HasMarker(w) => w \notin Gone
    BY WorkspacesAssumption DEF HasMarker
  <1>2. Parent[w] # NoDir => Parent[w] \in Dir
    BY WorkspacesAssumption
  <1>. QED BY <1>1, <1>2, UpwardIs DEF Ascent

LEMMA NearestIs ==
  ASSUME NEW w \in Dir
  PROVE  /\ Nearest(w) # NoDir => Nearest(w) \in Dir /\ SelectFile(Nearest(w)) # Absent
         /\ HasMarker(w) => Nearest(w) = IF SelectFile(w) # Absent THEN w ELSE NoDir
  <1>. DEFINE path == Ascent(w)
              hits == {i \in DOMAIN path : SelectFile(path[i]) # Absent}
  <1>1. Nearest(w) = IF hits = {} THEN NoDir ELSE path[CHOOSE i \in hits : \A j \in hits : i <= j]
    BY Zenon DEF Nearest
  <1>2. path \in Seq(Dir) /\ DOMAIN path = 1..Len(path) /\ Len(path) \in Nat
    BY AscentIs
  <1>. HIDE DEF path
  <1>3. ASSUME hits # {}
        PROVE  \E i \in hits : Nearest(w) = path[i]
    <2>1. hits \subseteq Nat
      BY <1>2
    <2>2. \E i \in hits : \A j \in hits : i <= j
      BY <1>3, <2>1, Smallest
    <2>. DEFINE k == CHOOSE i \in hits : \A j \in hits : i <= j
    <2>3. k \in hits
      BY <2>2, Zenon
    <2>4. Nearest(w) = path[k]
      BY <1>1, <1>3, Zenon
    <2>. QED BY <2>3, <2>4, Zenon
  <1>4. ASSUME Nearest(w) # NoDir PROVE Nearest(w) \in Dir /\ SelectFile(Nearest(w)) # Absent
    <2>1. hits # {}
      BY <1>1, <1>4, Zenon
    <2>2. PICK i \in hits : Nearest(w) = path[i]
      BY <1>3, <2>1
    <2>. QED BY <1>2, <2>2
  <1>5. ASSUME HasMarker(w) PROVE Nearest(w) = IF SelectFile(w) # Absent THEN w ELSE NoDir
    <2>1. path = <<w>>
      BY <1>5, AscentIs DEF path
    <2>2. DOMAIN path = {1} /\ path[1] = w
      BY <2>1
    <2>3. CASE SelectFile(w) # Absent
      <3>1. 1 \in hits
        BY <2>2, <2>3
      <3>2. PICK i \in hits : Nearest(w) = path[i]
        BY <1>3, <3>1
      <3>. QED BY <2>2, <2>3, <3>2
    <2>4. CASE SelectFile(w) = Absent
      <3>1. hits = {}
        BY <2>2, <2>4
      <3>. QED BY <1>1, <2>4, <3>1, Zenon
    <2>. QED BY <2>3, <2>4
  <1>. QED BY <1>4, <1>5

LEMMA LoadedKinds ==
  ASSUME NEW c
  PROVE  /\ Loaded(c) # Absent /\ (Loaded(c) = Conflict <=> ~Usable(c))
  <1>1. /\ Absent # Conflict /\ Conflict \notin [origin : Origin, key : Key]
        /\ Absent \notin [origin : Origin, key : Key]
    BY WorkspacesAssumption
  <1>2. ASSUME Usable(c) PROVE Loaded(c) \in [origin : Origin, key : Key]
    <2>1. c \in Content /\ c.url \in Origin /\ c.key # Blank
      BY <1>2 DEF Usable
    <2>2. c.key \in Key
      BY <2>1 DEF Content
    <2>3. Loaded(c) = [origin |-> c.url, key |-> c.key]
      BY <1>2 DEF Loaded
    <2>. QED BY <2>1, <2>2, <2>3
  <1>3. ~Usable(c) => Loaded(c) = Conflict
    BY DEF Loaded
  <1>. QED BY <1>1, <1>2, <1>3

\* A directory with a marker is served by its own file.
LEMMA MarkedIs == ASSUME NEW w \in Dir, HasMarker(w) PROVE WithinRepo(w) = SelectFile(w)
  <1>1. Nearest(w) = IF SelectFile(w) # Absent THEN w ELSE NoDir
    BY NearestIs
  <1>2. Ascent(w) = <<w>>
    BY AscentIs
  <1>3. <<w>>[Len(<<w>>)] = w /\ w # NoDir
    BY WorkspacesAssumption
  <1>. QED BY <1>1, <1>2, <1>3 DEF WithinRepo

\* What serves a primary checkout serves its worktrees, or they have their own.
LEMMA WorktreeIsServed ==
  ASSUME NEW w \in Dir, Linked(w), Resolve(Git[w]) # Absent
  PROVE  Resolve(w) # Absent
  <1>. DEFINE p == Git[w]
  <1>1. p \in Dir /\ Git[p] = "dir" /\ "dir" \notin Dir /\ p # "malformed" /\ "dir" # "none"
    <2>1. p \in Dir
      BY DEF Linked
    <2>2. Marker \cap Dir = {} /\ "dir" \in Marker /\ "malformed" \in Marker
      BY WorkspacesAssumption DEF Marker
    <2>3. Git[w] \in Marker \/ (Git[w] \in Dir \ {w} /\ Git[Git[w]] = "dir")
      BY WorkspacesAssumption
    <2>. QED BY <2>1, <2>2, <2>3
  <1>2. HasMarker(p) /\ ~Linked(p) /\ p \in Dir
    BY <1>1 DEF HasMarker, Linked
  <1>3. WithinRepo(p) = SelectFile(p)
    BY <1>2, MarkedIs
  <1>4. SelectFile(p) # Absent
    <2>1. ASSUME SelectFile(p) = Absent PROVE Resolve(p) = Absent
      BY <1>1, <1>2, <1>3, <2>1 DEF Resolve
    <2>. QED BY <2>1
  <1>. QED BY <1>1, <1>4, LoadedKinds DEF Resolve

LEMMA WhyIsIt ==
  ASSUME Kinv, NEW d \in Range(Repos), Blocked(d), ~Misdiagnosed(d)
  PROVE  Reason(d) = Fault(WithinRepo(d))
  <1>1. d \in Dir /\ ~Linked(d) /\ Resolve(d) = Conflict /\ files \in [Dir -> EnvFiles] /\ Absent # Conflict
    BY ReposFacts, WorkspacesAssumption DEF Blocked, Kinv, Typed
  <1>. DEFINE at == Nearest(d)
              f == files[at]
  <1>2. CASE at = NoDir
    <2>1. WithinRepo(d) = Absent
      BY <1>2 DEF WithinRepo
    <2>2. Git[d] = "malformed"
      BY <1>1, <2>1 DEF Resolve
    <2>. QED BY <2>1, <2>2 DEF Misdiagnosed
  <1>3. CASE at # NoDir
    <2>1. /\ at \in Dir /\ SelectFile(at) # Absent
          /\ f.canonical \in Content \cup {Absent} /\ f.dotted \in Content \cup {Absent}
      <3>1. at \in Dir /\ SelectFile(at) # Absent
        BY <1>1, <1>3, NearestIs
      <3>2. f \in EnvFiles
        BY <1>1, <3>1
      <3>. QED BY <3>1, <3>2 DEF EnvFiles
    <2>2. WithinRepo(d) # Absent
      <3>1. ASSUME WithinRepo(d) = Absent PROVE FALSE
        <4>1. Git[d] = "malformed"
          BY <1>1, <3>1 DEF Resolve
        <4>2. HasMarker(d)
          BY <4>1 DEF HasMarker
        <4>3. SelectFile(d) = Absent
          BY <1>1, <3>1, <4>2, MarkedIs
        <4>. QED BY <1>1, <1>3, <4>2, <4>3, NearestIs
      <3>. QED BY <3>1
    <2>3. WithinRepo(d) = SelectFile(at)
      BY <1>3, <2>2 DEF WithinRepo
    <2>4. ~Usable(SelectFile(at))
      <3>1. Resolve(d) = Loaded(SelectFile(at))
        BY <2>2, <2>3 DEF Resolve
      <3>. QED BY <1>1, <3>1, LoadedKinds
    <2>. HIDE DEF at, f
    <2>5. CASE Absent \notin {f.canonical, f.dotted}
      <3>1. Reason(d) = "disagree"
        BY <1>3, <2>5 DEF Reason, at, f
      <3>2. f.dotted # f.canonical
        BY <1>3 DEF Misdiagnosed, at, f
      <3>3. SelectFile(at) = Conflict
        BY <2>5, <3>2 DEF SelectFile, f
      <3>. QED BY <2>3, <3>1, <3>3 DEF Fault
    <2>6. CASE Absent \in {f.canonical, f.dotted}
      <3>. DEFINE c == Asked(d)
      <3>1. SelectFile(at) = c
        BY <2>6 DEF SelectFile, Asked, at, f
      <3>2. c \in Content /\ ~Usable(c) /\ WithinRepo(d) = c
        <4>1. SelectFile(at) \in {f.canonical, f.dotted}
          BY <2>6 DEF SelectFile, f
        <4>. QED BY <2>1, <2>3, <2>4, <3>1, <4>1
      <3>. HIDE DEF c
      <3>3. Reason(d) = IF Blank \in {c.url, c.key} THEN "missing"
                        ELSE IF c.url \notin Origin THEN "origin" ELSE "unusable"
        BY <1>3, <2>6, Zenon DEF Reason, at, f, c
      <3>4. c # Conflict
        BY <3>2, WorkspacesAssumption
      <3>5. Fault(WithinRepo(d)) = IF Blank \in {c.url, c.key} THEN "missing" ELSE "origin"
        BY <3>2, <3>4 DEF Fault
      <3>6. Blank \notin {c.url, c.key} => c.url \notin Origin
        BY <3>2 DEF Usable
      <3>. QED BY <3>3, <3>5, <3>6
    <2>. QED BY <2>5, <2>6
  <1>. QED BY <1>2, <1>3

LEMMA KinvBlocked == Kinv => BlockedSaysWhy
  BY WhyIsIt, Zenon DEF BlockedSaysWhy

\* Whatever files people write, a repository that cannot upload is listed with what is
\* wrong with the file that resolve rejects (destination.rs, diagnose), unless it has two
\* files that agree, or a malformed .git and no file.
THEOREM BlockedIsExplained == Spec => []BlockedSaysWhy
  BY Invariant, KinvBlocked, PTL

-----------------------------------------------------------------------------
(* From the ticks to the queue *)

\* The list a picker wrote names a directory by the row of an entry.
LEMMA NamedByRow ==
  ASSUME NEW rows, NEW list, RowsOf(rows, list), list \in Seq(Entry),
         NEW w \in Dir, NEW i \in DOMAIN rows, rows[i].repo = Standing(w),
         Allowed(w, Selected(rows))
  PROVE  \/ rows[i].selected
         \/ \E j \in DOMAIN rows : /\ rows[j].selected
                                   /\ Lower[rows[j].label] \in {Lower[Leaf[w]], Lower[rows[i].label]}
  <1>1. /\ rows \in Seq(Row) /\ DOMAIN rows = 1..Len(rows)
        /\ \A j \in DOMAIN rows : rows[j] \in Row
    <2>1. rows \in Seq(Row)
      BY DEF RowsOf
    <2>. QED BY <2>1
  <1>2. Entries(Selected(rows)) \subseteq {rows[j].entry : j \in {k \in DOMAIN rows : rows[k].selected}}
    BY <1>1, SelectedFacts DEF Entries
  <1>. DEFINE s == Standing(w)
  <1>3. s \in Dir /\ rows[i].label = Leaf[s] /\ (Linked(w) => s = Git[w]) /\ (~Linked(w) => s = w)
    <2>1. s \in Dir
      BY DEF Standing, Linked
    <2>2. rows[i].label = Leaf[rows[i].repo]
      BY <2>1, Zenon DEF RowsOf
    <2>. QED BY <2>1, <2>2 DEF Standing
  <1>4. PICK j \in DOMAIN rows : rows[j].selected /\ (Names(rows[j].entry, w) \/ Names(rows[j].entry, s))
    <2>1. \E e \in Entries(Selected(rows)) : Names(e, w) \/ Names(e, s)
      BY <1>3, Zenon DEF Allowed, Matches
    <2>. QED BY <1>2, <2>1
  <1>. HIDE DEF s
  <1>5. rows[j].repo \in Dir \cup {NoDir} /\ rows[j].entry \in Dir \cup Name /\ NoDir \notin Dir
        /\ \A d \in Dir : Leaf[d] \in Name /\ Leaf[d] \notin Dir
    BY <1>1, WorkspacesAssumption DEF Row
  <1>6. CASE rows[j].repo \in Dir
    <2>. DEFINE o == rows[j].repo
    <2>1. rows[j].label = Leaf[o] /\ ~Linked(o) /\ rows[j].entry \in {o, Leaf[o]}
          /\ \A k \in DOMAIN rows : rows[k].repo = o => k = j
      BY <1>6, Zenon DEF RowsOf
    <2>2. CASE rows[j].entry = o
      <3>1. o = w \/ o = s
        BY <1>4, <1>6, <2>2 DEF Names
      <3>2. o = s
        BY <1>3, <2>1, <3>1
      <3>. QED BY <1>4, <2>1, <3>2 DEF s
    <2>3. CASE rows[j].entry = Leaf[o]
      BY <1>3, <1>4, <1>5, <1>6, <2>1, <2>3 DEF Names
    <2>. QED BY <2>1, <2>2, <2>3
  <1>7. CASE rows[j].repo = NoDir
    <2>1. rows[j].label = Label(rows[j].entry)
      BY <1>7, Zenon DEF RowsOf
    <2>2. CASE rows[j].entry \in Dir
      <3>1. rows[j].entry = w \/ rows[j].entry = s
        BY <1>4, <2>2 DEF Names
      <3>2. rows[j].label = Leaf[rows[j].entry]
        BY <2>1, <2>2 DEF Label
      <3>. QED BY <1>3, <1>4, <3>1, <3>2
    <2>3. CASE rows[j].entry \notin Dir
      <3>1. rows[j].label = rows[j].entry
        BY <2>1, <2>3 DEF Label
      <3>. QED BY <1>3, <1>4, <2>3, <3>1 DEF Names
    <2>. QED BY <2>2, <2>3
  <1>. QED BY <1>5, <1>6, <1>7

LEMMA KinvTicked == Kinv => TickedIsSent
  <1>. SUFFICES ASSUME Kinv, Picked, NEW chat \in Chat, NEW i \in DOMAIN asked.rows,
                       WorkspaceOf(chat) \in Dir, asked.rows[i].repo = Standing(WorkspaceOf(chat))
                PROVE  LET w == WorkspaceOf(chat)
                           row == asked.rows[i]
                       IN /\ row.selected => Decision(chat, config.allow) = IF Blocked(w) THEN "hold" ELSE "send"
                          /\ Decision(chat, config.allow) = "send" =>
                               \/ row.selected
                               \/ \E j \in DOMAIN asked.rows :
                                    /\ asked.rows[j].selected
                                    /\ Lower[asked.rows[j].label] \in {Lower[Leaf[w]], Lower[row.label]}
    BY DEF TickedIsSent
  <1>. DEFINE w == WorkspaceOf(chat)
              rows == asked.rows
  <1>1. /\ asked.before \in Seq(Entry) /\ RowsOf(rows, asked.before)
        /\ config.allow = Selected(rows) /\ Listed(rows, asked.files) /\ asked.files = files
    <2>1. asked.how = "pick" /\ asked.files = files /\ Sound(asked, config.allow)
      BY DEF Picked, Kinv
    <2>. QED BY <2>1, NoAskIs DEF Sound
  <1>2. w \in Dir /\ w # Conflict /\ w # NoDir
    BY WorkspacesAssumption
  <1>. HIDE DEF w
  <1>3. Standing(w) \in Dir /\ rows[i].repo = Standing(w)
    BY <1>2 DEF Standing, Linked, w
  <1>4. Resolve(Standing(w)) # Absent
    <2>1. Then(asked.files)!Resolve(rows[i].repo) # Absent
      BY <1>1, <1>3 DEF Listed
    <2>2. Then(asked.files)!Resolve(rows[i].repo) = Resolve(rows[i].repo)
      BY <1>1, ThenIsNow
    <2>. QED BY <1>3, <2>1, <2>2
  <1>5. Resolve(w) # Absent
    BY <1>2, <1>4, WorktreeIsServed DEF Standing
  <1>6. ASSUME rows[i].selected PROVE Allowed(w, config.allow)
    <2>1. Matches(Standing(w), config.allow)
      BY <1>1, <1>3, <1>6, WrittenAsTicked
    <2>. QED BY <2>1, Zenon DEF Allowed, Standing
  <1>7. Decision(chat, config.allow) =
          IF ~Allowed(w, config.allow) THEN "skip" ELSE IF Blocked(w) THEN "hold" ELSE "send"
    BY <1>2, <1>5 DEF Decision, Blocked, w
  <1>8. ASSUME Decision(chat, config.allow) = "send"
        PROVE  \/ rows[i].selected
               \/ \E j \in DOMAIN rows : /\ rows[j].selected
                                         /\ Lower[rows[j].label] \in {Lower[Leaf[w]], Lower[rows[i].label]}
    <2>1. Allowed(w, Selected(rows))
      BY <1>1, <1>7, <1>8
    <2>. QED BY <1>1, <1>2, <1>3, <2>1, NamedByRow
  <1>. QED BY <1>6, <1>7, <1>8, Zenon DEF w

\* A ticked repository's chats are queued, or held while its file is broken; and
\* nothing is queued unless a ticked row has its name, for any tree of directories
\* and worktrees, any list to begin with and any keys (main.rs, capture.rs).
THEOREM TickedIsDelivered == Spec => []TickedIsSent
  BY Invariant, KinvTicked, PTL
=============================================================================
