----------------------------- MODULE InboxProofs -----------------------------
(***************************************************************************)
(* What the inbox keeps, for any records, keys, files, requests and        *)
(* clients, however many writes fail and processes die.                    *)
(***************************************************************************)
EXTENDS Inbox, SequenceTheorems, FiniteSetTheorems, WellFoundedInduction, TLAPS

-----------------------------------------------------------------------------
\* A set of numbers that is not empty has a least one.
LEMMA LeastOf ==
  ASSUME NEW T, T \subseteq Nat, T # {}
  PROVE  \E x \in T : \A y \in T : x <= y
  <1>. DEFINE R == OpToRel(<, Nat)
  <1>1. \A x, y \in Nat : <<x, y>> \in R <=> x < y
    BY DEF OpToRel
  <1>2. IsWellFoundedOn(R, Nat)
    BY NatLessThanWellFounded
  <1>. HIDE DEF R
  <1>3. PICK x \in T : \A y \in T : ~ (<<y, x>> \in R)
    BY <1>2, WFMin
  <1>4. ASSUME NEW y \in T PROVE x <= y
    <2>1. x \in Nat /\ y \in Nat
      OBVIOUS
    <2>2. ~ (<<y, x>> \in R)
      BY <1>3
    <2>3. ~ (y < x)
      BY <1>1, <2>1, <2>2, Zenon
    <2>. QED BY <2>1, <2>3
  <1>. QED BY <1>3, <1>4

-----------------------------------------------------------------------------
(* Lines and what is left of a batch *)

Line == Seq(Piece) \ {<<>>}

LineTypes ==
  /\ lines \in [File -> Seq(Line)]
  /\ torn \subseteq {f \in File : lines[f] # <<>>}

LEMMA AppendedLine ==
  ASSUME NEW l \in Line, NEW piece \in Piece
  PROVE  /\ Append(l, piece) \in Line /\ ~Parses(Append(l, piece))
         /\ piece \in ToSet(Append(l, piece)) /\ ToSet(l) \subseteq ToSet(Append(l, piece))
         /\ ToSet(Append(l, piece)) \subseteq ToSet(l) \cup {piece}
  <1>1. l \in Seq(Piece) /\ Len(l) \in Nat \ {0} /\ DOMAIN l = 1..Len(l)
    BY EmptySeq, LenProperties DEF Line
  <1>2. /\ Append(l, piece) \in Seq(Piece) /\ Append(l, piece) # <<>>
        /\ Len(Append(l, piece)) = Len(l) + 1
        /\ \A i \in 1..Len(l) : Append(l, piece)[i] = l[i]
        /\ Append(l, piece)[Len(l) + 1] = piece
    BY <1>1, AppendProperties
  <1>3. DOMAIN Append(l, piece) = 1..Len(l) + 1
    BY <1>2, LenProperties
  <1>4. Len(Append(l, piece)) # 1
    BY <1>1, <1>2
  <1>5. ~Parses(Append(l, piece))
    BY <1>4, Zenon DEF Parses
  <1>. QED BY <1>1, <1>2, <1>3, <1>5 DEF Line, ToSet

\* A file that grows keeps its pieces where they are; a line that can be read
\* is an old one, or the piece alone on a new one.
LEMMA LongerProps ==
  ASSUME LineTypes, NEW f \in File, NEW piece \in Piece
  PROVE  /\ Longer(f, piece) \in Seq(Line) /\ Longer(f, piece) # <<>>
         /\ \A i \in DOMAIN lines[f] :
              i \in DOMAIN Longer(f, piece) /\ ToSet(lines[f][i]) \subseteq ToSet(Longer(f, piece)[i])
         /\ \E i \in DOMAIN Longer(f, piece) : piece \in ToSet(Longer(f, piece)[i])
         /\ \A i \in DOMAIN Longer(f, piece) : Parses(Longer(f, piece)[i]) =>
              \/ i \in DOMAIN lines[f] /\ Longer(f, piece)[i] = lines[f][i]
              \/ i = Len(lines[f]) + 1 /\ i \notin DOMAIN lines[f] /\ Longer(f, piece)[i] = <<piece>>
  <1>. DEFINE l == lines[f]
  <1>0. l \in Seq(Line) /\ Len(l) \in Nat /\ DOMAIN l = 1..Len(l)
    BY LenProperties DEF LineTypes
  <1>1. CASE f \in torn
    <2>. DEFINE n == Len(l)
                e == Append(l[n], piece)
                new == [l EXCEPT ![n] = e]
    <2>1. Longer(f, piece) = new
      BY <1>1 DEF Longer
    <2>2. n \in 1..Len(l)
      BY <1>0, <1>1, EmptySeq DEF LineTypes
    <2>3. e \in Line /\ ~Parses(e) /\ piece \in ToSet(e) /\ ToSet(l[n]) \subseteq ToSet(e)
      BY <1>0, <2>2, ElementOfSeq, AppendedLine
    <2>. HIDE DEF e
    <2>4. /\ new \in Seq(Line) /\ Len(new) = Len(l)
          /\ \A i \in 1..Len(l) : new[i] = IF i = n THEN e ELSE l[i]
      BY <1>0, <2>2, <2>3, ExceptSeq
    <2>5. DOMAIN new = 1..Len(l)
      BY <2>4, LenProperties
    <2>. HIDE DEF new
    <2>7. new # <<>>
      BY <2>2, <2>4, EmptySeq
    <2>8. piece \in ToSet(new[n])
      BY <2>2, <2>3, <2>4
    <2>. HIDE DEF n
    <2>9. ASSUME NEW i \in DOMAIN l PROVE i \in DOMAIN new /\ ToSet(l[i]) \subseteq ToSet(new[i])
      BY <1>0, <2>2, <2>3, <2>4, <2>5
    <2>10. ASSUME NEW i \in DOMAIN new, Parses(new[i]) PROVE i \in DOMAIN l /\ new[i] = l[i]
      BY <1>0, <2>3, <2>4, <2>5, <2>10
    <2>11. n \in DOMAIN new
      BY <2>2, <2>5
    <2>. HIDE DEF l
    <2>12. lines[f] = l
      BY DEF l
    <2>. QED BY <2>1, <2>4, <2>7, <2>8, <2>9, <2>10, <2>11, <2>12
  <1>2. CASE f \notin torn
    <2>. DEFINE new == Append(l, <<piece>>)
    <2>1. Longer(f, piece) = new
      BY <1>2 DEF Longer
    <2>2. <<piece>> \in Line /\ piece \in ToSet(<<piece>>)
      BY DEF Line, ToSet
    <2>3. /\ new \in Seq(Line) /\ new # <<>> /\ Len(new) = Len(l) + 1
          /\ \A i \in 1..Len(l) : new[i] = l[i]
          /\ new[Len(l) + 1] = <<piece>>
      BY <1>0, <2>2, AppendProperties
    <2>4. DOMAIN new = 1..Len(l) + 1
      BY <2>3, LenProperties
    <2>. HIDE DEF new
    <2>5. \A i \in DOMAIN l : i \in DOMAIN new /\ ToSet(l[i]) \subseteq ToSet(new[i])
      BY <1>0, <2>3, <2>4
    <2>6. \E i \in DOMAIN new : piece \in ToSet(new[i])
      <3>1. Len(l) + 1 \in DOMAIN new
        BY <1>0, <2>4
      <3>. QED BY <2>2, <2>3, <3>1, Zenon
    <2>7. ASSUME NEW i \in DOMAIN new
          PROVE  \/ i \in DOMAIN l /\ new[i] = l[i]
                 \/ i = Len(l) + 1 /\ i \notin DOMAIN l /\ new[i] = <<piece>>
      BY <1>0, <2>3, <2>4
    <2>. HIDE DEF l
    <2>8. lines[f] = l
      BY DEF l
    <2>. QED BY <2>1, <2>3, <2>5, <2>6, <2>7, <2>8
  <1>. QED BY <1>1, <1>2

\* What is left is what was left without the record that is done.
LEMMA RestOf ==
  ASSUME NEW s \in Seq(Record), NEW n \in 1..Len(s)
  PROVE  /\ RemoveAt(s, n) \in Seq(Record)
         /\ ToSet(RemoveAt(s, n)) \subseteq ToSet(s)
         /\ \A i \in 1..Len(s) : i # n => s[i] \in ToSet(RemoveAt(s, n))
  <1>. DEFINE a == SubSeq(s, 1, n - 1)
              b == SubSeq(s, n + 1, Len(s))
              m == Len(s)
  <1>0. m \in Nat /\ n \in 1..m /\ DOMAIN s = 1..m /\ \A i \in 1..m : s[i] \in Record
    BY LenProperties, ElementOfSeq
  <1>1. a \in Seq(Record) /\ Len(a) = n - 1 /\ \A i \in 1..n - 1 : a[i] = s[i]
    BY <1>0, SubSeqProperties
  <1>. HIDE DEF m
  <1>2. b \in Seq(Record) /\ Len(b) = m - n /\ \A i \in 1..m - n : b[i] = s[n + i]
    <2>1. n + 1 \in Int /\ m \in Int /\ \A i \in n + 1..m : s[i] \in Record
      BY <1>0
    <2>2. /\ SubSeq(s, n + 1, m) \in Seq(Record)
          /\ Len(SubSeq(s, n + 1, m)) = IF n + 1 <= m THEN m - (n + 1) + 1 ELSE 0
          /\ \A i \in 1..m - (n + 1) + 1 : SubSeq(s, n + 1, m)[i] = s[n + 1 + i - 1]
      BY <2>1, SubSeqProperties
    <2>3. b = SubSeq(s, n + 1, m)
      BY DEF m
    <2>. HIDE DEF b
    <2>4. m - (n + 1) + 1 = m - n /\ \A i \in 1..m - n : n + 1 + i - 1 = n + i
      BY <1>0
    <2>. QED BY <1>0, <2>2, <2>3, <2>4
  <1>. HIDE DEF a, b
  <1>3. /\ a \o b \in Seq(Record) /\ Len(a \o b) = m - 1
        /\ \A i \in 1..m - 1 : (a \o b)[i] = IF i <= n - 1 THEN a[i] ELSE b[i - (n - 1)]
    <2>1. Len(a) + Len(b) = m - 1
      BY <1>0, <1>1, <1>2
    <2>. QED BY <1>1, <1>2, <2>1, ConcatProperties
  <1>4. DOMAIN (a \o b) = 1..m - 1
    BY <1>3, LenProperties
  <1>. DEFINE c == a \o b
  <1>5. RemoveAt(s, n) = c
    BY DEF RemoveAt, a, b
  <1>6. c \in Seq(Record) /\ DOMAIN c = 1..m - 1
    BY <1>3, <1>4
  <1>7. ASSUME NEW i \in 1..m - 1 PROVE c[i] = IF i < n THEN s[i] ELSE s[i + 1]
    <2>1. CASE i < n
      BY <1>0, <1>1, <1>3, <2>1
    <2>2. CASE ~(i < n)
      <3>1. i - (n - 1) \in 1..m - n /\ n + (i - (n - 1)) = i + 1
        BY <1>0, <2>2
      <3>2. c[i] = b[i - (n - 1)]
        BY <1>0, <1>3, <2>2
      <3>3. b[i - (n - 1)] = s[n + (i - (n - 1))]
        BY <1>2, <3>1
      <3>. QED BY <2>2, <3>1, <3>2, <3>3
    <2>. QED BY <2>1, <2>2
  <1>. HIDE DEF c
  <1>8. ToSet(c) \subseteq ToSet(s)
    <2>1. ASSUME NEW i \in DOMAIN c PROVE c[i] \in ToSet(s)
      <3>1. \E j \in 1..m : c[i] = s[j]
        BY <1>0, <1>6, <1>7
      <3>. QED BY <1>0, <3>1 DEF ToSet
    <2>. QED BY <2>1 DEF ToSet
  <1>9. ASSUME NEW i \in 1..m, i # n PROVE s[i] \in ToSet(c)
    <2>1. CASE i < n
      BY <1>0, <1>6, <1>7, <2>1 DEF ToSet
    <2>2. CASE i > n
      <3>1. i - 1 \in 1..m - 1 /\ c[i - 1] = s[i]
        BY <1>0, <1>7, <2>2
      <3>. QED BY <1>6, <3>1 DEF ToSet
    <2>. QED BY <1>0, <1>9, <2>1, <2>2
  <1>. QED BY <1>5, <1>6, <1>8, <1>9 DEF m

-----------------------------------------------------------------------------
(* What a write does to a file *)

\* A piece of the file is a record with this key, on a line that can be read or
\* on one that cannot.
Has(f, k) == \E i \in DOMAIN lines[f] : \E p \in ToSet(lines[f][i]) : p \in Record /\ KeyOf[p] = k

LEMMA PutLines ==
  ASSUME LineTypes, NEW f \in File, NEW piece \in Piece, NEW ended \in BOOLEAN,
         Put(f, piece, ended)
  PROVE  /\ LineTypes' /\ lines'[f] = Longer(f, piece)
         /\ \A g \in File \ {f} : lines'[g] = lines[g]
  <1>1. Longer(f, piece) \in Seq(Line) /\ Longer(f, piece) # <<>>
    BY LongerProps
  <1>2. lines' = [lines EXCEPT ![f] = Longer(f, piece)] /\ torn' \subseteq torn \cup {f}
    BY DEF Put
  <1>. QED BY <1>1, <1>2 DEF LineTypes

\* Nothing is lost, and the record that is written is there.
LEMMA PutHas ==
  ASSUME LineTypes, NEW f \in File, NEW piece \in Piece, NEW ended \in BOOLEAN,
         Put(f, piece, ended)
  PROVE  /\ \A k : \A g \in File : Has(g, k) => Has(g, k)'
         /\ piece \in Record => Has(f, KeyOf[piece])'
  <1>1. /\ lines'[f] = Longer(f, piece)
        /\ \A g \in File \ {f} : lines'[g] = lines[g]
    BY PutLines
  <1>2. ASSUME NEW g \in File, NEW k, Has(g, k) PROVE Has(g, k)'
    <2>1. PICK i \in DOMAIN lines[g] : \E p \in ToSet(lines[g][i]) : p \in Record /\ KeyOf[p] = k
      BY <1>2 DEF Has
    <2>2. i \in DOMAIN lines'[g] /\ ToSet(lines[g][i]) \subseteq ToSet(lines'[g][i])
      BY <1>1, <2>1, LongerProps
    <2>. QED BY <2>1, <2>2 DEF Has
  <1>3. piece \in Record => Has(f, KeyOf[piece])'
    BY <1>1, LongerProps DEF Has
  <1>. QED BY <1>2, <1>3

\* A file can be read to hold a key once, if it does not hold the key of the
\* record that is written.
LEMMA PutOnce ==
  ASSUME LineTypes, NEW f \in File, NEW piece \in Piece, NEW ended \in BOOLEAN,
         Put(f, piece, ended), StoredOnce,
         piece \in Record => KeyOf[piece] \notin Keys(f)
  PROVE  StoredOnce' /\ (piece \in Record => Keys(f)' \subseteq Keys(f) \cup {KeyOf[piece]})
  <1>. DEFINE new == Longer(f, piece)
  <1>1. /\ lines'[f] = new /\ LineTypes'
        /\ \A g \in File \ {f} : lines'[g] = lines[g]
    BY PutLines
  <1>2. ASSUME NEW i \in DOMAIN new, Parses(new[i])
        PROVE  \/ i \in DOMAIN lines[f] /\ new[i] = lines[f][i]
               \/ i = Len(lines[f]) + 1 /\ new[i] = <<piece>> /\ piece \in Record
    <2>1. \/ i \in DOMAIN lines[f] /\ new[i] = lines[f][i]
          \/ i = Len(lines[f]) + 1 /\ new[i] = <<piece>>
      BY <1>2, LongerProps
    <2>2. new[i] = <<piece>> => piece \in Record
      BY <1>2 DEF Parses
    <2>. QED BY <2>1, <2>2
  <1>. HIDE DEF new
  <1>3. ASSUME NEW i \in DOMAIN lines[f], Parses(lines[f][i]), piece \in Record
        PROVE  KeyOf[lines[f][i][1]] # KeyOf[piece]
    BY <1>3 DEF Keys
  <1>4. ASSUME NEW i \in DOMAIN new, NEW j \in DOMAIN new, Parses(new[i]), Parses(new[j]),
               KeyOf[new[i][1]] = KeyOf[new[j][1]]
        PROVE  i = j
    <2>1. CASE i \in DOMAIN lines[f] /\ new[i] = lines[f][i] /\ j \in DOMAIN lines[f] /\ new[j] = lines[f][j]
      BY <1>4, <2>1 DEF StoredOnce
    <2>2. CASE i \in DOMAIN lines[f] /\ new[i] = lines[f][i] /\ new[j] = <<piece>> /\ piece \in Record
      BY <1>3, <1>4, <2>2
    <2>3. CASE j \in DOMAIN lines[f] /\ new[j] = lines[f][j] /\ new[i] = <<piece>> /\ piece \in Record
      BY <1>3, <1>4, <2>3
    <2>4. CASE i = Len(lines[f]) + 1 /\ j = Len(lines[f]) + 1
      BY <2>4
    <2>. QED BY <1>2, <1>4, <2>1, <2>2, <2>3, <2>4
  <1>5. StoredOnce'
    <2>1. ASSUME NEW g \in File, NEW i \in DOMAIN lines'[g], NEW j \in DOMAIN lines'[g],
                 Parses(lines'[g][i]), Parses(lines'[g][j]),
                 KeyOf[lines'[g][i][1]] = KeyOf[lines'[g][j][1]]
          PROVE  i = j
      <3>1. CASE g = f
        BY <1>1, <1>4, <2>1, <3>1
      <3>2. CASE g # f
        BY <1>1, <2>1, <3>2 DEF StoredOnce
      <3>. QED BY <3>1, <3>2
    <2>. QED BY <2>1 DEF StoredOnce, Parses
  <1>6. ASSUME piece \in Record PROVE Keys(f)' \subseteq Keys(f) \cup {KeyOf[piece]}
    <2>1. ASSUME NEW i \in DOMAIN new, Parses(new[i])
          PROVE  KeyOf[new[i][1]] \in Keys(f) \cup {KeyOf[piece]}
      <3>1. CASE i \in DOMAIN lines[f] /\ new[i] = lines[f][i]
        BY <2>1, <3>1 DEF Keys
      <3>2. CASE new[i] = <<piece>>
        BY <3>2
      <3>. QED BY <1>2, <2>1, <3>1, <3>2
    <2>. QED BY <1>1, <2>1 DEF Keys, Parses
  <1>. QED BY <1>5, <1>6

-----------------------------------------------------------------------------
(* The invariant *)

\* The keys the server goes by are those of the file in hand, and each of them
\* is in it; what is left of a batch it works on is what the files do not have.
Seen == state = "write" => Keys(target) \subseteq seen /\ \A k \in seen : Has(target, k)
Pending ==
  state \in {"load", "write"} =>
    \A r \in ToSet(asked[serving].batch) : r \in ToSet(work) \/ Has(FileOf[r], KeyOf[r])
Inv == TypeOK /\ StoredOnce /\ NothingDropped /\ Seen /\ Pending

LEMMA LinesTyped == ASSUME TypeOK PROVE LineTypes
  BY DEF TypeOK, LineTypes, Line

LEMMA DroppedHas == NothingDropped <=> \A r \in acked : Has(FileOf[r], KeyOf[r])
  BY DEF NothingDropped, Has

LEMMA KeysHeld ==
  ASSUME TypeOK, NEW f \in File
  PROVE  Keys(f) \subseteq Key /\ \A k \in Keys(f) : Has(f, k)
  <1>1. ASSUME NEW i \in DOMAIN lines[f], Parses(lines[f][i])
        PROVE  KeyOf[lines[f][i][1]] \in Key /\ Has(f, KeyOf[lines[f][i][1]])
    <2>1. lines[f][i][1] \in Record /\ Len(lines[f][i]) = 1
      BY <1>1 DEF Parses
    <2>2. lines[f][i] \in Seq(Piece)
      <3>1. lines[f] \in Seq(Line)
        BY LinesTyped DEF LineTypes
      <3>. QED BY <3>1, ElementOfSeq, LenProperties DEF Line
    <2>3. lines[f][i][1] \in ToSet(lines[f][i])
      BY <2>1, <2>2, LenProperties DEF ToSet
    <2>. QED BY <2>1, <2>3, InboxAssumption DEF Has
  <1>. QED BY <1>1 DEF Keys

\* No check answers 204.
LEMMA NoFalsePromise == ASSUME NEW q PROVE Verdict(q) # "204"
  <1>1. CASE Failing(q) = {}
    BY <1>1 DEF Verdict
  <1>2. CASE Failing(q) # {}
    <2>1. DOMAIN Checks = 1..10 /\ \A i \in 1..10 : Checks[i][2] # "204"
      BY DEF Checks
    <2>2. Failing(q) \subseteq 1..10
      BY <2>1 DEF Failing
    <2>3. \E i \in Failing(q) : \A j \in Failing(q) : i <= j
      BY <1>2, <2>2, LeastOf
    <2>4. (CHOOSE i \in Failing(q) : \A j \in Failing(q) : i <= j) \in Failing(q)
      BY <2>3
    <2>. QED BY <1>2, <2>1, <2>2, <2>4 DEF Verdict
  <1>. QED BY <1>1, <1>2

\* The next record is one of the file in hand, and what is left is the rest.
LEMMA NextRecord ==
  ASSUME TypeOK, state = "write"
  PROVE  /\ Place \in 1..Len(work) /\ Place \in Mine
         /\ Next1 \in Record /\ Next1 \in ToSet(work) /\ FileOf[Next1] = target /\ target \in File
         /\ Rest \in Seq(Record) /\ ToSet(Rest) \subseteq ToSet(work)
         /\ \A i \in 1..Len(work) : i # Place => work[i] \in ToSet(Rest)
  <1>1. work \in Seq(Record) /\ Mine # {} /\ DOMAIN work = 1..Len(work) /\ Len(work) \in Nat
    BY LenProperties DEF TypeOK
  <1>2. Mine \subseteq 1..Len(work) /\ \A i \in Mine : FileOf[work[i]] = target
    BY <1>1 DEF Mine
  <1>3. \E i \in Mine : \A j \in Mine : i <= j
    <2>1. Mine \subseteq Nat
      BY <1>2
    <2>. QED BY <1>1, <2>1, LeastOf, Zenon
  <1>4. Place \in Mine
    BY <1>3 DEF Place
  <1>5. Place \in 1..Len(work)
    BY <1>2, <1>4
  <1>6. work[Place] \in Record
    BY <1>1, <1>5, ElementOfSeq
  <1>7. Next1 \in Record /\ Next1 \in ToSet(work) /\ FileOf[Next1] = target /\ target \in File
    BY <1>1, <1>2, <1>4, <1>5, <1>6 DEF Next1, ToSet, TypeOK
  <1>. HIDE DEF Place
  <1>8. /\ Rest \in Seq(Record) /\ ToSet(Rest) \subseteq ToSet(work)
        /\ \A i \in 1..Len(work) : i # Place => work[i] \in ToSet(Rest)
    BY <1>1, <1>5, RestOf DEF Rest
  <1>. QED BY <1>4, <1>5, <1>7, <1>8

-----------------------------------------------------------------------------
(* The steps *)

\* A step that leaves the files alone and none of the batch in hand.
LEMMA QuietStep ==
  ASSUME Inv, UNCHANGED disk, state' = state => UNCHANGED <<serving, work, target, seen>>,
         state' \in {state, "free", "down"}, acked' = acked,
         state \in {"load", "write"} => asked'[serving] = asked[serving]
  PROVE  StoredOnce' /\ NothingDropped' /\ Seen' /\ Pending'
  <1>1. lines' = lines /\ \A f, k : Has(f, k)' <=> Has(f, k)
    BY DEF disk, Has
  <1>2. StoredOnce'
    BY <1>1 DEF Inv, StoredOnce, Parses
  <1>3. NothingDropped'
    BY <1>1 DEF Inv, NothingDropped
  <1>4. Seen'
    BY <1>1 DEF Inv, Seen, Keys, Parses, Has
  <1>5. Pending'
    BY <1>1 DEF Inv, Pending, Has
  <1>. QED BY <1>2, <1>3, <1>4, <1>5

\* The end of a connection, in whatever state a write leaves the file in hand.
LEMMA BrokenOff ==
  ASSUME Inv, Interrupted, NEW next, next \in {"free", "down"}, Over(next), UNCHANGED <<asked, acked>>,
         faults' \in 0..MaxFaults
  PROVE  Inv'
  <1>1. \/ UNCHANGED disk
        \/ \E piece \in Piece : /\ state = "write" /\ Put(target, piece, FALSE) /\ target \in File
                                /\ piece \in Record => KeyOf[piece] \notin Keys(target)
    <2>1. CASE state = "write" /\ KeyOf[Next1] \notin seen
      <3>1. Next1 \in Record /\ target \in File
        BY <2>1, NextRecord DEF Inv
      <3>2. KeyOf[Next1] \notin Keys(target)
        BY <2>1 DEF Inv, Seen
      <3>3. Stopped(target, Next1)
        BY <2>1 DEF Interrupted
      <3>. QED BY <2>1, <3>1, <3>2, <3>3, InboxAssumption DEF Stopped, Piece
    <2>2. CASE ~(state = "write" /\ KeyOf[Next1] \notin seen)
      BY <2>2 DEF Interrupted
    <2>. QED BY <2>1, <2>2
  <1>2. /\ state' \in {"free", "down"} /\ serving' = NoClient /\ work' = <<>> /\ target' = NoFile
        /\ seen' = {} /\ asked' = asked /\ acked' = acked
    BY DEF Over
  <1>3. Seen' /\ Pending'
    BY <1>2 DEF Seen, Pending
  <1>4. LineTypes' /\ StoredOnce' /\ \A k : \A f \in File : Has(f, k) => Has(f, k)'
    <2>1. CASE UNCHANGED disk
      <3>1. lines' = lines /\ torn' = torn
        BY <2>1 DEF disk
      <3>. QED BY <3>1, LinesTyped DEF Inv, LineTypes, StoredOnce, Parses, Has
    <2>2. ASSUME NEW piece \in Piece, Put(target, piece, FALSE), target \in File,
                 piece \in Record => KeyOf[piece] \notin Keys(target)
          PROVE  LineTypes' /\ StoredOnce' /\ \A k : \A f \in File : Has(f, k) => Has(f, k)'
      BY <2>2, LinesTyped, PutLines, PutHas, PutOnce DEF Inv
    <2>. QED BY <1>1, <2>1, <2>2
  <1>5. NothingDropped'
    <2>1. ASSUME NEW r \in acked PROVE Has(FileOf[r], KeyOf[r])'
      <3>1. r \in Record /\ FileOf[r] \in File /\ Has(FileOf[r], KeyOf[r])
        BY DroppedHas, InboxAssumption DEF Inv, TypeOK
      <3>. QED BY <1>4, <3>1
    <2>. QED BY <1>2, <2>1 DEF NothingDropped, Has
  <1>6. TypeOK'
    BY <1>2, <1>4, EmptySeq DEF Inv, TypeOK, LineTypes, Line
  <1>. QED BY <1>3, <1>4, <1>5, <1>6 DEF Inv
LEMMA InitInv == Init => Inv
  BY InboxAssumption, EmptySeq DEF Init, Inv, TypeOK, StoredOnce, NothingDropped, Seen, Pending

LEMMA SendStep == ASSUME Inv, NEW c \in Client, Send(c) PROVE Inv'
  <1>1. /\ asked[c] = NoRequest /\ asked' \in [Client -> Request \cup {NoRequest}]
        /\ \A d \in Client \ {c} : asked'[d] = asked[d]
    BY DEF Send, Inv, TypeOK
  <1>2. /\ lines' = lines /\ torn' = torn /\ state' = state /\ serving' = serving /\ work' = work
        /\ target' = target /\ seen' = seen /\ acked' = acked /\ faults' = faults
    BY DEF Send, disk, hand
  <1>3. state \in {"load", "write"} => asked'[serving] = asked[serving]
    BY <1>1, InboxAssumption DEF Inv, TypeOK
  <1>4. TypeOK'
    BY <1>1, <1>2, <1>3 DEF Inv, TypeOK, Mine
  <1>5. StoredOnce' /\ NothingDropped' /\ Seen' /\ Pending'
    BY <1>2, <1>3, QuietStep DEF disk
  <1>. QED BY <1>4, <1>5 DEF Inv

\* An answer other than 204 promises nothing.
LEMMA Refused ==
  ASSUME TypeOK, NEW c \in Client, NEW v, v # "204", Reads(c, v)
  PROVE  acked' = acked /\ asked' \in [Client -> Request \cup {NoRequest}]
  BY DEF Reads, TypeOK

LEMMA TakeStep == ASSUME Inv, NEW c \in Client, Take(c) PROVE Inv'
  <1>. DEFINE v == Verdict(asked[c])
  <1>0. /\ state = "free" /\ asked[c] \in Request /\ v # "204"
        /\ lines' = lines /\ torn' = torn /\ faults' = faults
    BY NoFalsePromise DEF Take, disk, Inv, TypeOK
  <1>1. CASE v = "append"
    <2>1. /\ work' = asked[c].batch /\ state' = "load" /\ serving' = c
          /\ asked' = asked /\ acked' = acked /\ target' = target /\ seen' = seen
      BY <1>1 DEF Take
    <2>2. asked[c].batch \in Seq(Record)
      BY <1>0, InboxAssumption
    <2>3. TypeOK'
      BY <1>0, <2>1, <2>2 DEF Inv, TypeOK
    <2>4. StoredOnce' /\ NothingDropped'
      BY <1>0, <2>1 DEF Inv, StoredOnce, NothingDropped, Parses
    <2>5. Seen' /\ Pending'
      BY <2>1 DEF Seen, Pending
    <2>. QED BY <2>3, <2>4, <2>5 DEF Inv
  <1>2. CASE v # "append"
    <2>1. Reads(c, v) /\ UNCHANGED hand
      BY <1>2 DEF Take
    <2>. HIDE DEF v
    <2>2. acked' = acked /\ asked' \in [Client -> Request \cup {NoRequest}]
      BY <1>0, <2>1, Refused DEF Inv
    <2>3. state' = state /\ serving' = serving /\ work' = work /\ target' = target /\ seen' = seen
      BY <2>1 DEF hand
    <2>4. TypeOK'
      BY <1>0, <2>2, <2>3 DEF Inv, TypeOK
    <2>5. StoredOnce' /\ NothingDropped' /\ Seen' /\ Pending'
      BY <1>0, <2>2, <2>3, QuietStep DEF disk
    <2>. QED BY <2>4, <2>5 DEF Inv
  <1>. QED BY <1>1, <1>2

LEMMA LoadStep == ASSUME Inv, Load PROVE Inv'
  <1>. DEFINE f == FileOf[work[1]]
  <1>0. /\ state = "load" /\ work # <<>> /\ work \in Seq(Record)
        /\ lines' = lines /\ torn' = torn /\ asked' = asked /\ acked' = acked /\ faults' = faults
    BY DEF Load, disk, Inv, TypeOK
  <1>1. 1 \in DOMAIN work /\ f \in File
    BY <1>0, EmptySeq, LenProperties, ElementOfSeq, InboxAssumption
  <1>2. CASE Wedged(f)
    <2>1. Over("free")
      BY <1>2 DEF Load
    <2>2. Interrupted
      BY <1>0 DEF Interrupted, disk
    <2>3. asked' = asked /\ acked' = acked /\ faults' \in 0..MaxFaults
      BY <1>0 DEF Inv, TypeOK
    <2>. QED BY <2>1, <2>2, <2>3, BrokenOff
  <1>3. CASE ~Wedged(f)
    <2>1. state' = "write" /\ target' = f /\ seen' = Keys(f) /\ serving' = serving /\ work' = work
      BY <1>3 DEF Load
    <2>2. Keys(f) \subseteq Key /\ \A k \in Keys(f) : Has(f, k)
      BY <1>1, KeysHeld DEF Inv
    <2>3. 1 \in Mine'
      BY <1>1, <2>1 DEF Mine
    <2>. HIDE DEF f
    <2>4. TypeOK'
      <3>1. (state = "write" => target \in File /\ Mine # {})'
        BY <1>1, <2>1, <2>3
      <3>. QED BY <1>0, <1>1, <2>1, <2>2, <3>1 DEF Inv, TypeOK
    <2>5. StoredOnce' /\ NothingDropped'
      BY <1>0 DEF Inv, StoredOnce, NothingDropped, Parses
    <2>6. Seen'
      BY <1>0, <2>1, <2>2 DEF Seen, Keys, Parses, Has
    <2>7. Pending'
      BY <1>0, <2>1 DEF Inv, Pending, Has
    <2>. QED BY <2>4, <2>5, <2>6, <2>7 DEF Inv
  <1>. QED BY <1>2, <1>3

\* What the files hold once a record is done.
LEMMA Written ==
  ASSUME Inv, state = "write", NEW f \in File, target = f, NEW r \in Record,
         \/ KeyOf[r] \in seen /\ lines' = lines /\ torn' = torn
         \/ KeyOf[r] \notin seen /\ Put(f, r, TRUE)
  PROVE  /\ LineTypes' /\ StoredOnce'
         /\ \A k : \A g \in File : Has(g, k) => Has(g, k)'
         /\ Keys(f)' \subseteq seen \cup {KeyOf[r]}
         /\ \A k \in seen \cup {KeyOf[r]} : Has(f, k)'
  <1>1. Keys(f) \subseteq seen /\ \A k \in seen : Has(f, k)
    BY DEF Inv, Seen
  <1>2. LineTypes /\ StoredOnce
    BY LinesTyped DEF Inv
  <1>3. CASE KeyOf[r] \in seen
    <2>1. lines' = lines /\ torn' = torn
      BY <1>3
    <2>2. Keys(f)' = Keys(f) /\ \A g, k : Has(g, k)' <=> Has(g, k)
      BY <2>1 DEF Keys, Parses, Has
    <2>3. LineTypes' /\ StoredOnce'
      BY <1>2, <2>1 DEF LineTypes, StoredOnce, Parses
    <2>. QED BY <1>1, <1>3, <2>2, <2>3
  <1>4. CASE KeyOf[r] \notin seen
    <2>1. Put(f, r, TRUE) /\ r \in Piece /\ KeyOf[r] \notin Keys(f)
      BY <1>1, <1>4 DEF Piece
    <2>2. LineTypes' /\ StoredOnce' /\ Keys(f)' \subseteq Keys(f) \cup {KeyOf[r]}
      BY <1>2, <2>1, PutLines, PutOnce
    <2>3. (\A k : \A g \in File : Has(g, k) => Has(g, k)') /\ Has(f, KeyOf[r])'
      BY <1>2, <2>1, PutHas
    <2>. QED BY <1>1, <2>2, <2>3
  <1>. QED BY <1>3, <1>4

LEMMA WriteStep == ASSUME Inv, Write PROVE Inv'
  <1>0. /\ state = "write" /\ work' = Rest /\ asked' = asked /\ serving' = serving
        /\ acked' = acked /\ faults' = faults
        /\ IF KeyOf[Next1] \in seen THEN UNCHANGED disk ELSE Put(target, Next1, TRUE)
        /\ IF Mine = {Place} THEN state' = "load" /\ target' = NoFile /\ seen' = {}
           ELSE seen' = seen \cup {KeyOf[Next1]} /\ UNCHANGED <<state, target>>
    BY DEF Write
  <1>1. PICK f, r : f = target /\ r = Next1
    OBVIOUS
  <1>2. /\ Place \in 1..Len(work) /\ Place \in Mine
        /\ r \in Record /\ r \in ToSet(work) /\ FileOf[r] = f /\ f \in File
        /\ Rest \in Seq(Record) /\ ToSet(Rest) \subseteq ToSet(work)
        /\ \A i \in 1..Len(work) : i # Place => work[i] \in ToSet(Rest)
    BY <1>0, <1>1, NextRecord DEF Inv
  <1>3. KeyOf[r] \in Key
    BY <1>2, InboxAssumption
  <1>4. /\ LineTypes' /\ StoredOnce'
        /\ \A k : \A g \in File : Has(g, k) => Has(g, k)'
        /\ Keys(f)' \subseteq seen \cup {KeyOf[r]}
        /\ \A k \in seen \cup {KeyOf[r]} : Has(f, k)'
    <2>1. \/ KeyOf[r] \in seen /\ lines' = lines /\ torn' = torn
          \/ KeyOf[r] \notin seen /\ Put(f, r, TRUE)
      BY <1>0, <1>1 DEF disk
    <2>2. r \in Record /\ f \in File /\ target = f /\ state = "write"
      BY <1>0, <1>1, <1>2
    <2>. QED BY <2>1, <2>2, Written
  <1>5. work \in Seq(Record) /\ DOMAIN work = 1..Len(work)
    BY LenProperties DEF Inv, TypeOK
  <1>6. NothingDropped'
    <2>1. ASSUME NEW x \in acked PROVE Has(FileOf[x], KeyOf[x])'
      <3>1. x \in Record /\ FileOf[x] \in File /\ Has(FileOf[x], KeyOf[x])
        BY DroppedHas, InboxAssumption DEF Inv, TypeOK
      <3>. QED BY <1>4, <3>1
    <2>. QED BY <1>0, <2>1 DEF NothingDropped, Has
  <1>7. Pending'
    <2>1. asked[serving].batch \in Seq(Record)
      BY <1>0, InboxAssumption DEF Inv, TypeOK
    <2>2. ASSUME NEW x \in ToSet(asked[serving].batch)
          PROVE  x \in ToSet(Rest) \/ Has(FileOf[x], KeyOf[x])'
      <3>1. x \in Record /\ FileOf[x] \in File
        <4>1. PICK i \in DOMAIN asked[serving].batch : x = asked[serving].batch[i]
          BY <2>2 DEF ToSet
        <4>. QED BY <2>1, <4>1, ElementOfSeq, LenProperties, InboxAssumption
      <3>2. CASE Has(FileOf[x], KeyOf[x])
        BY <1>4, <3>1, <3>2
      <3>3. CASE x \in ToSet(work)
        <4>1. PICK i \in 1..Len(work) : x = work[i]
          BY <1>5, <3>3 DEF ToSet
        <4>2. CASE i = Place
          <5>1. x = r
            BY <1>1, <4>1, <4>2 DEF Next1
          <5>. QED BY <1>2, <1>4, <5>1
        <4>. QED BY <1>2, <4>1, <4>2
      <3>. QED BY <1>0, <2>2, <3>2, <3>3 DEF Inv, Pending
    <2>. QED BY <1>0, <2>2 DEF Pending, Has
  <1>8. CASE Mine = {Place}
    <2>1. state' = "load" /\ target' = NoFile /\ seen' = {}
      BY <1>0, <1>8
    <2>2. TypeOK'
      <3>1. serving \in Client /\ asked[serving] \in Request
        BY <1>0 DEF Inv, TypeOK
      <3>. QED BY <1>0, <1>2, <1>4, <2>1, <3>1 DEF Inv, TypeOK, LineTypes, Line
    <2>. QED BY <1>4, <1>6, <1>7, <2>1, <2>2 DEF Inv, Seen
  <1>9. CASE Mine # {Place}
    <2>1. state' = "write" /\ target' = f /\ seen' = seen \cup {KeyOf[r]}
      BY <1>0, <1>1, <1>9
    <2>2. Mine' # {}
      <3>1. PICK i \in Mine : i # Place
        BY <1>2, <1>9
      <3>2. work[i] \in ToSet(Rest) /\ FileOf[work[i]] = f
        BY <1>1, <1>2, <1>5, <3>1 DEF Mine
      <3>3. PICK j \in DOMAIN Rest : Rest[j] = work[i]
        BY <3>2 DEF ToSet
      <3>. QED BY <1>0, <2>1, <3>2, <3>3 DEF Mine
    <2>3. TypeOK'
      <3>1. serving \in Client /\ asked[serving] \in Request
        BY <1>0 DEF Inv, TypeOK
      <3>2. (state = "write" => target \in File /\ Mine # {})'
        BY <1>2, <2>1, <2>2
      <3>3. seen' \subseteq Key
        BY <1>3, <2>1 DEF Inv, TypeOK
      <3>. QED BY <1>0, <1>2, <1>4, <2>1, <3>1, <3>2, <3>3 DEF Inv, TypeOK, LineTypes, Line
    <2>4. Seen'
      <3>1. Keys(target)' = Keys(f)' /\ \A k : Has(target, k)' <=> Has(f, k)'
        BY <2>1 DEF Keys, Has
      <3>. QED BY <1>4, <2>1, <3>1 DEF Seen
    <2>. QED BY <1>4, <1>6, <1>7, <2>3, <2>4 DEF Inv
  <1>. QED BY <1>8, <1>9

LEMMA AnswerStep == ASSUME Inv, Answer PROVE Inv'
  <1>0. /\ state = "load" /\ work = <<>> /\ Over("free") /\ lines' = lines /\ torn' = torn
        /\ faults' \in 0..MaxFaults
    <2>1. /\ state = "load" /\ work = <<>> /\ Over("free") /\ lines' = lines /\ torn' = torn
          /\ faults' = faults \/ (faults < MaxFaults /\ faults' = faults + 1)
      BY DEF Answer, disk
    <2>. QED BY <2>1, InboxAssumption DEF Inv, TypeOK
  <1>1. asked' \in [Client -> Request \cup {NoRequest}] /\ acked' \subseteq acked \cup ToSet(asked[serving].batch)
    BY <1>0 DEF Answer, Reads, Inv, TypeOK
  <1>2. serving \in Client /\ asked[serving] \in Request /\ asked[serving].batch \in Seq(Record)
    BY <1>0, InboxAssumption DEF Inv, TypeOK
  <1>3. ToSet(asked[serving].batch) \subseteq Record
    BY <1>2, LenProperties, ElementOfSeq DEF ToSet
  <1>4. \A r \in ToSet(asked[serving].batch) : Has(FileOf[r], KeyOf[r])
    BY <1>0 DEF Inv, Pending, ToSet
  <1>5. NothingDropped'
    <2>1. \A r \in acked' : Has(FileOf[r], KeyOf[r])
      BY <1>1, <1>4, DroppedHas DEF Inv
    <2>. QED BY <1>0, <2>1 DEF NothingDropped, Has
  <1>6. TypeOK'
    BY <1>0, <1>1, <1>3, EmptySeq DEF Over, Inv, TypeOK
  <1>7. StoredOnce' /\ Seen' /\ Pending'
    BY <1>0 DEF Over, Inv, StoredOnce, Parses, Seen, Pending
  <1>. QED BY <1>5, <1>6, <1>7 DEF Inv

LEMMA NextInv == ASSUME Inv, [Next]_vars PROVE Inv'
  <1>1. ASSUME NEW c \in Client, Send(c) PROVE Inv'
    BY <1>1, SendStep
  <1>2. ASSUME NEW c \in Client, Take(c) PROVE Inv'
    BY <1>2, TakeStep
  <1>3. CASE Load
    BY <1>3, LoadStep
  <1>4. CASE Write
    BY <1>4, WriteStep
  <1>5. CASE WriteFails
    <2>1. Interrupted /\ Over("free") /\ asked' = asked /\ acked' = acked /\ faults' \in 0..MaxFaults
      BY <1>5, InboxAssumption DEF WriteFails, Inv, TypeOK
    <2>. QED BY <2>1, BrokenOff
  <1>6. CASE Answer
    BY <1>6, AnswerStep
  <1>7. CASE Crash
    <2>1. Interrupted /\ Over("down") /\ asked' = asked /\ acked' = acked /\ faults' \in 0..MaxFaults
      BY <1>7, InboxAssumption DEF Crash, Inv, TypeOK
    <2>. QED BY <2>1, BrokenOff
  <1>8. CASE Restart
    <2>1. /\ Over("free") /\ asked' = asked /\ acked' = acked /\ faults' \in 0..MaxFaults
          /\ state = "down" /\ UNCHANGED disk
      BY <1>8 DEF Restart, Inv, TypeOK
    <2>2. Interrupted
      BY <2>1 DEF Interrupted
    <2>. QED BY <2>1, <2>2, BrokenOff
  <1>9. CASE UNCHANGED vars
    <2>1. /\ lines' = lines /\ torn' = torn /\ asked' = asked /\ state' = state /\ serving' = serving
          /\ work' = work /\ target' = target /\ seen' = seen /\ acked' = acked /\ faults' = faults
      BY <1>9 DEF vars
    <2>2. TypeOK'
      BY <2>1 DEF Inv, TypeOK, Mine
    <2>3. StoredOnce' /\ NothingDropped' /\ Seen' /\ Pending'
      BY <2>1, QuietStep DEF disk
    <2>. QED BY <2>2, <2>3 DEF Inv
  <1>. QED BY <1>1, <1>2, <1>3, <1>4, <1>5, <1>6, <1>7, <1>8, <1>9 DEF Next

LEMMA InboxInvariant == Spec => []Inv
  <1>. QED BY InitInv, NextInv, PTL DEF Spec

-----------------------------------------------------------------------------
\* Files, batches and the work in hand stay what handle_connection and
\* append_batch take them for.
THEOREM InboxTypeCorrect == Spec => []TypeOK
  <1>1. Inv => TypeOK
    BY DEF Inv
  <1>. QED BY <1>1, InboxInvariant, PTL

\* However often a line is captured, sent or retried, and wherever a write
\* stops, append_batch leaves it readable at most once in its file.
THEOREM StoredAtMostOnce == Spec => []StoredOnce
  <1>1. Inv => StoredOnce
    BY DEF Inv
  <1>. QED BY <1>1, InboxInvariant, PTL

\* Whatever a 204 promised is in the file of its session: a record is skipped
\* only where one with its key already is.
THEOREM PromisedIsKept == Spec => []NothingDropped
  <1>1. Inv => NothingDropped
    BY DEF Inv
  <1>. QED BY <1>1, InboxInvariant, PTL
-----------------------------------------------------------------------------
(* What a failure costs *)

\* A line that can be read and that no later append can spoil holds this key.
Safe(f, k) ==
  \E i \in DOMAIN lines[f] :
     /\ f \in torn => i # Len(lines[f])
     /\ Parses(lines[f][i]) /\ KeyOf[lines[f][i][1]] = k

\* The records a file has, but on no such line.
AtRisk == {p \in File \X Key : Has(p[1], p[2]) /\ ~Safe(p[1], p[2])}

\* A failure costs the record it cuts or leaves in front of a missing newline,
\* and, as long as the newline is missing, the record that comes next.
Costs ==
  /\ IsFiniteSet(AtRisk) /\ IsFiniteSet(torn)
  /\ Cardinality(AtRisk) + Cardinality(torn) <= 2 * faults

\* The lines in front of a missing newline stay as they are, and a record put
\* behind a newline is alone on its line.
LEMMA LongerKeeps ==
  ASSUME LineTypes, NEW f \in File, NEW piece \in Piece
  PROVE  /\ \A i \in DOMAIN lines[f] : (f \in torn => i # Len(lines[f])) =>
              /\ i \in DOMAIN Longer(f, piece) /\ Longer(f, piece)[i] = lines[f][i]
              /\ f \notin torn => i # Len(Longer(f, piece))
         /\ \A i \in DOMAIN Longer(f, piece) : \A p \in ToSet(Longer(f, piece)[i]) :
              p = piece \/ \E j \in DOMAIN lines[f] : p \in ToSet(lines[f][j])
         /\ f \in torn => Len(Longer(f, piece)) = Len(lines[f])
         /\ f \notin torn =>
              \E i \in DOMAIN Longer(f, piece) : Longer(f, piece)[i] = <<piece>>
  <1>. DEFINE l == lines[f]
  <1>0. l \in Seq(Line) /\ Len(l) \in Nat /\ DOMAIN l = 1..Len(l)
    BY LenProperties DEF LineTypes
  <1>1. CASE f \in torn
    <2>. DEFINE n == Len(l)
                e == Append(l[n], piece)
                new == [l EXCEPT ![n] = e]
    <2>1. Longer(f, piece) = new
      BY <1>1 DEF Longer
    <2>2. n \in 1..Len(l)
      BY <1>0, <1>1, EmptySeq DEF LineTypes
    <2>3. e \in Line /\ \A p \in ToSet(e) : p = piece \/ p \in ToSet(l[n])
      <3>1. l[n] \in Line
        BY <1>0, <2>2, ElementOfSeq
      <3>. QED BY <3>1, AppendedLine
    <2>. HIDE DEF e
    <2>4. /\ new \in Seq(Line) /\ Len(new) = Len(l)
          /\ \A i \in 1..Len(l) : new[i] = IF i = n THEN e ELSE l[i]
      BY <1>0, <2>2, <2>3, ExceptSeq
    <2>5. DOMAIN new = 1..Len(l)
      BY <2>4, LenProperties
    <2>. HIDE DEF new
    <2>6. ASSUME NEW i \in DOMAIN new, NEW p \in ToSet(new[i])
          PROVE  p = piece \/ \E j \in DOMAIN l : p \in ToSet(l[j])
      BY <1>0, <2>2, <2>3, <2>4, <2>5
    <2>7. \A i \in DOMAIN l : i # Len(l) => i \in DOMAIN new /\ new[i] = l[i]
      BY <1>0, <2>4, <2>5
    <2>. HIDE DEF l, n
    <2>8. lines[f] = l
      BY DEF l
    <2>. QED BY <1>1, <2>1, <2>4, <2>6, <2>7, <2>8
  <1>2. CASE f \notin torn
    <2>. DEFINE new == Append(l, <<piece>>)
    <2>1. Longer(f, piece) = new
      BY <1>2 DEF Longer
    <2>2. <<piece>> \in Line /\ \A p \in ToSet(<<piece>>) : p = piece
      BY DEF Line, ToSet
    <2>3. /\ new \in Seq(Line) /\ Len(new) = Len(l) + 1
          /\ \A i \in 1..Len(l) : new[i] = l[i]
          /\ new[Len(l) + 1] = <<piece>>
      BY <1>0, <2>2, AppendProperties
    <2>4. DOMAIN new = 1..Len(l) + 1
      BY <2>3, LenProperties
    <2>. HIDE DEF new
    <2>5. \A i \in DOMAIN l : i \in DOMAIN new /\ new[i] = l[i] /\ i # Len(new)
      BY <1>0, <2>3, <2>4
    <2>6. ASSUME NEW i \in DOMAIN new, NEW p \in ToSet(new[i])
          PROVE  p = piece \/ \E j \in DOMAIN l : p \in ToSet(l[j])
      <3>1. CASE i \in DOMAIN l
        BY <2>5, <2>6, <3>1
      <3>2. CASE i = Len(l) + 1
        BY <2>2, <2>3, <2>6, <3>2
      <3>. QED BY <1>0, <2>4, <3>1, <3>2
    <2>7. Len(l) + 1 \in DOMAIN new
      BY <1>0, <2>4
    <2>. HIDE DEF l
    <2>8. lines[f] = l
      BY DEF l
    <2>. QED BY <1>2, <2>1, <2>3, <2>5, <2>6, <2>7, <2>8
  <1>. QED BY <1>1, <1>2

\* A write puts one record at risk at most, and none when it is whole and there
\* is a newline in front of it.
LEMMA PutCost ==
  ASSUME LineTypes, NEW f \in File, NEW piece \in Piece, NEW ended \in BOOLEAN,
         Put(f, piece, ended)
  PROVE  /\ AtRisk' \subseteq AtRisk \cup {<<f, KeyOf[piece]>>}
         /\ ended /\ f \notin torn /\ piece \in Record => AtRisk' \subseteq AtRisk
  <1>. DEFINE new == Longer(f, piece)
  <1>1. lines'[f] = new /\ \A g \in File \ {f} : lines'[g] = lines[g]
    BY PutLines
  <1>2. torn' = IF ended THEN torn \ {f} ELSE torn \cup {f}
    BY DEF Put
  <1>3. /\ \A i \in DOMAIN lines[f] : (f \in torn => i # Len(lines[f])) =>
             i \in DOMAIN new /\ new[i] = lines[f][i] /\ (f \notin torn => i # Len(new))
        /\ \A i \in DOMAIN new : \A p \in ToSet(new[i]) :
             p = piece \/ \E j \in DOMAIN lines[f] : p \in ToSet(lines[f][j])
        /\ f \in torn => Len(new) = Len(lines[f])
        /\ f \notin torn => \E i \in DOMAIN new : new[i] = <<piece>>
    BY LongerKeeps
  <1>. HIDE DEF new
  <1>4. ASSUME NEW g \in File, NEW k, Safe(g, k) PROVE Safe(g, k)'
    <2>1. PICK i \in DOMAIN lines[g] :
            /\ g \in torn => i # Len(lines[g])
            /\ Parses(lines[g][i]) /\ KeyOf[lines[g][i][1]] = k
      BY <1>4 DEF Safe
    <2>2. CASE g = f
      <3>1. i \in DOMAIN new /\ new[i] = lines[f][i] /\ i # Len(new)
        BY <1>3, <2>1, <2>2
      <3>. QED BY <1>1, <2>1, <2>2, <3>1 DEF Safe, Parses
    <2>3. CASE g # f
      BY <1>1, <1>2, <2>1, <2>3 DEF Safe, Parses
    <2>. QED BY <2>2, <2>3
  <1>5. ASSUME NEW g \in File, NEW k, Has(g, k)'
        PROVE  Has(g, k) \/ (g = f /\ k = KeyOf[piece] /\ piece \in Record)
    <2>1. PICK i \in DOMAIN lines'[g] : \E p \in ToSet(lines'[g][i]) : p \in Record /\ KeyOf[p] = k
      BY <1>5 DEF Has
    <2>2. PICK p \in ToSet(lines'[g][i]) : p \in Record /\ KeyOf[p] = k
      BY <2>1
    <2>3. CASE g = f
      BY <1>1, <1>3, <2>1, <2>2, <2>3 DEF Has
    <2>4. CASE g # f
      BY <1>1, <2>1, <2>2, <2>4 DEF Has
    <2>. QED BY <2>3, <2>4
  <1>6. ASSUME NEW p \in AtRisk'
        PROVE  p \in AtRisk \/ (p = <<f, KeyOf[piece]>> /\ piece \in Record)
    <2>1. p \in File \X Key /\ Has(p[1], p[2])' /\ ~Safe(p[1], p[2])'
      BY <1>6 DEF AtRisk
    <2>2. p[1] \in File /\ p = <<p[1], p[2]>>
      BY <2>1
    <2>3. ~Safe(p[1], p[2])
      BY <1>4, <2>1, <2>2
    <2>4. Has(p[1], p[2]) \/ (p[1] = f /\ p[2] = KeyOf[piece] /\ piece \in Record)
      BY <1>5, <2>1, <2>2
    <2>. QED BY <2>1, <2>2, <2>3, <2>4 DEF AtRisk
  <1>7. ASSUME ended, f \notin torn, piece \in Record PROVE <<f, KeyOf[piece]>> \notin AtRisk'
    <2>1. PICK i \in DOMAIN new : new[i] = <<piece>>
      BY <1>3, <1>7
    <2>2. f \notin torn' /\ Parses(new[i]) /\ new[i][1] = piece
      BY <1>2, <1>7, <2>1 DEF Parses
    <2>3. Safe(f, KeyOf[piece])'
      BY <1>1, <2>1, <2>2 DEF Safe, Parses
    <2>. QED BY <2>3 DEF AtRisk
  <1>. QED BY <1>6, <1>7

LEMMA OneMore ==
  ASSUME NEW S, IsFiniteSet(S), NEW x, NEW T, T \subseteq S \cup {x}
  PROVE  IsFiniteSet(T) /\ Cardinality(T) \in Nat /\ Cardinality(T) <= Cardinality(S) + 1
  <1>1. /\ IsFiniteSet(S \cup {x}) /\ Cardinality(S) \in Nat
        /\ Cardinality(S \cup {x}) = IF x \in S THEN Cardinality(S) ELSE Cardinality(S) + 1
    BY FS_AddElement, FS_CardinalityType
  <1>2. T \in SUBSET (S \cup {x})
    OBVIOUS
  <1>3. IsFiniteSet(T) /\ Cardinality(T) <= Cardinality(S \cup {x})
    BY <1>1, <1>2, FS_Subset
  <1>4. Cardinality(T) \in Nat
    BY <1>3, FS_CardinalityType
  <1>. QED BY <1>1, <1>3, <1>4

LEMMA NoMore ==
  ASSUME NEW S, IsFiniteSet(S), NEW T, T \subseteq S
  PROVE  /\ IsFiniteSet(T) /\ Cardinality(T) \in Nat /\ Cardinality(S) \in Nat
         /\ Cardinality(T) <= Cardinality(S)
  BY FS_Subset, FS_CardinalityType

\* A whole line pays for the record it puts at risk with the newline it brings.
LEMMA WrittenCost ==
  ASSUME Costs, LineTypes, NEW f \in File, NEW r \in Record, Put(f, r, TRUE),
         faults \in Nat, faults' = faults
  PROVE  Costs'
  <1>. DEFINE x == <<f, KeyOf[r]>>
  <1>0. r \in Piece /\ TRUE \in BOOLEAN
    BY DEF Piece
  <1>1. AtRisk' \subseteq AtRisk \cup {x} /\ (f \notin torn => AtRisk' \subseteq AtRisk)
    BY <1>0, PutCost
  <1>. HIDE DEF x
  <1>2. torn' = torn \ {f}
    BY DEF Put
  <1>3. IsFiniteSet(AtRisk) /\ IsFiniteSet(torn) /\ Cardinality(AtRisk) + Cardinality(torn) <= 2 * faults
    BY DEF Costs
  <1>4. IsFiniteSet(AtRisk') /\ Cardinality(AtRisk') \in Nat /\ Cardinality(AtRisk') <= Cardinality(AtRisk) + 1
    BY <1>1, <1>3, OneMore
  <1>5. Cardinality(AtRisk) \in Nat /\ Cardinality(torn) \in Nat
    BY <1>3, FS_CardinalityType
  <1>6. /\ IsFiniteSet(torn')
        /\ Cardinality(torn') = IF f \in torn THEN Cardinality(torn) - 1 ELSE Cardinality(torn)
    BY <1>2, <1>3, FS_RemoveElement
  <1>7. f \notin torn => Cardinality(AtRisk') <= Cardinality(AtRisk)
    BY <1>1, <1>3, NoMore
  <1>8. Cardinality(AtRisk') + Cardinality(torn') <= 2 * faults
    BY <1>3, <1>4, <1>5, <1>6, <1>7
  <1>9. (Cardinality(AtRisk) + Cardinality(torn) <= 2 * faults)'
    BY <1>8
  <1>. QED BY <1>4, <1>6, <1>9 DEF Costs

\* A write that stops puts one record at risk, and the one behind it.
LEMMA StoppedCost ==
  ASSUME Costs, LineTypes, NEW f \in File, NEW piece \in Piece, Put(f, piece, FALSE),
         faults \in Nat, faults' = faults + 1
  PROVE  Costs'
  <1>. DEFINE x == <<f, KeyOf[piece]>>
  <1>1. AtRisk' \subseteq AtRisk \cup {x}
    BY PutCost
  <1>. HIDE DEF x
  <1>2. torn' \subseteq torn \cup {f}
    BY DEF Put
  <1>3. IsFiniteSet(AtRisk) /\ IsFiniteSet(torn) /\ Cardinality(AtRisk) + Cardinality(torn) <= 2 * faults
    BY DEF Costs
  <1>4. IsFiniteSet(AtRisk') /\ Cardinality(AtRisk') \in Nat /\ Cardinality(AtRisk') <= Cardinality(AtRisk) + 1
    BY <1>1, <1>3, OneMore
  <1>5. IsFiniteSet(torn') /\ Cardinality(torn') \in Nat /\ Cardinality(torn') <= Cardinality(torn) + 1
    BY <1>2, <1>3, OneMore
  <1>6. Cardinality(AtRisk) \in Nat /\ Cardinality(torn) \in Nat
    BY <1>3, FS_CardinalityType
  <1>7. Cardinality(AtRisk') + Cardinality(torn') <= 2 * (faults + 1)
    BY <1>3, <1>4, <1>5, <1>6
  <1>8. (Cardinality(AtRisk) + Cardinality(torn) <= 2 * faults)'
    BY <1>7
  <1>. QED BY <1>4, <1>5, <1>8 DEF Costs

LEMMA QuietCost ==
  ASSUME Costs, UNCHANGED disk, faults \in Nat, faults' \in {faults, faults + 1}
  PROVE  Costs'
  <1>1. lines' = lines /\ torn' = torn
    BY DEF disk
  <1>2. AtRisk' = AtRisk
    BY <1>1 DEF AtRisk, Has, Safe, Parses
  <1>3. Cardinality(AtRisk) \in Nat /\ Cardinality(torn) \in Nat
    BY FS_CardinalityType DEF Costs
  <1>4. Cardinality(AtRisk') + Cardinality(torn') <= 2 * faults'
    BY <1>1, <1>2, <1>3 DEF Costs
  <1>. QED BY <1>1, <1>2, <1>4 DEF Costs

LEMMA InterruptedCost ==
  ASSUME Inv, Costs, Interrupted, faults' = faults + 1
  PROVE  Costs'
  <1>0. faults \in Nat /\ LineTypes
    BY LinesTyped, InboxAssumption DEF Inv, TypeOK
  <1>1. CASE state = "write" /\ KeyOf[Next1] \notin seen
    <2>1. Next1 \in Record /\ target \in File /\ Stopped(target, Next1)
      BY <1>1, NextRecord DEF Inv, Interrupted
    <2>2. UNCHANGED disk \/ \E piece \in Piece : Put(target, piece, FALSE)
      BY <2>1 DEF Stopped, Piece
    <2>. QED BY <1>0, <2>1, <2>2, QuietCost, StoppedCost
  <1>2. CASE ~(state = "write" /\ KeyOf[Next1] \notin seen)
    BY <1>0, <1>2, QuietCost DEF Interrupted
  <1>. QED BY <1>1, <1>2

LEMMA NextCosts == ASSUME Inv, Costs, [Next]_vars PROVE Costs'
  <1>0. faults \in Nat /\ LineTypes
    BY LinesTyped, InboxAssumption DEF Inv, TypeOK
  <1>1. CASE Write
    <2>1. state = "write" /\ faults' = faults
      BY <1>1 DEF Write
    <2>2. Next1 \in Record /\ target \in File
      BY <2>1, NextRecord DEF Inv
    <2>3. UNCHANGED disk \/ Put(target, Next1, TRUE)
      BY <1>1 DEF Write
    <2>. QED BY <1>0, <2>1, <2>2, <2>3, QuietCost, WrittenCost
  <1>2. CASE WriteFails
    BY <1>2, InterruptedCost DEF WriteFails
  <1>3. CASE Crash
    BY <1>3, InterruptedCost DEF Crash
  <1>4. CASE Load
    BY <1>0, <1>4, QuietCost DEF Load
  <1>5. CASE Answer
    BY <1>0, <1>5, QuietCost DEF Answer
  <1>6. CASE Restart
    BY <1>0, <1>6, QuietCost DEF Restart
  <1>7. ASSUME NEW c \in Client, Send(c) \/ Take(c) PROVE Costs'
    BY <1>0, <1>7, QuietCost DEF Send, Take
  <1>8. CASE UNCHANGED vars
    BY <1>0, <1>8, QuietCost DEF vars, disk
  <1>. QED BY <1>1, <1>2, <1>3, <1>4, <1>5, <1>6, <1>7, <1>8 DEF Next

LEMMA InitCosts == Init => Costs
  <1>. SUFFICES ASSUME Init PROVE Costs
    OBVIOUS
  <1>1. torn = {} /\ faults = 0 /\ \A f \in File : DOMAIN lines[f] = {}
    BY EmptySeq DEF Init
  <1>2. AtRisk = {}
    BY <1>1 DEF AtRisk, Has
  <1>. QED BY <1>1, <1>2, FS_EmptySet DEF Costs

\* Unless a writer stops, no record that was promised is unreadable; each stop
\* makes two unreadable at most, whatever the files already hold.
THEOREM LossIsBounded == Spec => []LossBounded
  <1>1. Inv /\ Costs => LossBounded
    <2>. SUFFICES ASSUME Inv, Costs PROVE LossBounded
      OBVIOUS
    <2>1. ASSUME NEW r \in acked,
                 ~\E i \in DOMAIN lines[FileOf[r]] :
                    Parses(lines[FileOf[r]][i]) /\ KeyOf[lines[FileOf[r]][i][1]] = KeyOf[r]
          PROVE  <<FileOf[r], KeyOf[r]>> \in AtRisk
      <3>1. FileOf[r] \in File /\ KeyOf[r] \in Key /\ Has(FileOf[r], KeyOf[r])
        BY DroppedHas, InboxAssumption DEF Inv, TypeOK
      <3>2. ~Safe(FileOf[r], KeyOf[r])
        BY <2>1 DEF Safe
      <3>. QED BY <3>1, <3>2 DEF AtRisk
    <2>2. Unreadable \subseteq AtRisk
      BY <2>1 DEF Unreadable
    <2>3. /\ Cardinality(Unreadable) \in Nat /\ Cardinality(AtRisk) \in Nat
          /\ Cardinality(Unreadable) <= Cardinality(AtRisk)
      BY <2>2, NoMore DEF Costs
    <2>4. Cardinality(torn) \in Nat /\ faults \in Nat
      BY FS_CardinalityType, InboxAssumption DEF Costs, Inv, TypeOK
    <2>. QED BY <2>3, <2>4 DEF Costs, LossBounded
  <1>2. Init => Inv /\ Costs
    BY InitInv, InitCosts
  <1>3. Inv /\ Costs /\ [Next]_vars => Inv' /\ Costs'
    BY NextInv, NextCosts
  <1>. QED BY <1>1, <1>2, <1>3, PTL DEF Spec

-----------------------------------------------------------------------------
(* What a listing shows *)

\* The elements of S with fewer than n others above them.
Highest(S, R, n) == {x \in S : Cardinality({y \in S : <<x, y>> \in R}) < n}

\* In a finite total order these are n elements, and they are above all others.
LEMMA TopOf ==
  ASSUME NEW S, IsFiniteSet(S), NEW R,
         \A x \in S : <<x, x>> \notin R,
         \A x, y, z \in S : <<x, y>> \in R /\ <<y, z>> \in R => <<x, z>> \in R,
         \A x, y \in S : x = y \/ <<x, y>> \in R \/ <<y, x>> \in R,
         NEW N \in Nat, N <= Cardinality(S)
  PROVE  /\ Cardinality(Highest(S, R, N)) = N
         /\ \A p \in S \ Highest(S, R, N) : \A q \in Highest(S, R, N) : <<p, q>> \in R
  <1>. DEFINE Above(x) == {y \in S : <<x, y>> \in R}
              Top(n) == {x \in S : Cardinality(Above(x)) < n}
  <1>1. \A x \in S : /\ IsFiniteSet(Above(x)) /\ Cardinality(Above(x)) \in Nat
    BY NoMore
  <1>2. ASSUME NEW x \in S, NEW y \in Above(x)
        PROVE  Cardinality(Above(y)) < Cardinality(Above(x))
    <2>1. y \in S /\ <<x, y>> \in R
      OBVIOUS
    <2>2. Above(y) \subseteq Above(x) /\ y \notin Above(y)
      BY <2>1
    <2>. HIDE DEF Above
    <2>3. Cardinality(Above(y)) <= Cardinality(Above(x)) /\ Above(y) # Above(x)
      BY <1>1, <1>2, <2>2, NoMore
    <2>4. Cardinality(Above(y)) # Cardinality(Above(x))
      BY <1>1, <2>1, <2>2, <2>3, FS_Subset
    <2>. QED BY <1>1, <2>1, <2>3, <2>4
  <1>3. ASSUME NEW x \in S, NEW y \in S
        PROVE  x = y \/ y \in Above(x) \/ x \in Above(y)
    OBVIOUS
  <1>4. ASSUME NEW n \in Nat, n < Cardinality(S), Cardinality(Top(n)) = n
        PROVE  Cardinality(Top(n + 1)) = n + 1
    <2>. HIDE DEF Above
    <2>. DEFINE Left == S \ Top(n)
    <2>1. Left # {}
      <3>1. Top(n) \subseteq S
        OBVIOUS
      <3>. HIDE DEF Top
      <3>2. Top(n) # S
        BY <1>4, FS_CardinalityType
      <3>. QED BY <3>1, <3>2
    <2>2. PICK x \in Left : \A y \in Left : Cardinality(Above(x)) <= Cardinality(Above(y))
      <3>. DEFINE T == {Cardinality(Above(y)) : y \in Left}
      <3>1. T \subseteq Nat /\ T # {}
        BY <1>1, <2>1
      <3>2. PICK c \in T : \A d \in T : c <= d
        <4>. HIDE DEF T
        <4>. QED BY <3>1, LeastOf
      <3>. QED BY <3>2
    <2>3. x \in S /\ x \notin Top(n) /\ ~(Cardinality(Above(x)) < n)
      OBVIOUS
    <2>4. Above(x) \subseteq Top(n)
      <3>1. ASSUME NEW y \in Above(x), y \notin Top(n) PROVE FALSE
        <4>1. y \in S
          BY DEF Above
        <4>2. Cardinality(Above(x)) <= Cardinality(Above(y))
          BY <2>2, <3>1, <4>1
        <4>3. Cardinality(Above(y)) < Cardinality(Above(x))
          BY <1>2, <2>3
        <4>. QED BY <1>1, <2>3, <4>1, <4>2, <4>3
      <3>. QED BY <3>1
    <2>5. IsFiniteSet(Top(n))
      <3>1. Top(n) \subseteq S
        OBVIOUS
      <3>. HIDE DEF Top
      <3>. QED BY <3>1, NoMore
    <2>6. Cardinality(Above(x)) = n
      <3>1. Cardinality(Above(x)) <= Cardinality(Top(n))
        <4>. HIDE DEF Top
        <4>. QED BY <2>4, <2>5, NoMore
      <3>. QED BY <1>1, <1>4, <2>3, <3>1
    <2>7. ASSUME NEW z \in S PROVE z \in Top(n + 1) <=> z \in Top(n) \cup {x}
      <3>1. Cardinality(Above(z)) \in Nat
        BY <1>1
      <3>2. CASE Cardinality(Above(z)) = n
        <4>1. z \notin Above(x)
          <5>1. z \in Above(x) => Cardinality(Above(z)) < Cardinality(Above(x))
            BY <1>2, <2>3
          <5>. QED BY <2>6, <3>2, <5>1
        <4>2. x \notin Above(z)
          <5>1. x \in Above(z) => Cardinality(Above(x)) < Cardinality(Above(z))
            BY <1>2
          <5>. QED BY <2>6, <3>2, <5>1
        <4>3. z = x
          BY <1>3, <2>3, <4>1, <4>2
        <4>. QED BY <3>2, <4>3
      <3>3. CASE Cardinality(Above(z)) # n
        <4>1. z # x
          BY <2>6, <3>3
        <4>2. Cardinality(Above(z)) < n + 1 <=> Cardinality(Above(z)) < n
          BY <3>1, <3>3
        <4>. QED BY <4>1, <4>2
      <3>. QED BY <3>2, <3>3
    <2>8. Top(n + 1) = Top(n) \cup {x}
      <3>1. Top(n + 1) \subseteq S /\ Top(n) \cup {x} \subseteq S
        BY <2>3
      <3>. HIDE DEF Top
      <3>. QED BY <2>7, <3>1
    <2>. HIDE DEF Top
    <2>. QED BY <1>4, <2>3, <2>5, <2>8, FS_AddElement
  <1>5. Cardinality(Top(N)) = N
    <2>. DEFINE Wrong == {n \in 0..N : Cardinality(Top(n)) # n}
    <2>. SUFFICES ASSUME Cardinality(Top(N)) # N PROVE FALSE
      OBVIOUS
    <2>1. Wrong # {}
      <3>1. N \in 0..N
        OBVIOUS
      <3>. HIDE DEF Top
      <3>. QED BY <3>1
    <2>2. PICK n \in Wrong : \A m \in Wrong : n <= m
      <3>1. Wrong \subseteq Nat
        OBVIOUS
      <3>. HIDE DEF Wrong
      <3>. QED BY <2>1, <3>1, LeastOf
    <2>3. CASE n = 0
      <3>1. \A x \in S : ~(Cardinality(Above(x)) < 0)
        <4>1. \A k \in Nat : ~(k < 0)
          OBVIOUS
        <4>. HIDE DEF Above
        <4>. QED BY <1>1, <4>1
      <3>2. Top(0) = {}
        BY <3>1
      <3>. HIDE DEF Top
      <3>3. Cardinality(Top(0)) = 0
        BY <3>2, FS_EmptySet
      <3>. QED BY <2>3, <3>3
    <2>4. CASE n # 0
      <3>1. n - 1 \in Nat /\ n - 1 \in 0..N /\ ~(n <= n - 1) /\ n - 1 < N /\ (n - 1) + 1 = n
        BY <2>4
      <3>. DEFINE m == n - 1
      <3>2. Cardinality(Top(m)) = m
        BY <2>2, <3>1
      <3>3. m \in Nat /\ m < Cardinality(S) /\ m + 1 = n
        BY <3>1, FS_CardinalityType
      <3>. HIDE DEF m, Top
      <3>4. Cardinality(Top(m + 1)) = m + 1
        BY <1>4, <3>2, <3>3
      <3>. QED BY <3>3, <3>4
    <2>. QED BY <2>3, <2>4
  <1>6. ASSUME NEW p \in S, NEW q \in S, ~(Cardinality(Above(p)) < N), q \notin Above(p)
        PROVE  ~(Cardinality(Above(q)) < N)
    <2>. HIDE DEF Above
    <2>1. CASE p = q
      BY <1>6, <2>1
    <2>2. CASE p \in Above(q)
      <3>1. Cardinality(Above(p)) < Cardinality(Above(q))
        BY <1>2, <2>2
      <3>. QED BY <1>1, <1>6, <3>1
    <2>. QED BY <1>3, <1>6, <2>1, <2>2
  <1>7. Highest(S, R, N) = Top(N)
    BY DEF Highest
  <1>. QED BY <1>5, <1>6, <1>7

LEMMA FilesFinite == IsFiniteSet(File)
  <1>1. Len(Walk) \in Nat /\ DOMAIN Walk = 1..Len(Walk) /\ File = {Walk[i] : i \in 1..Len(Walk)}
    BY InboxAssumption, LenProperties DEF ToSet
  <1>2. Walk \in Surjection(1..Len(Walk), File)
    <2>1. Walk \in [1..Len(Walk) -> File]
      BY <1>1, InboxAssumption, LenProperties
    <2>. QED BY <1>1, <2>1 DEF Surjection
  <1>3. IsFiniteSet(1..Len(Walk))
    BY <1>1, FS_Interval
  <1>. QED BY <1>2, <1>3, FS_Surjection

LEMMA ListedFinite == ASSUME LineTypes PROVE IsFiniteSet(Listed)
  <1>. DEFINE place == [f \in File |-> {f} \X DOMAIN lines[f]]
              all == {place[f] : f \in File}
  <1>1. IsFiniteSet(all)
    <2>1. place \in Surjection(File, all)
      BY DEF Surjection
    <2>. HIDE DEF place, all
    <2>. QED BY <2>1, FilesFinite, FS_Surjection
  <1>2. ASSUME NEW f \in File PROVE IsFiniteSet(place[f])
    <2>1. Len(lines[f]) \in Nat /\ DOMAIN lines[f] = 1..Len(lines[f])
      BY LenProperties DEF LineTypes
    <2>2. IsFiniteSet(1..Len(lines[f])) /\ IsFiniteSet({f})
      <3>1. \A n \in Nat : IsFiniteSet(1..n)
        BY FS_Interval
      <3>. QED BY <2>1, <3>1, FS_Singleton
    <2>3. IsFiniteSet({f} \X DOMAIN lines[f])
      BY <2>1, <2>2, FS_Product
    <2>. QED BY <2>3
  <1>3. IsFiniteSet(UNION all)
    <2>1. \A T \in all : IsFiniteSet(T)
      BY <1>2
    <2>. HIDE DEF all
    <2>. QED BY <1>1, <2>1, FS_UNION
  <1>4. Listed \subseteq UNION all
    BY DEF Listed
  <1>. QED BY <1>3, <1>4, NoMore

LEMMA ListedAt ==
  ASSUME LineTypes, NEW p \in Listed
  PROVE  /\ p[1] \in File /\ p[2] \in DOMAIN lines[p[1]] /\ p[2] \in Nat
         /\ p = <<p[1], p[2]>> /\ RecordAt(p) \in Record
  <1>1. PICK f \in File : p \in {f} \X DOMAIN lines[f]
    BY DEF Listed
  <1>2. p[1] = f /\ p[2] \in DOMAIN lines[f] /\ p = <<p[1], p[2]>>
    BY <1>1
  <1>3. DOMAIN lines[f] = 1..Len(lines[f]) /\ Len(lines[f]) \in Nat
    BY LenProperties DEF LineTypes
  <1>4. RecordAt(p) \in Record
    BY DEF Listed, Parses, RecordAt
  <1>. QED BY <1>1, <1>2, <1>3, <1>4

LEMMA MetOnce ==
  ASSUME NEW f \in File
  PROVE  Met(f) \in Nat /\ Walk[Met(f)] = f
  <1>1. Len(Walk) \in Nat /\ DOMAIN Walk = 1..Len(Walk)
    BY InboxAssumption, LenProperties
  <1>2. \E n \in DOMAIN Walk : Walk[n] = f
    BY InboxAssumption DEF ToSet
  <1>3. Met(f) \in DOMAIN Walk /\ Walk[Met(f)] = f
    BY <1>2 DEF Met
  <1>. QED BY <1>1, <1>3

\* The order of a listing is total: a rank, then the walk, then the file.
LEMMA ListingOrder ==
  ASSUME LineTypes
  PROVE  /\ \A x \in Listed : ~Older(x, x)
         /\ \A x, y, z \in Listed : Older(x, y) /\ Older(y, z) => Older(x, z)
         /\ \A x, y \in Listed : x = y \/ Older(x, y) \/ Older(y, x)
         /\ \A x, y \in Listed : Older(x, y) => Rank[RecordAt(x)] <= Rank[RecordAt(y)]
  <1>. DEFINE r(x) == Rank[RecordAt(x)]
              m(x) == Met(x[1])
              k(x) == x[2]
  <1>1. ASSUME NEW x \in Listed
        PROVE  r(x) \in Nat /\ m(x) \in Nat /\ k(x) \in Nat
    BY ListedAt, MetOnce, InboxAssumption
  <1>2. ASSUME NEW x \in Listed, NEW y \in Listed, m(x) = m(y), k(x) = k(y)
        PROVE  x = y
    <2>1. x[1] = y[1]
      BY <1>2, ListedAt, MetOnce
    <2>. QED BY <1>2, <2>1, ListedAt
  <1>3. \A x, y : Older(x, y) <=> r(x) < r(y) \/ (r(x) = r(y) /\ (m(x) < m(y) \/ (m(x) = m(y) /\ k(x) < k(y))))
    BY DEF Older
  <1>. HIDE DEF r, m, k
  <1>4. ASSUME NEW x \in Listed PROVE ~Older(x, x)
    BY <1>1, <1>3
  <1>5. ASSUME NEW x \in Listed, NEW y \in Listed, NEW z \in Listed, Older(x, y), Older(y, z)
        PROVE  Older(x, z)
    BY <1>1, <1>3, <1>5
  <1>6. ASSUME NEW x \in Listed, NEW y \in Listed
        PROVE  x = y \/ Older(x, y) \/ Older(y, x)
    BY <1>1, <1>2, <1>3
  <1>7. ASSUME NEW x \in Listed, NEW y \in Listed, Older(x, y)
        PROVE  r(x) <= r(y)
    BY <1>1, <1>3, <1>7
  <1>. QED BY <1>4, <1>5, <1>6, <1>7 DEF r

\* A listed record that is not shown has as many in front of it as a listing
\* holds, none of them older.
Outrun ==
  \A p \in Listed :
    \/ p \in Shown
    \/ /\ Cardinality(Shown) = Limit
       /\ \A q \in Shown : Rank[RecordAt(q)] >= Rank[RecordAt(p)]

LEMMA ShownOrOutrun == ASSUME LineTypes PROVE Outrun
  <1>. DEFINE R == {w \in Listed \X Listed : Older(w[1], w[2])}
              n(x) == Cardinality({y \in Listed : Older(x, y)})
  <1>1. \A x, y \in Listed : <<x, y>> \in R <=> Older(x, y)
    OBVIOUS
  <1>2. \A x \in Listed : n(x) = Cardinality({y \in Listed : <<x, y>> \in R})
    <2>1. ASSUME NEW x \in Listed
          PROVE  {y \in Listed : Older(x, y)} = {y \in Listed : <<x, y>> \in R}
      BY <1>1
    <2>. QED BY <2>1
  <1>3. Shown = {x \in Listed : n(x) < Limit} /\ Limit \in Nat
    BY InboxAssumption DEF Shown
  <1>4. Shown = Highest(Listed, R, Limit)
    <2>. HIDE DEF R, n
    <2>. QED BY <1>2, <1>3 DEF Highest
  <1>5. IsFiniteSet(Listed) /\ Cardinality(Listed) \in Nat
    BY ListedFinite, FS_CardinalityType
  <1>6. /\ \A x \in Listed : <<x, x>> \notin R
        /\ \A x, y, z \in Listed : <<x, y>> \in R /\ <<y, z>> \in R => <<x, z>> \in R
        /\ \A x, y \in Listed : x = y \/ <<x, y>> \in R \/ <<y, x>> \in R
    <2>. HIDE DEF R
    <2>. QED BY <1>1, ListingOrder
  <1>. SUFFICES ASSUME NEW p \in Listed, p \notin Shown
                PROVE  /\ Cardinality(Shown) = Limit
                       /\ \A q \in Shown : Rank[RecordAt(q)] >= Rank[RecordAt(p)]
    BY DEF Outrun
  <1>. HIDE DEF R
  <1>7. Limit <= Cardinality(Listed)
    <2>. DEFINE above == {y \in Listed : <<p, y>> \in R}
    <2>1. ~(Cardinality(above) < Limit)
      BY <1>4 DEF Highest
    <2>2. above \subseteq Listed
      OBVIOUS
    <2>. HIDE DEF above
    <2>3. Cardinality(above) \in Nat /\ Cardinality(above) <= Cardinality(Listed)
      BY <1>5, <2>2, NoMore
    <2>. QED BY <1>3, <1>5, <2>1, <2>3
  <1>8. /\ Cardinality(Shown) = Limit
        /\ \A x \in Listed \ Shown : \A y \in Shown : <<x, y>> \in R
    <2>. HIDE DEF n
    <2>. QED BY <1>3, <1>4, <1>5, <1>6, <1>7, TopOf, Zenon
  <1>9. ASSUME NEW q \in Shown PROVE Rank[RecordAt(q)] >= Rank[RecordAt(p)]
    <2>1. q \in Listed /\ <<p, q>> \in R
      BY <1>8 DEF Shown
    <2>2. Rank[RecordAt(p)] <= Rank[RecordAt(q)]
      BY <1>1, <2>1, ListingOrder
    <2>3. Rank[RecordAt(p)] \in Nat /\ Rank[RecordAt(q)] \in Nat
      BY <2>1, ListedAt, InboxAssumption
    <2>. QED BY <2>2, <2>3
  <1>. QED BY <1>8, <1>9

\* No write moves or changes what is in front of an unfinished last line.
LEMMA PutStays ==
  ASSUME LineTypes, NEW f \in File, NEW piece \in Piece, NEW ended \in BOOLEAN,
         Put(f, piece, ended), NEW g \in File, NEW i \in DOMAIN lines[g],
         ~(g \in torn /\ i = Len(lines[g]))
  PROVE  i \in DOMAIN lines'[g] /\ \A j \in 1..i : lines'[g][j] = lines[g][j]
  <1>1. lines'[f] = Longer(f, piece) /\ \A h \in File \ {f} : lines'[h] = lines[h]
    BY PutLines
  <1>2. Len(lines[g]) \in Nat /\ DOMAIN lines[g] = 1..Len(lines[g])
    BY LenProperties DEF LineTypes
  <1>3. CASE g = f
    <2>1. \A j \in 1..i : j \in DOMAIN lines[f] /\ (f \in torn => j # Len(lines[f]))
      BY <1>2, <1>3
    <2>2. i \in 1..i
      BY <1>2
    <2>3. \A j \in 1..i : j \in DOMAIN Longer(f, piece) /\ Longer(f, piece)[j] = lines[f][j]
      BY <2>1, LongerKeeps
    <2>. QED BY <1>1, <1>3, <2>2, <2>3
  <1>4. CASE g # f
    BY <1>1, <1>4
  <1>. QED BY <1>3, <1>4

\* What a step does to the files.
LEMMA DiskStep ==
  ASSUME Inv, [Next]_vars
  PROVE  \/ lines' = lines
         \/ \E f \in File, piece \in Piece, ended \in BOOLEAN : Put(f, piece, ended)
  <1>1. CASE Write
    <2>1. state = "write"
      BY <1>1 DEF Write
    <2>2. Next1 \in Piece /\ target \in File /\ TRUE \in BOOLEAN
      BY <2>1, NextRecord DEF Inv, Piece
    <2>3. UNCHANGED disk \/ Put(target, Next1, TRUE)
      BY <1>1 DEF Write
    <2>. QED BY <2>2, <2>3 DEF disk
  <1>2. CASE Interrupted
    <2>1. CASE state = "write" /\ KeyOf[Next1] \notin seen
      <3>1. Next1 \in Record /\ target \in File /\ Stopped(target, Next1)
        BY <1>2, <2>1, NextRecord DEF Inv, Interrupted
      <3>2. UNCHANGED disk \/ \E piece \in Piece : Put(target, piece, FALSE)
        BY <3>1 DEF Stopped, Piece
      <3>. QED BY <3>1, <3>2 DEF disk
    <2>2. CASE ~(state = "write" /\ KeyOf[Next1] \notin seen)
      BY <1>2, <2>2 DEF Interrupted, disk
    <2>. QED BY <2>1, <2>2
  <1>3. CASE WriteFails \/ Crash
    BY <1>2, <1>3 DEF WriteFails, Crash
  <1>4. CASE Load \/ Answer \/ Restart \/ UNCHANGED vars
    BY <1>4 DEF Load, Answer, Restart, vars, disk
  <1>5. ASSUME NEW c \in Client, Send(c) \/ Take(c) PROVE lines' = lines
    BY <1>5 DEF Send, Take, disk
  <1>. QED BY <1>1, <1>3, <1>4, <1>5 DEF Next

\* A record that can be listed stays where it is, unless it is the last line of a
\* file and lacks its newline.
LEMMA StaysListed ==
  ASSUME Inv, [Next]_vars, NEW p \in Listed, ~(p[1] \in torn /\ p[2] = Len(lines[p[1]]))
  PROVE  p \in Listed' /\ RecordAt(p)' = RecordAt(p)
  <1>0. LineTypes
    BY LinesTyped DEF Inv
  <1>. DEFINE f == p[1]
              i == p[2]
  <1>1. f \in File /\ i \in DOMAIN lines[f] /\ i \in Nat /\ p = <<f, i>>
    BY <1>0, ListedAt
  <1>2. Parses(lines[f][i]) /\ \A j \in 1..i : ~Broken(lines[f][j])
    BY DEF Listed
  <1>3. i \in 1..i
    BY <1>0, <1>1, LenProperties DEF LineTypes
  <1>4. i \in DOMAIN lines'[f] /\ \A j \in 1..i : lines'[f][j] = lines[f][j]
    <2>1. CASE lines' = lines
      BY <1>1, <2>1
    <2>2. CASE \E g \in File, piece \in Piece, ended \in BOOLEAN : Put(g, piece, ended)
      BY <1>0, <1>1, <2>2, PutStays
    <2>. QED BY <2>1, <2>2, DiskStep
  <1>5. lines'[f][i] = lines[f][i]
    BY <1>3, <1>4
  <1>6. Parses(lines'[f][i]) /\ \A j \in 1..i : ~Broken(lines'[f][j])
    BY <1>2, <1>4, <1>5
  <1>7. p \in UNION {{g} \X DOMAIN lines'[g] : g \in File}
    BY <1>1, <1>4
  <1>. QED BY <1>5, <1>6, <1>7 DEF Listed, RecordAt, Parses, Broken

\* Whatever is appended and wherever writes stop, a record on a finished line stays
\* in a listing until as many records that are not older fill it (reader.rs,
\* list_records and its stable sort).
THEOREM StaysInView == Spec => ShownUntilOutrun
  <1>1. ASSUME Inv, Outrun', [Next]_vars, NEW p \in Shown
        PROVE  \/ p \in Shown'
               \/ p[1] \in torn /\ p[2] = Len(lines[p[1]])
               \/ /\ Cardinality(Shown') = Limit
                  /\ \A q \in Shown' : Rank[RecordAt(q)'] >= Rank[RecordAt(p)]
    <2>1. p \in Listed
      BY DEF Shown
    <2>2. CASE ~(p[1] \in torn /\ p[2] = Len(lines[p[1]]))
      <3>1. p \in Listed' /\ RecordAt(p)' = RecordAt(p)
        BY <1>1, <2>1, <2>2, StaysListed
      <3>. QED BY <1>1, <3>1 DEF Outrun
    <2>. QED BY <2>2
  <1>2. Inv => Outrun
    BY LinesTyped, ShownOrOutrun DEF Inv
  <1>. DEFINE Kept == \A p \in Shown :
                \/ p \in Shown'
                \/ p[1] \in torn /\ p[2] = Len(lines[p[1]])
                \/ /\ Cardinality(Shown') = Limit
                   /\ \A q \in Shown' : Rank[RecordAt(q)'] >= Rank[RecordAt(p)]
  <1>3. Inv /\ Outrun' /\ [Next]_vars => Kept
    BY <1>1
  <1>4. ShownUntilOutrun <=> [][Kept]_vars
    BY DEF ShownUntilOutrun
  <1>. HIDE DEF Kept
  <1>. QED BY <1>2, <1>3, <1>4, InboxInvariant, PTL DEF Spec
=============================================================================
