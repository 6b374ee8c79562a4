---------------------------- MODULE CheatsProofs ----------------------------
(***************************************************************************)
(* What holds of Cheats for every number of games, cheat files of any      *)
(* length, any addresses and any number of loads: every operation leaves   *)
(* one substitution for each address that an active cheat names, the       *)
(* first's, over handlers that are all of the same game, until two threads *)
(* race.                                                                   *)
(***************************************************************************)
EXTENDS Cheats, SequenceTheorems, WellFoundedInduction, TLAPS

-----------------------------------------------------------------------------
(* What is inductive. *)

Memories == {NoGame} \cup Games     \* what an address reads without substitutions

Subs == [addr : Addrs, val : Nat, compare : Compares, PrevRead : Memories]

Mem == [cheats : Seq(Cheat), SubCheats : SUBSET Subs,
        handler : [Addrs -> {"cheat"} \cup Memories], overrun : BOOLEAN]

\* Under the substitutions, of which no two share an address, there is memory b.
Over(m, b) ==
    /\ \A s, t \in m.SubCheats : s.addr = t.addr => s = t
    /\ \A s \in m.SubCheats : s.PrevRead = b
    /\ \A a \in Addrs :
          m.handler[a] = IF \E s \in m.SubCheats : s.addr = a THEN "cheat" ELSE b

\* The i-th cheat is the first active substitution of its address.
Leads(cheats, i) ==
    /\ i \in DOMAIN cheats /\ IsActive(cheats[i])
    /\ \A j \in 1 .. i - 1 : ~(IsActive(cheats[j]) /\ cheats[j].addr = cheats[i].addr)

\* What is installed is what the list says.
Matches(m) ==
    /\ \A s \in m.SubCheats :
          \E i \in DOMAIN m.cheats : /\ Leads(m.cheats, i) /\ s.addr = m.cheats[i].addr
                                     /\ s.val = m.cheats[i].val
                                     /\ s.compare = m.cheats[i].compare
    /\ \A i \in DOMAIN m.cheats :
          IsActive(m.cheats[i]) => \E s \in m.SubCheats : s.addr = m.cheats[i].addr

Sound(m, b) == m \in Mem /\ Over(m, b)

Right ==
    /\ \E b \in Memories : Sound(mem, b) /\ (game # NoGame => b = game)
    /\ Matches(mem)
    /\ game \in {NoGame} \cup Nsf => mem.cheats = <<>>
    /\ busy = "power" => game # NoGame /\ online

CheatInv ==
    /\ numcheats \in Nat /\ game \in Memories /\ online \in BOOLEAN /\ loads \in 0 .. Loads
    /\ busy \in {"none", "stop", "power"} /\ raced \in BOOLEAN
    /\ ~raced => Right

-----------------------------------------------------------------------------
(* The list. *)

\* Every set of numbers has a least one,
LEMMA Least ==
    ASSUME NEW T, T \subseteq Nat, T # {}
    PROVE  \E n \in T : \A m \in T : n <= m
<1>1. PICK n \in T : \A m \in T : ~(<<m, n>> \in OpToRel(<, Nat))
  BY WFMin, NatLessThanWellFounded
<1>2. \A m \in T : <<m, n>> \in OpToRel(<, Nat) <=> m < n
  BY <1>1 DEF OpToRel
<1>3. \A m \in T : ~(m < n)
  BY <1>1, <1>2
<1>4. n \in Nat /\ \A m \in T : m \in Nat
  OBVIOUS
<1>5. \A m \in T : n <= m
  BY <1>3, <1>4
<1> QED
  BY <1>5

\* hence induction.
LEMMA Induction ==
    ASSUME NEW T, 0 \in T, \A n \in T \cap Nat : n + 1 \in T
    PROVE  Nat \subseteq T
<1> SUFFICES ASSUME Nat \ T # {} PROVE FALSE
  OBVIOUS
<1>1. PICK n \in Nat \ T : \A m \in Nat \ T : n <= m
  BY Least
<1>2. n # 0 /\ n - 1 \in Nat
  BY <1>1
<1>3. n - 1 \in T \cap Nat
  BY <1>1, <1>2
<1>4. (n - 1) + 1 \in T
  BY <1>3
<1> QED
  BY <1>1, <1>2, <1>4

\* Of the active substitutions of an address one leads.
LEMMA OneLeads ==
    ASSUME NEW cheats \in Seq(Cheat), NEW i \in DOMAIN cheats, IsActive(cheats[i])
    PROVE  \E k \in DOMAIN cheats : Leads(cheats, k) /\ cheats[k].addr = cheats[i].addr
<1> DEFINE T == {k \in DOMAIN cheats : IsActive(cheats[k]) /\ cheats[k].addr = cheats[i].addr}
<1>1. DOMAIN cheats = 1 .. Len(cheats) /\ Len(cheats) \in Nat
  OBVIOUS
<1>2. T \subseteq Nat /\ T # {}
  BY <1>1
<1>3. PICK k \in T : \A j \in T : k <= j
  BY <1>2, Least
<1>4. ASSUME NEW j \in 1 .. k - 1, IsActive(cheats[j]), cheats[j].addr = cheats[k].addr
      PROVE  FALSE
  <2>1. k \in 1 .. Len(cheats) /\ j \in 1 .. Len(cheats) /\ ~(k <= j)
    BY <1>1, <1>3, <1>4
  <2>2. j \in T
    BY <1>1, <1>3, <1>4, <2>1
  <2> QED
    BY <1>3, <2>1, <2>2
<1> QED
  BY <1>3, <1>4 DEF Leads

\* Only one does.
LEMMA OnlyOneLeads ==
    ASSUME NEW cheats \in Seq(Cheat), NEW i, NEW k, Leads(cheats, i), Leads(cheats, k),
           cheats[i].addr = cheats[k].addr
    PROVE  i = k
<1>1. i \in Nat /\ k \in Nat /\ i >= 1 /\ k >= 1
  BY DEF Leads
<1>2. ~(i < k) /\ ~(k < i)
  <2>1. i < k => i \in 1 .. k - 1
    BY <1>1
  <2>2. k < i => k \in 1 .. i - 1
    BY <1>1
  <2> QED
    BY <2>1, <2>2 DEF Leads
<1> QED
  BY <1>1, <1>2

-----------------------------------------------------------------------------
(* RebuildSubCheats. *)

LEMMA RestoredHandlers ==
    ASSUME NEW b \in Memories, NEW m, Sound(m, b)
    PROVE  Restored(m) = [a \in Addrs |-> b]
<1>1. ASSUME NEW a \in Addrs
      PROVE  (IF \E s \in m.SubCheats : s.addr = a
                THEN (CHOOSE s \in m.SubCheats : s.addr = a).PrevRead
                ELSE m.handler[a]) = b
  <2>1. CASE \E s \in m.SubCheats : s.addr = a
    <3>1. (CHOOSE s \in m.SubCheats : s.addr = a) \in m.SubCheats
      BY <2>1
    <3> QED
      BY <2>1, <3>1 DEF Sound, Over
  <2>2. CASE ~\E s \in m.SubCheats : s.addr = a
    BY <2>2 DEF Sound, Over
  <2> QED
    BY <2>1, <2>2
<1> QED
  BY <1>1 DEF Restored

LEMMA Installs ==
    ASSUME NEW b \in Memories, NEW m, m.cheats \in Seq(Cheat), m.overrun \in BOOLEAN,
           NEW h, h = [a \in Addrs |-> b]
    PROVE  /\ Sound(Install(m, h), b) /\ Matches(Install(m, h))
           /\ Install(m, h).cheats = m.cheats
<1> DEFINE W == Wanted(m.cheats, h)
           subs == {Substitution(m.cheats[i], h) : i \in W}
           r == Install(m, h)
<1>0. b # "cheat" /\ \A a \in Addrs : h[a] = b
  BY CheatsAssumption DEF Memories, NoGame
<1>1. PICK cheats \in Seq(Cheat) : cheats = m.cheats
  OBVIOUS
<1>2. \A i \in DOMAIN cheats : cheats[i] \in Cheat /\ cheats[i].addr \in Addrs
                               /\ cheats[i].val \in Nat /\ cheats[i].compare \in Compares
  <2>1. \A i \in DOMAIN cheats : cheats[i] \in Cheat
    OBVIOUS
  <2> QED
    BY <2>1 DEF Cheat
<1>3. \A i : i \in W <=> Leads(cheats, i)
  BY <1>0, <1>1, <1>2 DEF Wanted, Leads
<1>4. /\ r.cheats = cheats /\ r.SubCheats = subs
      /\ r.handler = [a \in Addrs |-> IF \E s \in subs : s.addr = a THEN "cheat" ELSE h[a]]
      /\ r = [cheats |-> r.cheats, SubCheats |-> r.SubCheats, handler |-> r.handler,
              overrun |-> r.overrun]
      /\ r.overrun \in BOOLEAN
  BY <1>1 DEF Install
<1>5. ASSUME NEW s \in subs
      PROVE  \E i \in DOMAIN cheats :
                /\ Leads(cheats, i) /\ s = Substitution(cheats[i], h)
                /\ s.addr = cheats[i].addr /\ s.val = cheats[i].val
                /\ s.compare = cheats[i].compare /\ s.PrevRead = b /\ s \in Subs
  <2>1. PICK i \in W : s = Substitution(cheats[i], h)
    BY <1>1
  <2>2. Leads(cheats, i) /\ i \in DOMAIN cheats
    BY <1>3 DEF Leads
  <2> QED
    BY <1>0, <1>2, <2>1, <2>2 DEF Substitution, Subs
<1>6. ASSUME NEW i \in DOMAIN cheats, Leads(cheats, i)
      PROVE  \E s \in subs : s.addr = cheats[i].addr
  <2>1. Substitution(cheats[i], h) \in subs
    BY <1>1, <1>3, <1>6
  <2> QED
    BY <2>1 DEF Substitution
<1> HIDE DEF subs, W, r
<1>7. r \in Mem
  <2>1. subs \in SUBSET Subs
    BY <1>5
  <2>2. r.handler \in [Addrs -> {"cheat"} \cup Memories]
    BY <1>0, <1>4
  <2> QED
    BY <1>4, <2>1, <2>2 DEF Mem
<1>8. Over(r, b)
  <2>1. ASSUME NEW s \in subs, NEW t \in subs, s.addr = t.addr
        PROVE  s = t
    BY <1>5, <2>1, OnlyOneLeads
  <2> QED
    BY <1>0, <1>4, <1>5, <2>1 DEF Over
<1>9. Matches(r)
  <2>1. ASSUME NEW i \in DOMAIN cheats, IsActive(cheats[i])
        PROVE  \E s \in subs : s.addr = cheats[i].addr
    <3>1. PICK k \in DOMAIN cheats : Leads(cheats, k) /\ cheats[k].addr = cheats[i].addr
      BY <2>1, OneLeads
    <3> QED
      BY <1>6, <3>1
  <2> QED
    BY <1>4, <1>5, <2>1 DEF Matches
<1> QED
  BY <1>1, <1>4, <1>7, <1>8, <1>9 DEF r, Sound

LEMMA Rebuilt ==
    ASSUME NEW b \in Memories, NEW m, Sound(m, b)
    PROVE  /\ Sound(RebuildSubCheats(m), b) /\ Matches(RebuildSubCheats(m))
           /\ RebuildSubCheats(m).cheats = m.cheats
<1>1. m.cheats \in Seq(Cheat) /\ m.overrun \in BOOLEAN
  BY DEF Sound, Mem
<1> QED
  BY <1>1, RestoredHandlers, Installs DEF RebuildSubCheats
-----------------------------------------------------------------------------
(* The calls. *)

LEMMA EmptyMatches == ASSUME NEW m, m.SubCheats = {}, m.cheats = <<>> PROVE Matches(m)
BY DEF Matches

\* The list may be changed as long as it is rebuilt afterwards.
LEMMA Relisted ==
    ASSUME NEW b, NEW m, Sound(m, b), NEW l \in Seq(Cheat)
    PROVE  Sound([m EXCEPT !.cheats = l], b)
BY DEF Sound, Over, Mem

LEMMA Toggled ==
    ASSUME NEW b \in Memories, NEW m, Sound(m, b), NEW k \in DOMAIN m.cheats
    PROVE  /\ Sound(ToggleCheat(m, k), b) /\ Matches(ToggleCheat(m, k))
           /\ Len(ToggleCheat(m, k).cheats) = Len(m.cheats)
<1>1. PICK l : l = [m.cheats EXCEPT ![k].status = ~@]
  OBVIOUS
<1>2. PICK cheats \in Seq(Cheat) : cheats = m.cheats
  BY DEF Sound, Mem
<1>3. cheats[k] \in Cheat
  BY <1>2
<1>4. [cheats[k] EXCEPT !.status = ~@] \in Cheat
  BY <1>3 DEF Cheat
<1>5. l \in Seq(Cheat) /\ Len(l) = Len(cheats)
  BY <1>1, <1>2, <1>4
<1>6. PICK n : n = [m EXCEPT !.cheats = l]
  OBVIOUS
<1>7. ToggleCheat(m, k) = RebuildSubCheats(n)
  BY <1>1, <1>6 DEF ToggleCheat
<1>8. Sound(n, b) /\ n.cheats = l
  BY <1>5, <1>6, Relisted DEF Sound, Mem
<1> QED
  BY <1>2, <1>5, <1>7, <1>8, Rebuilt

LEMMA Added ==
    ASSUME NEW b, NEW m, Sound(m, b), NEW c \in Cheat
    PROVE  /\ Sound(AddCheatEntry(m, c), b)
           /\ Len(AddCheatEntry(m, c).cheats) = Len(m.cheats) + 1
           /\ AddCheatEntry(m, c).cheats \in Seq(Cheat)
<1>1. m.cheats \in Seq(Cheat)
  BY DEF Sound, Mem
<1>2. Append(m.cheats, c) \in Seq(Cheat) /\ Len(Append(m.cheats, c)) = Len(m.cheats) + 1
  BY <1>1
<1>3. AddCheatEntry(m, c).cheats = Append(m.cheats, c)
  BY DEF AddCheatEntry, Sound, Mem
<1> QED
  BY <1>2, <1>3, Relisted DEF AddCheatEntry

LEMMA Flushed ==
    ASSUME NEW b \in Memories, NEW m, Sound(m, b)
    PROVE  /\ Sound(FlushGameCheats(m), b) /\ Matches(FlushGameCheats(m))
           /\ FlushGameCheats(m).cheats = <<>>
<1>1. <<>> \in Seq(Cheat)
  OBVIOUS
<1>2. PICK n : n = [m EXCEPT !.cheats = <<>>]
  OBVIOUS
<1>3. Sound(n, b) /\ n.cheats = <<>>
  BY <1>1, <1>2, Relisted DEF Sound, Mem
<1> QED
  BY <1>2, <1>3, Rebuilt DEF FlushGameCheats

\* After the list has been dropped nothing is installed that could be forgotten.
LEMMA NetplayDrops ==
    ASSUME NEW b \in Memories, NEW m, Sound(m, b)
    PROVE  /\ Sound(LoadGameCheats(FlushGameCheats(m)), b)
           /\ Matches(LoadGameCheats(FlushGameCheats(m)))
           /\ LoadGameCheats(FlushGameCheats(m)).cheats = <<>>
<1>1. PICK n : n = FlushGameCheats(m)
  OBVIOUS
<1>2. Sound(n, b) /\ Matches(n) /\ n.cheats = <<>>
  BY <1>1, Flushed
<1>3. n.SubCheats = {}
  BY <1>2 DEF Matches
<1>4. LoadGameCheats(n) = n
  BY <1>2, <1>3 DEF LoadGameCheats, Sound, Mem
<1> QED
  BY <1>1, <1>2, <1>4

LEMMA Powered ==
    ASSUME NEW m, m.cheats \in Seq(Cheat), m \in Mem, NEW g \in Games
    PROVE  /\ Sound(PowerNES(m, g), g) /\ Matches(PowerNES(m, g))
           /\ PowerNES(m, g).cheats = m.cheats
<1>1. PICK n : n = [[m EXCEPT !.handler = [a \in Addrs |-> g]] EXCEPT !.SubCheats = {}]
  OBVIOUS
<1>2. g \in Memories
  BY DEF Memories
<1>3. n.cheats = m.cheats /\ n \in Mem /\ n.SubCheats = {}
      /\ n.handler = [a \in Addrs |-> g]
  BY <1>1, <1>2 DEF Mem
<1>4. Sound(n, g)
  BY <1>3 DEF Sound, Over
<1> QED
  BY <1>1, <1>2, <1>3, <1>4, Rebuilt DEF PowerNES, PowerCheats

\* SetupCheats powers the cheats once more and would lose the handlers of those
\* that are installed, but the list has been dropped.
LEMMA PoweredTwice ==
    ASSUME NEW m \in Mem, m.cheats = <<>>, NEW g \in Games
    PROVE  /\ Sound(PowerCheats(PowerNES(m, g)), g) /\ Matches(PowerCheats(PowerNES(m, g)))
           /\ PowerCheats(PowerNES(m, g)).cheats = <<>>
<1>1. m.cheats \in Seq(Cheat)
  BY DEF Mem
<1>2. PICK r : r = PowerNES(m, g)
  OBVIOUS
<1>3. Sound(r, g) /\ Matches(r) /\ r.cheats = <<>>
  BY <1>1, <1>2, Powered
<1>4. r.SubCheats = {}
  BY <1>3 DEF Matches
<1>5. [r EXCEPT !.SubCheats = {}] = r
  BY <1>3, <1>4 DEF Sound, Mem
<1> QED
  BY <1>2, <1>3, <1>5, Rebuilt DEF PowerCheats, Memories

LEMMA ClosedGame ==
    ASSUME Right, game \in Memories
    PROVE  Closed \in Mem /\ Closed.cheats = <<>> /\ Matches(Closed)
           /\ \E b \in Memories : Sound(Closed, b)
<1>1. PICK b \in Memories : Sound(mem, b)
  BY DEF Right
<1>2. CASE game \in {NoGame} \cup Nsf
  BY <1>1, <1>2 DEF Closed, Right, Sound
<1>3. CASE game \notin {NoGame} \cup Nsf
  BY <1>1, <1>3, Flushed DEF Closed, Sound
<1> QED
  BY <1>2, <1>3

\* The k-th of the lines, which LoadCheats turns off if it is on, and on if it
\* is off.
Line(m, lines, k) == ToggleCheat(AddCheatEntry(m, lines[k]), k)

LEMMA LineLoaded ==
    ASSUME NEW b \in Memories, NEW m, NEW lines \in Seq(Cheat), NEW k \in 1 .. Len(lines),
           Sound(m, b), Len(m.cheats) = k - 1
    PROVE  Sound(Line(m, lines, k), b) /\ Len(Line(m, lines, k).cheats) = k
<1>1. lines[k] \in Cheat
  OBVIOUS
<1>2. PICK n : n = AddCheatEntry(m, lines[k])
  OBVIOUS
<1>3. Sound(n, b) /\ Len(n.cheats) = k /\ n.cheats \in Seq(Cheat)
  BY <1>1, <1>2, Added
<1>4. k \in DOMAIN n.cheats
  BY <1>3
<1> QED
  BY <1>2, <1>3, <1>4, Toggled DEF Line

\* The loop of LoadCheats, k lines far.
Loading(f, m, lines, n) ==
    f = [k \in 0 .. n |-> IF k = 0 THEN m ELSE Line(f[k-1], lines, k)]

LEMMA LoopExists ==
    ASSUME NEW m, NEW lines, NEW n \in Nat
    PROVE  \E f : Loading(f, m, lines, n)
<1> DEFINE T == {k \in Nat : \E f : Loading(f, m, lines, k)}
<1>1. 0 \in T
  <2>1. PICK f : f = [k \in 0 .. 0 |-> m]
    OBVIOUS
  <2>2. f = [k \in 0 .. 0 |-> IF k = 0 THEN m ELSE Line(f[k-1], lines, k)]
    BY <2>1
  <2> QED
    BY <2>2 DEF Loading
<1>2. ASSUME NEW k \in T \cap Nat PROVE k + 1 \in T
  <2>1. PICK f : Loading(f, m, lines, k)
    OBVIOUS
  <2>2. f = [j \in 0 .. k |-> IF j = 0 THEN m ELSE Line(f[j-1], lines, j)]
    BY <2>1 DEF Loading
  <2>3. PICK new : new = Line(f[k], lines, k+1)
    OBVIOUS
  <2>4. PICK g : g = [j \in 0 .. k+1 |-> IF j = k+1 THEN new ELSE f[j]]
    OBVIOUS
  <2>5. \A j \in 0 .. k : g[j] = f[j]
    BY <2>4
  <2>6. ASSUME NEW j \in 0 .. k+1
        PROVE  (IF j = k+1 THEN new ELSE f[j]) = IF j = 0 THEN m ELSE Line(g[j-1], lines, j)
    <3>1. CASE j = k+1
      <4>1. j # 0 /\ j - 1 = k /\ k \in 0 .. k
        BY <3>1
      <4>2. g[j-1] = f[k]
        BY <2>5, <4>1
      <4> QED
        BY <2>3, <3>1, <4>1, <4>2
    <3>2. CASE j = 0
      BY <2>2, <3>2
    <3>3. CASE j # k+1 /\ j # 0
      <4>1. j \in 0 .. k /\ j-1 \in 0 .. k
        BY <3>3
      <4>2. f[j] = Line(f[j-1], lines, j) /\ g[j-1] = f[j-1]
        BY <2>2, <2>5, <3>3, <4>1
      <4> QED
        BY <3>3, <4>2
    <3> QED
      BY <3>1, <3>2, <3>3
  <2>7. g = [j \in 0 .. k+1 |-> IF j = 0 THEN m ELSE Line(g[j-1], lines, j)]
    BY <2>4, <2>6
  <2> QED
    BY <2>7 DEF Loading
<1> HIDE DEF T
<1>3. Nat \subseteq T
  BY <1>1, <1>2, Induction
<1> QED
  BY <1>3 DEF T

LEMMA Loaded ==
    ASSUME NEW b \in Memories, NEW m, NEW lines \in Seq(Cheat), Sound(m, b), m.cheats = <<>>
    PROVE  Sound(LoadCheats(m, lines), b) /\ Matches(LoadCheats(m, lines))
<1> DEFINE Is(f) == Loading(f, m, lines, Len(lines))
           c == CHOOSE f : Is(f)
<1>1. LoadCheats(m, lines) = RebuildSubCheats(c[Len(lines)])
  BY DEF LoadCheats, Loading, Line
<1>2. Len(lines) \in Nat
  OBVIOUS
<1>3. Is(c)
  BY <1>2, LoopExists
<1> HIDE DEF c
<1>4. c[0] = m /\ \A k \in 1 .. Len(lines) : c[k] = Line(c[k-1], lines, k)
  <2>1. c = [k \in 0 .. Len(lines) |-> IF k = 0 THEN m ELSE Line(c[k-1], lines, k)]
    BY <1>3 DEF Loading
  <2> QED
    BY <1>2, <2>1
<1> DEFINE T == {k \in Nat : k <= Len(lines) => Sound(c[k], b) /\ Len(c[k].cheats) = k}
<1>5. 0 \in T
  BY <1>4
<1>6. ASSUME NEW k \in T \cap Nat PROVE k + 1 \in T
  <2> SUFFICES ASSUME k + 1 <= Len(lines)
               PROVE  Sound(c[k+1], b) /\ Len(c[k+1].cheats) = k + 1
    OBVIOUS
  <2>1. k + 1 \in 1 .. Len(lines) /\ (k + 1) - 1 = k /\ k <= Len(lines)
    BY <1>2
  <2>2. c[k+1] = Line(c[k], lines, k+1)
    BY <1>4, <2>1
  <2>3. PICK n : n = c[k]
    OBVIOUS
  <2>4. PICK j \in 1 .. Len(lines) : j = k + 1
    BY <2>1
  <2>5. Sound(n, b) /\ Len(n.cheats) = j - 1
    BY <2>1, <2>3, <2>4
  <2>6. Sound(Line(n, lines, j), b) /\ Len(Line(n, lines, j).cheats) = j
    BY <2>5, LineLoaded
  <2> QED
    BY <2>2, <2>3, <2>4, <2>6
<1> HIDE DEF T
<1>7. Nat \subseteq T
  BY <1>5, <1>6, Induction
<1>8. Sound(c[Len(lines)], b)
  BY <1>2, <1>7 DEF T
<1> QED
  BY <1>1, <1>8, Rebuilt

-----------------------------------------------------------------------------
(* The theorems. *)

LEMMA CheatsBegin == Init => CheatInv
<1> SUFFICES ASSUME Init PROVE CheatInv
  OBVIOUS
<1>1. mem \in Mem
  BY DEF Init, Mem, Memories
<1>2. Over(mem, NoGame)
  BY DEF Init, Over
<1>3. Matches(mem)
  BY EmptyMatches DEF Init
<1>4. Sound(mem, NoGame) /\ NoGame \in Memories
  BY <1>1, <1>2 DEF Sound, Memories
<1>5. /\ mem.cheats = <<>> /\ numcheats \in Nat /\ game = NoGame
      /\ online \in BOOLEAN /\ loads \in 0 .. Loads
      /\ busy = "none" /\ raced \in BOOLEAN
  <2>1. Loads \in Nat
    BY CheatsAssumption
  <2>2. /\ mem.cheats = <<>> /\ numcheats = 0 /\ game = NoGame /\ online \in {FALSE} /\ loads = 0
        /\ busy = "none" /\ raced \in {FALSE}
    BY DEF Init
  <2>3. loads \in 0 .. Loads
    BY <2>1, <2>2
  <2> QED
    BY <2>2, <2>3
<1> QED
  BY <1>3, <1>4, <1>5 DEF CheatInv, Right

\* Whatever happens after a race, the other variables keep their types.
LEMMA TypesKept ==
    ASSUME CheatInv, Next
    PROVE  /\ numcheats' \in Nat /\ game' \in Memories /\ online' \in BOOLEAN /\ loads' \in 0 .. Loads
           /\ busy' \in {"none", "stop", "power"} /\ raced' \in BOOLEAN
<1>1. ASSUME NEW g \in Games, LoadGame(g)
      PROVE  numcheats' \in Nat /\ game' \in Memories /\ loads' \in 0 .. Loads /\ UNCHANGED online /\ ByMain
  <2>1. File[g] \in Seq(Cheat)
    BY CheatsAssumption
  <2>2. Len(File[g]) \in Nat
    BY <2>1
  <2> QED
    BY <1>1, <2>2, CheatsAssumption DEF LoadGame, Memories, CheatInv
<1>2. ASSUME LoadNothing
      PROVE  UNCHANGED <<numcheats, online>> /\ game' \in Memories /\ loads' \in 0 .. Loads /\ ByMain
  BY <1>2, CheatsAssumption DEF LoadNothing, Memories, CheatInv
<1> QED
  BY <1>1, <1>2 DEF Next, Toggle, Reset, NetplayStart, NetplayStop, Disconnect, ThreadBegins, ThreadEnds, ByMain,
                    Undisturbed, CheatInv

\* The cheats, as long as there is no race.
LEMMA CheatsKept ==
    ASSUME CheatInv, Right, Next, ~raced, ~raced'
    PROVE  Right'
<1>1. PICK b \in Memories : Sound(mem, b) /\ (game # NoGame => b = game)
  BY DEF Right
<1>0. game \in Memories
  BY DEF CheatInv
<1>2. ASSUME NEW g \in Games, LoadGame(g)
      PROVE  Right'
  <2>1. PICK m : m = PowerCheats(PowerNES(Closed, g))
    OBVIOUS
  <2>2. Sound(m, g) /\ Matches(m) /\ m.cheats = <<>>
    BY <2>1, <1>0, ClosedGame, PoweredTwice
  <2>3. g \in Memories /\ File[g] \in Seq(Cheat) /\ g # NoGame /\ game' = g /\ busy' # "power"
    BY <1>2, CheatsAssumption DEF LoadGame, ByMain, Memories, Right
  <2>4. CASE g \notin Nsf /\ mem' = LoadCheats(m, File[g]) /\ numcheats' = Len(File[g])
    <3>1. Sound(mem', g) /\ Matches(mem')
      BY <2>2, <2>3, <2>4, Loaded
    <3> QED
      BY <2>3, <2>4, <3>1 DEF Right, Sound, Over, Matches
  <2>5. CASE mem' = m /\ numcheats' = 0
    BY <2>2, <2>3, <2>5 DEF Right, Sound, Over, Matches
  <2> QED
    BY <1>2, <2>1, <2>4, <2>5 DEF LoadGame
<1>3. CASE LoadNothing
  <2>1. mem' = Closed /\ game' = NoGame
    BY <1>3 DEF LoadNothing
  <2>2. busy' # "power"
    BY <1>3 DEF LoadNothing, ByMain, Right
  <2> QED
    BY <1>0, <2>1, <2>2, ClosedGame DEF Right, Sound, Over, Matches, Memories
<1>4. ASSUME NEW which \in 1 .. numcheats, Toggle(which)
      PROVE  Right'
  <2>1. Sound(mem', b) /\ Matches(mem')
    BY <1>1, <1>4, Toggled DEF Toggle
  <2>2. UNCHANGED <<game, busy, online>> /\ mem.cheats # <<>> /\ game # NoGame
    BY <1>4 DEF Toggle, ByMain, Undisturbed
  <2> QED
    BY <1>1, <2>1, <2>2 DEF Right, Sound, Over, Matches
<1>5. ASSUME game \in Games, mem' = PowerNES(mem, game), UNCHANGED <<game, online>>, busy' \in {busy, "none"}
      PROVE  Right'
  <2>1. mem \in Mem /\ mem.cheats \in Seq(Cheat)
    BY <1>1 DEF Sound, Mem
  <2>2. Sound(mem', game) /\ Matches(mem') /\ mem'.cheats = mem.cheats
    BY <1>5, <2>1, Powered
  <2>3. game # NoGame
    BY <1>5, CheatsAssumption
  <2> QED
    BY <1>5, <2>2, <2>3 DEF Right, Sound, Over, Matches, Memories
<1>6. ASSUME mem' = LoadGameCheats(FlushGameCheats(mem)), UNCHANGED game, busy' # "power"
      PROVE  Right'
  <2>1. Sound(mem', b) /\ Matches(mem') /\ mem'.cheats = <<>>
    BY <1>1, <1>6, NetplayDrops
  <2> QED
    BY <1>1, <1>6, <2>1 DEF Right, Sound, Over, Matches
<1>7. CASE Reset
  BY <1>5, <1>7, <1>0 DEF Reset, ByMain, Undisturbed, Memories
<1>8. CASE NetplayStart \/ NetplayStop
  BY <1>6, <1>8 DEF NetplayStart, NetplayStop, ByMain, Right
<1>9. CASE Disconnect \/ ThreadBegins
  BY <1>9 DEF Disconnect, ThreadBegins, Right, Sound, Over, Matches
<1>10. CASE ThreadEnds
  <2>1. CASE busy = "stop"
    BY <1>6, <1>10, <2>1 DEF ThreadEnds, Undisturbed
  <2>2. CASE busy # "stop"
    <3>1. game # NoGame
      BY <1>10, <2>2 DEF ThreadEnds, CheatInv, Right
    <3> QED
      BY <1>0, <1>5, <1>10, <2>2, <3>1 DEF ThreadEnds, Undisturbed, Memories
  <2> QED
    BY <2>1, <2>2
<1> QED
  BY <1>2, <1>3, <1>4, <1>7, <1>8, <1>9, <1>10 DEF Next

LEMMA CheatsGoOn == CheatInv /\ [Next]_vars => CheatInv'
<1>1. ASSUME CheatInv, Next PROVE CheatInv'
  <2>1. ~raced' => ~raced
    BY <1>1 DEF Next, LoadGame, LoadNothing, Toggle, Reset, NetplayStart, NetplayStop, Disconnect, ThreadBegins,
                ThreadEnds, ByMain
  <2>2. ~raced' => Right'
    BY <1>1, <2>1, CheatsKept DEF CheatInv
  <2> QED
    BY <1>1, <2>2, TypesKept DEF CheatInv
<1>2. ASSUME CheatInv, UNCHANGED vars PROVE CheatInv'
  BY <1>2 DEF vars, CheatInv, Right, Sound, Over, Matches
<1> QED
  BY <1>1, <1>2

\* The cheats keep their types, and until two threads race no address ever has two
\* substitutions (cheat.cpp:116-148, the check that prevents "a catastrophe"): TypeOK.
THEOREM CheatTypes == Spec => []TypeOK
<1>1. CheatInv => TypeOK
  BY DEF CheatInv, Right, Sound, Over, Mem, Subs, Memories, TypeOK
<1> QED
  BY <1>1, CheatsBegin, CheatsGoOn, PTL DEF Spec

\* What the game reads is what the list says, with any number of cheats for an
\* address and after any calls (SubCheatsRead and RebuildSubCheats, cheat.cpp:92-148),
\* until two threads race or the array is full: ReadsAsListed.
THEOREM ReadsRight == Spec => []ReadsAsListed
<1>1. CheatInv => ReadsAsListed
  <2> SUFFICES ASSUME CheatInv, game # NoGame, ~raced, NEW a \in Addrs
               PROVE  Reads(mem, a) = Listed(a)
    BY DEF ReadsAsListed
  <2>1. Sound(mem, game) /\ Matches(mem) /\ game # "cheat"
    BY CheatsAssumption DEF CheatInv, Right, Memories
  <2>2. PICK cheats \in Seq(Cheat) : cheats = mem.cheats
    BY <2>1 DEF Sound, Mem
  <2> DEFINE firsts == {i \in DOMAIN cheats : IsActive(cheats[i]) /\ cheats[i].addr = a}
             first  == CHOOSE i \in firsts : \A j \in firsts : i <= j
             hits == {x \in mem.SubCheats : x.addr = a}
             hit  == CHOOSE x \in hits : TRUE
  <2>3. CASE firsts = {}
    <3>1. \A s \in mem.SubCheats : s.addr # a
      BY <2>1, <2>2, <2>3 DEF Matches, Leads
    <3>2. mem.handler[a] = game
      BY <2>1, <3>1 DEF Sound, Over
    <3>3. Reads(mem, a) = [memory |-> game]
      BY <2>1, <3>2 DEF Reads
    <3> QED
      BY <2>2, <2>3, <3>3 DEF Listed
  <2>4. CASE firsts # {}
    <3>1. firsts \subseteq Nat
      OBVIOUS
    <3>2. PICK k : k = first
      OBVIOUS
    <3>3. k \in firsts /\ \A j \in firsts : k <= j
      BY <2>4, <3>1, <3>2, Least
    <3>4. Leads(cheats, k) /\ cheats[k].addr = a /\ k \in DOMAIN cheats
      BY <3>1, <3>3 DEF Leads
    <3>5. hits # {}
      BY <2>1, <2>2, <3>4 DEF Matches, Leads
    <3>6. PICK s : s = hit
      OBVIOUS
    <3>7. s \in mem.SubCheats /\ s.addr = a
      BY <3>5, <3>6
    <3>8. PICK i \in DOMAIN cheats : /\ Leads(cheats, i) /\ s.addr = cheats[i].addr
                                     /\ s.val = cheats[i].val /\ s.compare = cheats[i].compare
      BY <2>1, <2>2, <3>7 DEF Matches
    <3>9. i = k
      BY <3>4, <3>7, <3>8, OnlyOneLeads
    <3>10. s.PrevRead = game /\ mem.handler[a] = "cheat"
      BY <2>1, <3>7 DEF Sound, Over
    <3>11. Reads(mem, a) = IF s.compare = "other" THEN [memory |-> game] ELSE [value |-> s.val]
      BY <3>5, <3>6, <3>10 DEF Reads, SubCheatsRead
    <3>12. Listed(a) = IF cheats[k].compare = "other" THEN [memory |-> game]
                                                      ELSE [value |-> cheats[k].val]
      BY <2>2, <2>4, <3>2 DEF Listed
    <3> QED
      BY <3>8, <3>9, <3>11, <3>12
  <2> QED
    BY <2>3, <2>4
<1> QED
  BY <1>1, CheatsBegin, CheatsGoOn, PTL DEF Spec
=============================================================================
