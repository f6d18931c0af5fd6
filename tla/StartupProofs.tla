---------------------------- MODULE StartupProofs ----------------------------
(***************************************************************************)
(* What the start of the program guarantees for every configuration: who   *)
(* can keep it from publishing, that every stream is sent once, that the   *)
(* URLs of the configuration name their targets, and that every launch     *)
(* does what the configuration asks.                                       *)
(*                                                                         *)
(* resolvePublishTargets is given two URLs, so its targets are two at most *)
(* and the recursive functions over them are unfolded twice.  The scan of  *)
(* a device listing takes an induction over its lines: SetInduction.       *)
(***************************************************************************)
EXTENDS Startup, FiniteSetTheorems, FunctionTheorems, SequenceTheorems,
        WellFoundedInduction, TLAPS

-----------------------------------------------------------------------------
(* Lists of one and of two targets *)

\* A pair built by appending is that pair.
LEMMA AppendTwo ==
  ASSUME NEW a, NEW b
  PROVE  Append(<<a>>, b) = <<a, b>>
<1> DEFINE S == {a, b}
           s == Append(<<a>>, b)
           t == <<a, b>>
<1>1. <<a>> \in Seq(S) /\ t \in Seq(S) /\ b \in S
  OBVIOUS
<1>2. Len(<<a>>) = 1 /\ <<a>>[1] = a /\ Len(t) = 2 /\ t[1] = a /\ t[2] = b
  OBVIOUS
<1> HIDE DEF S
<1>3. s \in Seq(S) /\ Len(s) = 2 /\ s[1] = a /\ s[2] = b
  BY <1>1, <1>2, AppendProperties
<1> HIDE DEF s, t
<1>4. \A i \in 1..Len(s) : s[i] = t[i]
  BY <1>2, <1>3
<1>5. s = t
  BY <1>1, <1>2, <1>3, <1>4, SeqEqual
<1> QED
  BY <1>5 DEF s, t

\* uniqueNonEmpty leaves a single target alone (main.go:106).
LEMMA UniqueOne ==
  ASSUME NEW a, a # None
  PROVE  UniqueNonEmpty(<<a>>) = <<a>>
<1> DEFINE in == <<a>>
           IsNew(n) == in[n] # None /\ \A i \in 1..(n - 1) : in[i] # in[n]
           P(f) == f = [n \in 0..Len(in) |->
                          IF n = 0 THEN <<>>
                          ELSE IF IsNew(n) THEN Append(f[n - 1], in[n]) ELSE f[n - 1]]
           g == [n \in 0..Len(in) |-> IF n = 0 THEN <<>> ELSE <<a>>]
           h == CHOOSE f : P(f)
<1>1. P(g)
  OBVIOUS
<1>2. P(h)
  <2> HIDE DEF P, g
  <2> QED BY <1>1, Zenon
<1>3. UniqueNonEmpty(in) = h[Len(in)]
  BY Zenon DEF UniqueNonEmpty
<1> HIDE DEF h
<1> QED
  BY <1>2, <1>3

\* uniqueNonEmpty leaves two different targets alone.
LEMMA UniqueTwo ==
  ASSUME NEW a, NEW b, a # None, b # None, a # b
  PROVE  UniqueNonEmpty(<<a, b>>) = <<a, b>>
<1> DEFINE in == <<a, b>>
           IsNew(n) == in[n] # None /\ \A i \in 1..(n - 1) : in[i] # in[n]
           step(f, n) == IF n = 0 THEN <<>>
                         ELSE IF IsNew(n) THEN Append(f[n - 1], in[n]) ELSE f[n - 1]
           P(f) == f = [n \in 0..Len(in) |-> step(f, n)]
           g == [n \in 0..Len(in) |-> IF n = 0 THEN <<>> ELSE IF n = 1 THEN <<a>> ELSE in]
           h == CHOOSE f : P(f)
<1>1. Len(in) = 2 /\ in[1] = a /\ in[2] = b
  OBVIOUS
<1>2. IsNew(1) /\ IsNew(2)
  BY <1>1
<1>3. Append(<<>>, a) = <<a>> /\ Append(<<a>>, b) = in
  BY AppendTwo
<1>4. UniqueNonEmpty(in) = h[Len(in)]
  BY Zenon DEF UniqueNonEmpty
<1> HIDE DEF IsNew, in
<1>5. P(g)
  <2>1. g[0] = <<>> /\ g[1] = <<a>> /\ g[2] = in
    BY <1>1
  <2>2. step(g, 0) = <<>> /\ step(g, 1) = Append(<<>>, a) /\ step(g, 2) = Append(<<a>>, b)
    BY <1>1, <1>2, <2>1
  <2> HIDE DEF step
  <2>3. \A n \in 0..Len(in) : n = 0 \/ n = 1 \/ n = 2
    BY <1>1
  <2>4. \A n \in 0..Len(in) : step(g, n) = g[n]
    <3> HIDE DEF g
    <3> QED BY <1>3, <2>1, <2>2, <2>3
  <2> QED
    BY <2>4
<1>6. P(h)
  <2> HIDE DEF P, g
  <2> QED BY <1>5, Zenon
<1> HIDE DEF h
<1>7. \A n \in 0..2 : h[n] = step(h, n)
  BY <1>1, <1>6
<1>8. h[0] = <<>>
  BY <1>7
<1>9. h[1] = Append(<<>>, a)
  BY <1>1, <1>2, <1>7, <1>8
<1>10. h[2] = Append(h[1], b)
  BY <1>1, <1>2, <1>7
<1> QED
  BY <1>1, <1>3, <1>4, <1>9, <1>10 DEF in

\* A filter of one target.
LEMMA FilterOne ==
  ASSUME NEW a, NEW keep
  PROVE  Filter(<<a>>, keep) = IF a \in keep THEN <<a>> ELSE <<>>
<1> DEFINE s == <<a>>
           P(f) == f = [n \in 0..Len(s) |->
                          IF n = 0 THEN <<>>
                          ELSE IF s[n] \in keep THEN Append(f[n - 1], s[n]) ELSE f[n - 1]]
           one == IF a \in keep THEN <<a>> ELSE <<>>
           g == [n \in 0..Len(s) |-> IF n = 0 THEN <<>> ELSE one]
           h == CHOOSE f : P(f)
<1>1. Len(s) = 1 /\ s[1] = a /\ Append(<<>>, a) = <<a>>
  OBVIOUS
<1>2. Filter(s, keep) = h[Len(s)]
  BY Zenon DEF Filter
<1> HIDE DEF s
<1>3. P(g)
  <2>1. g[0] = <<>> /\ g[1] = one
    BY <1>1
  <2> HIDE DEF g
  <2>2. (IF a \in keep THEN Append(g[0], a) ELSE g[0]) = one
    BY <1>1, <2>1
  <2> QED
    BY <1>1, <2>1, <2>2 DEF g
<1>4. P(h)
  <2> HIDE DEF P, g
  <2> QED BY <1>3, Zenon
<1> HIDE DEF h
<1>5. \A n \in 0..1 : h[n] = IF n = 0 THEN <<>>
                             ELSE IF s[n] \in keep THEN Append(h[n - 1], s[n]) ELSE h[n - 1]
  BY <1>1, <1>4
<1>6. h[0] = <<>>
  BY <1>5
<1>7. h[1] = IF a \in keep THEN Append(h[0], a) ELSE h[0]
  BY <1>1, <1>5
<1> QED
  BY <1>1, <1>2, <1>6, <1>7 DEF s

\* A filter of two targets.
LEMMA FilterTwo ==
  ASSUME NEW a, NEW b, NEW keep
  PROVE  Filter(<<a, b>>, keep) =
           IF a \in keep THEN IF b \in keep THEN <<a, b>> ELSE <<a>>
           ELSE IF b \in keep THEN <<b>> ELSE <<>>
<1> DEFINE s == <<a, b>>
           step(f, n) == IF n = 0 THEN <<>>
                         ELSE IF s[n] \in keep THEN Append(f[n - 1], s[n]) ELSE f[n - 1]
           P(f) == f = [n \in 0..Len(s) |-> step(f, n)]
           one == IF a \in keep THEN Append(<<>>, a) ELSE <<>>
           two == IF b \in keep THEN Append(one, b) ELSE one
           g == [n \in 0..Len(s) |-> IF n = 0 THEN <<>> ELSE IF n = 1 THEN one ELSE two]
           h == CHOOSE f : P(f)
<1>1. Len(s) = 2 /\ s[1] = a /\ s[2] = b
  OBVIOUS
<1>2. Filter(s, keep) = h[Len(s)]
  BY Zenon DEF Filter
<1>3. two = IF a \in keep THEN IF b \in keep THEN <<a, b>> ELSE <<a>>
            ELSE IF b \in keep THEN <<b>> ELSE <<>>
  <2>1. Append(<<>>, a) = <<a>> /\ Append(<<>>, b) = <<b>> /\ Append(<<a>>, b) = <<a, b>>
    BY AppendTwo
  <2> QED
    BY <2>1
<1> HIDE DEF s
<1>4. P(g)
  <2>1. g[0] = <<>> /\ g[1] = one /\ g[2] = two
    BY <1>1
  <2> HIDE DEF g
  <2>2. step(g, 0) = <<>> /\ step(g, 1) = IF a \in keep THEN Append(g[0], a) ELSE g[0]
    BY <1>1
  <2>3. step(g, 1) = one
    <3> HIDE DEF step
    <3> QED BY <2>1, <2>2
  <2> HIDE DEF one
  <2>4. step(g, 2) = two
    BY <1>1, <2>1
  <2>5. \A n \in 0..Len(s) : step(g, n) = IF n = 0 THEN <<>> ELSE IF n = 1 THEN one ELSE two
    <3> HIDE DEF step, two
    <3> QED BY <1>1, <2>2, <2>3, <2>4
  <2> HIDE DEF step, two
  <2> QED
    BY <2>5 DEF g
<1>5. P(h)
  <2> HIDE DEF P, g
  <2> QED BY <1>4, Zenon
<1> HIDE DEF h
<1>6. \A n \in 0..2 : h[n] = step(h, n)
  BY <1>1, <1>5
<1>7. h[0] = <<>>
  BY <1>6
<1>8. h[1] = one
  <2>1. step(h, 1) = IF a \in keep THEN Append(h[0], a) ELSE h[0]
    BY <1>1
  <2> HIDE DEF step
  <2> QED BY <1>6, <1>7, <2>1
<1>9. h[2] = two
  <2> HIDE DEF one
  <2> QED BY <1>1, <1>6, <1>8
<1> QED
  BY <1>1, <1>2, <1>3, <1>9 DEF s

-----------------------------------------------------------------------------
(* Induction *)

\* A set of naturals has a least element.
LEMMA LeastElement ==
  ASSUME NEW T, T \subseteq Nat, T # {}
  PROVE  \E n \in T : \A m \in T : n <= m
<1> DEFINE D == {1..n : n \in T}
           R == StrictSubsetOrdering(Nat)
<1>1. D \subseteq FiniteSubsetsOf(Nat) /\ D # {}
  <2>1. \A n \in Nat : IsFiniteSet(1..n) /\ 1..n \subseteq Nat
    BY FS_Interval
  <2> QED
    BY <2>1 DEF FiniteSubsetsOf
<1>2. IsWellFoundedOn(R, FiniteSubsetsOf(Nat))
  BY FS_StrictSubsetOrderingWellFounded
<1>3. PICK x \in D : \A y \in D : <<y, x>> \notin R
  <2> HIDE DEF D, R
  <2> QED BY <1>1, <1>2, WFMin
<1>4. PICK n \in T : x = 1..n
  OBVIOUS
<1>5. ASSUME NEW m \in T, m < n
      PROVE  FALSE
  <2>1. 1..m \in SUBSET Nat /\ 1..n \in SUBSET Nat /\ 1..m \subseteq 1..n
    <3>1. m \in Nat /\ n \in Nat
      OBVIOUS
    <3> HIDE DEF D, R
    <3> QED BY <1>5, <3>1
  <2>2. n \in 1..n /\ n \notin 1..m
    BY <1>5
  <2>3. \A a, b \in SUBSET Nat : a \subseteq b /\ a # b => <<a, b>> \in R
    BY DEF StrictSubsetOrdering
  <2>4. <<1..m, 1..n>> \in R
    <3> HIDE DEF R
    <3>1. 1..m # 1..n
      BY <2>2
    <3> QED BY <2>1, <2>3, <3>1
  <2> QED BY <1>3, <1>4, <2>4
<1> QED BY <1>5

\* Induction over the naturals for a set.
LEMMA SetInduction ==
  ASSUME NEW S, 0 \in S, \A n \in Nat : n \in S => n + 1 \in S
  PROVE  Nat \subseteq S
<1> SUFFICES ASSUME Nat \ S # {}
             PROVE  FALSE
  OBVIOUS
<1>1. PICK n \in Nat \ S : \A m \in Nat \ S : n <= m
  BY LeastElement
<1>2. n - 1 \in Nat /\ n - 1 \in S
  BY <1>1
<1> QED
  BY <1>2

-----------------------------------------------------------------------------
(* The scan of a device listing *)

Kinds == {"video", "audio"}

\* The last heading of the first n lines is key.
Under(lines, n, key) ==
  \E h \in 1..n : /\ lines[h].mark = key
                  /\ \A k \in h..n : lines[k].mark \in Kinds => k = h

\* The lines among the first n with a name that stands under the heading key.
NameLines(lines, n, key) ==
  {m \in 1..n : lines[m].mark = "name" /\ Under(lines, m, key)}

\* A new heading takes over, any other line leaves things as they are.
LEMMA HeadingOfLine ==
  ASSUME NEW lines, NEW n \in Nat
  PROVE  /\ \A key \in Kinds : ~Under(lines, 0, key)
         /\ lines[n + 1].mark \in Kinds =>
              \A key \in Kinds : Under(lines, n + 1, key) <=> lines[n + 1].mark = key
         /\ lines[n + 1].mark \notin Kinds =>
              \A key \in Kinds : Under(lines, n + 1, key) <=> Under(lines, n, key)
<1>1. \A key \in Kinds : ~Under(lines, 0, key)
  BY DEF Under
<1>2. ASSUME lines[n + 1].mark \in Kinds, NEW key \in Kinds
      PROVE  Under(lines, n + 1, key) <=> lines[n + 1].mark = key
  <2>1. ASSUME Under(lines, n + 1, key)
        PROVE  lines[n + 1].mark = key
    <3>1. PICK h \in 1..n + 1 : /\ lines[h].mark = key
                                /\ \A k \in h..n + 1 : lines[k].mark \in Kinds => k = h
      BY <2>1 DEF Under
    <3>2. n + 1 \in h..n + 1
      OBVIOUS
    <3> QED
      BY <1>2, <3>1, <3>2
  <2>2. ASSUME lines[n + 1].mark = key
        PROVE  Under(lines, n + 1, key)
    <3>1. n + 1 \in 1..n + 1 /\ \A k \in n + 1..n + 1 : k = n + 1
      OBVIOUS
    <3> QED
      BY <2>2, <3>1 DEF Under
  <2> QED
    BY <2>1, <2>2
<1>3. ASSUME lines[n + 1].mark \notin Kinds, NEW key \in Kinds
      PROVE  Under(lines, n + 1, key) <=> Under(lines, n, key)
  <2>1. ASSUME Under(lines, n + 1, key)
        PROVE  Under(lines, n, key)
    <3>1. PICK h \in 1..n + 1 : /\ lines[h].mark = key
                                /\ \A k \in h..n + 1 : lines[k].mark \in Kinds => k = h
      BY <2>1 DEF Under
    <3>2. h \in 1..n /\ h..n \subseteq h..n + 1
      <4>1. h # n + 1
        BY <1>3, <3>1
      <4> QED
        BY <4>1
    <3> QED
      BY <3>1, <3>2 DEF Under
  <2>2. ASSUME Under(lines, n, key)
        PROVE  Under(lines, n + 1, key)
    <3>1. PICK h \in 1..n : /\ lines[h].mark = key
                            /\ \A k \in h..n : lines[k].mark \in Kinds => k = h
      BY <2>2 DEF Under
    <3>2. h \in 1..n + 1 /\ \A k \in h..n + 1 : k = n + 1 \/ k \in h..n
      OBVIOUS
    <3>3. \A k \in h..n + 1 : lines[k].mark \in Kinds => k = h
      BY <1>3, <3>1, <3>2
    <3> QED
      BY <3>1, <3>2, <3>3 DEF Under
  <2> QED
    BY <2>1, <2>2
<1> QED
  BY <1>1, <1>2, <1>3

\* Two headings cannot both be the last.
LEMMA OneHeading ==
  ASSUME NEW lines, NEW n \in Nat
  PROVE  ~(Under(lines, n, "video") /\ Under(lines, n, "audio"))
<1> SUFFICES ASSUME Under(lines, n, "video"), Under(lines, n, "audio")
             PROVE  FALSE
  OBVIOUS
<1>1. PICK v \in 1..n : /\ lines[v].mark = "video"
                        /\ \A k \in v..n : lines[k].mark \in Kinds => k = v
  BY DEF Under
<1>2. PICK a \in 1..n : /\ lines[a].mark = "audio"
                        /\ \A k \in a..n : lines[k].mark \in Kinds => k = a
  BY DEF Under
<1>3. v \in a..n \/ a \in v..n
  OBVIOUS
<1> QED
  BY <1>1, <1>2, <1>3 DEF Kinds

\* What the scan knows after n lines.
Section(lines, n) ==
  IF Under(lines, n, "video") THEN "video"
  ELSE IF Under(lines, n, "audio") THEN "audio" ELSE "none"

Names(lines, n, key) == {lines[m].name : m \in NameLines(lines, n, key)}

Scanned(lines, n) ==
  [section |-> Section(lines, n),
   video |-> Names(lines, n, "video"), audio |-> Names(lines, n, "audio")]

\* One line of the scan.
ScanLine(before, line) ==
  IF line.mark \in Kinds
  THEN [before EXCEPT !.section = line.mark]
  ELSE IF line.mark = "name" /\ before.section # "none"
  THEN [before EXCEPT ![before.section] = @ \cup {line.name}]
  ELSE before

\* A line adds its name to those under the last heading, if there is one.
LEMMA NamesOfLine ==
  ASSUME NEW lines, NEW n \in Nat, NEW key \in Kinds
  PROVE  /\ Names(lines, 0, key) = {}
         /\ Names(lines, n + 1, key) =
              IF lines[n + 1].mark = "name" /\ Under(lines, n, key)
              THEN Names(lines, n, key) \cup {lines[n + 1].name}
              ELSE Names(lines, n, key)
<1>1. Names(lines, 0, key) = {}
  BY DEF Names, NameLines
<1>2. lines[n + 1].mark = "name" => (Under(lines, n + 1, key) <=> Under(lines, n, key))
  <2>1. "name" \notin Kinds
    BY DEF Kinds
  <2> QED
    BY <2>1, HeadingOfLine
<1>3. NameLines(lines, n + 1, key) =
        IF lines[n + 1].mark = "name" /\ Under(lines, n, key)
        THEN NameLines(lines, n, key) \cup {n + 1}
        ELSE NameLines(lines, n, key)
  <2>1. 1..n + 1 = 1..n \cup {n + 1}
    OBVIOUS
  <2> QED
    BY <1>2, <2>1 DEF NameLines
<1> QED
  BY <1>1, <1>3 DEF Names

\* Scanned is what the scan knows: line by line.
LEMMA ScannedLine ==
  ASSUME NEW lines, NEW n \in Nat
  PROVE  /\ Scanned(lines, 0) = [section |-> "none", video |-> {}, audio |-> {}]
         /\ Scanned(lines, n + 1) = ScanLine(Scanned(lines, n), lines[n + 1])
<1>1. Scanned(lines, 0) = [section |-> "none", video |-> {}, audio |-> {}]
  BY HeadingOfLine, NamesOfLine DEF Scanned, Section, Kinds
<1> DEFINE line == lines[n + 1]
           before == Scanned(lines, n)
<1>2. "name" \notin Kinds /\ "video" \in Kinds /\ "audio" \in Kinds
  BY DEF Kinds
<1>3. CASE line.mark \in Kinds
  <2>1. Section(lines, n + 1) = line.mark
    BY <1>2, <1>3, HeadingOfLine DEF Section, Kinds
  <2>2. \A key \in Kinds : Names(lines, n + 1, key) = Names(lines, n, key)
    BY <1>2, <1>3, NamesOfLine
  <2>3. ScanLine(before, line) = [before EXCEPT !.section = line.mark]
    BY <1>3 DEF ScanLine
  <2> QED
    BY <1>1, <1>2, <2>1, <2>2, <2>3 DEF Scanned
<1>4. CASE line.mark \notin Kinds
  <2>1. Section(lines, n + 1) = Section(lines, n)
    BY <1>2, <1>4, HeadingOfLine DEF Section
  <2>2. CASE line.mark = "name" /\ Under(lines, n, "video")
    <3>1. Section(lines, n) = "video" /\ ~Under(lines, n, "audio")
      BY <2>2, OneHeading DEF Section
    <3>2. /\ Names(lines, n + 1, "video") = Names(lines, n, "video") \cup {line.name}
          /\ Names(lines, n + 1, "audio") = Names(lines, n, "audio")
      BY <1>2, <2>2, <3>1, NamesOfLine
    <3>3. ScanLine(before, line) = [before EXCEPT !.video = @ \cup {line.name}]
      BY <1>4, <2>2, <3>1 DEF ScanLine, Scanned
    <3> QED
      BY <1>1, <2>1, <3>1, <3>2, <3>3 DEF Scanned
  <2>3. CASE line.mark = "name" /\ Under(lines, n, "audio")
    <3>1. Section(lines, n) = "audio" /\ ~Under(lines, n, "video")
      BY <2>3, OneHeading DEF Section
    <3>2. /\ Names(lines, n + 1, "audio") = Names(lines, n, "audio") \cup {line.name}
          /\ Names(lines, n + 1, "video") = Names(lines, n, "video")
      BY <1>2, <2>3, <3>1, NamesOfLine
    <3>3. ScanLine(before, line) = [before EXCEPT !.audio = @ \cup {line.name}]
      BY <1>4, <2>3, <3>1 DEF ScanLine, Scanned
    <3> QED
      BY <1>1, <2>1, <3>1, <3>2, <3>3 DEF Scanned
  <2>4. CASE line.mark # "name" \/ (~Under(lines, n, "video") /\ ~Under(lines, n, "audio"))
    <3>1. \A key \in Kinds : Names(lines, n + 1, key) = Names(lines, n, key)
      BY <2>4, NamesOfLine DEF Kinds
    <3>2. ScanLine(before, line) = before
      BY <1>4, <2>4 DEF ScanLine, Scanned, Section
    <3> QED
      BY <1>1, <1>2, <2>1, <3>1, <3>2 DEF Scanned
  <2> QED
    BY <2>2, <2>3, <2>4
<1> QED
  BY <1>3, <1>4

\* parseDShowDevices finds the names that stand under each heading.
LEMMA ScanFindsListed ==
  ASSUME NEW lines, lines \in Seq(Elements(lines)), NEW key \in Kinds
  PROVE  ParseDShowDevices(lines)[key] = Listed(lines, key)
<1> DEFINE L == Len(lines)
           start == [section |-> "none", video |-> {}, audio |-> {}]
           step(f, n) ==
             IF n = 0 THEN start
             ELSE LET before == f[n - 1]
                      line == lines[n]
                  IN IF line.mark \in {"video", "audio"}
                     THEN [before EXCEPT !.section = line.mark]
                     ELSE IF line.mark = "name" /\ before.section # "none"
                     THEN [before EXCEPT ![before.section] = @ \cup {line.name}]
                     ELSE before
           P(f) == f = [n \in 0..L |-> step(f, n)]
           g == [n \in 0..L |-> Scanned(lines, n)]
           h == CHOOSE f : P(f)
           S == {n \in Nat : n <= L => h[n] = Scanned(lines, n)}
<1>1. L \in Nat /\ DOMAIN lines = 1..L
  OBVIOUS
<1>2. ParseDShowDevices(lines) = h[L]
  BY Zenon DEF ParseDShowDevices
<1>3. \A f : \A n \in 1..L : step(f, n) = ScanLine(f[n - 1], lines[n])
  BY <1>1 DEF ScanLine, Kinds
<1>4. \A f : step(f, 0) = start
  OBVIOUS
<1> HIDE DEF step, L
<1>5. \A n \in 0..L : n = 0 \/ (n \in 1..L /\ n - 1 \in 0..L /\ n - 1 \in Nat /\ (n - 1) + 1 = n)
  BY <1>1
<1>6. P(g)
  <2>1. \A n \in 0..L : g[n] = Scanned(lines, n)
    OBVIOUS
  <2> HIDE DEF g
  <2>2. ASSUME NEW n \in 0..L
        PROVE  step(g, n) = Scanned(lines, n)
    <3>1. CASE n = 0
      BY <1>4, <3>1, ScannedLine
    <3>2. CASE n # 0
      <4>1. n \in 1..L /\ n - 1 \in 0..L /\ n - 1 \in Nat /\ (n - 1) + 1 = n
        BY <1>5, <3>2
      <4>2. step(g, n) = ScanLine(Scanned(lines, n - 1), lines[n])
        BY <1>3, <2>1, <4>1
      <4> QED
        BY <4>1, <4>2, ScannedLine
    <3> QED
      BY <3>1, <3>2
  <2> QED
    BY <2>2 DEF g
<1>7. P(h)
  <2> HIDE DEF P, g
  <2> QED BY <1>6, Zenon
<1> HIDE DEF h
<1>8. \A n \in 0..L : h[n] = step(h, n)
  BY <1>7
<1>9. Nat \subseteq S
  <2>1. 0 \in S
    <3>1. h[0] = start
      <4>1. h[0] = step(h, 0)
        BY <1>1, <1>8
      <4> QED
        BY <1>4, <4>1
    <3> QED
      BY <3>1, ScannedLine
  <2>2. ASSUME NEW n \in Nat, n \in S
        PROVE  n + 1 \in S
    <3> SUFFICES ASSUME n + 1 <= L
                 PROVE  h[n + 1] = Scanned(lines, n + 1)
      OBVIOUS
    <3>1. n + 1 \in 1..L /\ n + 1 \in 0..L /\ (n + 1) - 1 = n /\ n <= L
      BY <1>1
    <3>2. h[n + 1] = ScanLine(h[n], lines[n + 1])
      BY <1>3, <1>8, <3>1
    <3> QED
      BY <2>2, <3>1, <3>2, ScannedLine
  <2> HIDE DEF S
  <2> QED
    BY <2>1, <2>2, SetInduction
<1>10. h[L] = Scanned(lines, L)
  BY <1>1, <1>9
<1>11. Names(lines, L, key) = Listed(lines, key)
  BY <1>1 DEF Names, NameLines, Under, Listed, Kinds, L
<1> QED
  BY <1>2, <1>10, <1>11 DEF Scanned, Kinds

\* A listing names finitely many devices.
LEMMA ListedFinite ==
  ASSUME NEW lines, lines \in Seq(Elements(lines)), NEW key
  PROVE  IsFiniteSet(Listed(lines, key))
<1> DEFINE M == {m \in DOMAIN lines : lines[m].mark = "name" /\
                   \E h \in 1..m : /\ lines[h].mark = key
                                   /\ \A k \in h..m : lines[k].mark \in {"video", "audio"} => k = h}
           T == {lines[n].name : n \in M}
           f == [n \in M |-> lines[n].name]
<1>1. Listed(lines, key) = T
  BY DEF Listed
<1>2. M \subseteq 1..Len(lines) /\ Len(lines) \in Int /\ 1 \in Int
  OBVIOUS
<1> HIDE DEF M
<1>3. IsFiniteSet(M)
  BY <1>2, FS_Interval, FS_Subset
<1>4. f \in [M -> T] /\ \A t \in T : \E n \in M : f[n] = t
  OBVIOUS
<1> HIDE DEF T, f
<1>5. f \in Surjection(M, T)
  BY <1>4, Fun_IsSurj
<1> QED
  BY <1>1, <1>3, <1>5, FS_Surjection

\* What is opened is the device that was asked for, or the only one like it.
LEMMA DeviceFits ==
  ASSUME NEW lines, lines \in Seq(Elements(lines)), NEW key \in Kinds, NEW asked
  PROVE  LET opened == ResolveDeviceName(asked, ParseDShowDevices(lines)[key])
         IN IF asked = None THEN opened = None
            ELSE FitsRequest(opened, asked, Listed(lines, key))
<1> DEFINE devices == Listed(lines, key)
           near == {d \in devices : Resembles(d, asked)}
           opened == ResolveDeviceName(asked, devices)
<1>1. ParseDShowDevices(lines)[key] = devices
  BY ScanFindsListed
<1>2. IsFiniteSet(near)
  BY ListedFinite, FS_Subset
<1>3. opened = IF asked = None \/ asked \in devices \/ Cardinality(near) # 1
               THEN asked ELSE CHOOSE d \in near : TRUE
  BY DEF ResolveDeviceName
<1>4. ASSUME asked # None, opened # asked
      PROVE  FitsRequest(opened, asked, devices)
  <2>1. asked \notin devices /\ Cardinality(near) = 1 /\ opened = CHOOSE d \in near : TRUE
    BY <1>3, <1>4
  <2>2. PICK x : near = {x}
    BY <1>2, <2>1, FS_Singleton
  <2>3. opened = x
    BY <2>1, <2>2
  <2> QED
    BY <2>1, <2>2, <2>3 DEF FitsRequest
<1>5. asked = None => opened = None
  BY <1>3
<1>6. opened = asked => FitsRequest(opened, asked, devices)
  BY DEF FitsRequest
<1> HIDE DEF devices, opened
<1> QED
  BY <1>1, <1>4, <1>5, <1>6 DEF devices, opened

\* The sizes of the three layouts: which of them are wide.
LEMMA SizesOfLayout ==
  ASSUME NEW layout \in {"portrait", "landscape", "both"}
  PROVE  LET video == VideoRenditions(layout)
             wide == {n \in DOMAIN video : video[n][1] > video[n][2]}
         IN /\ (wide # {}) = (layout \in {"landscape", "both"})
            /\ (wide = DOMAIN video) = (layout = "landscape")
<1> DEFINE video == VideoRenditions(layout)
           wide == {n \in DOMAIN video : video[n][1] > video[n][2]}
<1>1. /\ DOMAIN PortraitSizes = {1, 2, 3}
      /\ \A n \in {1, 2, 3} : ~(PortraitSizes[n][1] > PortraitSizes[n][2])
      /\ Len(PortraitSizes) = 3 /\ PortraitSizes \in Seq(Seq(Nat))
  BY DEF PortraitSizes
<1>2. /\ DOMAIN LandscapeSizes = {1, 2, 3}
      /\ \A n \in {1, 2, 3} : LandscapeSizes[n][1] > LandscapeSizes[n][2]
      /\ Len(LandscapeSizes) = 3 /\ LandscapeSizes \in Seq(Seq(Nat))
  BY DEF LandscapeSizes
<1>3. CASE layout = "portrait"
  <2>1. video = PortraitSizes
    BY <1>3 DEF VideoRenditions
  <2>2. wide = {} /\ DOMAIN video # {}
    BY <1>1, <2>1
  <2> QED
    BY <1>3, <2>2
<1>4. CASE layout = "landscape"
  <2>1. video = LandscapeSizes
    BY <1>4 DEF VideoRenditions
  <2>2. wide = DOMAIN video /\ DOMAIN video # {}
    BY <1>2, <2>1
  <2> QED
    BY <1>4, <2>2
<1>5. CASE layout = "both"
  <2>1. video = PortraitSizes \o LandscapeSizes
    BY <1>5 DEF VideoRenditions
  <2> HIDE DEF video
  <2>2. /\ video \in Seq(Seq(Nat)) /\ Len(video) = Len(PortraitSizes) + Len(LandscapeSizes)
        /\ \A n \in 1..Len(PortraitSizes) + Len(LandscapeSizes) :
             video[n] = IF n <= Len(PortraitSizes) THEN PortraitSizes[n]
                        ELSE LandscapeSizes[n - Len(PortraitSizes)]
    <3>1. PortraitSizes \in Seq(Seq(Nat)) /\ LandscapeSizes \in Seq(Seq(Nat))
      BY <1>1, <1>2
    <3> QED
      BY <2>1, <3>1, ConcatProperties
  <2>3. DOMAIN video = 1..6 /\ video[1] = PortraitSizes[1] /\ video[4] = LandscapeSizes[1]
    BY <1>1, <1>2, <2>2
  <2>4. 1 \in DOMAIN video /\ 1 \notin wide /\ 4 \in wide
    BY <1>1, <1>2, <2>3
  <2>5. wide # {} /\ wide # DOMAIN video
    BY <2>4
  <2> HIDE DEF wide
  <2> QED
    BY <1>5, <2>5 DEF video, wide
<1> QED
  BY <1>3, <1>4, <1>5

USE StartupAssumption, ConfigAssumption

-----------------------------------------------------------------------------
(* The inductive invariant *)

Loaded == pc \in {"resolve", "init", "ready"}

\* What main knows of the configuration once it has accepted it.
Accepted ==
  Loaded => /\ BlankOrURL(cfg.publishUrl) /\ BlankOrURL(cfg.publishUrl2)
            /\ cfg.publishUrl # None \/ cfg.publishUrl2 # None
            /\ cfg.inputFile # None

Progress ==
  /\ pc \in {"load", "resolve", "init", "ready", "exited"}
  /\ now \in 0..MaxClock /\ next \in 1..3
  /\ pc \in {"init", "ready"} => next = 3
  /\ failure # "targets"
  /\ failure = "credential" => HasAuth

\* A target is a URL whose credentials have been filled in, if there are any to
\* fill in; without the service it still can be told which ones, as long as the
\* clock has not moved.
Became(t, url) ==
  /\ url # None /\ t # None
  /\ CameFrom(t, url)
  /\ IF HasAuth THEN t.base # None ELSE t = url
  /\ now = 0 /\ (HasAuth => cfg.appSecret # None) => t \in Resolutions(url)

\* The targets so far, in the order of the two URLs.
Resolved ==
  Loaded =>
    \/ next = 1 /\ targets = <<>>
    \/ next = 2 /\ cfg.publishUrl = None /\ targets = <<>>
    \/ next = 2 /\ targets = <<targets[1]>> /\ Became(targets[1], cfg.publishUrl)
    \/ /\ next = 3 /\ targets = <<targets[1]>> /\ targets[1] # None
       /\ cfg.publishUrl = None \/ Became(targets[1], cfg.publishUrl)
       /\ cfg.publishUrl2 = None \/ Became(targets[1], cfg.publishUrl2)
    \/ /\ next = 3 /\ targets = <<targets[1], targets[2]>> /\ targets[1] # targets[2]
       /\ Became(targets[1], cfg.publishUrl) /\ Became(targets[2], cfg.publishUrl2)

\* The workers share the targets out, or one of them has them all.
Shared == os = "windows" /\ IsDShowInput(cfg.inputFile)

Distributed ==
  /\ pc \in {"init", "ready"} => announced = targets[1]
  /\ pc = "ready" =>
       \/ workers = <<targets>>
       \/ /\ workers = [i \in DOMAIN targets |-> <<targets[i]>>]
          /\ Shared => Len(targets) = 1

StartupInv == Accepted /\ Progress /\ Resolved /\ Distributed

\* It holds at the beginning.
LEMMA InitStartup == Init => StartupInv
  BY DEF Init, StartupInv, Accepted, Progress, Resolved, Distributed, Loaded

\* Resolving a URL.
LEMMA ResolutionBecame ==
  ASSUME Accepted, Progress, pc = "resolve",
         NEW url \in {cfg.publishUrl, cfg.publishUrl2}, url # None,
         NEW t \in Resolutions(url)
  PROVE  Became(t, url)
<1>1. url = [base |-> url.base, stream |-> url.stream, auth |-> url.auth]
      /\ \A c \in AllCredentials : [url EXCEPT !.auth = c] # None
  BY DEF Accepted, Loaded, BlankOrURL
<1>2. \A c \in Credentials : c \in AllCredentials /\ c # Placeholder
  <2>1. CASE cfg.appSecret # None
    BY <2>1 DEF Credentials, AllCredentials, Placeholder, Progress
  <2>2. CASE cfg.appSecret = None
    BY <2>2 DEF Credentials, AllCredentials, Placeholder
  <2> QED
    BY <2>1, <2>2
<1>3. CASE ~HasAuth
  BY <1>3 DEF Resolutions, Became, CameFrom
<1>4. CASE HasAuth /\ url.auth = Placeholder
  <2>1. url.base # None
    BY <1>4 DEF Resolutions
  <2>2. PICK c \in Credentials : t = [url EXCEPT !.auth = c]
    BY <1>4, <2>1 DEF Resolutions
  <2>3. t # None
    BY <1>1, <1>2, <2>2
  <2>4. t.base = url.base /\ t.stream = url.stream /\ t.auth = c
    BY <1>1, <2>2
  <2> QED
    BY <1>2, <1>4, <2>1, <2>3, <2>4 DEF Became, CameFrom
<1>5. CASE HasAuth /\ url.auth # Placeholder
  BY <1>5 DEF Resolutions, Became, CameFrom
<1> QED
  BY <1>3, <1>4, <1>5

\* The files and the environment are the given ones, and nothing is resolved
\* before the configuration is loaded.
Given ==
  /\ file \in ConfigFiles /\ env \in Environments
  /\ pc = "load" => next = 1 /\ targets = <<>> /\ failure = "none"

\* Load accepts what it leaves behind.
LEMMA LoadStartup ==
  ASSUME StartupInv, Given, Load
  PROVE  StartupInv'
<1> DEFINE config == OverrideByEnv(file, env)
<1>1. /\ file = [f \in Fields |-> file[f]]
      /\ BlankOrURL(file.publishUrl) /\ BlankOrURL(file.publishUrl2)
  BY DEF Load, Given
<1>2. config = [f \in Fields |-> config[f]]
  BY <1>1 DEF OverrideByEnv
<1>3. \A f \in {"publishUrl", "publishUrl2"} : BlankOrURL(config[f])
  <2>1. \A f \in {"publishUrl", "publishUrl2"} :
          config[f] = IF f \in DOMAIN env /\ env[f] # Unparsable THEN env[f] ELSE file[f]
    BY <1>1 DEF OverrideByEnv, Fields
  <2> HIDE DEF config
  <2> QED
    BY <1>1, <2>1 DEF Given
<1>4. Valid(config) /\ cfg' = [config EXCEPT !.videoLayout = Layout(config)]
  BY DEF Load
<1> HIDE DEF config
<1>5. cfg'.publishUrl = config.publishUrl /\ cfg'.publishUrl2 = config.publishUrl2
      /\ cfg'.inputFile = config.inputFile
  BY <1>2, <1>4 DEF Fields
<1>6. Accepted'
  BY <1>3, <1>4, <1>5 DEF Accepted, Valid, BlankOrURL, AllCredentials
<1>7. Progress'
  BY DEF Load, StartupInv, Progress, Given
<1>8. Resolved' /\ Distributed'
  BY DEF Load, Given, Resolved, Distributed
<1> QED
  BY <1>6, <1>7, <1>8 DEF StartupInv

\* A resolution adds what became of the URL.
LEMMA ResolveStartup ==
  ASSUME StartupInv, Resolve
  PROVE  StartupInv'
<1>1. PICK r \in Resolutions(Raw) : targets' = AddTarget(targets, r)
  BY DEF Resolve
<1>2. pc = "resolve" /\ next \in {1, 2} /\ Raw # None /\ next' = next + 1
      /\ UNCHANGED <<cfg, now, pc, failure, announced, workers, os>>
  BY DEF Resolve, StartupInv, Progress
<1>3. /\ Raw \in {cfg.publishUrl, cfg.publishUrl2}
      /\ Raw = IF next = 1 THEN cfg.publishUrl ELSE cfg.publishUrl2
  BY <1>2 DEF Raw
<1>4. Became(r, Raw)
  BY <1>2, <1>3, ResolutionBecame DEF StartupInv
<1>5. \A t, url : Became(t, url) => Became(t, url)'
  BY <1>2 DEF Became, CameFrom, HasAuth, Resolutions, Credentials
<1>6. Accepted' /\ Progress' /\ Distributed'
  BY <1>2 DEF StartupInv, Accepted, Progress, Distributed, Loaded, HasAuth
<1>7. Resolved'
  <2>1. CASE next = 1
    <3>1. targets' = <<r>> /\ next' = 2
      <4>1. targets = <<>>
        BY <1>2, <2>1 DEF StartupInv, Resolved, Loaded
      <4> QED
        BY <1>1, <1>2, <2>1, <4>1 DEF AddTarget, Elements
    <3>2. Became(r, cfg.publishUrl)'
      BY <1>2, <1>3, <1>4, <1>5, <2>1
    <3> QED
      BY <3>1, <3>2 DEF Resolved
  <2>2. CASE next = 2 /\ cfg.publishUrl = None /\ targets = <<>>
    <3>1. targets' = <<r>> /\ next' = 3 /\ r # None
      BY <1>1, <1>2, <1>4, <2>2 DEF AddTarget, Elements, Became
    <3>2. Became(r, cfg.publishUrl2)'
      BY <1>2, <1>3, <1>4, <1>5, <2>2
    <3> QED
      BY <1>2, <2>2, <3>1, <3>2 DEF Resolved
  <2>3. CASE next = 2 /\ targets = <<targets[1]>> /\ Became(targets[1], cfg.publishUrl)
    <3>1. PICK t : t = targets[1]
      OBVIOUS
    <3>2. targets = <<t>> /\ Became(t, cfg.publishUrl) /\ t # None
      BY <2>3, <3>1 DEF Became
    <3>3. Became(t, cfg.publishUrl)' /\ Became(r, cfg.publishUrl2)'
      BY <1>2, <1>3, <1>4, <1>5, <2>3, <3>2
    <3>4. CASE r = t
      <4>1. targets' = <<t>> /\ next' = 3
        BY <1>1, <1>2, <2>3, <3>2, <3>4 DEF AddTarget, Elements
      <4> QED
        BY <3>2, <3>3, <3>4, <4>1 DEF Resolved
    <3>5. CASE r # t
      <4>1. targets' = <<t, r>> /\ next' = 3
        BY <1>1, <1>2, <2>3, <3>2, <3>5, AppendTwo DEF AddTarget, Elements
      <4> QED
        BY <3>3, <3>5, <4>1 DEF Resolved
    <3> QED
      BY <3>4, <3>5
  <2> QED
    BY <1>2, <2>1, <2>2, <2>3 DEF StartupInv, Resolved, Loaded
<1> QED
  BY <1>6, <1>7 DEF StartupInv

\* A blank URL is no target.
LEMMA SkipStartup ==
  ASSUME StartupInv, SkipBlank
  PROVE  StartupInv'
<1>1. /\ Loaded /\ pc = "resolve" /\ next \in {1, 2} /\ next' = next + 1
      /\ UNCHANGED <<os, failure, cfg, now, targets, announced, pc, workers>>
  BY DEF SkipBlank, StartupInv, Progress, Loaded
<1>2. (IF next = 1 THEN cfg.publishUrl ELSE cfg.publishUrl2) = None
  BY <1>1 DEF SkipBlank, Raw
<1>3. \A t, url : Became(t, url) => Became(t, url)'
  BY <1>1 DEF Became, CameFrom, HasAuth, Resolutions, Credentials
<1>4. Accepted' /\ Progress' /\ Distributed'
  BY <1>1 DEF StartupInv, Accepted, Progress, Distributed, Loaded, HasAuth
<1>5. Resolved'
  <2>1. CASE next = 1
    BY <1>1, <1>2, <2>1 DEF StartupInv, Resolved, Loaded
  <2>2. CASE next = 2
    <3>1. PICK t : t = targets[1]
      OBVIOUS
    <3>2. cfg.publishUrl # None
      BY <1>1, <1>2, <2>2 DEF StartupInv, Accepted
    <3>3. targets = <<t>> /\ Became(t, cfg.publishUrl) /\ t # None
      BY <1>1, <2>2, <3>1, <3>2 DEF StartupInv, Resolved, Became
    <3> QED
      BY <1>1, <1>2, <1>3, <2>2, <3>3 DEF Resolved
  <2> QED
    BY <1>1, <2>1, <2>2
<1> QED
  BY <1>4, <1>5 DEF StartupInv

\* What a step leaves alone that neither reads the configuration nor resolves a URL.
Untouched == UNCHANGED <<cfg, next, targets, announced, workers, os>>

\* Such a step may let a second pass, and main may exit for want of credentials only.
LEMMA UntouchedStartup ==
  ASSUME StartupInv, Untouched, now' \in {now, now + 1}, now' <= MaxClock,
         \/ pc' = pc /\ failure' = failure
         \/ pc' = "exited" /\ failure' # "targets" /\ (failure' = "credential" => HasAuth)
  PROVE  StartupInv'
<1>1. HasAuth' <=> HasAuth
  BY DEF Untouched, HasAuth
<1>2. \A t, url : Became(t, url) => Became(t, url)'
  BY DEF Untouched, Became, CameFrom, HasAuth, Resolutions, Credentials, StartupInv, Progress
<1>3. Accepted' /\ Progress'
  BY <1>1 DEF Untouched, StartupInv, Accepted, Progress, Loaded
<1>4. Resolved'
  <2>1. PICK t, u : t = targets[1] /\ u = targets[2]
    OBVIOUS
  <2> QED
    BY <1>2, <2>1 DEF Untouched, StartupInv, Resolved, Loaded
<1>5. Distributed'
  BY DEF Untouched, StartupInv, Distributed, Shared
<1> QED
  BY <1>3, <1>4, <1>5 DEF StartupInv

\* Once both URLs are looked at there are one or two targets, none of them blank.
LEMMA OneOrTwo ==
  ASSUME StartupInv, Loaded, next = 3
  PROVE  \/ \E a : targets = <<a>> /\ a # None
         \/ \E a, b : targets = <<a, b>> /\ a # b /\ a # None /\ b # None
  BY DEF StartupInv, Resolved, Became

\* There is always something to announce.
LEMMA AnnounceStartup ==
  ASSUME StartupInv, Announce
  PROVE  StartupInv'
<1>1. Loaded /\ next = 3
  BY DEF Announce, StartupInv, Progress, Loaded
<1>2. targets # <<>>
  BY <1>1, OneOrTwo
<1>3. pc' = "init" /\ announced' = targets[1] /\ failure' = failure
      /\ UNCHANGED <<os, cfg, now, next, targets, workers>>
  BY <1>2 DEF Announce
<1>4. \A t, url : Became(t, url) => Became(t, url)'
  BY <1>3 DEF Became, CameFrom, HasAuth, Resolutions, Credentials
<1>5. Accepted' /\ Progress' /\ Distributed'
  BY <1>1, <1>3 DEF StartupInv, Accepted, Progress, Distributed, Loaded, HasAuth
<1>6. Resolved'
  <2>1. PICK t, u : t = targets[1] /\ u = targets[2]
    OBVIOUS
  <2> QED
    BY <1>1, <1>3, <1>4, <2>1 DEF StartupInv, Resolved, Loaded
<1> QED
  BY <1>5, <1>6 DEF StartupInv

\* uniqueNonEmpty changes nothing any more, and the targets are shared out.
LEMMA PublisherStartup ==
  ASSUME StartupInv, InitFFmpegPublisher
  PROVE  StartupInv'
<1>1. Loaded /\ next = 3 /\ pc = "init" /\ pc' = "ready"
      /\ UNCHANGED <<os, failure, cfg, now, next, announced>>
  BY DEF InitFFmpegPublisher, StartupInv, Progress, Loaded
<1>2. UniqueNonEmpty(targets) = targets
  BY <1>1, OneOrTwo, UniqueOne, UniqueTwo
<1>3. /\ targets' = targets
      /\ workers' = IF UsesSharedFFmpeg(os, cfg.inputFile, targets) THEN <<targets>>
                    ELSE [i \in DOMAIN targets |-> <<targets[i]>>]
  BY <1>2, Zenon DEF InitFFmpegPublisher
<1>4. \A t, url : Became(t, url) => Became(t, url)'
  BY <1>1 DEF Became, CameFrom, HasAuth, Resolutions, Credentials
<1>5. Accepted' /\ Progress'
  BY <1>1 DEF StartupInv, Accepted, Progress, Loaded, HasAuth
<1>6. Resolved'
  <2>1. PICK t, u : t = targets[1] /\ u = targets[2]
    OBVIOUS
  <2> QED
    BY <1>1, <1>3, <1>4, <2>1 DEF StartupInv, Resolved, Loaded
<1>7. Distributed'
  <2>1. announced' = targets'[1]
    BY <1>1, <1>3 DEF StartupInv, Distributed
  <2>2. CASE UsesSharedFFmpeg(os, cfg.inputFile, targets)
    BY <1>1, <1>3, <2>1, <2>2 DEF Distributed
  <2>3. CASE ~UsesSharedFFmpeg(os, cfg.inputFile, targets)
    <3>1. Shared' => Len(targets) = 1
      BY <1>1, <2>3, OneOrTwo DEF UsesSharedFFmpeg, Shared
    <3> QED
      BY <1>1, <1>3, <2>1, <2>3, <3>1 DEF Distributed
  <2> QED
    BY <2>2, <2>3
<1> QED
  BY <1>5, <1>6, <1>7 DEF StartupInv

\* Every step preserves the invariant.
LEMMA StartupInductive == Spec => [](StartupInv /\ Given)
<1>1. Init => StartupInv /\ Given
  BY InitStartup DEF Init, Given
<1>2. ASSUME StartupInv, Given, [Next]_vars
      PROVE  StartupInv' /\ Given'
  <2>1. now \in 0..MaxClock /\ MaxClock \in Nat
    BY <1>2 DEF StartupInv, Progress
  <2>2. CASE Resolve
    BY <1>2, <2>2, ResolveStartup DEF Resolve, Given
  <2>3. CASE Load
    BY <1>2, <2>3, LoadStartup DEF Load, Given
  <2>4. CASE Announce
    BY <1>2, <2>4, AnnounceStartup DEF Announce, Given, Exit
  <2>5. CASE InitFFmpegPublisher
    BY <1>2, <2>5, PublisherStartup DEF InitFFmpegPublisher, Given
  <2>6. CASE NoConfig \/ ConfigRejected \/ ResolveFails \/ Tick
    <3>1. Given'
      BY <1>2, <2>6 DEF NoConfig, ConfigRejected, ResolveFails, Tick, Given, Exit
    <3>2. /\ Untouched /\ now' \in {now, now + 1} /\ now' <= MaxClock
          /\ \/ pc' = pc /\ failure' = failure
             \/ pc' = "exited" /\ failure' # "targets" /\ (failure' = "credential" => HasAuth)
      BY <2>1, <2>6 DEF NoConfig, ConfigRejected, ResolveFails, Tick, Untouched, Exit
    <3> QED
      BY <1>2, <3>1, <3>2, UntouchedStartup
  <2>7. CASE Publishing \/ Plug \/ Exited \/ UNCHANGED vars
    <3>1. UNCHANGED <<mainVars, pc, workers>>
      BY <2>7 DEF Publishing, Launch, Down, Up, Plug, Exited, vars
    <3> QED
      BY <1>2, <2>1, <3>1, UntouchedStartup DEF mainVars, Untouched, Given
  <2>8. CASE SkipBlank
    BY <1>2, <2>8, SkipStartup DEF SkipBlank, Given
  <2> QED
    BY <1>2, <2>2, <2>3, <2>4, <2>5, <2>6, <2>7, <2>8 DEF Next
<1> QED
  BY <1>1, <1>2, PTL DEF Spec

-----------------------------------------------------------------------------
(* Targets and workers *)

\* Once the configuration is accepted, nothing but the credentials keeps main from
\* publishing: there are targets, an input and workers with something to do
\* (main.go:106, ffmpeg_worker.go:160).
THEOREM OnlyCredentialsFail == Spec => []OnlyCredentialsFailLate
<1>1. ASSUME StartupInv
      PROVE  OnlyCredentialsFailLate
  <2>1. failure # "targets" /\ (failure = "credential" => HasAuth)
    BY <1>1 DEF StartupInv, Progress
  <2>2. ASSUME pc \in {"init", "ready"}
        PROVE  targets # <<>> /\ cfg.inputFile # None
    <3>1. Loaded /\ next = 3
      BY <1>1, <2>2 DEF StartupInv, Progress, Loaded
    <3> QED
      BY <1>1, <3>1, OneOrTwo DEF StartupInv, Accepted
  <2>3. ASSUME pc = "ready"
        PROVE  workers # <<>> /\ \A i \in DOMAIN workers : workers[i] # <<>>
    <3>1. targets # <<>>
      BY <2>2, <2>3
    <3>2. CASE workers = <<targets>>
      BY <3>1, <3>2
    <3>3. CASE workers = [i \in DOMAIN targets |-> <<targets[i]>>]
      <4>1. DOMAIN targets # {}
        <5>1. Loaded /\ next = 3
          BY <1>1, <2>3 DEF StartupInv, Progress, Loaded
        <5> QED
          BY <1>1, <5>1, OneOrTwo
      <4> QED
        BY <3>3, <4>1
    <3> QED
      BY <1>1, <2>3, <3>2, <3>3 DEF StartupInv, Distributed
  <2> QED
    BY <2>1, <2>2, <2>3 DEF OnlyCredentialsFailLate
<1> QED
  BY <1>1, StartupInductive, PTL

\* A filter of one or two targets keeps the elements it is to keep.
LEMMA FilterElements ==
  ASSUME NEW s, NEW keep, (\E a : s = <<a>>) \/ (\E a, b : s = <<a, b>>)
  PROVE  Elements(Filter(s, keep)) = Elements(s) \cap keep
<1>1. ASSUME NEW a, s = <<a>>
      PROVE  Elements(Filter(s, keep)) = Elements(s) \cap keep
  BY <1>1, FilterOne DEF Elements
<1>2. ASSUME NEW a, NEW b, s = <<a, b>>
      PROVE  Elements(Filter(s, keep)) = Elements(s) \cap keep
  <2>1. /\ Elements(<<a, b>>) = {a, b} /\ Elements(<<>>) = {}
        /\ \A x : Elements(<<x>>) = {x}
    BY DEF Elements
  <2>2. Filter(s, keep) = IF a \in keep THEN IF b \in keep THEN <<a, b>> ELSE <<a>>
                          ELSE IF b \in keep THEN <<b>> ELSE <<>>
    BY <1>2, FilterTwo
  <2> QED
    BY <1>2, <2>1, <2>2
<1> QED
  BY <1>1, <1>2

\* Every configured URL became a target.
LEMMA EveryUrlBecame ==
  ASSUME StartupInv, pc = "ready", NEW url \in Configured
  PROVE  \E t \in Elements(targets) : Became(t, url)
  BY DEF StartupInv, Progress, Resolved, Loaded, Configured, Elements

\* Every target was configured.
LEMMA EveryTargetBecame ==
  ASSUME StartupInv, pc = "ready", NEW t \in Elements(targets)
  PROVE  \E url \in Configured : Became(t, url)
<1>1. PICK a, b : a = targets[1] /\ b = targets[2]
  OBVIOUS
<1> QED
  BY <1>1 DEF StartupInv, Accepted, Progress, Resolved, Loaded, Configured, Elements, Became

\* The announced URL names its target and no other, and a URL as it stands in the
\* configuration, with its placeholders, still names what became of it
\* (ffmpeg_worker.go:367-398).
THEOREM UrlsNameTheirStreams == Spec => []EveryUrlNamesItsStream
<1>1. ASSUME StartupInv, pc = "ready"
      PROVE  ResolveTargets(targets, announced) = <<announced>>
  <2>1. announced = targets[1] /\ Loaded /\ next = 3
    BY <1>1 DEF StartupInv, Distributed, Progress, Loaded
  <2>2. announced \in Elements(targets)
    BY <1>1, <2>1, OneOrTwo DEF Elements
  <2> QED
    BY <2>2 DEF ResolveTargets
<1>2. ASSUME StartupInv, pc = "ready", NEW url \in Configured
      PROVE  \E t \in Elements(ResolveTargets(targets, url)) : CameFrom(t, url)
  <2>1. PICK t \in Elements(targets) : Became(t, url)
    BY <1>1, <1>2, EveryUrlBecame
  <2>2. Loaded /\ next = 3
    BY <1>2 DEF StartupInv, Progress, Loaded
  <2>3. CASE url \in Elements(targets)
    <3>1. ResolveTargets(targets, url) = <<url>>
      BY <2>3 DEF ResolveTargets
    <3>2. HasAuth => url.auth # Placeholder
      BY <1>2, <2>3, EveryTargetBecame DEF Became, CameFrom
    <3>3. CameFrom(url, url)
      BY <3>2 DEF CameFrom
    <3> QED
      BY <3>1, <3>3 DEF Elements
  <2>4. CASE url \notin Elements(targets)
    <3>1. SameBase(t, url)
      BY <2>1, <2>4 DEF Became, CameFrom, SameBase
    <3>2. t \in Elements(ResolveTargets(targets, url))
      <4>1. ResolveTargets(targets, url) =
              Filter(targets, {x \in Elements(targets) : SameBase(x, url) \/ <<x, url>> \in Continued})
        BY <2>4 DEF ResolveTargets, OfSameBase
      <4>2. (\E a : targets = <<a>>) \/ (\E a, b : targets = <<a, b>>)
        BY <1>2, <2>2, OneOrTwo
      <4> QED
        BY <2>1, <3>1, <4>1, <4>2, FilterElements
    <3> QED
      BY <2>1, <3>2 DEF Became
  <2> QED
    BY <2>3, <2>4
<1>3. StartupInv => EveryUrlNamesItsStream
  BY <1>1, <1>2 DEF EveryUrlNamesItsStream
<1> QED
  BY <1>3, StartupInductive, PTL

\* The elements of a list of one, and of two different ones, are as many.
LEMMA OneElement ==
  ASSUME NEW a
  PROVE  Elements(<<a>>) = {a} /\ Cardinality(Elements(<<a>>)) = Len(<<a>>)
<1>1. Elements(<<a>>) = {a} /\ Len(<<a>>) = 1
  BY DEF Elements
<1> QED
  BY <1>1, FS_Singleton

LEMMA TwoElements ==
  ASSUME NEW a, NEW b, a # b
  PROVE  Cardinality(Elements(<<a, b>>)) = Len(<<a, b>>)
<1>1. Elements(<<a, b>>) = {a} \cup {b} /\ Len(<<a, b>>) = 2
  BY DEF Elements
<1>2. IsFiniteSet({a}) /\ Cardinality({a}) = 1 /\ b \notin {a}
  BY FS_Singleton
<1>3. Cardinality({a} \cup {b}) = Cardinality({a}) + 1
  BY <1>2, FS_AddElement
<1> QED
  BY <1>1, <1>2, <1>3

\* Every configured URL is sent by a worker, no target by two or twice by one, a
\* capture device is opened by one ffmpeg, and the same URL in both fields is one
\* target unless its credential has changed between the two (ffmpeg_worker.go:994,
\* main.go:99).
THEOREM StreamsAreSentOnce == Spec => []EveryStreamIsSentOnce
<1> SUFFICES ASSUME StartupInv, pc = "ready"
             PROVE  /\ \A url \in Configured :
                         \E i \in DOMAIN workers :
                           \E t \in Elements(workers[i]) : CameFrom(t, url)
                    /\ \A i \in DOMAIN workers :
                         /\ Cardinality(Elements(workers[i])) = Len(workers[i])
                         /\ \A j \in DOMAIN workers \ {i} :
                              Elements(workers[i]) \cap Elements(workers[j]) = {}
                    /\ os = "windows" /\ IsDShowInput(cfg.inputFile) => Len(workers) = 1
                    /\ /\ cfg.publishUrl = cfg.publishUrl2 /\ now = 0
                       /\ HasAuth => cfg.appSecret # None
                       => Len(targets) = 1
  <2>1. StartupInv => EveryStreamIsSentOnce
    BY DEF EveryStreamIsSentOnce
  <2> QED
    BY <2>1, StartupInductive, PTL
<1>1. Loaded /\ next = 3
  BY DEF StartupInv, Progress, Loaded
<1>2. \/ workers = <<targets>>
      \/ /\ workers = [i \in DOMAIN targets |-> <<targets[i]>>]
         /\ Shared => Len(targets) = 1
  BY DEF StartupInv, Distributed
<1>3. ASSUME NEW url \in Configured
      PROVE  \E i \in DOMAIN workers : \E t \in Elements(workers[i]) : CameFrom(t, url)
  <2>1. PICK k \in DOMAIN targets : Became(targets[k], url)
    BY EveryUrlBecame DEF Elements
  <2> QED
    BY <1>2, <2>1 DEF Became, Elements
<1>4. Shared => Len(workers) = 1
  <2>1. CASE workers = <<targets>>
    BY <2>1
  <2>2. CASE /\ workers = [i \in DOMAIN targets |-> <<targets[i]>>]
             /\ Shared => Len(targets) = 1
    BY <1>1, <2>2, OneOrTwo
  <2> QED
    BY <1>2, <2>1, <2>2
<1>5. ASSUME NEW i \in DOMAIN workers
      PROVE  /\ Cardinality(Elements(workers[i])) = Len(workers[i])
             /\ \A j \in DOMAIN workers \ {i} :
                  Elements(workers[i]) \cap Elements(workers[j]) = {}
  <2>1. CASE workers = <<targets>>
    <3>1. i = 1 /\ workers[i] = targets /\ DOMAIN workers = {1}
      BY <1>5, <2>1
    <3>2. Cardinality(Elements(targets)) = Len(targets)
      <4>1. ASSUME NEW a, targets = <<a>>
            PROVE  Cardinality(Elements(targets)) = Len(targets)
        BY <4>1, OneElement
      <4>2. ASSUME NEW a, NEW b, targets = <<a, b>>, a # b
            PROVE  Cardinality(Elements(targets)) = Len(targets)
        BY <4>2, TwoElements
      <4> QED
        BY <1>1, <4>1, <4>2, OneOrTwo
    <3> QED
      BY <3>1, <3>2
  <2>2. CASE workers = [k \in DOMAIN targets |-> <<targets[k]>>]
    <3>1. /\ DOMAIN workers = DOMAIN targets
          /\ \A k \in DOMAIN targets : workers[k] = <<targets[k]>>
      BY <2>2
    <3>2. \A k \in DOMAIN workers : /\ Elements(workers[k]) = {targets[k]}
                                   /\ Cardinality(Elements(workers[k])) = Len(workers[k])
      BY <3>1, OneElement
    <3>3. \A j, k \in DOMAIN targets : j # k => targets[j] # targets[k]
      BY <1>1, OneOrTwo
    <3> QED
      BY <1>5, <3>1, <3>2, <3>3
  <2> QED
    BY <1>2, <2>1, <2>2
<1>6. ASSUME cfg.publishUrl = cfg.publishUrl2, now = 0, HasAuth => cfg.appSecret # None
      PROVE  Len(targets) = 1
  <2> DEFINE u == cfg.publishUrl
  <2>1. \A s, t : s \in Resolutions(u) /\ t \in Resolutions(u) => s = t
    BY <1>6 DEF Resolutions, Credentials
  <2>2. \A t : Became(t, u) => t \in Resolutions(u)
    BY <1>6 DEF Became
  <2>3. ASSUME NEW a, NEW b, targets = <<a, b>>, a # b
        PROVE  FALSE
    <3>1. Became(a, u) /\ Became(b, u)
      BY <1>1, <1>6, <2>3 DEF StartupInv, Resolved
    <3> QED
      BY <2>1, <2>2, <2>3, <3>1
  <2> QED
    BY <1>1, <2>3, OneOrTwo
<1> QED
  BY <1>3, <1>4, <1>5, <1>6 DEF Shared

-----------------------------------------------------------------------------
(* Launches *)

\* What a launch reads: a listing, the input and the layout the configuration asks
\* for; and nothing has been launched before there are workers.
CfgIsAsked ==
  LET layout == Asked("videoLayout")
  IN /\ cfg.inputFile = Asked("inputFile")
     /\ cfg.videoLayout \in {"portrait", "landscape", "both"}
     /\ cfg.videoLayout = IF layout = None THEN "portrait" ELSE LowerCase(layout)

Commands ==
  /\ listing \in Listings
  /\ Loaded => CfgIsAsked
  /\ IF pc = "ready"
     THEN DOMAIN command = DOMAIN workers /\ command = [i \in DOMAIN command |-> command[i]]
     ELSE command = <<>>

\* Load takes over the input, and the layout after it is settled.
LEMMA LoadConfigures ==
  ASSUME Given, Load
  PROVE  CfgIsAsked'
<1> DEFINE config == OverrideByEnv(file, env)
<1>1. file = [f \in Fields |-> file[f]]
  BY DEF Load, Given
<1>2. /\ config = [f \in Fields |-> config[f]]
      /\ \A f \in Fields : config[f] = Asked(f)
  BY <1>1 DEF OverrideByEnv, Asked
<1>3. Valid(config) /\ cfg' = [config EXCEPT !.videoLayout = Layout(config)]
      /\ file' = file /\ env' = env
  BY DEF Load
<1> HIDE DEF config
<1>4. "inputFile" \in Fields /\ "videoLayout" \in Fields
  BY DEF Fields
<1>5. cfg'.inputFile = config.inputFile /\ cfg'.videoLayout = Layout(config)
  BY <1>2, <1>3, <1>4
<1>6. config.inputFile = Asked("inputFile") /\ config.videoLayout = Asked("videoLayout")
  BY <1>2, <1>4
<1>7. \A f : Asked(f)' = Asked(f)
  BY <1>3 DEF Asked
<1>8. Layout(config) \in {"portrait", "landscape", "both"}
  BY <1>3 DEF Valid
<1> QED
  BY <1>5, <1>6, <1>7, <1>8 DEF CfgIsAsked, Layout

\* Every step keeps what a launch reads as it is.
LEMMA StepCommands == Given /\ Commands /\ [Next]_vars => Commands'
<1> SUFFICES ASSUME Given, Commands, [Next]_vars
             PROVE  Commands'
  OBVIOUS
<1>1. ASSUME UNCHANGED <<file, env, cfg>>, CfgIsAsked
      PROVE  CfgIsAsked'
  BY <1>1 DEF CfgIsAsked, Asked
<1>2. CASE Load
  BY <1>2, LoadConfigures DEF Load, Commands, Loaded
<1>3. CASE InitFFmpegPublisher
  <2>1. pc' = "ready" /\ command' = [i \in DOMAIN workers' |-> None] /\ CfgIsAsked'
    BY <1>1, <1>3 DEF InitFFmpegPublisher, Commands, Loaded
  <2> QED
    BY <1>3, <2>1 DEF InitFFmpegPublisher, Commands
<1>4. ASSUME NEW i \in DOMAIN workers, Launch(i)
      PROVE  Commands'
  <2>1. pc = "ready" /\ pc' = "ready" /\ CfgIsAsked' /\ listing' = listing /\ workers' = workers
    BY <1>1, <1>4 DEF Launch, Commands, Loaded, mainVars
  <2>2. DOMAIN command' = DOMAIN command /\ command' = [k \in DOMAIN command' |-> command'[k]]
    BY <1>4, <2>1 DEF Launch, Commands
  <2> QED
    BY <2>1, <2>2 DEF Commands
<1>5. CASE Plug
  BY <1>1, <1>5 DEF Plug, Commands, Loaded, mainVars
<1>6. CASE NoConfig \/ ConfigRejected \/ ResolveFails
  BY <1>6 DEF NoConfig, ConfigRejected, ResolveFails, Exit, Commands, Loaded
<1>7. CASE SkipBlank \/ Resolve \/ Tick
  BY <1>1, <1>7 DEF SkipBlank, Resolve, Tick, Commands, Loaded
<1>8. CASE Announce
  BY <1>1, <1>8 DEF Announce, Exit, Commands, Loaded
<1>9. ASSUME UNCHANGED <<mainVars, pc, workers, listing, command>>
      PROVE  Commands'
  BY <1>1, <1>9 DEF Commands, Loaded, mainVars
<1>10. CASE Exited \/ UNCHANGED vars \/ \E u \in NamedURLs : Down(u) \/ Up(u)
  BY <1>9, <1>10 DEF Exited, vars, Down, Up
<1> QED
  BY <1>2, <1>3, <1>4, <1>5, <1>6, <1>7, <1>8, <1>10 DEF Next, Publishing

\* A launch changes the command of its worker only, to one that does what the
\* configuration asks.
LEMMA LaunchIsAsConfigured ==
  ASSUME StartupInv, Commands, NEW j \in DOMAIN workers, Launch(j),
         NEW i \in DOMAIN command, command'[i] # command[i]
  PROVE  AsConfigured(command'[i], i)
<1> DEFINE c == command'[i]
           layout == Asked("videoLayout")
           wide == {n \in DOMAIN c.video : c.video[n][1] > c.video[n][2]}
<1>1. pc = "ready" /\ CfgIsAsked /\ listing \in Seq(Elements(listing))
  BY ListingAssumption DEF Launch, Commands, Loaded
<1>2. i = j /\ c = BuildFFmpegCommand(os, cfg.inputFile, cfg.videoLayout, Active(i), listing)
  BY <1>1 DEF Launch, Commands
<1> HIDE DEF c
<1>3. /\ c.outputs = Active(i) /\ c.video = VideoRenditions(cfg.videoLayout)
      /\ c.dshow => c.capture = Capture(Asked("inputFile"), listing)
  BY <1>1, <1>2 DEF BuildFFmpegCommand, CfgIsAsked
<1>4. c.outputs # <<>>
  BY <1>2, <1>3 DEF Launch
<1>5. Elements(c.outputs) \subseteq Elements(workers[i])
  <2>1. \/ \E a : workers[i] = <<a>>
        \/ \E a, b : workers[i] = <<a, b>>
    <3>1. Loaded /\ next = 3
      BY <1>1 DEF StartupInv, Progress, Loaded
    <3>2. CASE workers = <<targets>>
      BY <1>2, <3>1, <3>2, OneOrTwo
    <3>3. CASE workers = [k \in DOMAIN targets |-> <<targets[k]>>]
      BY <1>2, <3>3
    <3> QED
      BY <1>1, <3>2, <3>3 DEF StartupInv, Distributed
  <2>2. Elements(Active(i)) = Elements(workers[i]) \cap (Elements(workers[i]) \ paused)
    BY <2>1, FilterElements DEF Active
  <2>3. Elements(c.outputs) = Elements(Active(i))
    BY <1>3
  <2> QED
    BY <2>2, <2>3
<1>6. /\ (wide # {}) = (cfg.videoLayout \in {"landscape", "both"})
      /\ (wide = DOMAIN c.video) = (cfg.videoLayout = "landscape")
  BY <1>1, <1>3, SizesOfLayout DEF CfgIsAsked
<1>7. /\ cfg.videoLayout \in {"landscape", "both"} <=> layout \in {"landscape", "both", "Both"}
      /\ cfg.videoLayout = "landscape" <=> layout = "landscape"
  <2>1. layout # None => cfg.videoLayout = IF layout = "Both" THEN "both" ELSE layout
    BY <1>1 DEF CfgIsAsked, LowerCase
  <2>2. layout = None => cfg.videoLayout = "portrait"
    BY <1>1 DEF CfgIsAsked
  <2>3. None \notin {"landscape", "both", "Both"}
    OBVIOUS
  <2> HIDE DEF layout
  <2> QED
    BY <2>1, <2>2, <2>3
<1>8. ASSUME c.dshow, NEW key \in {"video", "audio"}
      PROVE  LET asked == Requested(Asked("inputFile"), key)
             IN IF asked = None THEN c.capture[key] = None
                ELSE FitsRequest(c.capture[key], asked, Listed(listing, key))
  <2> DEFINE asked == Requested(Asked("inputFile"), key)
  <2>1. c.capture[key] = ResolveDeviceName(asked, ParseDShowDevices(listing)[key])
    BY <1>3, <1>8 DEF Capture
  <2> HIDE DEF asked
  <2>2. key \in Kinds
    BY DEF Kinds
  <2>3. LET opened == ResolveDeviceName(asked, ParseDShowDevices(listing)[key])
        IN IF asked = None THEN opened = None
           ELSE FitsRequest(opened, asked, Listed(listing, key))
    BY <1>1, <2>2, DeviceFits
  <2>4. IF asked = None THEN c.capture[key] = None
        ELSE FitsRequest(c.capture[key], asked, Listed(listing, key))
    BY <2>1, <2>3
  <2> QED
    BY <2>4 DEF asked
<1> HIDE DEF wide, layout
<1> QED
  BY <1>4, <1>5, <1>6, <1>7, <1>8 DEF AsConfigured, c, wide, layout

\* Every launch sends to targets of its worker, in the sizes of the layout, and
\* captures the devices that were asked for and are there, whatever ffmpeg prints
\* on the devices (README.md:83, ffmpeg_worker.go:898-983).
THEOREM LaunchesFollowConfiguration == Spec => LaunchesAsConfigured
<1>1. Init => Commands
  BY DEF Init, Commands, Loaded
<1>2. ASSUME StartupInv, Commands, [Next]_vars, NEW i \in DOMAIN command,
             command'[i] # command[i]
      PROVE  \E j \in DOMAIN workers : Launch(j)
  <2>1. command # <<>> /\ command' # command
    BY <1>2
  <2>2. pc = "ready"
    BY <2>1, <1>2 DEF Commands
  <2> QED
    BY <1>2, <2>1, <2>2
       DEF Next, vars, NoConfig, ConfigRejected, Load, SkipBlank, Resolve, ResolveFails, Tick,
           Announce, InitFFmpegPublisher, Publishing, Plug, Exited, Down, Up
<1>3. StartupInv /\ Commands /\ [Next]_vars =>
        [\A i \in DOMAIN command :
           command'[i] # command[i] => AsConfigured(command'[i], i)]_vars
  BY <1>2, LaunchIsAsConfigured
<1> QED
  BY <1>1, <1>3, StartupInductive, StepCommands, PTL DEF Spec, LaunchesAsConfigured
=============================================================================
