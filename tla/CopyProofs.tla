----------------------------- MODULE CopyProofs -----------------------------
(***************************************************************************)
(* Lemmas about CopyTree, for any trees, any lengths of chunks and any     *)
(* failures.  FileProofs instantiates them for the copy to the RAM disk    *)
(* and for the one to a stick.                                             *)
(***************************************************************************)
EXTENDS CopyTree, TLAPS, FiniteSetTheorems, SequenceTheorems

-----------------------------------------------------------------------------
\* Where the copy is.  A call awaits what lies under its directory and what it has
\* not come to yet: at "files" its own files are left in todo, at "dirs" its
\* subdirectories.
Under(dir, p) == Len(dir) <= Len(p) /\ \A i \in 1 .. Len(dir) : p[i] = dir[i]

IsFile(p) == source[p].kind = "file"
IsIn(dir, p) == Len(p) = Len(dir) + 1

Awaits(frame) ==
  {p \in Location :
     /\ Under(frame.dir, p)
     /\ \/ frame.at \in {"enter", "listed"}
        \/ /\ frame.at = "files" /\ Len(p) > Len(frame.dir)
           /\ IsFile(p) /\ IsIn(frame.dir, p) => p[Len(frame.dir) + 1] \in frame.todo
        \/ /\ frame.at = "dirs" /\ Len(p) > Len(frame.dir)
           /\ p[Len(frame.dir) + 1] \in frame.todo
           /\ ~(IsFile(p) /\ IsIn(frame.dir, p))}

Calls(s) == 1 .. Len(s)
AllAwaited(s) == UNION {Awaits(s[i]) : i \in Calls(s)}
Apart(s) == \A i, j \in Calls(s) : i # j => Awaits(s[i]) \cap Awaits(s[j]) = {}
Deeper(s) == \A i, j \in Calls(s) : i < j => Len(s[i].dir) < Len(s[j].dir)

Frames ==
  [dir : Location, at : Steps, todo : SUBSET {Last(p) : p \in Location \ {Root}}]

\* readdir has given what the call works on, and the way to it; what it has given
\* last is what the call has listed.
IsGiven(frame, kept) ==
  /\ \A k \in 1 .. Len(frame.dir) : SubSeq(frame.dir, 1, k) \notin kept
  /\ \A n \in frame.todo : Append(frame.dir, n) \notin kept
  /\ frame.at = "listed" =>
       \A n \in Entries(frame.dir) : Append(frame.dir, n) \notin kept => n \in frame.todo

FrameOK(frame) ==
  /\ source[frame.dir].kind = "dir" /\ frame.todo \subseteq Entries(frame.dir)
  /\ frame.at # "enter" => ~Ignored(frame.dir) /\ target[frame.dir].kind # "none"
  /\ IsGiven(frame, missed)

\* All calls but the innermost wait for a subdirectory, and no two await the same.
CallsOK ==
  /\ stack \in Seq(Frames)
  /\ \A i \in Calls(stack) :
       FrameOK(stack[i]) /\ (i # Len(stack) => stack[i].at = "dirs")
  /\ Apart(stack) /\ Deeper(stack)
  /\ result = "running" <=> stack # <<>>
  /\ result \in {"none", "running", "ok", "failed"}

\* The file in progress belongs to the innermost call and is awaited no more; what is
\* on the target is a beginning of it, and no more than has been sent, unless it is
\* written again after a refused sendfile.
FileSteps == {"open", "check", "send", "read", "write"}

Begun ==
  /\ file.to \in Location
  /\ \E m \in file.pos .. Len(Src.data) :
       /\ target[file.to] = File(SubSeq(Src.data, 1, m))
       /\ file.at \in {"check", "send"} => m = file.pos

Current ==
  /\ file \in [at : FileSteps, from : Location, to : Seq(Name), pos : Nat]
  /\ stack # <<>> /\ Top.at = "files"
  /\ file.from \in InDir(Top.dir) /\ IsFile(file.from) /\ Given(file.from)
  /\ file.from \notin AllAwaited(stack)
  /\ file.to = dest_path(file.from)
  /\ file.pos <= Len(Src.data) /\ file.pos <= bytes_copied
  /\ IF file.at = "open" THEN file.pos = 0 ELSE Begun

FileOK == file = NoFile \/ Current

\* Nothing is forgotten.
Copied == CopiedFiles \cup CopiedDirs
InProgress == IF file = NoFile THEN {} ELSE {file.from}
Pending == AllAwaited(stack) \cup InProgress

AllDone ==
  ~halt /\ result \in {"running", "ok"} =>
    /\ \A p \in CopiedDirs \ Pending : target[p].kind # "none"
    /\ NamesStayApart =>
         \A p \in CopiedFiles \ Pending :
           dest_path(p) \in Location /\ target[dest_path(p)] = File(source[p].data)

\* The bytes of the files that are done and of the one in progress have been counted.
Counted ==
  ~halt /\ result \in {"running", "ok"} =>
    bytes_copied = Total(Sizes, CopiedFiles \ Pending) + file.pos

CopyInv ==
  /\ WellFormed(target) /\ bytes_copied \in Nat /\ missed \subseteq Location
  /\ CallsOK /\ FileOK /\ AllDone /\ Counted

\* The order in which files appear on a target that has none of what is awaited.
InOrder ==
  /\ \A p \in Location : target[p].kind = "file" =>
       /\ p \notin AllAwaited(stack)
       /\ p \in AllFiles
       /\ stack # <<>> /\ Top.at = "files" /\ p \in InDir(Top.dir) =>
            \A n \in Top.todo : Before(Last(p), n)
       /\ file # NoFile /\ p \in InDir(Front(file.from)) =>
            IF p = file.from THEN file.at # "open" ELSE Before(Last(p), Last(file.from))
  /\ file # NoFile => \A n \in Top.todo : Before(Last(file.from), n)
-----------------------------------------------------------------------------
\* Sums over finite sets.

\* Induction, of a set: the least number that is not in it would follow one that is.
LEMMA SetInduction ==
  ASSUME NEW S, 0 \in S, \A n \in Nat : n \in S => n + 1 \in S
  PROVE  Nat \subseteq S
<1> SUFFICES ASSUME NEW z \in Nat, z \notin S PROVE FALSE
  OBVIOUS
<1> DEFINE T == Nat \ S
           Less == {ss \in Nat \X Nat : ss[1] < ss[2]}
<1>1. IsWellFoundedOn(Less, Nat)
  BY NatLessThanWellFounded DEF OpToRel
<1>2. T \subseteq Nat /\ T # {}
  OBVIOUS
<1> HIDE DEF T, Less
<1>3. PICK n \in T : \A m \in T : <<m, n>> \notin Less
  BY <1>1, <1>2, WFMin
<1>4. n # 0 /\ n \in Nat
  BY <1>3 DEF T
<1>5. n - 1 \in Nat /\ <<n - 1, n>> \in Less
  BY <1>4 DEF Less
<1>6. n - 1 \notin T
  BY <1>3, <1>5
<1>7. n - 1 \in S
  BY <1>5, <1>6 DEF T
<1>8. (n - 1) + 1 \in S
  BY <1>5, <1>7
<1> QED
  BY <1>3, <1>4, <1>8 DEF T

Some(s) == CHOOSE p \in s : TRUE
SumsTo(f, s, g) == IF s = {} THEN 0 ELSE f[Some(s)] + g[s \ {Some(s)}]
Sums(f, S, g) == \A s \in SUBSET S : g[s] = SumsTo(f, s, g)

LEMMA SomeIsIn ==
  ASSUME NEW s, s # {}, IsFiniteSet(s)
  PROVE  /\ Some(s) \in s /\ IsFiniteSet(s \ {Some(s)})
         /\ Cardinality(s) \in Nat \ {0}
         /\ Cardinality(s \ {Some(s)}) = Cardinality(s) - 1
<1>1. Some(s) \in s
  BY DEF Some
<1> QED
  BY <1>1, FS_RemoveElement, FS_CardinalityType, FS_EmptySet

\* The function that Total looks at exists.
LEMMA SumsExist ==
  ASSUME NEW D, NEW f \in [D -> Nat], NEW S \in SUBSET D, IsFiniteSet(S)
  PROVE  \E g \in [SUBSET S -> Nat] : Sums(f, S, g)
<1> DEFINE G == [SUBSET S -> Nat]
           Upto(n, g) == \A s \in SUBSET S : Cardinality(s) <= n => g[s] = SumsTo(f, s, g)
           N == {n \in Nat : \E g \in G : Upto(n, g)}
<1>1. \A s \in SUBSET S : IsFiniteSet(s) /\ Cardinality(s) \in Nat /\ Cardinality(s) <= Cardinality(S)
  BY FS_Subset, FS_CardinalityType
<1>2. 0 \in N
  <2> DEFINE g == [s \in SUBSET S |-> 0]
  <2>1. g \in G
    OBVIOUS
  <2>2. ASSUME NEW s \in SUBSET S, Cardinality(s) <= 0 PROVE g[s] = SumsTo(f, s, g)
    <3>1. s = {}
      BY <1>1, <2>2, FS_EmptySet
    <3> QED
      BY <3>1 DEF SumsTo
  <2> HIDE DEF g, G
  <2> QED
    BY <2>1, <2>2
<1>3. ASSUME NEW n \in Nat, n \in N PROVE n + 1 \in N
  <2>1. PICK g \in G : Upto(n, g)
    BY <1>3
  <2> DEFINE h == [s \in SUBSET S |-> SumsTo(f, s, g)]
  <2>2. ASSUME NEW s \in SUBSET S PROVE SumsTo(f, s, g) \in Nat
    <3>1. CASE s = {}
      BY <3>1 DEF SumsTo
    <3>2. CASE s # {}
      <4>1. Some(s) \in S /\ s \ {Some(s)} \in SUBSET S
        BY <1>1, <3>2, SomeIsIn
      <4>2. f[Some(s)] \in Nat /\ g[s \ {Some(s)}] \in Nat
        BY <4>1
      <4> QED
        BY <3>2, <4>2 DEF SumsTo
    <3> QED
      BY <3>1, <3>2
  <2>3. h \in G
    BY <2>2
  <2>4. ASSUME NEW s \in SUBSET S, Cardinality(s) <= n + 1 PROVE h[s] = SumsTo(f, s, h)
    <3>1. CASE s = {}
      BY <3>1 DEF SumsTo
    <3>2. CASE s # {}
      <4> DEFINE u == s \ {Some(s)}
      <4>1. u \in SUBSET S /\ Cardinality(u) <= n
        BY <1>1, <2>4, <3>2, SomeIsIn
      <4> HIDE DEF u, G
      <4>2. g[u] = SumsTo(f, u, g)
        BY <2>1, <4>1
      <4>3. h[u] = g[u]
        BY <4>1, <4>2
      <4>4. h[s] = SumsTo(f, s, g)
        OBVIOUS
      <4>5. SumsTo(f, s, g) = f[Some(s)] + g[u] /\ SumsTo(f, s, h) = f[Some(s)] + h[u]
        BY <3>2 DEF SumsTo, u
      <4> HIDE DEF h
      <4> QED
        BY <4>3, <4>4, <4>5
    <3> QED
      BY <3>1, <3>2
  <2> HIDE DEF h, G
  <2> QED
    BY <2>3, <2>4
<1>4. Cardinality(S) \in N
  <2> HIDE DEF N
  <2>1. Cardinality(S) \in Nat
    BY FS_CardinalityType
  <2> QED
    BY <1>2, <1>3, <2>1, SetInduction
<1>5. PICK g \in G : Upto(Cardinality(S), g)
  BY <1>4
<1> HIDE DEF G
<1>6. Sums(f, S, g)
  BY <1>1, <1>5 DEF Sums
<1> QED
  BY <1>6 DEF G

\* And gives the same for each smaller set.
LEMMA SumsAgree ==
  ASSUME NEW S, IsFiniteSet(S), NEW f, NEW g, NEW h, NEW T \in SUBSET S,
         Sums(f, S, g), Sums(f, T, h)
  PROVE  \A s \in SUBSET T : g[s] = h[s]
<1> DEFINE N == {n \in Nat : \A s \in SUBSET T : Cardinality(s) <= n => g[s] = h[s]}
<1>1. \A s \in SUBSET T : IsFiniteSet(s) /\ Cardinality(s) \in Nat /\ s \in SUBSET S
  <2>1. \A s \in SUBSET T : s \in SUBSET S
    OBVIOUS
  <2> QED
    BY <2>1, FS_Subset, FS_CardinalityType
<1>2. g[{}] = 0 /\ h[{}] = 0
  <2>1. {} \in SUBSET S /\ {} \in SUBSET T
    OBVIOUS
  <2> QED
    BY <2>1 DEF Sums, SumsTo
<1>3. 0 \in N
  <2>1. ASSUME NEW s \in SUBSET T, Cardinality(s) <= 0 PROVE g[s] = h[s]
    <3>1. s = {}
      BY <1>1, <2>1, FS_EmptySet
    <3> QED
      BY <1>2, <3>1
  <2> QED
    BY <2>1
<1>4. ASSUME NEW n \in Nat, n \in N PROVE n + 1 \in N
  <2>1. ASSUME NEW s \in SUBSET T, Cardinality(s) <= n + 1 PROVE g[s] = h[s]
    <3>1. CASE s = {}
      BY <1>2, <3>1
    <3>2. CASE s # {}
      <4> DEFINE u == s \ {Some(s)}
      <4>1. u \in SUBSET T /\ Cardinality(u) <= n
        BY <1>1, <2>1, <3>2, SomeIsIn
      <4>2. g[s] = f[Some(s)] + g[u] /\ h[s] = f[Some(s)] + h[u]
        BY <1>1, <3>2 DEF Sums, SumsTo
      <4> HIDE DEF u
      <4>3. g[u] = h[u]
        BY <1>4, <4>1
      <4> QED
        BY <4>2, <4>3
    <3> QED
      BY <3>1, <3>2
  <2> QED
    BY <2>1
<1> HIDE DEF N
<1>5. Nat \subseteq N
  BY <1>3, <1>4, SetInduction
<1> QED
  BY <1>1, <1>5 DEF N

LEMMA TotalIs ==
  ASSUME NEW f, NEW S
  PROVE  \E g : /\ g = (CHOOSE i : i = [s \in SUBSET S |-> SumsTo(f, s, i)])
                /\ Total(f, S) = g[S]
  BY DEF Total, FoldFunctionOnSet, MapThenFoldSet, SumsTo, Some

LEMMA TotalStep ==
  ASSUME NEW D, NEW f \in [D -> Nat], NEW S \in SUBSET D, IsFiniteSet(S)
  PROVE  /\ Total(f, S) \in Nat
         /\ S = {} => Total(f, S) = 0
         /\ S # {} => Total(f, S) = f[Some(S)] + Total(f, S \ {Some(S)})
<1>1. ASSUME NEW u \in SUBSET S
      PROVE  \E g : g \in [SUBSET u -> Nat] /\ Sums(f, u, g) /\ Total(f, u) = g[u]
  <2> DEFINE Is(g) == g = [s \in SUBSET u |-> SumsTo(f, s, g)]
             g == CHOOSE i : Is(i)
  <2>1. IsFiniteSet(u) /\ u \in SUBSET D
    BY FS_Subset
  <2>2. PICK h \in [SUBSET u -> Nat] : Sums(f, u, h)
    BY <2>1, SumsExist
  <2>3. Is(h)
    BY <2>2 DEF Sums
  <2>4. Is(g)
    BY <2>3
  <2>5. Total(f, u) = g[u]
    <3>1. PICK i : i = g /\ Total(f, u) = i[u]
      BY TotalIs
    <3> QED
      BY <3>1
  <2> HIDE DEF g
  <2>6. Sums(f, u, g) /\ g = [s \in SUBSET u |-> g[s]]
    BY <2>4 DEF Sums
  <2>7. u \in SUBSET u
    OBVIOUS
  <2>8. \A s \in SUBSET u : g[s] = h[s]
    BY <2>1, <2>2, <2>6, <2>7, SumsAgree
  <2>9. g \in [SUBSET u -> Nat]
    BY <2>2, <2>6, <2>8
  <2> QED
    BY <2>5, <2>6, <2>9
<1>2. PICK g : g \in [SUBSET S -> Nat] /\ Sums(f, S, g) /\ Total(f, S) = g[S]
  <2>1. S \in SUBSET S
    OBVIOUS
  <2> QED
    BY <1>1, <2>1
<1>3. g[S] = SumsTo(f, S, g) /\ g[S] \in Nat
  BY <1>2 DEF Sums
<1>4. CASE S = {}
  BY <1>2, <1>3, <1>4 DEF SumsTo
<1>5. CASE S # {}
  <2> DEFINE u == S \ {Some(S)}
  <2>1. u \in SUBSET S /\ u \in SUBSET u
    OBVIOUS
  <2>2. g[S] = f[Some(S)] + g[u]
    BY <1>3, <1>5 DEF SumsTo
  <2> HIDE DEF u
  <2>3. PICK h : h \in [SUBSET u -> Nat] /\ Sums(f, u, h) /\ Total(f, u) = h[u]
    BY <1>1, <2>1
  <2>4. g[u] = h[u]
    BY <1>2, <2>1, <2>3, SumsAgree
  <2> QED
    BY <1>2, <1>3, <1>5, <2>2, <2>3, <2>4 DEF u
<1> QED
  BY <1>4, <1>5

\* What is added does not depend on the order.
LEMMA TotalWithout ==
  ASSUME NEW D, NEW f \in [D -> Nat], NEW S \in SUBSET D, IsFiniteSet(S), NEW p \in S
  PROVE  Total(f, S) = f[p] + Total(f, S \ {p})
<1> DEFINE Splits(s) == \A q \in s : Total(f, s) = f[q] + Total(f, s \ {q})
           N == {n \in Nat : \A s \in SUBSET S : Cardinality(s) = n => Splits(s)}
<1>1. \A s \in SUBSET S : s \in SUBSET D /\ IsFiniteSet(s) /\ Cardinality(s) \in Nat
  BY FS_Subset, FS_CardinalityType
<1>2. 0 \in N
  BY <1>1, FS_EmptySet
<1>3. ASSUME NEW n \in Nat, n \in N PROVE n + 1 \in N
  <2> SUFFICES ASSUME NEW s \in SUBSET S, Cardinality(s) = n + 1, NEW q \in s
               PROVE  Total(f, s) = f[q] + Total(f, s \ {q})
    OBVIOUS
  <2> DEFINE x == Some(s)
             u == s \ {x}
             v == s \ {q}
             w == s \ {x, q}
  <2>1. s # {} /\ x \in s /\ Cardinality(u) = n /\ Cardinality(v) = n
    <3>1. s # {} /\ Cardinality(u) = n
      BY <1>1, SomeIsIn
    <3>2. x \in s
      BY <1>1, <3>1, SomeIsIn
    <3>3. IsFiniteSet(s) /\ q \in s
      BY <1>1
    <3>4. Cardinality(s \ {q}) = Cardinality(s) - 1
      BY <3>3, FS_RemoveElement
    <3>5. Cardinality(v) = n
      BY <3>4
    <3> QED
      BY <3>1, <3>2, <3>5
  <2>2. Total(f, s) = f[x] + Total(f, u)
    BY <1>1, <2>1, TotalStep
  <2>3. CASE x = q
    BY <2>2, <2>3
  <2>4. CASE x # q
    <3>1. u \in SUBSET S /\ v \in SUBSET S /\ w \in SUBSET S /\ q \in u /\ x \in v
      BY <2>1, <2>4
    <3>2. u \ {q} = w /\ v \ {x} = w
      OBVIOUS
    <3> HIDE DEF u, v, w, x
    <3>3. Splits(u) /\ Splits(v)
      BY <1>3, <2>1, <3>1
    <3>4. Total(f, u) = f[q] + Total(f, w) /\ Total(f, v) = f[x] + Total(f, w)
      BY <3>1, <3>2, <3>3
    <3>5. f[q] \in Nat /\ f[x] \in Nat /\ Total(f, w) \in Nat
      <4>1. Total(f, w) \in Nat
        BY <1>1, <3>1, TotalStep
      <4> QED
        BY <2>1, <4>1
    <3> QED
      BY <2>2, <3>4, <3>5 DEF v
  <2> QED
    BY <2>3, <2>4
<1> HIDE DEF N
<1>4. Nat \subseteq N
  BY <1>2, <1>3, SetInduction
<1>5. S \in SUBSET S
  OBVIOUS
<1> QED
  BY <1>1, <1>4, <1>5 DEF N
-----------------------------------------------------------------------------
\* Names.

LEMMA BaseLenBounds ==
  ASSUME NEW n \in Name
  PROVE  BaseLen(n) \in 0 .. Len(n)
<1>1. CASE \E i \in Positions(n) : IsLastDot(n, i)
  BY <1>1 DEF BaseLen, Positions, Name
<1>2. CASE ~\E i \in Positions(n) : IsLastDot(n, i)
  BY <1>2 DEF BaseLen, Name
<1> QED
  BY <1>1, <1>2

LEMMA NameParts ==
  ASSUME NEW n \in Name
  PROVE  /\ Base(n) \in Name /\ Len(Base(n)) = BaseLen(n)
         /\ Extension(n) \in Name /\ Len(Extension(n)) = Len(n) - BaseLen(n)
         /\ \A i \in 1 .. BaseLen(n) : Base(n)[i] = n[i]
         /\ \A i \in 1 .. Len(n) - BaseLen(n) : Extension(n)[i] = n[BaseLen(n) + i]
<1>1. BaseLen(n) \in 0 .. Len(n)
  BY BaseLenBounds
<1> QED
  BY <1>1 DEF Base, Extension, Name

\* A name that has been made fit for a stick is left as it is when it is made fit
\* again: the RAM disk has the names that the stick gets, and crc.txt those of both.
THEOREM NamesSettle ==
  ASSUME NEW n \in Name
  PROVE  /\ dest_name(n) \in Name /\ Len(dest_name(n)) <= NameMax
         /\ \A i \in Positions(dest_name(n)) : dest_name(n)[i] \notin Odd
         /\ dest_name(dest_name(n)) = dest_name(n)
<1> DEFINE s == sanitize_filename(n)
           e == Extension(s)
           b == SubSeq(s, 1, NameMax - Len(e))
           r == dest_name(n)
<1>1. s \in Name /\ \A i \in 1 .. Len(s) : s[i] \notin Odd
  <2>1. Underscore \in Char \ Odd
    BY CharAssumption
  <2> QED
    BY <2>1 DEF sanitize_filename, Positions, Name
<1>2. r = IF Len(s) <= NameMax THEN s ELSE IF Len(e) >= NameMax THEN <<>> ELSE b \o e
  BY DEF dest_name, shorten_filename
<1>3. /\ Len(s) \in Nat /\ NameMax \in Nat
      /\ BaseLen(s) \in 0 .. Len(s) /\ e \in Name /\ Len(e) = Len(s) - BaseLen(s)
      /\ \A i \in 1 .. Len(e) : e[i] = s[BaseLen(s) + i]
  <2> HIDE DEF s
  <2>1. Len(s) \in Nat /\ NameMax \in Nat /\ BaseLen(s) \in 0 .. Len(s)
    BY <1>1, NameMaxAssumption, BaseLenBounds DEF Name
  <2>2. /\ e \in Name /\ Len(e) = Len(s) - BaseLen(s)
        /\ \A i \in 1 .. Len(s) - BaseLen(s) : e[i] = s[BaseLen(s) + i]
    BY <1>1, NameParts
  <2> QED
    BY <2>1, <2>2
<1> HIDE DEF s
<1>4. \A i \in 1 .. Len(e) : e[i] \notin Odd
  <2> SUFFICES ASSUME NEW i \in 1 .. Len(e) PROVE e[i] \notin Odd
    OBVIOUS
  <2>1. BaseLen(s) + i \in 1 .. Len(s)
    BY <1>3
  <2> QED
    BY <1>1, <1>3, <2>1
<1> HIDE DEF e
<1>5. r \in Name /\ Len(r) <= NameMax /\ \A i \in 1 .. Len(r) : r[i] \notin Odd
  <2>1. CASE Len(s) <= NameMax
    BY <1>1, <1>2, <2>1
  <2>2. CASE ~(Len(s) <= NameMax) /\ Len(e) >= NameMax
    <3>1. r = <<>>
      BY <1>2, <2>2
    <3> QED
      BY <1>3, <3>1 DEF Name
  <2>3. CASE ~(Len(s) <= NameMax) /\ ~(Len(e) >= NameMax)
    <3>1. r = b \o e
      BY <1>2, <2>3
    <3>2. b \in Name /\ Len(b) = NameMax - Len(e) /\ \A i \in 1 .. Len(b) : b[i] = s[i]
      BY <1>1, <1>3, <2>3 DEF Name
    <3>3. \A i \in 1 .. Len(b) : b[i] \notin Odd
      <4>1. \A i \in 1 .. Len(b) : i \in 1 .. Len(s)
        BY <1>3, <2>3, <3>2 DEF Name
      <4> QED
        BY <1>1, <3>2, <4>1
    <3> HIDE DEF b, r
    <3>4. /\ b \o e \in Seq(Char) /\ Len(b \o e) = Len(b) + Len(e)
          /\ \A i \in 1 .. Len(b) + Len(e) :
               (b \o e)[i] = IF i <= Len(b) THEN b[i] ELSE e[i - Len(b)]
      <4>1. b \in Seq(Char) /\ e \in Seq(Char)
        BY <1>3, <3>2 DEF Name
      <4> HIDE DEF b
      <4> QED
        BY <4>1, ConcatProperties, Zenon
    <3> HIDE DEF b, r
    <3>5. /\ r \in Seq(Char) /\ Len(r) = Len(b) + Len(e)
          /\ Len(b) \in Nat /\ Len(e) \in Nat
          /\ \A i \in 1 .. Len(r) : r[i] = IF i <= Len(b) THEN b[i] ELSE e[i - Len(b)]
      <4>1. Len(b) \in Nat /\ Len(e) \in Nat
        BY <1>3, <3>2 DEF Name
      <4> QED
        BY <3>1, <3>4, <4>1
    <3>6. \A i \in 1 .. Len(r) : r[i] \notin Odd
      <4> SUFFICES ASSUME NEW i \in 1 .. Len(r) PROVE r[i] \notin Odd
        OBVIOUS
      <4>1. CASE i <= Len(b)
        BY <3>3, <3>5, <4>1
      <4>2. CASE ~(i <= Len(b))
        <5>1. i - Len(b) \in 1 .. Len(e)
          BY <3>5, <4>2
        <5> QED
          BY <1>4, <3>5, <4>2, <5>1
      <4> QED
        BY <4>1, <4>2
    <3> QED
      BY <1>3, <3>2, <3>5, <3>6 DEF Name
  <2> QED
    BY <2>1, <2>2, <2>3
<1> HIDE DEF r
<1>6. sanitize_filename(r) = r
  BY <1>5 DEF sanitize_filename, Positions, Name
<1>7. dest_name(r) = r
  BY <1>5, <1>6 DEF dest_name, shorten_filename
<1> QED
  BY <1>5, <1>7 DEF r, Positions

\* The names that ffmpeg writes to are not those of tracks, and two tracks have two.
LEMMA TempNames ==
  ASSUME NEW m \in Name, NEW n \in Name, is_mp3(m), is_mp3(n)
  PROVE  /\ temp_file(m) # n
         /\ temp_file(m) = temp_file(n) => m = n
<1> DEFINE bm == BaseLen(m)
           bn == BaseLen(n)
<1>1. \A k \in {m, n} :
        /\ BaseLen(k) \in Nat /\ Len(k) = BaseLen(k) + 2
        /\ k[BaseLen(k) + 1] = Dot /\ k[BaseLen(k) + 2] = "mp3"
  <2> SUFFICES ASSUME NEW k \in {m, n}
               PROVE  /\ BaseLen(k) \in Nat /\ Len(k) = BaseLen(k) + 2
                      /\ k[BaseLen(k) + 1] = Dot /\ k[BaseLen(k) + 2] = "mp3"
    OBVIOUS
  <2>1. k \in Name /\ Extension(k) = <<Dot, "mp3">>
    BY DEF is_mp3
  <2>2. BaseLen(k) \in 0 .. Len(k) /\ Len(k) \in Nat
    BY <2>1, BaseLenBounds DEF Name
  <2>3. Len(k) - BaseLen(k) = 2
    BY <2>1, <2>2, NameParts
  <2>4. /\ Extension(k)[1] = k[BaseLen(k) + 1]
        /\ Extension(k)[2] = k[BaseLen(k) + 2]
    <3>1. 1 \in 1 .. Len(k) - BaseLen(k) /\ 2 \in 1 .. Len(k) - BaseLen(k)
      BY <2>3
    <3> QED
      BY <2>1, <3>1, NameParts
  <2> QED
    BY <2>1, <2>2, <2>3, <2>4
<1>2. \A k \in {m, n} :
        /\ temp_file(k) \in Seq(Char \cup {Dot, "tmp"}) /\ Len(temp_file(k)) = BaseLen(k) + 2
        /\ temp_file(k)[BaseLen(k) + 2] = "tmp"
        /\ \A i \in 1 .. BaseLen(k) : temp_file(k)[i] = k[i]
  <2> SUFFICES ASSUME NEW k \in {m, n}
               PROVE  /\ temp_file(k) \in Seq(Char \cup {Dot, "tmp"})
                      /\ Len(temp_file(k)) = BaseLen(k) + 2
                      /\ temp_file(k)[BaseLen(k) + 2] = "tmp"
                      /\ \A i \in 1 .. BaseLen(k) : temp_file(k)[i] = k[i]
    OBVIOUS
  <2>1. /\ Base(k) \in Seq(Char) /\ Len(Base(k)) = BaseLen(k) /\ BaseLen(k) \in Nat
        /\ \A i \in 1 .. BaseLen(k) : Base(k)[i] = k[i]
    BY <1>1, NameParts DEF Name
  <2> QED
    BY <2>1 DEF temp_file
<1>3. temp_file(m) # n
  BY <1>1, <1>2
<1>4. ASSUME temp_file(m) = temp_file(n) PROVE m = n
  <2>1. bm = bn /\ Len(m) = Len(n)
    BY <1>1, <1>2, <1>4
  <2>2. \A i \in 1 .. Len(m) : m[i] = n[i]
    BY <1>1, <1>2, <1>4, <2>1
  <2> QED
    BY <2>1, <2>2 DEF Name
<1> QED
  BY <1>3, <1>4

\* They need not be made fit for a stick when those of the tracks need not.
LEMMA TempSettles ==
  ASSUME NEW n \in Name, is_mp3(n), dest_name(n) = n
  PROVE  temp_file(n) \in Name /\ dest_name(temp_file(n)) = temp_file(n)
<1> DEFINE t == temp_file(n)
<1>1. Len(n) <= NameMax /\ \A i \in Positions(n) : n[i] \notin Odd
  BY NamesSettle
<1>2. BaseLen(n) \in 0 .. Len(n) /\ Len(n) - BaseLen(n) = 2
  <2>1. Extension(n) = <<Dot, "mp3">>
    BY DEF is_mp3
  <2> QED
    BY <2>1, BaseLenBounds, NameParts
<1>3. Base(n) \in Name /\ Len(Base(n)) = BaseLen(n) /\ \A i \in 1 .. BaseLen(n) : Base(n)[i] = n[i]
  BY NameParts
<1>4. Dot \in Char \ Odd /\ "tmp" \in Char \ Odd
  BY CharAssumption
<1>5. /\ t \in Name /\ Len(t) = Len(n)
      /\ \A i \in 1 .. BaseLen(n) : t[i] = n[i]
      /\ t[BaseLen(n) + 1] = Dot /\ t[BaseLen(n) + 2] = "tmp"
  BY <1>2, <1>3, <1>4 DEF temp_file, Name
<1> HIDE DEF t
<1>6. \A i \in Positions(t) : t[i] \notin Odd
  <2> SUFFICES ASSUME NEW i \in 1 .. Len(t) PROVE t[i] \notin Odd
    BY DEF Positions
  <2>1. i \in 1 .. BaseLen(n) \/ i = BaseLen(n) + 1 \/ i = BaseLen(n) + 2
    BY <1>2, <1>5 DEF Name
  <2>2. i \in 1 .. BaseLen(n) => i \in Positions(n)
    BY <1>2 DEF Positions
  <2> QED
    BY <1>1, <1>4, <1>5, <2>1, <2>2
<1>7. sanitize_filename(t) = t
  BY <1>5, <1>6 DEF sanitize_filename, Positions, Name
<1>8. dest_name(t) = t
  BY <1>1, <1>5, <1>7 DEF dest_name, shorten_filename
<1> QED
  BY <1>5, <1>8 DEF t

-----------------------------------------------------------------------------
\* Paths.

LEMMA SeqParts ==
  ASSUME NEW S, NEW s \in Seq(S), s # <<>>
  PROVE  /\ Len(s) \in Nat /\ Len(s) > 0
         /\ Front(s) \in Seq(S) /\ Len(Front(s)) = Len(s) - 1
         /\ \A i \in 1 .. Len(s) - 1 : Front(s)[i] = s[i]
         /\ Last(s) = s[Len(s)] /\ Last(s) \in S
<1> DEFINE k == Len(s) - 1
           f == SubSeq(s, 1, k)
<1>1. Len(s) \in Nat /\ k \in Nat /\ Len(s) = k + 1
  OBVIOUS
<1>2. Last(s) = s[Len(s)] /\ Last(s) \in S
  BY <1>1 DEF Last
<1>3. Front(s) = f
  BY DEF Front
<1> HIDE DEF k
<1>4. \A i \in 1 .. k : s[i] \in S
  BY <1>1
<1>5. /\ f \in Seq(S) /\ Len(f) = IF 1 <= k THEN k - 1 + 1 ELSE 0
      /\ \A i \in 1 .. k - 1 + 1 : f[i] = s[1 + i - 1]
  BY <1>1, <1>4, SubSeqProperties
<1> HIDE DEF f
<1>6. f \in Seq(S) /\ Len(f) = k /\ \A i \in 1 .. k : f[i] = s[i]
  BY <1>1, <1>5
<1> QED
  BY <1>1, <1>2, <1>3, <1>6 DEF k

LEMMA SeqSlice ==
  ASSUME NEW S, NEW s \in Seq(S), NEW m \in Nat \ {0}, NEW n \in Nat, n <= Len(s), m <= n + 1
  PROVE  /\ SubSeq(s, m, n) \in Seq(S) /\ Len(SubSeq(s, m, n)) = n - m + 1
         /\ \A i \in 1 .. n - m + 1 : SubSeq(s, m, n)[i] = s[m + i - 1]
<1>1. \A i \in m .. n : s[i] \in S
  OBVIOUS
<1>2. /\ SubSeq(s, m, n) \in Seq(S)
      /\ Len(SubSeq(s, m, n)) = IF m <= n THEN n - m + 1 ELSE 0
      /\ \A i \in 1 .. n - m + 1 : SubSeq(s, m, n)[i] = s[m + i - 1]
  BY <1>1, SubSeqProperties
<1> QED
  BY <1>2

LEMMA SeqConcat ==
  ASSUME NEW S, NEW s \in Seq(S), NEW t \in Seq(S)
  PROVE  /\ s \o t \in Seq(S) /\ Len(s \o t) = Len(s) + Len(t)
         /\ Len(s) \in Nat /\ Len(t) \in Nat
         /\ \A i \in 1 .. Len(s) : (s \o t)[i] = s[i]
         /\ \A i \in 1 .. Len(t) : (s \o t)[Len(s) + i] = t[i]
<1>1. /\ s \o t \in Seq(S) /\ Len(s \o t) = Len(s) + Len(t)
      /\ \A i \in 1 .. Len(s) + Len(t) :
           (s \o t)[i] = IF i <= Len(s) THEN s[i] ELSE t[i - Len(s)]
  BY ConcatProperties, Zenon
<1>2. Len(s) \in Nat /\ Len(t) \in Nat
  OBVIOUS
<1> DEFINE c == s \o t
<1> HIDE DEF c
<1>3. /\ \A i \in 1 .. Len(s) : c[i] = s[i]
      /\ \A i \in 1 .. Len(t) : c[Len(s) + i] = t[i]
  <2>1. \A i \in 1 .. Len(s) + Len(t) : c[i] = IF i <= Len(s) THEN s[i] ELSE t[i - Len(s)]
    BY <1>1 DEF c
  <2>2. \A i \in 1 .. Len(s) : c[i] = s[i]
    BY <1>2, <2>1
  <2>3. \A i \in 1 .. Len(t) : c[Len(s) + i] = t[i]
    <3> SUFFICES ASSUME NEW i \in 1 .. Len(t) PROVE c[Len(s) + i] = t[i]
      OBVIOUS
    <3>1. Len(s) + i \in 1 .. Len(s) + Len(t) /\ ~(Len(s) + i <= Len(s)) /\ Len(s) + i - Len(s) = i
      BY <1>2
    <3> QED
      BY <2>1, <3>1
  <2> QED
    BY <2>2, <2>3
<1> QED
  BY <1>1, <1>2, <1>3 DEF c

LEMMA Beginnings ==
  ASSUME NEW S, NEW D \in Seq(S)
  PROVE  /\ Len(D) \in Nat /\ SubSeq(D, 1, Len(D)) = D /\ SubSeq(D, 1, 0) = <<>>
         /\ \A m \in 0 .. Len(D) : SubSeq(D, 1, m) \in Seq(S)
<1>1. Len(D) \in Nat
  OBVIOUS
<1>2. ASSUME NEW m \in 0 .. Len(D)
      PROVE  /\ SubSeq(D, 1, m) \in Seq(S) /\ Len(SubSeq(D, 1, m)) = m
             /\ \A i \in 1 .. m : SubSeq(D, 1, m)[i] = D[i]
  BY <1>1
<1> DEFINE all == SubSeq(D, 1, Len(D))
           none == SubSeq(D, 1, 0)
<1>3. all \in Seq(S) /\ Len(all) = Len(D) /\ \A i \in 1 .. Len(D) : all[i] = D[i]
  BY <1>1, <1>2
<1>4. none \in Seq(S) /\ Len(none) = 0
  BY <1>1, <1>2
<1> HIDE DEF all, none
<1>5. all = D
  BY <1>1, <1>3, SeqEqual
<1>6. none = <<>>
  BY <1>4
<1> QED
  BY <1>1, <1>2, <1>5, <1>6 DEF all, none

LEMMA PathParts ==
  ASSUME NEW p \in Location, p # Root
  PROVE  /\ p \in Seq(Name) /\ Len(p) \in Nat /\ Len(p) > 0
         /\ Front(p) \in Seq(Name) /\ Len(Front(p)) = Len(p) - 1
         /\ Front(p) = SubSeq(p, 1, Len(p) - 1)
         /\ \A i \in 1 .. Len(p) - 1 : Front(p)[i] = p[i]
         /\ Last(p) = p[Len(p)] /\ Last(p) \in Name
         /\ p = Append(Front(p), Last(p))
<1>1. p \in Seq(Name) /\ p # <<>>
  BY LocationAssumption DEF Root
<1>2. /\ Len(p) \in Nat /\ Len(p) > 0
      /\ Front(p) \in Seq(Name) /\ Len(Front(p)) = Len(p) - 1
      /\ \A i \in 1 .. Len(p) - 1 : Front(p)[i] = p[i]
      /\ Last(p) = p[Len(p)] /\ Last(p) \in Name
  BY <1>1, SeqParts
<1>3. Front(p) = SubSeq(p, 1, Len(p) - 1)
  BY DEF Front
<1>4. p = Append(Front(p), Last(p))
  <2> DEFINE h == Append(Front(p), Last(p))
  <2>1. h \in Seq(Name) /\ Len(h) = Len(p) /\ \A i \in 1 .. Len(p) : h[i] = p[i]
    BY <1>1, <1>2, <1>3
  <2> HIDE DEF h
  <2>2. p = h
    BY <1>1, <2>1
  <2> QED
    BY <2>2 DEF h
<1> QED
  BY <1>1, <1>2, <1>3, <1>4

LEMMA PathAppended ==
  ASSUME NEW dir \in Location, NEW n \in Name
  PROVE  /\ Append(dir, n) \in Seq(Name) /\ Len(Append(dir, n)) = Len(dir) + 1
         /\ Len(dir) \in Nat
         /\ Front(Append(dir, n)) = dir /\ Last(Append(dir, n)) = n
         /\ Append(dir, n)[Len(dir) + 1] = n
         /\ \A i \in 1 .. Len(dir) : Append(dir, n)[i] = dir[i]
<1>1. dir \in Seq(Name)
  BY LocationAssumption
<1> QED
  BY <1>1 DEF Front, Last

\* What is in a directory lies under it, and is named by its last part.
LEMMA PathInDir ==
  ASSUME NEW dir \in Location, NEW p \in InDir(dir)
  PROVE  /\ p \in Location /\ p # Root /\ Len(p) = Len(dir) + 1 /\ Front(p) = dir
         /\ Under(dir, p) /\ p = Append(dir, Last(p)) /\ Last(p) = p[Len(dir) + 1]
<1>1. p \in Location /\ Len(p) = Len(dir) + 1 /\ Front(p) = dir
  BY DEF InDir
<1>2. p \in Seq(Name) /\ dir \in Seq(Name)
  BY <1>1, LocationAssumption
<1>3. p # Root
  BY <1>1, <1>2 DEF Root
<1> QED
  BY <1>1, <1>2, <1>3, PathParts DEF Under

LEMMA PathEntry ==
  ASSUME NEW dir \in Location, NEW n \in Entries(dir)
  PROVE  /\ Append(dir, n) \in InDir(dir) /\ source[Append(dir, n)].kind # "none"
         /\ n \in Name /\ n \in {Last(p) : p \in Location \ {Root}}
<1>1. PICK p \in InDir(dir) : n = Last(p) /\ source[p].kind # "none"
  BY DEF Entries
<1>2. p \in Location /\ p # Root /\ p = Append(dir, n)
  BY <1>1, PathInDir
<1> QED
  BY <1>1, <1>2, PathParts

\* Two entries of a directory are told apart by their names.
LEMMA SameEntry ==
  ASSUME NEW dir \in Location, NEW p \in InDir(dir), NEW q \in InDir(dir), Last(p) = Last(q)
  PROVE  p = q
  BY PathInDir

\* The way to what is there goes through entries that are directories.
LEMMA PathThrough ==
  ASSUME WellFormed(source), NEW p \in Location, source[p].kind # "none",
         NEW dir \in Location, Under(dir, p), Len(dir) < Len(p)
  PROVE  LET n == p[Len(dir) + 1]
             q == Append(dir, n)
         IN  /\ n \in Entries(dir) /\ Under(q, p) /\ Len(q) = Len(dir) + 1
             /\ Len(q) \in 1 .. Len(p) /\ q = SubSeq(p, 1, Len(q))
             /\ IF Len(p) = Len(dir) + 1 THEN p = q ELSE source[q].kind = "dir"
<1> DEFINE n == p[Len(dir) + 1]
           q == Append(dir, n)
           k == Len(dir) + 1
<1>1. p \in Seq(Name) /\ dir \in Seq(Name) /\ k \in 1 .. Len(p) /\ Len(p) \in Nat
  BY LocationAssumption
<1>2. n \in Name /\ q \in Seq(Name) /\ Len(q) = k /\ q[k] = n
      /\ \A i \in 1 .. Len(dir) : q[i] = p[i]
  BY <1>1, PathAppended DEF Under
<1>3. q = SubSeq(p, 1, k)
  BY <1>1, <1>2
<1>4. Under(q, p)
  BY <1>1, <1>2 DEF Under
<1>5. q \in Location /\ IF Len(p) = k THEN p = q ELSE source[q].kind = "dir"
  <2>1. CASE Len(p) = k
    <3>1. \A i \in 1 .. Len(p) : q[i] = p[i]
      BY <1>1, <1>2, <2>1
    <3> HIDE DEF q
    <3>2. p = q
      BY <1>1, <1>2, <2>1, <3>1
    <3> QED
      BY <2>1, <3>2
  <2>2. CASE Len(p) # k
    <3>1. k \in 0 .. Len(p) - 1
      BY <1>1, <2>2
    <3> QED
      BY <1>3, <2>2, <3>1 DEF WellFormed
  <2> QED
    BY <2>1, <2>2
<1>6. q \in InDir(dir) /\ source[q].kind # "none" /\ Last(q) = n
  BY <1>2, <1>5, PathAppended DEF InDir
<1>7. n \in Entries(dir)
  BY <1>6 DEF Entries
<1> QED
  BY <1>1, <1>2, <1>3, <1>4, <1>5, <1>7

\* ... and readdir has given them if it has given what is there.
LEMMA PathListed ==
  ASSUME WellFormed(source), NEW p \in Copied, NEW dir \in Location,
         Under(dir, p), Len(dir) < Len(p)
  PROVE  p[Len(dir) + 1] \in Listing(dir)
<1> DEFINE n == p[Len(dir) + 1]
           q == Append(dir, n)
<1>1. p \in Location /\ source[p].kind # "none" /\ Given(p)
  BY DEF Copied, CopiedFiles, CopiedDirs, AllFiles, AllDirs
<1>2. n \in Entries(dir) /\ Len(q) \in 1 .. Len(p) /\ q = SubSeq(p, 1, Len(q))
  BY <1>1, PathThrough
<1> HIDE DEF q
<1>3. q \notin missed
  BY <1>1, <1>2 DEF Given
<1> QED
  BY <1>2, <1>3 DEF Listing, q

\* What readdir gives of a directory that it has given.
LEMMA GivenEntry ==
  ASSUME NEW dir \in Location, NEW n \in Name, NEW kept,
         \A k \in 1 .. Len(dir) : SubSeq(dir, 1, k) \notin kept, Append(dir, n) \notin kept
  PROVE  \A k \in 1 .. Len(Append(dir, n)) : SubSeq(Append(dir, n), 1, k) \notin kept
<1> DEFINE q == Append(dir, n)
<1>1. /\ q \in Seq(Name) /\ Len(q) = Len(dir) + 1 /\ Len(dir) \in Nat /\ dir \in Seq(Name)
      /\ \A i \in 1 .. Len(dir) : q[i] = dir[i]
  BY PathAppended, LocationAssumption
<1>2. q \notin kept
  OBVIOUS
<1> HIDE DEF q
<1> SUFFICES ASSUME NEW k \in 1 .. Len(q) PROVE SubSeq(q, 1, k) \notin kept
  BY DEF q
<1>3. CASE k = Len(q)
  BY <1>1, <1>2, <1>3, Beginnings
<1>4. CASE k # Len(q)
  <2>1. k \in 1 .. Len(dir)
    BY <1>1, <1>4
  <2> DEFINE x == SubSeq(q, 1, k)
             y == SubSeq(dir, 1, k)
  <2>2. x \in Seq(Name) /\ Len(x) = k /\ \A i \in 1 .. k : x[i] = q[i]
    BY <1>1, <2>1
  <2>3. y \in Seq(Name) /\ Len(y) = k /\ (\A i \in 1 .. k : y[i] = dir[i]) /\ y \notin kept
    BY <1>1, <2>1
  <2> HIDE DEF x, y
  <2>4. x = y
    <3>1. k \in Nat /\ 1 .. k \subseteq 1 .. Len(dir)
      BY <1>1, <2>1
    <3>2. \A i \in 1 .. k : x[i] = y[i]
      BY <1>1, <2>2, <2>3, <3>1
    <3> QED
      BY <2>2, <2>3, <3>1, <3>2, SeqEqual
  <2>5. x \notin kept
    BY <2>3, <2>4
  <2> QED
    BY <2>5 DEF x
<1> QED
  BY <1>3, <1>4
-----------------------------------------------------------------------------
\* What a call awaits, as it goes from one step to the next.

Frame(dir, step, names) == [dir |-> dir, at |-> step, todo |-> names]

LEMMA AwaitsListed ==
  ASSUME NEW dir, NEW names, NEW more
  PROVE  Awaits(Frame(dir, "listed", more)) = Awaits(Frame(dir, "enter", names))
  BY DEF Awaits, Frame

LEMMA AwaitsFiles ==
  ASSUME WellFormed(source), NEW dir \in Location, NEW names, Listing(dir) \subseteq names
  PROVE  LET old == Awaits(Frame(dir, "listed", names))
             new == Awaits(Frame(dir, "files", names))
         IN  /\ new \subseteq old
             /\ \A p \in Copied : p \in old => p \in new \/ p = dir
<1> DEFINE old == Awaits(Frame(dir, "listed", names))
           new == Awaits(Frame(dir, "files", names))
<1>1. new \subseteq old
  BY DEF Awaits, Frame
<1>2. ASSUME NEW p \in Copied, p \in old, p # dir
      PROVE  p \in new
  <2>1. p \in Location /\ Under(dir, p) /\ source[p].kind # "none"
    BY <1>2 DEF Awaits, Frame, Copied, CopiedFiles, AllFiles, CopiedDirs, AllDirs
  <2>2. p \in Seq(Name) /\ dir \in Seq(Name) /\ Len(dir) < Len(p)
    <3>1. p \in Seq(Name) /\ dir \in Seq(Name)
      BY <2>1, LocationAssumption
    <3> QED
      BY <1>2, <2>1, <3>1 DEF Under
  <2>3. p[Len(dir) + 1] \in Listing(dir)
    BY <1>2, <2>1, <2>2, PathListed
  <2> QED
    BY <2>1, <2>2, <2>3 DEF Awaits, Frame
<1> QED
  BY <1>1, <1>2

LEMMA AwaitsFile ==
  ASSUME NEW dir \in Location, NEW names, names \subseteq Entries(dir), NEW n \in names
  PROVE  LET old == Awaits(Frame(dir, "files", names))
             new == Awaits(Frame(dir, "files", names \ {n}))
             p == Append(dir, n)
         IN  /\ new \subseteq old
             /\ \A q \in old : q \in new \/ q = p
             /\ IF IsFile(p) THEN p \in old /\ p \notin new ELSE new = old
<1> DEFINE old == Awaits(Frame(dir, "files", names))
           new == Awaits(Frame(dir, "files", names \ {n}))
           p == Append(dir, n)
<1>1. n \in Name /\ p \in InDir(dir)
  BY PathEntry
<1>2. /\ p \in Location /\ Len(p) = Len(dir) + 1 /\ Under(dir, p)
      /\ p[Len(dir) + 1] = n /\ Len(dir) \in Nat
  BY <1>1, PathInDir, PathAppended
<1>3. new \subseteq old
  BY DEF Awaits, Frame
<1>4. ASSUME NEW q \in old, q \notin new
      PROVE  q = p /\ IsFile(q)
  <2>1. /\ q \in Location /\ Under(dir, q) /\ IsFile(q) /\ Len(q) = Len(dir) + 1
        /\ q[Len(dir) + 1] = n
    BY <1>4 DEF Awaits, Frame, IsIn
  <2>2. q \in Seq(Name) /\ p \in Seq(Name) /\ dir \in Seq(Name)
    BY <1>2, <2>1, LocationAssumption
  <2>3. \A i \in 1 .. Len(dir) + 1 : q[i] = p[i]
    BY <1>2, <2>1, <2>2 DEF Under
  <2> HIDE DEF p
  <2>4. q = p
    BY <1>2, <2>1, <2>2, <2>3
  <2> QED
    BY <2>1, <2>4
<1> HIDE DEF p
<1>5. ASSUME IsFile(p)
      PROVE  p \in old /\ p \notin new
  BY <1>2, <1>5 DEF Awaits, Frame, IsIn
<1> HIDE DEF old, new
<1>6. ~IsFile(p) => new = old
  BY <1>3, <1>4
<1>7. \A q \in old : q \in new \/ q = p
  BY <1>4
<1>8. IF IsFile(p) THEN p \in old /\ p \notin new ELSE new = old
  BY <1>5, <1>6
<1> QED
  BY <1>3, <1>7, <1>8 DEF p, old, new

LEMMA AwaitsDirs ==
  ASSUME WellFormed(source), NEW dir \in Location
  PROVE  LET old == Awaits(Frame(dir, "files", {}))
             new == Awaits(Frame(dir, "dirs", Listing(dir)))
         IN  new \subseteq old /\ \A p \in Copied : p \in old => p \in new
<1> DEFINE old == Awaits(Frame(dir, "files", {}))
           new == Awaits(Frame(dir, "dirs", Listing(dir)))
<1>1. new \subseteq old
  BY DEF Awaits, Frame
<1>2. ASSUME NEW p \in Copied, p \in old
      PROVE  p \in new
  <2>1. /\ p \in Location /\ Under(dir, p) /\ source[p].kind # "none" /\ Len(p) > Len(dir)
        /\ ~(IsFile(p) /\ IsIn(dir, p))
    BY <1>2 DEF Awaits, Frame, Copied, CopiedFiles, AllFiles, CopiedDirs, AllDirs
  <2>2. Len(dir) < Len(p)
    <3>1. p \in Seq(Name) /\ dir \in Seq(Name)
      BY <2>1, LocationAssumption
    <3> QED
      BY <2>1, <3>1
  <2>3. p[Len(dir) + 1] \in Listing(dir)
    BY <1>2, <2>1, <2>2, PathListed
  <2> QED
    BY <2>1, <2>3 DEF Awaits, Frame
<1> QED
  BY <1>1, <1>2

LEMMA AwaitsDir ==
  ASSUME WellFormed(source), NEW dir \in Location,
         NEW names, names \subseteq Entries(dir), NEW n \in names
  PROVE  LET old == Awaits(Frame(dir, "dirs", names))
             new == Awaits(Frame(dir, "dirs", names \ {n}))
             called == Awaits(Call(Append(dir, n)))
         IN  /\ new \subseteq old
             /\ IF source[Append(dir, n)].kind = "dir"
                THEN /\ called \subseteq old /\ called \cap new = {}
                     /\ \A p \in Copied : p \in old => p \in new \/ p \in called
                ELSE \A p \in Copied : p \in old => p \in new
<1> DEFINE old == Awaits(Frame(dir, "dirs", names))
           new == Awaits(Frame(dir, "dirs", names \ {n}))
           d == Append(dir, n)
           called == Awaits(Call(d))
<1>1. n \in Name /\ d \in InDir(dir)
  BY PathEntry
<1>2. /\ d \in Location /\ Len(d) = Len(dir) + 1 /\ Under(dir, d)
      /\ d[Len(dir) + 1] = n /\ Len(dir) \in Nat /\ \A i \in 1 .. Len(dir) : d[i] = dir[i]
  BY <1>1, PathInDir, PathAppended
<1>3. new \subseteq old
  BY DEF Awaits, Frame
<1>4. \A p \in called :
        /\ p \in Location /\ Len(p) \in Nat /\ Under(d, p) /\ p[Len(dir) + 1] = n
        /\ Len(p) > Len(dir) /\ Under(dir, p)
  <2> SUFFICES ASSUME NEW p \in called
               PROVE  /\ p \in Location /\ Len(p) \in Nat /\ Under(d, p) /\ p[Len(dir) + 1] = n
                      /\ Len(p) > Len(dir) /\ Under(dir, p)
    OBVIOUS
  <2>1. p \in Location /\ Under(d, p)
    BY DEF Awaits, Call
  <2>2. p \in Seq(Name)
    BY <2>1, LocationAssumption
  <2> HIDE DEF d
  <2>3. \A i \in 1 .. Len(dir) + 1 : p[i] = d[i]
    BY <1>2, <2>1 DEF Under
  <2>4. Len(p) \in Nat /\ Len(p) >= Len(dir) + 1
    BY <1>2, <2>1, <2>2 DEF Under
  <2>5. \A i \in 1 .. Len(dir) : p[i] = dir[i]
    BY <1>2, <2>3
  <2>6. p[Len(dir) + 1] = n
    BY <1>2, <2>3
  <2> QED
    BY <1>2, <2>1, <2>4, <2>5, <2>6 DEF Under
<1>5. called \cap new = {}
  BY <1>4 DEF Awaits, Frame
<1>6. ASSUME NEW p \in Copied, p \in old, p \notin new
      PROVE  source[d].kind = "dir" /\ p \in called
  <2>1. /\ p \in Location /\ Under(dir, p) /\ source[p].kind # "none" /\ Len(p) > Len(dir)
        /\ ~(IsFile(p) /\ IsIn(dir, p)) /\ p[Len(dir) + 1] = n
        /\ source[p].kind \in {"file", "dir"}
    BY <1>6 DEF Awaits, Frame, Copied, CopiedFiles, AllFiles, CopiedDirs, AllDirs
  <2>2. Len(dir) < Len(p)
    <3>1. p \in Seq(Name) /\ dir \in Seq(Name)
      BY <2>1, LocationAssumption
    <3> QED
      BY <2>1, <3>1
  <2>3. Under(d, p) /\ IF Len(p) = Len(dir) + 1 THEN p = d ELSE source[d].kind = "dir"
    BY <2>1, <2>2, PathThrough
  <2>4. source[d].kind = "dir"
    BY <2>1, <2>3 DEF IsFile, IsIn
  <2> QED
    BY <2>1, <2>3, <2>4 DEF Awaits, Call
<1>7. ASSUME source[d].kind = "dir", NEW p \in called
      PROVE  p \in old
  <2>1. /\ p \in Location /\ Under(dir, p) /\ Len(p) > Len(dir) /\ p[Len(dir) + 1] = n
        /\ Under(d, p)
    BY <1>4
  <2>2. ~(IsFile(p) /\ IsIn(dir, p))
    <3> SUFFICES ASSUME IsIn(dir, p) PROVE p = d
      BY <1>7 DEF IsFile
    <3>1. p \in Seq(Name) /\ d \in Seq(Name) /\ Len(p) = Len(d)
      BY <1>2, <2>1, LocationAssumption DEF IsIn
    <3> HIDE DEF d
    <3> QED
      BY <2>1, <3>1 DEF Under
  <2> QED
    BY <2>1, <2>2 DEF Awaits, Frame
<1> QED
  BY <1>3, <1>5, <1>6, <1>7

LEMMA AwaitsNone ==
  ASSUME NEW dir
  PROVE  Awaits(Frame(dir, "dirs", {})) = {}
  BY DEF Awaits, Frame

\* All that lies under a directory that is not copied is not copied.
LEMMA AwaitsIgnored ==
  ASSUME NEW frame \in Frames, source[frame.dir].kind = "dir", Ignored(frame.dir), NEW p \in Copied
  PROVE  p \notin Awaits(frame)
<1> SUFFICES ASSUME p \in Awaits(frame) PROVE FALSE
  OBVIOUS
<1> DEFINE dir == frame.dir
<1>1. dir \in Location /\ p \in Location /\ Under(dir, p) /\ source[dir].kind = "dir"
  BY DEF Frames, Awaits
<1>2. dir \in Seq(Name) /\ p \in Seq(Name)
  BY <1>1, LocationAssumption
<1>3. PICK i \in DOMAIN dir : Contains(dir[i], SystemVolume)
  BY DEF Ignored
<1> HIDE DEF dir
<1>4. i \in 1 .. Len(dir) /\ p[i] = dir[i] /\ i \in DOMAIN p
  BY <1>1, <1>2, <1>3 DEF Under
<1>5. Ignored(p)
  BY <1>3, <1>4 DEF Ignored
<1>6. source[p].kind = "file" /\ ~Ignored(Front(p))
  BY <1>5 DEF Copied, CopiedFiles, AllFiles, CopiedDirs, AllDirs
<1>7. Len(dir) < Len(p)
  <2>1. p # dir
    BY <1>1, <1>6
  <2> QED
    BY <1>1, <1>2, <2>1 DEF Under
<1>8. /\ Front(p) \in Seq(Name) /\ Len(Front(p)) = Len(p) - 1
      /\ \A j \in 1 .. Len(p) - 1 : Front(p)[j] = p[j]
  <2>1. p # <<>>
    BY <1>2, <1>7
  <2> QED
    BY <1>2, <2>1, SeqParts
<1>9. i \in DOMAIN Front(p) /\ Front(p)[i] = dir[i]
  BY <1>2, <1>4, <1>7, <1>8
<1> QED
  BY <1>3, <1>6, <1>9 DEF Ignored
-----------------------------------------------------------------------------
\* The calls in progress: the innermost goes on, returns or calls another.

WithLast(s, f) == [s EXCEPT ![Len(s)] = f]
Calling(s, f, g) == Append(WithLast(s, f), g)

LEMMA StackGoesOn ==
  ASSUME NEW s \in Seq(Frames), s # <<>>, Apart(s),
         NEW f \in Frames, Awaits(f) \subseteq Awaits(s[Len(s)]),
         NEW t, t = WithLast(s, f)
  PROVE  /\ t \in Seq(Frames) /\ t # <<>> /\ Len(t) = Len(s) /\ t[Len(s)] = f
         /\ \A i \in Calls(s) : i # Len(s) => t[i] = s[i]
         /\ Apart(t) /\ AllAwaited(t) \subseteq AllAwaited(s)
         /\ \A p \in AllAwaited(s) :
              p \in AllAwaited(t) <=> ~(p \in Awaits(s[Len(s)]) /\ p \notin Awaits(f))
<1>1. Len(s) \in Nat /\ Len(s) > 0
  OBVIOUS
<1>2. t \in Seq(Frames) /\ Len(t) = Len(s) /\ t[Len(s)] = f /\ Calls(t) = Calls(s)
      /\ \A i \in Calls(s) : i # Len(s) => t[i] = s[i]
  <2>1. t \in Seq(Frames) /\ Len(t) = Len(s)
    BY <1>1 DEF WithLast
  <2>2. t[Len(s)] = f /\ \A i \in 1 .. Len(s) : i # Len(s) => t[i] = s[i]
    BY <1>1 DEF WithLast
  <2> QED
    BY <2>1, <2>2 DEF Calls
<1>3. t # <<>> /\ Len(s) \in Calls(s)
  <2>1. Len(s) \in Calls(s)
    BY <1>1 DEF Calls
  <2>2. Len(t) # 0
    BY <1>1, <1>2
  <2> QED
    BY <2>1, <2>2
<1>4. \A i \in Calls(s) : Awaits(t[i]) \subseteq Awaits(s[i])
  BY <1>2
<1>5. Apart(t)
  <2> SUFFICES ASSUME NEW i \in Calls(s), NEW j \in Calls(s), i # j
               PROVE  Awaits(t[i]) \cap Awaits(t[j]) = {}
    BY <1>2 DEF Apart
  <2>1. Awaits(s[i]) \cap Awaits(s[j]) = {}
    BY DEF Apart
  <2> QED
    BY <1>4, <2>1
<1>6. AllAwaited(t) \subseteq AllAwaited(s)
  BY <1>2, <1>4 DEF AllAwaited
<1>7. ASSUME NEW p \in AllAwaited(s)
      PROVE  p \in AllAwaited(t) <=> ~(p \in Awaits(s[Len(s)]) /\ p \notin Awaits(f))
  <2>1. PICK i \in Calls(s) : p \in Awaits(s[i])
    BY DEF AllAwaited
  <2>2. \A j \in Calls(s) : p \in Awaits(s[j]) => j = i
    BY <2>1 DEF Apart
  <2>3. p \in AllAwaited(t) <=> p \in Awaits(t[i])
    BY <1>2, <1>4, <2>1, <2>2 DEF AllAwaited
  <2>4. CASE i = Len(s)
    BY <1>2, <2>1, <2>3, <2>4
  <2>5. CASE i # Len(s)
    BY <1>2, <1>3, <2>1, <2>2, <2>3, <2>5
  <2> QED
    BY <2>4, <2>5
<1> QED
  BY <1>2, <1>3, <1>5, <1>6, <1>7

LEMMA StackReturns ==
  ASSUME NEW s \in Seq(Frames), s # <<>>, Apart(s), NEW t, t = Front(s)
  PROVE  /\ t \in Seq(Frames) /\ Len(t) = Len(s) - 1 /\ (t = <<>> <=> Len(s) = 1)
         /\ \A i \in Calls(t) : i \in Calls(s) /\ i # Len(s) /\ t[i] = s[i]
         /\ t # <<>> => Len(t) \in Calls(t)
         /\ Apart(t) /\ AllAwaited(t) \subseteq AllAwaited(s)
         /\ \A p \in AllAwaited(s) : p \in AllAwaited(t) \/ p \in Awaits(s[Len(s)])
<1>1. Len(s) \in Nat /\ Len(s) > 0
  OBVIOUS
<1>2. t \in Seq(Frames) /\ Len(t) = Len(s) - 1 /\ \A i \in 1 .. Len(s) - 1 : t[i] = s[i]
  BY SeqParts
<1>3. \A i \in Calls(t) : i \in Calls(s) /\ i # Len(s) /\ t[i] = s[i]
  BY <1>1, <1>2 DEF Calls
<1>4. (t = <<>> <=> Len(s) = 1) /\ (t # <<>> => Len(t) \in Calls(t))
  BY <1>1, <1>2 DEF Calls
<1>5. Apart(t) /\ AllAwaited(t) \subseteq AllAwaited(s)
  BY <1>3 DEF Apart, AllAwaited
<1>6. \A i \in Calls(s) : i \in Calls(t) \/ i = Len(s)
  BY <1>1, <1>2 DEF Calls
<1>7. \A p \in AllAwaited(s) : p \in AllAwaited(t) \/ p \in Awaits(s[Len(s)])
  BY <1>3, <1>6 DEF AllAwaited
<1> QED
  BY <1>2, <1>3, <1>4, <1>5, <1>7

LEMMA StackCalls ==
  ASSUME NEW s \in Seq(Frames), s # <<>>, Apart(s),
         NEW f \in Frames, NEW g \in Frames,
         Awaits(f) \subseteq Awaits(s[Len(s)]), Awaits(g) \subseteq Awaits(s[Len(s)]),
         Awaits(g) \cap Awaits(f) = {},
         NEW t, t = Calling(s, f, g)
  PROVE  /\ t \in Seq(Frames) /\ t # <<>> /\ Len(t) = Len(s) + 1 /\ t[Len(s)] = f
         /\ t[Len(t)] = g /\ \A i \in Calls(s) : i # Len(s) => t[i] = s[i]
         /\ Apart(t) /\ AllAwaited(t) \subseteq AllAwaited(s)
         /\ \A p \in AllAwaited(s) :
              \/ p \in AllAwaited(t)
              \/ p \in Awaits(s[Len(s)]) /\ p \notin Awaits(f) /\ p \notin Awaits(g)
<1> DEFINE r == WithLast(s, f)
<1>1. Len(s) \in Nat /\ Len(s) > 0
  OBVIOUS
<1>2. /\ r \in Seq(Frames) /\ r # <<>> /\ Len(r) = Len(s) /\ r[Len(s)] = f
      /\ \A i \in Calls(s) : i # Len(s) => r[i] = s[i]
      /\ Apart(r) /\ AllAwaited(r) \subseteq AllAwaited(s)
      /\ \A p \in AllAwaited(s) :
           p \in AllAwaited(r) <=> ~(p \in Awaits(s[Len(s)]) /\ p \notin Awaits(f))
  BY StackGoesOn
<1>3. t = Append(r, g)
  BY DEF Calling
<1> HIDE DEF r
<1>4. /\ t \in Seq(Frames) /\ Len(t) = Len(s) + 1 /\ t[Len(s) + 1] = g
      /\ \A i \in 1 .. Len(s) : t[i] = r[i]
  BY <1>1, <1>2, <1>3
<1>5. /\ t # <<>> /\ t[Len(s)] = f /\ \A i \in Calls(s) : i # Len(s) => t[i] = s[i]
      /\ Calls(r) = Calls(s) /\ Calls(t) = Calls(s) \cup {Len(s) + 1}
      /\ \A i \in Calls(s) : t[i] = r[i] /\ i # Len(s) + 1
      /\ Len(s) \in Calls(s)
  BY <1>1, <1>2, <1>4 DEF Calls
<1>6. \A i \in Calls(s) : Awaits(g) \cap Awaits(r[i]) = {}
  <2> SUFFICES ASSUME NEW i \in Calls(s) PROVE Awaits(g) \cap Awaits(r[i]) = {}
    OBVIOUS
  <2>1. CASE i = Len(s)
    BY <1>2, <2>1
  <2>2. CASE i # Len(s)
    <3>1. Awaits(s[i]) \cap Awaits(s[Len(s)]) = {} /\ r[i] = s[i]
      BY <1>2, <1>5, <2>2 DEF Apart
    <3> QED
      BY <3>1
  <2> QED
    BY <2>1, <2>2
<1>7. Apart(t)
  <2> SUFFICES ASSUME NEW i \in Calls(t), NEW j \in Calls(t), i # j
               PROVE  Awaits(t[i]) \cap Awaits(t[j]) = {}
    BY DEF Apart
  <2>1. CASE i \in Calls(s) /\ j \in Calls(s)
    BY <1>2, <1>5, <2>1 DEF Apart
  <2>2. CASE i = Len(s) + 1 \/ j = Len(s) + 1
    BY <1>4, <1>5, <1>6, <2>2
  <2> QED
    BY <1>5, <2>1, <2>2
<1>8. AllAwaited(t) = AllAwaited(r) \cup Awaits(g)
  <2>1. \A p : p \in AllAwaited(t) <=> \E i \in Calls(t) : p \in Awaits(t[i])
    BY DEF AllAwaited
  <2>2. \A p : p \in AllAwaited(r) <=> \E i \in Calls(r) : p \in Awaits(r[i])
    BY DEF AllAwaited
  <2>3. \A p : p \in AllAwaited(t) <=> p \in AllAwaited(r) \/ p \in Awaits(g)
    BY <1>4, <1>5, <2>1, <2>2
  <2> QED
    BY <2>3
<1>9. Awaits(g) \subseteq AllAwaited(s)
  BY <1>5 DEF AllAwaited
<1> QED
  BY <1>2, <1>4, <1>5, <1>7, <1>8, <1>9
-----------------------------------------------------------------------------
\* The target.

\* A directory made where nothing was, or a file where no directory is, in a directory.
LEMMA TreeGrows ==
  ASSUME NEW t, WellFormed(t), NEW p \in Location, t[p].kind # "dir",
         Front(p) \in Location, t[Front(p)].kind = "dir",
         NEW node, node = Dir \/ \E data \in Seq(Block) : node = File(data),
         NEW u \in [Location -> {t[q] : q \in Location} \cup {node}], u[p] = node,
         \A q \in Location : q # p => u[q] = t[q]
  PROVE  /\ WellFormed(u)
         /\ \A q \in Location : t[q].kind # "none" => u[q].kind # "none"
<1>1. t \in Tree /\ t[Root].kind = "dir" /\ Root \in Location /\ p # Root
  BY LocationAssumption DEF WellFormed
<1>2. /\ node \in Node /\ node.kind \in {"dir", "file"} /\ (node.kind = "file" => node.size >= Len(node.data))
  <2>1. CASE node = Dir
    BY <2>1 DEF Node, Dir
  <2>2. ASSUME NEW data \in Seq(Block), node = File(data)
        PROVE  node \in Node /\ node.kind = "file" /\ node.size >= Len(node.data)
    BY <2>2 DEF Node, File
  <2> QED
    BY <2>1, <2>2 DEF Dir
<1>3. /\ u \in Tree /\ u[p] = node /\ \A q \in Location : q # p => u[q] = t[q]
  <2>1. {t[q] : q \in Location} \cup {node} \subseteq Node
    BY <1>1, <1>2 DEF Tree
  <2> QED
    BY <2>1 DEF Tree
<1>4. \A q \in Location : t[q].kind = "dir" => u[q].kind = "dir"
  BY <1>3
<1>5. /\ p \in Seq(Name) /\ Len(p) \in Nat /\ Len(p) > 0 /\ Len(Front(p)) = Len(p) - 1
      /\ Front(p) = SubSeq(p, 1, Len(p) - 1)
      /\ \A i \in 1 .. Len(p) - 1 : Front(p)[i] = p[i]
  BY <1>1, PathParts
<1>6. \A k \in 0 .. Len(p) - 1 : SubSeq(p, 1, k) \in Location /\ t[SubSeq(p, 1, k)].kind = "dir"
  <2> SUFFICES ASSUME NEW k \in 0 .. Len(p) - 1
               PROVE  SubSeq(p, 1, k) \in Location /\ t[SubSeq(p, 1, k)].kind = "dir"
    OBVIOUS
  <2>1. CASE k = Len(p) - 1
    BY <1>5, <2>1
  <2>2. CASE k # Len(p) - 1
    <3> DEFINE r == Front(p)
    <3>1. k \in 0 .. Len(r) - 1 /\ r \in Location /\ t[r].kind # "none"
      BY <1>5, <2>2
    <3>2. SubSeq(r, 1, k) \in Location /\ t[SubSeq(r, 1, k)].kind = "dir"
      BY <3>1 DEF WellFormed
    <3>3. r \in Seq(Name) /\ k \in 0 .. Len(r) /\ k \in 0 .. Len(p)
          /\ \A i \in 1 .. k : r[i] = p[i]
      BY <1>5, <3>1, LocationAssumption
    <3> HIDE DEF r
    <3>4. SubSeq(r, 1, k) = SubSeq(p, 1, k)
      <4> DEFINE x == SubSeq(r, 1, k)
                 y == SubSeq(p, 1, k)
      <4>1. x \in Seq(Name) /\ Len(x) = k /\ \A i \in 1 .. k : x[i] = r[i]
        BY <3>3
      <4>2. y \in Seq(Name) /\ Len(y) = k /\ \A i \in 1 .. k : y[i] = p[i]
        BY <1>5, <3>3
      <4> HIDE DEF x, y
      <4>3. x = y
        BY <3>3, <4>1, <4>2, SeqEqual
      <4> QED
        BY <4>3 DEF x, y
    <3> QED
      BY <3>2, <3>4
  <2> QED
    BY <2>1, <2>2
<1>7. ASSUME NEW q \in Location, u[q].kind # "none", NEW k \in 0 .. Len(q) - 1
      PROVE  SubSeq(q, 1, k) \in Location /\ u[SubSeq(q, 1, k)].kind = "dir"
  <2>1. CASE q = p
    BY <1>4, <1>6, <1>7, <2>1
  <2>2. CASE q # p
    BY <1>3, <1>4, <1>7, <2>2 DEF WellFormed
  <2> QED
    BY <2>1, <2>2
<1>8. u[Root].kind = "dir"
  BY <1>1, <1>3
<1>9. \A q \in Location :
        /\ u[q].kind = "none" => u[q] = Absent
        /\ u[q].kind = "file" => u[q].size >= Len(u[q].data)
  BY <1>2, <1>3 DEF WellFormed
<1>10. \A q \in Location : t[q].kind # "none" => u[q].kind # "none"
  BY <1>2, <1>3
<1>11. ASSUME NEW q \in Location
       PROVE  /\ u[q].kind = "none" => u[q] = Absent
              /\ u[q].kind = "file" => u[q].size >= Len(u[q].data)
              /\ u[q].kind # "none" => \A k \in 0 .. Len(q) - 1 :
                   SubSeq(q, 1, k) \in Location /\ u[SubSeq(q, 1, k)].kind = "dir"
  BY <1>7, <1>9
<1>12. WellFormed(u)
  BY <1>3, <1>8, <1>11 DEF WellFormed
<1> QED
  BY <1>3, <1>10, <1>12

\* What is written continues what is there or replaces some of it.
LEMMA Overwritten ==
  ASSUME NEW S, NEW D \in Seq(S), NEW pos \in 0 .. Len(D), NEW m \in pos .. Len(D),
         NEW k \in Nat, pos + k <= Len(D)
  PROVE  LET old == SubSeq(D, 1, m)
             new == SubSeq(D, pos + 1, pos + k)
         IN  SubSeq(old, 1, pos) \o new \o SubSeq(old, pos + Len(new) + 1, Len(old))
               = SubSeq(D, 1, IF m >= pos + k THEN m ELSE pos + k)
<1> DEFINE old == SubSeq(D, 1, m)
           new == SubSeq(D, pos + 1, pos + k)
           head == SubSeq(old, 1, pos)
           tail == SubSeq(old, pos + k + 1, m)
           n == IF m >= pos + k THEN m ELSE pos + k
           all == SubSeq(D, 1, n)
<1>1. /\ Len(D) \in Nat /\ pos \in Nat /\ m \in Nat /\ k \in Nat /\ n \in Nat
      /\ pos <= m /\ m <= Len(D) /\ pos + k <= Len(D) /\ n <= Len(D)
  OBVIOUS
<1>2. old \in Seq(S) /\ Len(old) = m /\ \A i \in 1 .. m : old[i] = D[i]
  BY <1>1
<1>3. new \in Seq(S) /\ Len(new) = k /\ \A i \in 1 .. k : new[i] = D[pos + i]
  BY <1>1
<1>4. all \in Seq(S) /\ Len(all) = n /\ \A i \in 1 .. n : all[i] = D[i]
  <2> HIDE DEF n
  <2> QED
    BY <1>1
<1> HIDE DEF old, new, all
<1>5. head \in Seq(S) /\ Len(head) = pos /\ \A i \in 1 .. pos : head[i] = D[i]
  BY <1>1, <1>2
<1>6. /\ tail \in Seq(S) /\ Len(tail) = n - (pos + k)
      /\ \A i \in 1 .. n - (pos + k) : tail[i] = D[pos + k + i]
  <2>1. CASE m >= pos + k
    BY <1>1, <1>2, <2>1
  <2>2. CASE ~(m >= pos + k)
    BY <1>1, <1>2, <2>2
  <2> QED
    BY <2>1, <2>2
<1> HIDE DEF head, tail
<1> DEFINE front == head \o new
           made == front \o tail
<1>7. /\ front \in Seq(S) /\ Len(front) = pos + k
      /\ \A i \in 1 .. pos : front[i] = head[i]
      /\ \A i \in 1 .. k : front[pos + i] = new[i]
  <2>1. /\ front \in Seq(S) /\ Len(front) = Len(head) + Len(new)
        /\ \A i \in 1 .. Len(head) : front[i] = head[i]
        /\ \A i \in 1 .. Len(new) : front[Len(head) + i] = new[i]
    <3>1. head \in Seq(S) /\ new \in Seq(S)
      BY <1>3, <1>5
    <3> QED
      BY <3>1, SeqConcat
  <2> QED
    BY <1>3, <1>5, <2>1
<1> HIDE DEF front
<1>8. /\ made \in Seq(S) /\ Len(made) = (pos + k) + (n - (pos + k))
      /\ \A i \in 1 .. pos + k : made[i] = front[i]
      /\ \A i \in 1 .. n - (pos + k) : made[pos + k + i] = tail[i]
  <2>1. /\ made \in Seq(S) /\ Len(made) = Len(front) + Len(tail)
        /\ \A i \in 1 .. Len(front) : made[i] = front[i]
        /\ \A i \in 1 .. Len(tail) : made[Len(front) + i] = tail[i]
    <3>1. front \in Seq(S) /\ tail \in Seq(S)
      BY <1>6, <1>7
    <3> QED
      BY <3>1, SeqConcat
  <2> QED
    BY <1>6, <1>7, <2>1
<1> HIDE DEF made, n
<1>9. made = all
  <2>1. \A i \in 1 .. n : made[i] = D[i]
    <3> SUFFICES ASSUME NEW i \in 1 .. n PROVE made[i] = D[i]
      OBVIOUS
    <3>1. CASE i <= pos
      BY <1>1, <1>5, <1>7, <1>8, <3>1
    <3>2. CASE i > pos /\ i <= pos + k
      <4>1. i - pos \in 1 .. k /\ pos + (i - pos) = i /\ i \in 1 .. pos + k
        BY <1>1, <3>2
      <4>2. made[i] = front[i]
        BY <1>8, <4>1
      <4>3. front[pos + (i - pos)] = new[i - pos] /\ new[i - pos] = D[pos + (i - pos)]
        BY <1>3, <1>7, <4>1
      <4> QED
        BY <4>1, <4>2, <4>3
    <3>3. CASE i > pos + k
      <4>1. i - (pos + k) \in 1 .. n - (pos + k) /\ pos + k + (i - (pos + k)) = i
        BY <1>1, <3>3
      <4> QED
        BY <1>6, <1>8, <4>1
    <3> QED
      BY <1>1, <3>1, <3>2, <3>3
  <2>2. Len(made) = n
    BY <1>1, <1>8
  <2> QED
    BY <1>4, <1>8, <2>1, <2>2, SeqEqual
<1>10. pos + Len(new) + 1 = pos + k + 1 /\ Len(old) = m
  BY <1>1, <1>2, <1>3
<1> QED
  BY <1>9, <1>10 DEF made, front, head, tail, old, new, all, n

-----------------------------------------------------------------------------
\* What the steps have in common.  The source stays as it is.

LEMMA TopCall ==
  ASSUME CallsOK, stack # <<>>
  PROVE  /\ Top \in Frames /\ FrameOK(Top) /\ Top = Frame(Top.dir, Top.at, Top.todo)
         /\ Top.dir \in Location /\ Top.at \in Steps /\ Top.todo \subseteq Entries(Top.dir)
         /\ Len(stack) \in Calls(stack) /\ Top = stack[Len(stack)]
         /\ Awaits(Top) \subseteq AllAwaited(stack)
<1>1. stack \in Seq(Frames) /\ Len(stack) \in Calls(stack) /\ Top = stack[Len(stack)]
  BY DEF CallsOK, Calls, Top
<1>2. Top \in Frames /\ FrameOK(Top)
  BY <1>1 DEF CallsOK, Calls
<1>3. Top = Frame(Top.dir, Top.at, Top.todo) /\ Top.dir \in Location /\ Top.at \in Steps
  BY <1>2 DEF Frames, Frame
<1>4. Awaits(Top) \subseteq AllAwaited(stack)
  BY <1>1 DEF AllAwaited
<1> QED
  BY <1>1, <1>2, <1>3, <1>4 DEF FrameOK

\* What FrameOK says after a step.
FrameStays(frame) ==
  /\ source[frame.dir].kind = "dir" /\ frame.todo \subseteq Entries(frame.dir)
  /\ frame.at # "enter" => ~Ignored(frame.dir) /\ target'[frame.dir].kind # "none"
  /\ IsGiven(frame, missed')

OnlyGrows == \A q \in Location : target[q].kind # "none" => target'[q].kind # "none"

LEMMA SteadyCalls ==
  ASSUME source' = source
  PROVE  /\ AllAwaited(stack)' = AllAwaited(stack')
         /\ (Apart(stack)' <=> Apart(stack')) /\ (Deeper(stack)' <=> Deeper(stack'))
         /\ \A i : FrameOK(stack[i])' <=> FrameStays(stack'[i])
         /\ AllFiles' = AllFiles /\ AllDirs' = AllDirs
         /\ NamesStayApart' <=> NamesStayApart
         /\ Sizes' = Sizes
<1>1. AllAwaited(stack)' = AllAwaited(stack')
  BY DEF AllAwaited, Awaits, IsFile
<1>2. Apart(stack)' <=> Apart(stack')
  BY DEF Apart, Awaits, IsFile
<1>3. \A i : FrameOK(stack[i])' <=> FrameStays(stack'[i])
  BY DEF FrameOK, FrameStays, Entries, IsGiven
<1>4. AllFiles' = AllFiles /\ AllDirs' = AllDirs
  BY DEF AllFiles, AllDirs
<1>5. Deeper(stack)' <=> Deeper(stack')
  BY DEF Deeper
<1>6. NamesStayApart' <=> NamesStayApart
  BY <1>4 DEF NamesStayApart
<1>7. Sizes' = Sizes
  BY DEF Sizes
<1> QED
  BY <1>1, <1>2, <1>3, <1>4, <1>5, <1>6, <1>7

\* What is to be copied changes by what is awaited at most.
Forgone ==
  \A p \in Location : p \notin AllAwaited(stack)' =>
    (p \in CopiedFiles' <=> p \in CopiedFiles) /\ (p \in CopiedDirs' <=> p \in CopiedDirs)

LEMMA Steady ==
  ASSUME source' = source, missed' = missed
  PROVE  /\ AllAwaited(stack)' = AllAwaited(stack')
         /\ CopiedFiles' = CopiedFiles /\ CopiedDirs' = CopiedDirs /\ Copied' = Copied
         /\ NamesStayApart' <=> NamesStayApart
         /\ Sizes' = Sizes /\ Forgone
<1>1. CopiedFiles' = CopiedFiles /\ CopiedDirs' = CopiedDirs
  BY SteadyCalls DEF CopiedFiles, CopiedDirs, Given
<1>2. Copied' = Copied
  BY <1>1 DEF Copied
<1> QED
  BY <1>1, <1>2, SteadyCalls DEF Forgone

LEMMA FramesStay ==
  ASSUME OnlyGrows, NEW f \in Frames, FrameOK(f), missed' = missed \/ IsGiven(f, missed')
  PROVE  FrameStays(f)
  BY DEF OnlyGrows, FrameOK, FrameStays, Frames

\* What the innermost call misses is nothing to the others.
LEMMA OthersGiven ==
  ASSUME NEW f \in Frames, NEW dir \in Location, Len(f.dir) < Len(dir), FrameOK(f),
         f.at = "dirs", missed' \subseteq missed \cup InDir(dir)
  PROVE  IsGiven(f, missed')
<1>1. /\ f.dir \in Location /\ f.dir \in Seq(Name) /\ dir \in Seq(Name)
      /\ f.todo \subseteq Entries(f.dir) /\ IsGiven(f, missed)
  BY LocationAssumption DEF Frames, FrameOK
<1>2. \A q \in missed' : q \in missed \/ Len(q) = Len(dir) + 1
  BY DEF InDir
<1>3. ASSUME NEW k \in 1 .. Len(f.dir)
      PROVE  SubSeq(f.dir, 1, k) \notin missed'
  <2> DEFINE x == SubSeq(f.dir, 1, k)
  <2>1. Len(x) = k /\ k < Len(dir) /\ Len(dir) \in Nat
    BY <1>1
  <2>2. x \notin missed
    BY <1>1 DEF IsGiven
  <2> HIDE DEF x
  <2>3. x \notin missed'
    BY <1>2, <2>1, <2>2
  <2> QED
    BY <2>3 DEF x
<1>4. ASSUME NEW n \in f.todo
      PROVE  Append(f.dir, n) \notin missed'
  <2> DEFINE x == Append(f.dir, n)
  <2>1. n \in Name
    BY <1>1, PathEntry
  <2>2. Len(x) = Len(f.dir) + 1 /\ Len(f.dir) \in Nat /\ Len(dir) \in Nat
    BY <1>1, <2>1, PathAppended
  <2>3. x \notin missed
    BY <1>1 DEF IsGiven
  <2> HIDE DEF x
  <2>4. x \notin missed'
    BY <1>2, <2>2, <2>3
  <2> QED
    BY <2>4 DEF x
<1> QED
  BY <1>3, <1>4 DEF IsGiven

LEMMA CallsStay ==
  ASSUME source' = source, stack' \in Seq(Frames), Apart(stack'), Deeper(stack'),
         \A i \in Calls(stack') :
           FrameStays(stack'[i]) /\ (i # Len(stack') => stack'[i].at = "dirs"),
         result' = "running" <=> stack' # <<>>,
         result' \in {"none", "running", "ok", "failed"}
  PROVE  CallsOK'
<1>1. Apart(stack)' /\ Deeper(stack)' /\ \A i \in Calls(stack') : FrameOK(stack[i])'
  BY SteadyCalls
<1> QED
  BY <1>1 DEF CallsOK, Calls, Frames

\* The innermost call goes on.
LEMMA CallGoesOn ==
  ASSUME CallsOK, source' = source, missed' \subseteq missed \cup InDir(Top.dir), OnlyGrows,
         Running, NEW step \in Steps, NEW names, GoOn(step, names),
         FrameStays(Frame(Top.dir, step, names)),
         Awaits(Frame(Top.dir, step, names)) \subseteq Awaits(Top)
  PROVE  LET f == Frame(Top.dir, step, names)
         IN  /\ CallsOK' /\ stack' # <<>> /\ Top' = f /\ result' = result
             /\ AllAwaited(stack)' \subseteq AllAwaited(stack)
             /\ \A p \in AllAwaited(stack) :
                  p \in AllAwaited(stack)' <=> ~(p \in Awaits(Top) /\ p \notin Awaits(f))
<1> DEFINE f == Frame(Top.dir, step, names)
<1>1. stack # <<>> /\ result = "running" /\ stack \in Seq(Frames) /\ Apart(stack)
  BY DEF Running, CallsOK
<1>2. Top \in Frames /\ Top.dir \in Location /\ Top = stack[Len(stack)]
  BY <1>1, TopCall
<1>3. f \in Frames
  <2>1. names \subseteq {Last(p) : p \in Location \ {Root}}
    BY <1>2, PathEntry DEF FrameStays, Frame
  <2> QED
    BY <1>2, <2>1 DEF Frames, Frame
<1>4. stack' = WithLast(stack, f) /\ result' = result
  BY DEF GoOn, Gone, Frame, WithLast
<1> HIDE DEF f
<1>5. /\ stack' \in Seq(Frames) /\ stack' # <<>> /\ Len(stack') = Len(stack)
      /\ stack'[Len(stack)] = f
      /\ \A i \in Calls(stack) : i # Len(stack) => stack'[i] = stack[i]
      /\ Apart(stack') /\ AllAwaited(stack') \subseteq AllAwaited(stack)
      /\ \A p \in AllAwaited(stack) :
           p \in AllAwaited(stack') <=> ~(p \in Awaits(Top) /\ p \notin Awaits(f))
  <2> DEFINE s == stack
             t == stack'
  <2>1. s \in Seq(Frames) /\ s # <<>> /\ Apart(s) /\ Awaits(f) \subseteq Awaits(s[Len(s)])
        /\ t = WithLast(s, f) /\ Top = s[Len(s)]
    BY <1>1, <1>2, <1>4 DEF f
  <2> HIDE DEF s, t
  <2>2. /\ t \in Seq(Frames) /\ t # <<>> /\ Len(t) = Len(s) /\ t[Len(s)] = f
        /\ \A i \in Calls(s) : i # Len(s) => t[i] = s[i]
        /\ Apart(t) /\ AllAwaited(t) \subseteq AllAwaited(s)
        /\ \A p \in AllAwaited(s) :
             p \in AllAwaited(t) <=> ~(p \in Awaits(s[Len(s)]) /\ p \notin Awaits(f))
    <3>1. s \in Seq(Frames) /\ s # <<>> /\ Apart(s)
      BY <2>1
    <3>2. f \in Frames /\ Awaits(f) \subseteq Awaits(s[Len(s)])
      BY <1>3, <2>1
    <3>3. t = WithLast(s, f)
      BY <2>1
    <3> QED
      BY <3>1, <3>2, <3>3, StackGoesOn
  <2> QED
    BY <2>1, <2>2 DEF s, t
<1>6. \A i \in Calls(stack') : FrameStays(stack'[i]) /\ (i # Len(stack') => stack'[i].at = "dirs")
  <2> SUFFICES ASSUME NEW i \in Calls(stack')
               PROVE  FrameStays(stack'[i]) /\ (i # Len(stack') => stack'[i].at = "dirs")
    OBVIOUS
  <2>1. i \in Calls(stack)
    BY <1>5 DEF Calls
  <2>2. CASE i = Len(stack)
    BY <1>5, <2>2 DEF f
  <2>3. CASE i # Len(stack)
    <3>1. stack'[i] = stack[i] /\ stack[i] \in Frames /\ FrameOK(stack[i]) /\ stack[i].at = "dirs"
      BY <1>1, <1>5, <2>1, <2>3 DEF CallsOK, Calls
    <3>2. Len(stack[i].dir) < Len(Top.dir)
      BY <1>1, <1>2, <2>1, <2>3 DEF CallsOK, Calls, Deeper
    <3>3. IsGiven(stack[i], missed')
      BY <1>2, <3>1, <3>2, OthersGiven
    <3> QED
      BY <3>1, <3>3, FramesStay
  <2> QED
    BY <2>2, <2>3
<1>7. Deeper(stack')
  <2>1. \A i \in Calls(stack) : stack'[i].dir = stack[i].dir
    BY <1>2, <1>5 DEF f, Frame
  <2>2. Calls(stack') = Calls(stack)
    BY <1>5 DEF Calls
  <2> QED
    BY <2>1, <2>2 DEF CallsOK, Deeper
<1>8. CallsOK'
  BY <1>1, <1>4, <1>5, <1>6, <1>7, CallsStay
<1>9. Top' = f
  BY <1>5 DEF Top
<1> QED
  BY <1>4, <1>5, <1>8, <1>9, SteadyCalls DEF f

\* The innermost call returns.
LEMMA CallReturns ==
  ASSUME CallsOK, source' = source, missed' = missed, OnlyGrows, Running, Return
  PROVE  /\ CallsOK' /\ result' \in {"running", "ok"}
         /\ stack' # <<>> => Top'.at = "dirs"
         /\ AllAwaited(stack)' \subseteq AllAwaited(stack)
         /\ \A p \in AllAwaited(stack) : p \in AllAwaited(stack)' \/ p \in Awaits(Top)
<1>1. stack # <<>> /\ result = "running" /\ stack \in Seq(Frames) /\ Apart(stack)
  BY DEF Running, CallsOK
<1>2. Top = stack[Len(stack)] /\ stack' = Front(stack)
      /\ result' = IF Len(stack) = 1 THEN "ok" ELSE "running"
  BY <1>1 DEF Top, Return
<1>3. /\ stack' \in Seq(Frames) /\ (stack' = <<>> <=> Len(stack) = 1)
      /\ \A i \in Calls(stack') : i \in Calls(stack) /\ i # Len(stack) /\ stack'[i] = stack[i]
      /\ stack' # <<>> => Len(stack') \in Calls(stack')
      /\ Apart(stack') /\ AllAwaited(stack') \subseteq AllAwaited(stack)
      /\ \A p \in AllAwaited(stack) : p \in AllAwaited(stack') \/ p \in Awaits(Top)
  <2> DEFINE s == stack
             t == stack'
  <2>1. s \in Seq(Frames) /\ s # <<>> /\ Apart(s) /\ t = Front(s) /\ Top = s[Len(s)]
    BY <1>1, <1>2
  <2> HIDE DEF s, t
  <2>2. /\ t \in Seq(Frames) /\ Len(t) = Len(s) - 1 /\ (t = <<>> <=> Len(s) = 1)
        /\ \A i \in Calls(t) : i \in Calls(s) /\ i # Len(s) /\ t[i] = s[i]
        /\ t # <<>> => Len(t) \in Calls(t)
        /\ Apart(t) /\ AllAwaited(t) \subseteq AllAwaited(s)
        /\ \A p \in AllAwaited(s) : p \in AllAwaited(t) \/ p \in Awaits(s[Len(s)])
    BY <2>1, StackReturns
  <2> QED
    BY <2>1, <2>2 DEF s, t
<1>4. \A i \in Calls(stack') : FrameStays(stack'[i]) /\ stack'[i].at = "dirs"
  <2> SUFFICES ASSUME NEW i \in Calls(stack')
               PROVE  FrameStays(stack'[i]) /\ stack'[i].at = "dirs"
    OBVIOUS
  <2>1. stack'[i] = stack[i] /\ stack[i] \in Frames /\ FrameOK(stack[i]) /\ stack[i].at = "dirs"
    BY <1>1, <1>3 DEF CallsOK, Calls
  <2> QED
    BY <2>1, FramesStay
<1>5. Deeper(stack')
  BY <1>3 DEF CallsOK, Deeper
<1>6. CallsOK'
  BY <1>2, <1>3, <1>4, <1>5, CallsStay
<1>7. stack' # <<>> => Top'.at = "dirs"
  BY <1>3, <1>4 DEF Top
<1> QED
  BY <1>2, <1>3, <1>6, <1>7, SteadyCalls

\* The innermost call calls another.
LEMMA CallCalls ==
  ASSUME CallsOK, WellFormed(source), source' = source, missed' = missed, OnlyGrows, Running,
         Top.at = "dirs", NEW n \in Top.todo, source[Append(Top.dir, n)].kind = "dir",
         stack' = Append(Gone("dirs", Top.todo \ {n}), Call(Append(Top.dir, n))),
         result' = result
  PROVE  /\ CallsOK' /\ AllAwaited(stack)' \subseteq AllAwaited(stack)
         /\ \A p \in Copied : p \in AllAwaited(stack) => p \in AllAwaited(stack)'
         /\ stack' # <<>> /\ Top' = Call(Append(Top.dir, n))
<1> DEFINE d == Append(Top.dir, n)
           f == Frame(Top.dir, "dirs", Top.todo \ {n})
           g == Call(d)
<1>1. stack # <<>> /\ result = "running" /\ stack \in Seq(Frames) /\ Apart(stack)
  BY DEF Running, CallsOK
<1>2. /\ Top = Frame(Top.dir, "dirs", Top.todo) /\ Top.dir \in Location /\ FrameOK(Top)
      /\ Top \in Frames /\ Top.todo \subseteq Entries(Top.dir)
      /\ Len(stack) \in Calls(stack) /\ Top = stack[Len(stack)]
  BY <1>1, TopCall
<1>3. d \in InDir(Top.dir) /\ d \in Location
  BY <1>2, PathEntry DEF InDir
<1>4. f \in Frames /\ g \in Frames
  BY <1>2, <1>3 DEF Frames, Frame, Call, Steps
<1>5. /\ Awaits(f) \subseteq Awaits(Top) /\ Awaits(g) \subseteq Awaits(Top)
      /\ Awaits(g) \cap Awaits(f) = {}
      /\ \A p \in Copied : p \in Awaits(Top) => p \in Awaits(f) \/ p \in Awaits(g)
  <2> DEFINE names == Top.todo
             dir == Top.dir
             old == Awaits(Frame(dir, "dirs", names))
  <2>1. dir \in Location /\ names \subseteq Entries(dir) /\ n \in names
        /\ source[Append(dir, n)].kind = "dir"
    BY <1>2
  <2> HIDE DEF names, dir
  <2>2. /\ Awaits(Frame(dir, "dirs", names \ {n})) \subseteq old
        /\ Awaits(Call(Append(dir, n))) \subseteq old
        /\ Awaits(Call(Append(dir, n))) \cap Awaits(Frame(dir, "dirs", names \ {n})) = {}
        /\ \A p \in Copied : p \in old => \/ p \in Awaits(Frame(dir, "dirs", names \ {n}))
                                          \/ p \in Awaits(Call(Append(dir, n)))
    BY <2>1, AwaitsDir
  <2>3. old = Awaits(Top)
    BY <1>2 DEF names, dir
  <2> QED
    BY <2>2, <2>3 DEF names, dir
<1>6. FrameStays(f) /\ FrameStays(g) /\ f.at = "dirs"
  <2>1. FrameStays(Top)
    BY <1>2, FramesStay
  <2>2. FrameStays(f)
    BY <1>2, <2>1 DEF FrameStays, Frame, IsGiven
  <2>3. n \in Name /\ Append(Top.dir, n) \notin missed
        /\ \A k \in 1 .. Len(Top.dir) : SubSeq(Top.dir, 1, k) \notin missed
    BY <1>2, PathEntry DEF FrameOK, IsGiven
  <2>4. \A k \in 1 .. Len(d) : SubSeq(d, 1, k) \notin missed
    BY <1>2, <2>3, GivenEntry
  <2> QED
    BY <2>2, <2>4 DEF FrameStays, Frame, Call, IsGiven
<1>7. stack' = Calling(stack, f, g)
  BY DEF Gone, WithLast, Frame, Calling
<1> HIDE DEF f, g
<1>8. /\ stack' \in Seq(Frames) /\ stack' # <<>> /\ Len(stack') = Len(stack) + 1
      /\ stack'[Len(stack)] = f /\ stack'[Len(stack')] = g
      /\ \A i \in Calls(stack) : i # Len(stack) => stack'[i] = stack[i]
      /\ Apart(stack') /\ AllAwaited(stack') \subseteq AllAwaited(stack)
      /\ \A p \in AllAwaited(stack) :
           \/ p \in AllAwaited(stack')
           \/ p \in Awaits(Top) /\ p \notin Awaits(f) /\ p \notin Awaits(g)
  <2> DEFINE s == stack
             t == stack'
  <2>1. /\ s \in Seq(Frames) /\ s # <<>> /\ Apart(s) /\ f \in Frames /\ g \in Frames
        /\ Awaits(f) \subseteq Awaits(s[Len(s)]) /\ Awaits(g) \subseteq Awaits(s[Len(s)])
        /\ Awaits(g) \cap Awaits(f) = {} /\ t = Calling(s, f, g) /\ Top = s[Len(s)]
    BY <1>1, <1>2, <1>4, <1>5, <1>7
  <2> HIDE DEF s, t
  <2>2. /\ t \in Seq(Frames) /\ t # <<>> /\ Len(t) = Len(s) + 1 /\ t[Len(s)] = f
        /\ t[Len(t)] = g /\ \A i \in Calls(s) : i # Len(s) => t[i] = s[i]
        /\ Apart(t) /\ AllAwaited(t) \subseteq AllAwaited(s)
        /\ \A p \in AllAwaited(s) :
             \/ p \in AllAwaited(t)
             \/ p \in Awaits(s[Len(s)]) /\ p \notin Awaits(f) /\ p \notin Awaits(g)
    <3>1. s \in Seq(Frames) /\ s # <<>> /\ Apart(s)
      BY <2>1
    <3>2. f \in Frames /\ Awaits(f) \subseteq Awaits(s[Len(s)])
      BY <2>1
    <3>3. g \in Frames /\ Awaits(g) \subseteq Awaits(s[Len(s)]) /\ Awaits(g) \cap Awaits(f) = {}
      BY <2>1
    <3>4. t = Calling(s, f, g)
      BY <2>1
    <3> QED
      BY <3>1, <3>2, <3>3, <3>4, StackCalls
  <2> QED
    BY <2>1, <2>2 DEF s, t
<1>9. \A i \in Calls(stack') : FrameStays(stack'[i]) /\ (i # Len(stack') => stack'[i].at = "dirs")
  <2> SUFFICES ASSUME NEW i \in Calls(stack')
               PROVE  FrameStays(stack'[i]) /\ (i # Len(stack') => stack'[i].at = "dirs")
    OBVIOUS
  <2>1. i \in Calls(stack) \/ i = Len(stack')
    <3>1. Len(stack) \in Nat
      BY <1>1
    <3>2. Len(stack') = Len(stack) + 1
      BY <1>8
    <3> QED
      BY <3>1, <3>2 DEF Calls
  <2>2. CASE i = Len(stack')
    BY <1>6, <1>8, <2>2
  <2>3. CASE i = Len(stack)
    BY <1>6, <1>8, <2>3
  <2>4. CASE i \in Calls(stack) /\ i # Len(stack)
    <3>1. stack'[i] = stack[i] /\ stack[i] \in Frames /\ FrameOK(stack[i]) /\ stack[i].at = "dirs"
      <4>1. stack'[i] = stack[i]
        BY <1>8, <2>4
      <4>2. stack[i] \in Frames
        BY <1>1, <2>4 DEF Calls
      <4>3. FrameOK(stack[i]) /\ stack[i].at = "dirs"
        BY <2>4 DEF CallsOK
      <4> QED
        BY <4>1, <4>2, <4>3
    <3> QED
      BY <3>1, FramesStay
  <2> QED
    BY <2>1, <2>2, <2>3, <2>4
<1>10. Deeper(stack')
  <2>1. Len(g.dir) = Len(Top.dir) + 1 /\ f.dir = Top.dir /\ Len(Top.dir) \in Nat
    <3>1. n \in Name
      BY <1>2, PathEntry
    <3>2. Len(d) = Len(Top.dir) + 1 /\ Len(Top.dir) \in Nat
      BY <1>2, <3>1, PathAppended
    <3> QED
      BY <3>2 DEF f, g, Frame, Call
  <2>2. Len(stack) \in Nat /\ Len(stack') = Len(stack) + 1
    <3>1. Len(stack) \in Nat
      BY <1>1
    <3>2. Len(stack') = Len(stack) + 1
      BY <1>8
    <3> QED
      BY <3>1, <3>2
  <2>3. \A i \in Calls(stack) : stack'[i].dir = stack[i].dir
    BY <1>2, <1>8, <2>1
  <2> SUFFICES ASSUME NEW i \in Calls(stack'), NEW j \in Calls(stack'), i < j
               PROVE  Len(stack'[i].dir) < Len(stack'[j].dir)
    BY DEF Deeper
  <2>4. i \in Calls(stack) /\ (j \in Calls(stack) \/ j = Len(stack'))
    BY <2>2 DEF Calls
  <2>5. Len(stack[i].dir) < Len(Top.dir) \/ stack[i].dir = Top.dir
    BY <1>2, <2>2, <2>4 DEF CallsOK, Deeper, Calls
  <2>6. CASE j \in Calls(stack)
    BY <2>3, <2>4, <2>6 DEF CallsOK, Deeper
  <2>7. CASE j = Len(stack')
    <3>1. Len(stack[i].dir) \in Nat
      <4>1. stack[i] \in Frames
        BY <1>1, <2>4 DEF Calls
      <4>2. stack[i].dir \in Seq(Name)
        BY <4>1, LocationAssumption DEF Frames
      <4> QED
        BY <4>2
    <3>2. Len(stack[i].dir) < Len(g.dir)
      BY <2>1, <2>5, <3>1
    <3> QED
      BY <1>8, <2>3, <2>4, <2>7, <3>2
  <2> QED
    BY <2>4, <2>6, <2>7
<1>11. CallsOK'
  BY <1>1, <1>8, <1>9, <1>10, CallsStay
<1>12. \A p \in Copied : p \in AllAwaited(stack) => p \in AllAwaited(stack')
  BY <1>5, <1>8
<1> QED
  BY <1>8, <1>11, <1>12, SteadyCalls DEF g, Top

\* What the files come to.
LEMMA TotalSize ==
  ASSUME WellFormed(source)
  PROVE  /\ Sizes \in [Location -> Nat]
         /\ \A S \in SUBSET Location : Total(Sizes, S) \in Nat /\ IsFiniteSet(S)
         /\ Total(Sizes, {}) = 0
<1>1. Sizes \in [Location -> Nat]
  <2>1. \A p \in Location : source[p].data \in Seq(Block)
    BY DEF WellFormed, Tree, Node
  <2>2. \A p \in Location : Len(source[p].data) \in Nat
    BY <2>1
  <2> QED
    BY <2>2 DEF Sizes
<1>2. \A S \in SUBSET Location : IsFiniteSet(S)
  BY LocationAssumption, FS_Subset
<1>3. \A S \in SUBSET Location : Total(Sizes, S) \in Nat /\ (S = {} => Total(Sizes, S) = 0)
  BY <1>1, <1>2, TotalStep
<1> QED
  BY <1>1, <1>2, <1>3

\* As many bytes are counted as the file in progress has come further.
LEMMA CountGoesOn ==
  ASSUME Counted, WellFormed(source), source' = source, missed' = missed, halt' = halt,
         result' = result,
         Pending' = Pending, bytes_copied \in Nat, file.pos \in Nat,
         NEW k \in Int, bytes_copied' = bytes_copied + k, file'.pos = file.pos + k
  PROVE  Counted'
<1> SUFFICES ASSUME ~halt, result \in {"running", "ok"}
             PROVE  bytes_copied' = Total(Sizes, CopiedFiles \ Pending) + file'.pos
  BY Steady DEF Counted
<1> DEFINE t == Total(Sizes, CopiedFiles \ Pending)
<1>1. t \in Nat
  <2>1. CopiedFiles \ Pending \in SUBSET Location
    BY DEF CopiedFiles, AllFiles
  <2> QED
    BY <2>1, TotalSize
<1>2. bytes_copied = t + file.pos
  BY DEF Counted
<1> HIDE DEF t
<1>3. bytes_copied' = t + file'.pos
  BY <1>1, <1>2
<1> QED
  BY <1>3 DEF t

\* Nothing is forgotten if what is awaited no more is there or in progress.
LEMMA NoneForgotten ==
  ASSUME AllDone, Counted, source' = source, Forgone, halt' = halt, bytes_copied' = bytes_copied,
         result = "running", file = NoFile,
         file' = NoFile \/ (file'.pos = 0 /\ InProgress' \subseteq AllAwaited(stack)),
         \A q \in Location : target[q] # Absent => target'[q] = target[q],
         AllAwaited(stack)' \subseteq AllAwaited(stack),
         ~halt /\ result' \in {"running", "ok"} =>
           \A p \in Copied : p \in AllAwaited(stack) =>
             \/ p \in AllAwaited(stack)'
             \/ p \in CopiedDirs /\ target'[p].kind # "none"
             \/ p \in InProgress'
  PROVE  AllDone' /\ Counted'
<1>1. file'.pos = 0 /\ InProgress' \subseteq AllAwaited(stack)
  BY DEF InProgress, NoFile
<1> SUFFICES ASSUME ~halt, result' \in {"running", "ok"}
             PROVE  /\ bytes_copied = Total(Sizes, CopiedFiles' \ Pending') + 0
                    /\ \A p \in CopiedDirs' : p \notin Pending' => target'[p].kind # "none"
                    /\ NamesStayApart => \A p \in CopiedFiles' : p \notin Pending' =>
                         /\ dest_path(p) \in Location
                         /\ target'[dest_path(p)] = File(source[p].data)
  BY <1>1, SteadyCalls DEF AllDone, Counted
<1>2. Pending = AllAwaited(stack) /\ Pending' = AllAwaited(stack)' \cup InProgress'
  BY DEF Pending, InProgress
<1>3. \A p \in Copied : p \notin Pending' => p \notin Pending \/ (p \in CopiedDirs /\ target'[p].kind # "none")
  BY <1>2
<1>4. \A p \in CopiedFiles : p \in Copied /\ p \notin CopiedDirs
  BY DEF Copied, CopiedFiles, AllFiles, CopiedDirs, AllDirs
<1>5. /\ \A p \in CopiedFiles' : p \notin Pending' => p \in CopiedFiles
      /\ \A p \in CopiedFiles : p \notin Pending' => p \in CopiedFiles'
      /\ \A p \in CopiedDirs' : p \notin Pending' => p \in CopiedDirs
  <2>1. CopiedFiles' \subseteq Location /\ CopiedFiles \subseteq Location /\ CopiedDirs' \subseteq Location
    BY DEF CopiedFiles, AllFiles, CopiedDirs, AllDirs
  <2> QED
    BY <1>2, <2>1 DEF Forgone
<1>6. ASSUME NEW p \in CopiedDirs', p \notin Pending'
      PROVE  target'[p].kind # "none"
  <2>1. p \in Location /\ p \in Copied /\ p \in CopiedDirs
    BY <1>6, <1>5 DEF Copied, CopiedDirs, AllDirs
  <2>2. CASE p \notin Pending
    <3>1. target[p].kind # "none"
      BY <2>1, <2>2 DEF AllDone
    <3>2. target[p] # Absent
      BY <3>1 DEF Absent
    <3> QED
      BY <2>1, <3>1, <3>2
  <2> QED
    BY <1>3, <1>6, <2>1, <2>2
<1>7. ASSUME NamesStayApart, NEW p \in CopiedFiles', p \notin Pending'
      PROVE  dest_path(p) \in Location /\ target'[dest_path(p)] = File(source[p].data)
  <2>1. p \notin Pending /\ p \in CopiedFiles
    BY <1>3, <1>4, <1>7, <1>5
  <2>2. dest_path(p) \in Location /\ target[dest_path(p)] = File(source[p].data)
    BY <1>7, <2>1 DEF AllDone
  <2>3. target[dest_path(p)] # Absent
    BY <2>2 DEF File, Absent
  <2> QED
    BY <2>2, <2>3
<1>8. bytes_copied = Total(Sizes, CopiedFiles' \ Pending') + 0
  <2>1. CopiedFiles' \ Pending' = CopiedFiles \ Pending
    BY <1>1, <1>2, <1>3, <1>4, <1>5
  <2>2. file.pos = 0
    BY DEF NoFile
  <2> QED
    BY <2>1, <2>2 DEF Counted
<1> QED
  BY <1>6, <1>7, <1>8
-----------------------------------------------------------------------------
\* The steps of copy_directory.

Calm == source' = source /\ halt' = halt /\ missed' = missed

LEMMA FailKeeps ==
  ASSUME CopyInv, source' = source, missed' = missed, Fail, WellFormed(target)'
  PROVE  CopyInv'
<1>1. stack' = <<>> /\ result' = "failed" /\ file' = NoFile' /\ bytes_copied' \in Nat
  BY DEF Fail, CopyInv, NoFile
<1>2. stack' \in Seq(Frames) /\ Calls(stack') = {} /\ Apart(stack') /\ Deeper(stack')
  BY <1>1 DEF Calls, Apart, Deeper
<1>3. CallsOK'
  BY <1>1, <1>2, CallsStay
<1> QED
  BY <1>1, <1>3 DEF CopyInv, FileOK, AllDone, Counted

LEMMA TargetStays ==
  ASSUME UNCHANGED target
  PROVE  /\ WellFormed(target) => WellFormed(target)'
         /\ OnlyGrows /\ \A q \in Location : target[q] # Absent => target'[q] = target[q]
  BY DEF OnlyGrows

\* The directory is made unless something is there.
LEMMA DirMade ==
  ASSUME WellFormed(target), NEW dir \in Location, target[dir] = Absent => IsDir(Front(dir)),
         target' = [target EXCEPT ![dir] = IF @ = Absent THEN Dir ELSE @]
  PROVE  /\ WellFormed(target)' /\ OnlyGrows /\ target'[dir].kind # "none"
         /\ \A q \in Location : target[q] # Absent => target'[q] = target[q]
<1>1. target \in [Location -> Node]
  BY DEF WellFormed, Tree
<1>2. CASE target[dir] = Absent
  <2>1. /\ target'[dir] = Dir /\ \A q \in Location : q # dir => target'[q] = target[q]
        /\ target' \in [Location -> {target[q] : q \in Location} \cup {Dir}]
    BY <1>1, <1>2
  <2>2. target[dir].kind # "dir" /\ Front(dir) \in Location /\ target[Front(dir)].kind = "dir"
    BY <1>2 DEF Absent, IsDir
  <2> DEFINE t == target
             u == target'
  <2>3. WellFormed(t) /\ t[dir].kind # "dir" /\ t[Front(dir)].kind = "dir"
        /\ u \in [Location -> {t[q] : q \in Location} \cup {Dir}]
        /\ u[dir] = Dir /\ \A q \in Location : q # dir => u[q] = t[q]
    BY <2>1, <2>2
  <2> HIDE DEF t, u
  <2>4. WellFormed(u) /\ \A q \in Location : t[q].kind # "none" => u[q].kind # "none"
    BY <2>2, <2>3, TreeGrows
  <2> QED
    BY <1>2, <2>1, <2>4 DEF t, u, OnlyGrows, Dir
<1>3. CASE target[dir] # Absent
  <2>1. target' = target
    BY <1>1, <1>3
  <2>2. target[dir].kind # "none"
    BY <1>3 DEF WellFormed
  <2> QED
    BY <2>1, <2>2, TargetStays
<1> QED
  BY <1>2, <1>3

\* What a call misses lies under its directory, which is awaited still.
LEMMA MissesAwaited ==
  ASSUME source' = source, NEW dir \in Location, NEW names, names \subseteq Entries(dir),
         missed' = (missed \ InDir(dir)) \cup {Append(dir, n) : n \in Entries(dir) \ names},
         Awaits(Frame(dir, "listed", names)) \subseteq AllAwaited(stack)'
  PROVE  Forgone
<1>1. missed' \subseteq missed \cup InDir(dir) /\ missed \subseteq missed' \cup InDir(dir)
  BY PathEntry
<1>2. ASSUME NEW p \in Location, ~Under(dir, p)
      PROVE  Given(p)' <=> Given(p)
  <2> SUFFICES ASSUME NEW k \in 1 .. Len(p), SubSeq(p, 1, k) \in InDir(dir)
               PROVE  FALSE
    BY <1>1 DEF Given
  <2> DEFINE q == SubSeq(p, 1, k)
  <2>1. /\ p \in Seq(Name) /\ Len(p) \in Nat /\ Len(q) = k /\ \A i \in 1 .. k : q[i] = p[i]
    BY <1>2, LocationAssumption
  <2>2. Len(q) = Len(dir) + 1 /\ Under(dir, q)
    BY PathInDir
  <2> HIDE DEF q
  <2>3. Len(dir) \in Nat
    BY LocationAssumption
  <2> QED
    BY <1>2, <2>1, <2>2, <2>3 DEF Under
<1>3. ASSUME NEW p \in Location, p \notin AllAwaited(stack)'
      PROVE  ~Under(dir, p)
  BY <1>3 DEF Awaits, Frame
<1> QED
  BY <1>2, <1>3, SteadyCalls DEF Forgone, CopiedFiles, CopiedDirs

LEMMA EnterKeeps ==
  ASSUME CopyInv, source' = source, halt' = halt, WellFormed(source), Enter
  PROVE  CopyInv'
<1> DEFINE dir == Top.dir
<1>1. /\ Running /\ stack # <<>> /\ result = "running" /\ file = NoFile /\ Top.at = "enter"
      /\ CallsOK /\ WellFormed(target) /\ AllDone /\ Counted /\ bytes_copied \in Nat
      /\ missed \subseteq Location
  BY DEF Enter, AtStep, Running, CopyInv
<1>2. /\ Top \in Frames /\ FrameOK(Top) /\ Top = Frame(dir, "enter", Top.todo) /\ dir \in Location
      /\ source[dir].kind = "dir"
  BY <1>1, TopCall DEF FrameOK
<1>3. ASSUME Ignored(dir), Return, UNCHANGED <<target, file, bytes_copied, missed>>
      PROVE  CopyInv'
  <2>1. /\ CallsOK' /\ result' \in {"running", "ok"}
        /\ AllAwaited(stack)' \subseteq AllAwaited(stack)
        /\ \A p \in AllAwaited(stack) : p \in AllAwaited(stack)' \/ p \in Awaits(Top)
    BY <1>1, <1>3, CallReturns, TargetStays
  <2>2. \A p \in Copied : p \notin Awaits(Top)
    BY <1>2, <1>3, AwaitsIgnored
  <2>3. Forgone
    BY <1>3, Steady
  <2>4. AllDone' /\ Counted'
    BY <1>1, <1>3, <2>1, <2>2, <2>3, NoneForgotten
  <2> QED
    BY <1>1, <1>3, <2>1, <2>4, TargetStays DEF CopyInv, FileOK, NoFile
<1>4. ASSUME ~Ignored(dir), target[dir] = Absent => IsDir(Front(dir)),
             target' = [target EXCEPT ![dir] = IF @ = Absent THEN Dir ELSE @],
             NEW names, names \subseteq Entries(dir), GoOn("listed", names),
             missed' = (missed \ InDir(dir)) \cup {Append(dir, n) : n \in Entries(dir) \ names},
             UNCHANGED <<file, bytes_copied>>
      PROVE  CopyInv'
  <2> DEFINE f == Frame(dir, "listed", names)
  <2>1. /\ WellFormed(target)' /\ OnlyGrows /\ target'[dir].kind # "none"
        /\ \A q \in Location : target[q] # Absent => target'[q] = target[q]
    BY <1>1, <1>2, <1>4, DirMade
  <2>2. missed' \subseteq missed \cup InDir(dir) /\ missed' \subseteq Location
    BY <1>1, <1>2, <1>4, PathEntry DEF InDir
  <2>3. IsGiven(f, missed')
    <3>1. \A k \in 1 .. Len(dir) : SubSeq(dir, 1, k) \notin missed'
      <4> SUFFICES ASSUME NEW k \in 1 .. Len(dir) PROVE SubSeq(dir, 1, k) \notin missed'
        OBVIOUS
      <4> DEFINE x == SubSeq(dir, 1, k)
      <4>1. Len(x) = k /\ Len(dir) \in Nat
        BY <1>2, LocationAssumption
      <4>2. x \notin missed
        BY <1>2 DEF FrameOK, IsGiven
      <4> HIDE DEF x
      <4>3. x \notin missed'
        BY <2>2, <4>1, <4>2 DEF InDir
      <4> QED
        BY <4>3 DEF x
    <3>2. \A n \in names : Append(dir, n) \notin missed'
      <4> SUFFICES ASSUME NEW n \in names PROVE Append(dir, n) \notin missed'
        OBVIOUS
      <4>1. Append(dir, n) \in InDir(dir) /\ n \in Name
        BY <1>2, <1>4, PathEntry
      <4>2. \A m \in Entries(dir) \ names : Append(dir, m) # Append(dir, n)
        BY <1>2, <4>1, PathEntry, PathAppended
      <4> QED
        BY <1>4, <4>1, <4>2
    <3>3. \A n \in Entries(dir) : Append(dir, n) \notin missed' => n \in names
      BY <1>4
    <3> QED
      BY <3>1, <3>2, <3>3 DEF IsGiven, Frame
  <2>4. FrameStays(f)
    BY <1>2, <1>4, <2>1, <2>3 DEF FrameStays, Frame
  <2>5. Awaits(f) = Awaits(Top)
    BY <1>2, AwaitsListed
  <2>6. "listed" \in Steps
    BY DEF Steps
  <2>7. /\ CallsOK' /\ result' = result
        /\ AllAwaited(stack)' \subseteq AllAwaited(stack)
        /\ \A p \in AllAwaited(stack) : p \in AllAwaited(stack)'
    BY <1>1, <1>4, <2>1, <2>2, <2>4, <2>5, <2>6, CallGoesOn
  <2>8. Forgone
    <3>1. Awaits(f) \subseteq AllAwaited(stack)'
      BY <1>1, <2>5, <2>7, TopCall
    <3> QED
      BY <1>2, <1>4, <3>1, MissesAwaited
  <2>9. AllDone' /\ Counted'
    BY <1>1, <1>4, <2>1, <2>7, <2>8, NoneForgotten
  <2> QED
    BY <1>1, <1>4, <2>1, <2>2, <2>7, <2>9 DEF CopyInv, FileOK, NoFile
<1>5. ASSUME target[dir] = Absent => IsDir(Front(dir)), Fail, UNCHANGED missed,
             target' = [target EXCEPT ![dir] = IF @ = Absent THEN Dir ELSE @]
      PROVE  CopyInv'
  <2>1. WellFormed(target)'
    BY <1>1, <1>2, <1>5, DirMade
  <2> QED
    BY <1>5, <2>1, FailKeeps
<1>6. ASSUME Fail, UNCHANGED <<target, missed>>
      PROVE  CopyInv'
  <2>1. WellFormed(target)'
    BY <1>1, <1>6
  <2> QED
    BY <1>6, <2>1, FailKeeps
<1> QED
  BY <1>3, <1>4, <1>5, <1>6 DEF Enter

LEMMA ListedKeeps ==
  ASSUME CopyInv, Calm, WellFormed(source), Listed
  PROVE  CopyInv'
<1> DEFINE dir == Top.dir
           f == Frame(dir, "files", Top.todo)
<1>1. /\ Running /\ stack # <<>> /\ result = "running" /\ file = NoFile /\ Top.at = "listed"
      /\ CallsOK /\ WellFormed(target) /\ AllDone /\ Counted /\ bytes_copied \in Nat
      /\ source' = source /\ halt' = halt /\ missed' = missed /\ UNCHANGED <<target, file, bytes_copied>>
  BY DEF Listed, AtStep, Running, CopyInv, Calm
<1>2. /\ Top \in Frames /\ FrameOK(Top) /\ Top = Frame(dir, "listed", Top.todo) /\ dir \in Location
      /\ source[dir].kind = "dir" /\ Listing(dir) \subseteq Top.todo /\ target[dir].kind # "none"
      /\ ~Ignored(dir) /\ Given(dir)
  BY <1>1, TopCall DEF FrameOK, IsGiven, Listing, Given
<1>3. ASSUME halt, Return
      PROVE  CopyInv'
  <2>1. CallsOK'
    BY <1>1, <1>3, CallReturns, TargetStays
  <2> QED
    BY <1>1, <1>3, <2>1, TargetStays DEF CopyInv, FileOK, NoFile, AllDone, Counted
<1>4. ASSUME GoOn("files", Top.todo)
      PROVE  CopyInv'
  <2>1. FrameStays(f) /\ "files" \in Steps
    BY <1>1, <1>2 DEF FrameOK, FrameStays, Frame, Steps, IsGiven
  <2>2. Awaits(f) \subseteq Awaits(Top) /\ \A p \in Copied : p \in Awaits(Top) => p \in Awaits(f) \/ p = dir
    BY <1>2, AwaitsFiles
  <2>3. /\ CallsOK' /\ result' = result /\ AllAwaited(stack)' \subseteq AllAwaited(stack)
        /\ \A p \in AllAwaited(stack) :
             p \in AllAwaited(stack)' <=> ~(p \in Awaits(Top) /\ p \notin Awaits(f))
    BY <1>1, <1>4, <2>1, <2>2, CallGoesOn, TargetStays
  <2>4. dir \in Copied => dir \in CopiedDirs /\ target'[dir].kind # "none"
    BY <1>1, <1>2 DEF CopiedDirs, AllDirs
  <2>5. AllDone' /\ Counted'
    BY <1>1, <2>2, <2>3, <2>4, Steady, NoneForgotten
  <2> QED
    BY <1>1, <2>3, <2>5, TargetStays DEF CopyInv, FileOK, NoFile
<1> QED
  BY <1>3, <1>4 DEF Listed

LEMMA CannotLookKeeps ==
  ASSUME CopyInv, Calm, CannotLook
  PROVE  CopyInv'
<1>1. Fail /\ WellFormed(target)'
  BY DEF CannotLook, CopyInv
<1> QED
  BY <1>1, FailKeeps DEF Calm

LEMMA HaltSeenKeeps ==
  ASSUME CopyInv, Calm, HaltSeen
  PROVE  CopyInv'
<1>1. CallsOK'
  BY CallReturns, TargetStays DEF HaltSeen, CopyInv, Calm
<1> QED
  BY <1>1, TargetStays DEF HaltSeen, CopyInv, FileOK, NoFile, AllDone, Counted, Calm

LEMMA FilesDoneKeeps ==
  ASSUME CopyInv, Calm, WellFormed(source), FilesDone
  PROVE  CopyInv'
<1> DEFINE dir == Top.dir
           f == Frame(dir, "dirs", Listing(dir))
<1>1. /\ Running /\ stack # <<>> /\ result = "running" /\ file = NoFile /\ Top.at = "files"
      /\ CallsOK /\ WellFormed(target) /\ AllDone /\ Counted /\ bytes_copied \in Nat /\ Top.todo = {}
      /\ source' = source /\ halt' = halt /\ missed' = missed /\ UNCHANGED <<target, file, bytes_copied>>
      /\ GoOn("dirs", Listing(dir))
  BY DEF FilesDone, AtStep, Running, CopyInv, Calm
<1>2. /\ Top \in Frames /\ FrameOK(Top) /\ Top = Frame(dir, "files", {}) /\ dir \in Location
  BY <1>1, TopCall
<1>3. FrameStays(f) /\ "dirs" \in Steps
  BY <1>1, <1>2 DEF FrameOK, FrameStays, Frame, Steps, IsGiven, Listing
<1>4. Awaits(f) \subseteq Awaits(Top) /\ \A p \in Copied : p \in Awaits(Top) => p \in Awaits(f)
  BY <1>2, AwaitsDirs
<1>5. /\ CallsOK' /\ result' = result /\ AllAwaited(stack)' \subseteq AllAwaited(stack)
      /\ \A p \in AllAwaited(stack) :
           p \in AllAwaited(stack)' <=> ~(p \in Awaits(Top) /\ p \notin Awaits(f))
  BY <1>1, <1>3, <1>4, CallGoesOn, TargetStays
<1>6. AllDone' /\ Counted'
  BY <1>1, <1>4, <1>5, Steady, NoneForgotten
<1> QED
  BY <1>1, <1>5, <1>6, TargetStays DEF CopyInv, FileOK, NoFile

LEMMA DirsDoneKeeps ==
  ASSUME CopyInv, Calm, DirsDone
  PROVE  CopyInv'
<1>1. /\ Running /\ stack # <<>> /\ result = "running" /\ file = NoFile /\ Top.at = "dirs"
      /\ CallsOK /\ WellFormed(target) /\ AllDone /\ Counted /\ bytes_copied \in Nat /\ Top.todo = {}
      /\ source' = source /\ halt' = halt /\ missed' = missed /\ UNCHANGED <<target, file, bytes_copied>> /\ Return
  BY DEF DirsDone, AtStep, Running, CopyInv, Calm
<1>2. Awaits(Top) = {}
  BY <1>1, TopCall, AwaitsNone
<1>3. /\ CallsOK' /\ result' \in {"running", "ok"}
      /\ AllAwaited(stack)' \subseteq AllAwaited(stack)
      /\ \A p \in AllAwaited(stack) : p \in AllAwaited(stack)'
  BY <1>1, <1>2, CallReturns, TargetStays
<1>4. AllDone' /\ Counted'
  BY <1>1, <1>3, Steady, NoneForgotten
<1> QED
  BY <1>1, <1>3, <1>4, TargetStays DEF CopyInv, FileOK, NoFile

LEMMA NextDirKeeps ==
  ASSUME CopyInv, Calm, WellFormed(source), NextDir
  PROVE  CopyInv'
<1> DEFINE dir == Top.dir
<1>1. /\ Running /\ stack # <<>> /\ result = "running" /\ file = NoFile /\ Top.at = "dirs"
      /\ CallsOK /\ WellFormed(target) /\ AllDone /\ Counted /\ bytes_copied \in Nat
      /\ source' = source /\ halt' = halt /\ missed' = missed /\ UNCHANGED <<target, file, result, bytes_copied>>
  BY DEF NextDir, AtStep, Running, CopyInv, Calm
<1>2. PICK n \in Top.todo :
        stack' = IF source[Append(dir, n)].kind = "dir"
                 THEN Append(Gone("dirs", Top.todo \ {n}), Call(Append(dir, n)))
                 ELSE Gone("dirs", Top.todo \ {n})
  BY DEF NextDir
<1> DEFINE f == Frame(dir, "dirs", Top.todo \ {n})
<1>3. /\ Top \in Frames /\ FrameOK(Top) /\ Top = Frame(dir, "dirs", Top.todo) /\ dir \in Location
      /\ Top.todo \subseteq Entries(dir)
  BY <1>1, TopCall
<1>4. /\ CallsOK' /\ result' = result /\ AllAwaited(stack)' \subseteq AllAwaited(stack)
      /\ \A p \in Copied : p \in AllAwaited(stack) => p \in AllAwaited(stack)'
  <2>1. CASE source[Append(dir, n)].kind = "dir"
    BY <1>1, <1>2, <2>1, CallCalls, TargetStays
  <2>2. CASE source[Append(dir, n)].kind # "dir"
    <3>1. FrameStays(f) /\ "dirs" \in Steps
      BY <1>1, <1>3 DEF FrameOK, FrameStays, Frame, Steps, IsGiven
    <3>2. Awaits(f) \subseteq Awaits(Top) /\ \A p \in Copied : p \in Awaits(Top) => p \in Awaits(f)
      <4> DEFINE names == Top.todo
      <4>1. n \in names /\ names \subseteq Entries(dir)
        BY <1>3
      <4> HIDE DEF names
      <4>2. LET old == Awaits(Frame(dir, "dirs", names))
                new == Awaits(Frame(dir, "dirs", names \ {n}))
            IN  new \subseteq old /\ \A p \in Copied : p \in old => p \in new
        BY <1>3, <2>2, <4>1, AwaitsDir
      <4> QED
        BY <1>3, <4>2 DEF names
    <3>3. GoOn("dirs", Top.todo \ {n})
      BY <1>1, <1>2, <2>2 DEF GoOn
    <3>4. /\ CallsOK' /\ result' = result /\ AllAwaited(stack)' \subseteq AllAwaited(stack)
          /\ \A p \in AllAwaited(stack) :
               p \in AllAwaited(stack)' <=> ~(p \in Awaits(Top) /\ p \notin Awaits(f))
      BY <1>1, <3>1, <3>2, <3>3, CallGoesOn, TargetStays
    <3> QED
      BY <3>2, <3>4
  <2> QED
    BY <2>1, <2>2
<1>5. AllDone' /\ Counted'
  BY <1>1, <1>4, Steady, NoneForgotten
<1> QED
  BY <1>1, <1>4, <1>5, TargetStays DEF CopyInv, FileOK, NoFile

\* The path of an entry's copy.
LEMMA DestPath ==
  ASSUME NEW p \in Location, p # Root
  PROVE  /\ dest_name(Last(p)) \in Name /\ dest_path(p) \in Seq(Name)
         /\ dest_path(p) # Root /\ Len(dest_path(p)) = Len(p)
         /\ Front(dest_path(p)) = Front(p) /\ Last(dest_path(p)) = dest_name(Last(p))
<1> DEFINE n == dest_name(Last(p))
<1>1. /\ p \in Seq(Name) /\ Len(p) \in Nat /\ Len(p) > 0 /\ Last(p) \in Name
      /\ Front(p) \in Seq(Name) /\ Len(Front(p)) = Len(p) - 1
  BY PathParts
<1>2. n \in Name
  BY <1>1, NamesSettle
<1>3. dest_path(p) = Append(Front(p), n)
  BY DEF dest_path
<1> HIDE DEF n
<1>4. /\ dest_path(p) \in Seq(Name) /\ Len(dest_path(p)) = Len(p)
      /\ Front(dest_path(p)) = Front(p) /\ Last(dest_path(p)) = n
  BY <1>1, <1>2, <1>3 DEF Front, Last
<1>5. dest_path(p) # Root
  BY <1>1, <1>4 DEF Root
<1> QED
  BY <1>2, <1>4, <1>5 DEF n

LEMMA NextFileKeeps ==
  ASSUME CopyInv, Calm, WellFormed(source), NextFile
  PROVE  CopyInv'
<1> DEFINE dir == Top.dir
<1>1. /\ Running /\ stack # <<>> /\ result = "running" /\ file = NoFile /\ Top.at = "files"
      /\ CallsOK /\ WellFormed(target) /\ AllDone /\ Counted /\ bytes_copied \in Nat
      /\ source' = source /\ halt' = halt /\ missed' = missed /\ UNCHANGED <<target, bytes_copied>>
  BY DEF NextFile, AtStep, Running, CopyInv, Calm
<1>2. PICK n \in Top.todo :
        /\ GoOn("files", Top.todo \ {n})
        /\ file' = IF IsFile(Append(dir, n))
                   THEN [at |-> "open", from |-> Append(dir, n), to |-> dest_path(Append(dir, n)),
                         pos |-> 0]
                   ELSE NoFile
  BY DEF NextFile, IsFile
<1> DEFINE p == Append(dir, n)
           f == Frame(dir, "files", Top.todo \ {n})
<1>3. /\ Top \in Frames /\ FrameOK(Top) /\ Top = Frame(dir, "files", Top.todo) /\ dir \in Location
      /\ Top.todo \subseteq Entries(dir)
  BY <1>1, TopCall
<1>4. FrameStays(f) /\ "files" \in Steps
  BY <1>1, <1>3 DEF FrameOK, FrameStays, Frame, Steps, IsGiven
<1>5. /\ Awaits(f) \subseteq Awaits(Top)
      /\ \A q \in Awaits(Top) : q \in Awaits(f) \/ q = p
      /\ IF IsFile(p) THEN p \in Awaits(Top) /\ p \notin Awaits(f) ELSE Awaits(f) = Awaits(Top)
  <2> DEFINE names == Top.todo
  <2>1. n \in names /\ names \subseteq Entries(dir)
    BY <1>3
  <2> HIDE DEF names
  <2>2. LET old == Awaits(Frame(dir, "files", names))
            new == Awaits(Frame(dir, "files", names \ {n}))
        IN  /\ new \subseteq old
            /\ \A q \in old : q \in new \/ q = p
            /\ IF IsFile(p) THEN p \in old /\ p \notin new ELSE new = old
    BY <1>3, <2>1, AwaitsFile
  <2> QED
    BY <1>3, <2>2 DEF names
<1>6. /\ CallsOK' /\ result' = result /\ stack' # <<>> /\ Top' = f
      /\ \A q \in AllAwaited(stack) :
           q \in AllAwaited(stack)' <=> ~(q \in Awaits(Top) /\ q \notin Awaits(f))
      /\ AllAwaited(stack)' \subseteq AllAwaited(stack)
  BY <1>1, <1>2, <1>4, <1>5, CallGoesOn, TargetStays
<1>7. p \in InDir(dir) /\ p \in Location /\ p # Root
  BY <1>3, PathEntry, PathInDir
<1>8. FileOK'
  <2>1. CASE IsFile(p)
    <3>1. file' = [at |-> "open", from |-> p, to |-> dest_path(p), pos |-> 0]
      BY <1>2, <2>1
    <3>2. dest_path(p) \in Seq(Name)
      BY <1>7, DestPath
    <3>3. p \notin AllAwaited(stack)'
      BY <1>5, <1>6, <2>1 
    <3>4. Top'.dir = dir /\ Top'.at = "files"
      BY <1>6 DEF Frame
    <3>11. \A k \in 1 .. Len(p) : SubSeq(p, 1, k) \notin missed'
      <4>1. /\ n \in Name /\ dir \in Location /\ Append(dir, n) \notin missed
            /\ \A k \in 1 .. Len(dir) : SubSeq(dir, 1, k) \notin missed
        BY <1>3, PathEntry DEF FrameOK, IsGiven
      <4> HIDE DEF dir
      <4>2. \A k \in 1 .. Len(Append(dir, n)) : SubSeq(Append(dir, n), 1, k) \notin missed
        BY <4>1, GivenEntry
      <4> QED
        BY <1>1, <4>2
    <3>5. Len(source'[p].data) \in Nat
      <4>1. source[p].data \in Seq(Block)
        BY <1>7 DEF WellFormed, Tree, Node
      <4> QED
        BY <1>1, <4>1
    <3> HIDE DEF p, dir
    <3>6. /\ file' \in [at : FileSteps, from : Location, to : Seq(Name), pos : Nat]
          /\ file'.at = "open" /\ file'.from = p /\ file'.to = dest_path(p) /\ file'.pos = 0
      <4>1. "open" \in FileSteps /\ p \in Location /\ dest_path(p) \in Seq(Name) /\ 0 \in Nat
        BY <1>7, <3>2 DEF FileSteps
      <4> DEFINE to == dest_path(p)
      <4> HIDE DEF to
      <4>2. file' = [at |-> "open", from |-> p, to |-> to, pos |-> 0] /\ to \in Seq(Name)
        BY <3>1, <4>1 DEF to
      <4>3. /\ file' \in [at : FileSteps, from : Location, to : Seq(Name), pos : Nat]
            /\ file'.at = "open" /\ file'.from = p /\ file'.to = to /\ file'.pos = 0
        BY <4>1, <4>2
      <4> QED
        BY <4>3 DEF to
    <3>7. source'[p].kind = "file"
      BY <1>1, <2>1 DEF IsFile
    <3>8. (file.from \in InDir(Top.dir) /\ IsFile(file.from) /\ Given(file.from))'
      BY <1>7, <3>4, <3>6, <3>7, <3>11 DEF IsFile, InDir, Given
    <3>9. (file.from \notin AllAwaited(stack))'
      BY <3>3, <3>6
    <3>10. (file.pos <= Len(Src.data) /\ file.pos <= bytes_copied)'
      BY <1>1, <3>5, <3>6 DEF Src
    <3> QED
      BY <1>6, <3>4, <3>6, <3>8, <3>9, <3>10 DEF FileOK, Current
  <2>2. CASE ~IsFile(p)
    BY <1>2, <2>2 DEF FileOK, NoFile
  <2> QED
    BY <2>1, <2>2
<1>9. ASSUME NEW q \in AllAwaited(stack), q \notin AllAwaited(stack)'
      PROVE  q \in InProgress'
  <2>1. q = p /\ IsFile(p)
    BY <1>5, <1>6, <1>9
  <2>2. file' # NoFile' /\ file'.from = p
    BY <1>2, <2>1 DEF NoFile
  <2> QED
    BY <2>1, <2>2 DEF InProgress
<1>10. file' = NoFile \/ (file'.pos = 0 /\ InProgress' \subseteq AllAwaited(stack))
  <2>1. CASE IsFile(p)
    <3>1. p \in AllAwaited(stack)
      BY <1>1, <1>5, <2>1, TopCall
    <3>2. file'.pos = 0 /\ file'.from = p
      BY <1>2, <2>1
    <3> HIDE DEF p
    <3> QED
      BY <3>1, <3>2 DEF InProgress
  <2>2. CASE ~IsFile(p)
    BY <1>2, <2>2
  <2> QED
    BY <2>1, <2>2
<1>11. AllDone' /\ Counted'
  BY <1>1, <1>6, <1>9, <1>10, Steady, NoneForgotten
<1> QED
  BY <1>1, <1>6, <1>8, <1>11, TargetStays DEF CopyInv
-----------------------------------------------------------------------------
\* The steps of copy_file.

\* What is known of the file in progress.
LEMMA CurrentFile ==
  ASSUME CopyInv, WellFormed(source), file # NoFile
  PROVE  /\ Current /\ CallsOK /\ AllDone /\ Counted
         /\ WellFormed(target) /\ bytes_copied \in Nat
         /\ file.from \in CopiedFiles /\ file.from # Root /\ file.to # Root
         /\ Front(file.to) = Top.dir /\ Front(file.from) = Top.dir
         /\ Last(file.to) = dest_name(Last(file.from))
         /\ Src.data \in Seq(Block) /\ Len(Src.data) \in Nat
         /\ Src.size >= Len(Src.data) /\ Left \in Nat /\ file.pos \in Nat
         /\ Left = Len(Src.data) - file.pos
<1>1. /\ Current /\ CallsOK /\ AllDone /\ Counted
      /\ WellFormed(target) /\ bytes_copied \in Nat
  BY DEF CopyInv, FileOK
<1>2. /\ file.from \in InDir(Top.dir) /\ IsFile(file.from) /\ Given(file.from)
      /\ file.to = dest_path(file.from)
      /\ file.from \in Location /\ file.pos \in Nat /\ file.pos <= Len(Src.data)
      /\ stack # <<>> /\ Top.at = "files"
  BY <1>1 DEF Current
<1>3. Top.dir \in Location /\ ~Ignored(Top.dir)
  BY <1>1, <1>2, TopCall DEF FrameOK
<1>4. file.from # Root /\ Front(file.from) = Top.dir
  BY <1>2, <1>3, PathInDir
<1>5. file.to # Root /\ Front(file.to) = Top.dir /\ Last(file.to) = dest_name(Last(file.from))
  BY <1>2, <1>4, DestPath
<1>6. file.from \in CopiedFiles
  BY <1>2, <1>3, <1>4 DEF CopiedFiles, AllFiles, IsFile
<1>7. Src.data \in Seq(Block) /\ Src.size >= Len(Src.data)
  BY <1>2 DEF WellFormed, Tree, Node, IsFile, Src
<1>8. Len(Src.data) \in Nat
  BY <1>7
<1>9. Left \in Nat /\ Left = Len(Src.data) - file.pos
  BY <1>2, <1>8 DEF Left
<1> QED
  BY <1>1, <1>2, <1>4, <1>5, <1>6, <1>7, <1>8, <1>9

\* The same file is in progress after a step.
LEMMA CurrentStays ==
  ASSUME Calm, Current, stack' = stack,
         file' \in [at : FileSteps, from : Location, to : Seq(Name), pos : Nat],
         file'.from = file.from, file'.to = file.to,
         file'.pos <= Len(Src.data), file'.pos <= bytes_copied', file'.at # "open",
         file.to \in Location,
         NEW m \in file'.pos .. Len(Src.data),
         target'[file.to] = File(SubSeq(Src.data, 1, m)),
         file'.at \in {"check", "send"} => m = file'.pos
  PROVE  Current'
<1>1. Src' = Src
  BY DEF Src, Calm
<1>2. /\ Top' = Top /\ InDir(Top.dir)' = InDir(Top.dir)
      /\ (IsFile(file.from)' <=> IsFile(file.from)) /\ (Given(file.from)' <=> Given(file.from))
  BY DEF Top, InDir, IsFile, Given, Calm
<1>3. AllAwaited(stack)' = AllAwaited(stack)
  BY Steady DEF Calm
<1>4. Begun'
  BY <1>1 DEF Begun
<1> QED
  BY <1>1, <1>2, <1>3, <1>4 DEF Current

\* Nothing but the state of the file in progress changes.
LEMMA CallsAsBefore ==
  ASSUME CallsOK, Calm, OnlyGrows, stack' = stack, result' = result
  PROVE  CallsOK'
<1>1. /\ stack' \in Seq(Frames) /\ Apart(stack') /\ Deeper(stack')
      /\ \A i \in Calls(stack') :
           stack'[i] \in Frames /\ FrameOK(stack'[i]) /\ (i # Len(stack') => stack'[i].at = "dirs")
  BY DEF CallsOK, Calls
<1>2. \A i \in Calls(stack') : FrameStays(stack'[i])
  BY <1>1, FramesStay DEF Calm
<1>3. /\ result' = "running" <=> stack' # <<>>
      /\ result' \in {"none", "running", "ok", "failed"}
  BY DEF CallsOK
<1> QED
  BY <1>1, <1>2, <1>3, CallsStay DEF Calm

\* The file of the target becomes another.
LEMMA FileWritten ==
  ASSUME CopyInv, Calm, WellFormed(source), file # NoFile, file' # NoFile,
         file.to \in Location, target[file.to].kind # "dir",
         Front(file.to) \in Location, target[Front(file.to)].kind = "dir",
         NEW data \in Seq(Block), target' = [target EXCEPT ![file.to] = File(data)],
         stack' = stack, result' = result, file'.from = file.from
  PROVE  /\ WellFormed(target)' /\ CallsOK' /\ AllDone'
         /\ target'[file.to] = File(data) /\ Pending' = Pending
<1>1. /\ Current /\ CallsOK /\ AllDone /\ WellFormed(target) /\ file.from \in CopiedFiles
      /\ file.to = dest_path(file.from) /\ source' = source /\ halt' = halt /\ missed' = missed
  BY CurrentFile DEF Current, Calm
<1> DEFINE node == File(data)
<1>2. /\ target'[file.to] = node /\ \A q \in Location : q # file.to => target'[q] = target[q]
      /\ target' \in [Location -> {target[q] : q \in Location} \cup {node}]
  BY <1>1 DEF WellFormed, Tree
<1>3. WellFormed(target)' /\ OnlyGrows
  <2> DEFINE t == target
             u == target'
             p == file.to
  <2>1. /\ WellFormed(t) /\ p \in Location /\ t[p].kind # "dir"
        /\ Front(p) \in Location /\ t[Front(p)].kind = "dir"
    BY <1>1
  <2>2. u \in [Location -> {t[q] : q \in Location} \cup {node}] /\ u[p] = node
    BY <1>2
  <2>3. \A q \in Location : q # p => u[q] = t[q]
    BY <1>2
  <2> HIDE DEF t, u, p
  <2>4. WellFormed(u) /\ \A q \in Location : t[q].kind # "none" => u[q].kind # "none"
    BY <2>1, <2>2, <2>3, TreeGrows
  <2> QED
    BY <2>4 DEF t, u, OnlyGrows
<1>4. CallsOK'
  BY <1>1, <1>3, CallsAsBefore
<1>5. Pending' = Pending
  <2>1. AllAwaited(stack)' = AllAwaited(stack)
    BY <1>1, Steady
  <2>2. InProgress' = InProgress
    BY DEF InProgress, NoFile
  <2> QED
    BY <2>1, <2>2 DEF Pending
<1>6. AllDone'
  <2> SUFFICES ASSUME ~halt, result \in {"running", "ok"}
               PROVE  /\ \A p \in CopiedDirs \ Pending : target'[p].kind # "none"
                      /\ NamesStayApart => \A p \in CopiedFiles \ Pending :
                           /\ dest_path(p) \in Location
                           /\ target'[dest_path(p)] = File(source[p].data)
    BY <1>1, <1>5, Steady DEF AllDone
  <2>1. ASSUME NEW p \in CopiedDirs \ Pending PROVE target'[p].kind # "none"
    BY <1>1, <1>3 DEF AllDone, OnlyGrows, CopiedDirs, AllDirs
  <2>2. ASSUME NamesStayApart, NEW p \in CopiedFiles \ Pending
        PROVE  dest_path(p) \in Location /\ target'[dest_path(p)] = File(source[p].data)
    <3>1. dest_path(p) \in Location /\ target[dest_path(p)] = File(source[p].data)
      BY <1>1, <2>2 DEF AllDone
    <3>2. p # file.from
      BY <2>2 DEF Pending, InProgress
    <3>3. dest_path(p) # file.to
      BY <1>1, <2>2, <3>2 DEF NamesStayApart, CopiedFiles
    <3> QED
      BY <1>2, <3>1, <3>3
  <2> QED
    BY <2>1, <2>2
<1> QED
  BY <1>2, <1>3, <1>4, <1>5, <1>6

\* copy_file returns 0: if it was not asked to halt, the file is there.
LEMMA FileDoneKeeps ==
  ASSUME CopyInv, Calm, WellFormed(source), file # NoFile, FileDone,
         ~halt => /\ file.to \in Location /\ target[file.to] = File(Src.data)
                  /\ file.pos = Len(Src.data)
  PROVE  CopyInv'
<1>1. /\ Current /\ CallsOK /\ AllDone /\ Counted
      /\ WellFormed(target) /\ bytes_copied \in Nat /\ file.from \in CopiedFiles
      /\ file.to = dest_path(file.from) /\ source' = source /\ halt' = halt /\ missed' = missed
      /\ file' = NoFile /\ UNCHANGED <<target, stack, result, bytes_copied>>
  BY CurrentFile DEF Current, Calm, FileDone
<1>2. WellFormed(target)' /\ CallsOK' /\ bytes_copied' \in Nat
  BY <1>1, TargetStays, CallsAsBefore
<1>3. Pending = Pending' \cup {file.from} /\ file.from \notin Pending'
  <2>1. AllAwaited(stack)' = AllAwaited(stack)
    BY <1>1, Steady
  <2> QED
    BY <1>1, <2>1 DEF Pending, InProgress, NoFile, Current
<1>4. AllDone'
  <2> SUFFICES ASSUME ~halt, result \in {"running", "ok"}
               PROVE  /\ \A p \in CopiedDirs \ Pending' : target[p].kind # "none"
                      /\ NamesStayApart => \A p \in CopiedFiles \ Pending' :
                           /\ dest_path(p) \in Location
                           /\ target[dest_path(p)] = File(source[p].data)
    BY <1>1, Steady DEF AllDone
  <2>1. file.from \notin CopiedDirs
    BY <1>1 DEF Current, IsFile, CopiedDirs, AllDirs
  <2>2. \A p \in CopiedDirs \ Pending' : target[p].kind # "none"
    BY <1>1, <1>3, <2>1 DEF AllDone
  <2>3. ASSUME NamesStayApart, NEW p \in CopiedFiles \ Pending'
        PROVE  dest_path(p) \in Location /\ target[dest_path(p)] = File(source[p].data)
    <3>1. CASE p = file.from
      BY <1>1, <3>1 DEF Src
    <3>2. CASE p # file.from
      BY <1>1, <1>3, <2>3, <3>2 DEF AllDone
    <3> QED
      BY <3>1, <3>2
  <2> QED
    BY <2>2, <2>3
<1>5. FileOK'
  BY <1>1 DEF FileOK, NoFile
<1>6. Counted'
  <2> SUFFICES ASSUME ~halt, result \in {"running", "ok"}
               PROVE  bytes_copied = Total(Sizes, CopiedFiles \ Pending') + 0
    BY <1>1, Steady DEF Counted, NoFile
  <2> DEFINE S == CopiedFiles \ Pending
             T == CopiedFiles \ Pending'
             p == file.from
  <2>1. S \in SUBSET Location /\ T \in SUBSET Location /\ p \in T /\ T \ {p} = S
    BY <1>1, <1>3 DEF CopiedFiles, AllFiles
  <2>2. Sizes[p] = file.pos
    BY <1>1, <2>1 DEF Sizes, Src
  <2>3. bytes_copied = Total(Sizes, S) + file.pos
    BY <1>1 DEF Counted
  <2> HIDE DEF S, T, p
  <2>4. IsFiniteSet(T) /\ Sizes \in [Location -> Nat]
    BY <2>1, TotalSize
  <2>5. Total(Sizes, T) = Sizes[p] + Total(Sizes, S)
    BY <2>1, <2>4, TotalWithout
  <2>6. Total(Sizes, S) \in Nat /\ Sizes[p] \in Nat
    BY <2>1, <2>4, TotalSize
  <2>7. bytes_copied = Total(Sizes, T) + 0
    BY <2>2, <2>3, <2>5, <2>6
  <2> QED
    BY <2>7 DEF T
<1> QED
  BY <1>2, <1>4, <1>5, <1>6 DEF CopyInv, Calm

\* copy_file goes on without writing.
FileFields == [at : FileSteps, from : Location, to : Seq(Name), pos : Nat]

Moved(step, pos) ==
  /\ file' \in FileFields /\ file'.from = file.from /\ file'.to = file.to
  /\ file'.at = step /\ file'.pos = pos /\ file' # NoFile

LEMMA FileMoved ==
  ASSUME Current, NEW step \in FileSteps, NEW pos \in Nat,
         file' = [file EXCEPT !.at = step, !.pos = pos]
  PROVE  Moved(step, pos)
<1>1. file \in FileFields /\ step # "none"
  BY DEF Current, FileFields, FileSteps
<1>2. /\ file' \in FileFields /\ file'.from = file.from /\ file'.to = file.to
      /\ file'.at = step /\ file'.pos = pos
  BY <1>1 DEF FileFields
<1> QED
  BY <1>1, <1>2 DEF Moved, NoFile

LEMMA FileGoesOn ==
  ASSUME CopyInv, Calm, WellFormed(source), file # NoFile, file.at # "open",
         UNCHANGED <<target, stack, result>>, bytes_copied' \in Nat,
         NEW step \in {"check", "send", "read", "write"}, NEW pos \in Nat,
         bytes_copied' = bytes_copied - file.pos + pos,
         Moved(step, pos), pos <= file.pos, pos <= bytes_copied',
         step \in {"check", "send"} => file.at \in {"check", "send"} /\ pos = file.pos
  PROVE  CopyInv'
<1>1. /\ Current /\ CallsOK /\ AllDone /\ Counted /\ WellFormed(target) /\ bytes_copied \in Nat
      /\ source' = source /\ halt' = halt /\ missed' = missed /\ Len(Src.data) \in Nat /\ file.pos \in Nat
      /\ file.pos <= Len(Src.data)
  BY CurrentFile DEF Calm, Current
<1>2. /\ file' \in [at : FileSteps, from : Location, to : Seq(Name), pos : Nat]
      /\ file'.from = file.from /\ file'.to = file.to /\ file'.at = step /\ file'.pos = pos
      /\ file' # NoFile
  BY DEF Moved, FileFields
<1>3. /\ file.to \in Location
      /\ \E m \in file.pos .. Len(Src.data) :
           /\ target[file.to] = File(SubSeq(Src.data, 1, m))
           /\ file.at \in {"check", "send"} => m = file.pos
  BY <1>1 DEF Current, Begun
<1>4. Current'
  <2>1. PICK m \in file.pos .. Len(Src.data) :
           /\ target[file.to] = File(SubSeq(Src.data, 1, m))
           /\ file.at \in {"check", "send"} => m = file.pos
    BY <1>3
  <2>2. m \in pos .. Len(Src.data) /\ pos <= Len(Src.data)
    BY <1>1
  <2>3. step \in {"check", "send"} => m = pos
    BY <2>1
  <2>4. step # "open"
    OBVIOUS
  <2> QED
    BY <1>1, <1>2, <1>3, <2>1, <2>2, <2>3, <2>4, CurrentStays
<1>5. WellFormed(target)' /\ CallsOK'
  BY <1>1, TargetStays, CallsAsBefore
<1>6. Pending' = Pending
  <2>1. AllAwaited(stack)' = AllAwaited(stack)
    BY <1>1, Steady
  <2>2. InProgress' = InProgress
    BY <1>2 DEF InProgress, NoFile
  <2> QED
    BY <2>1, <2>2 DEF Pending
<1>7. AllDone'
  BY <1>1, <1>6, Steady DEF AllDone
<1>8. Counted'
  <2> DEFINE k == pos - file.pos
  <2>1. k \in Int /\ bytes_copied' = bytes_copied + k /\ file'.pos = file.pos + k
    BY <1>1, <1>2
  <2> HIDE DEF k
  <2> QED
    BY <1>1, <1>6, <2>1, CountGoesOn
<1> QED
  BY <1>4, <1>5, <1>7, <1>8 DEF CopyInv, FileOK, Calm

LEMMA OpenKeeps ==
  ASSUME CopyInv, Calm, WellFormed(source), Open
  PROVE  CopyInv'
<1>1. file # NoFile /\ file.at = "open"
  BY DEF Open, At, NoFile
<1>2. /\ Current /\ Counted /\ WellFormed(target) /\ bytes_copied \in Nat /\ source' = source /\ halt' = halt /\ missed' = missed
      /\ Src.data \in Seq(Block) /\ Len(Src.data) \in Nat
  BY <1>1, CurrentFile DEF Calm
<1>3. ASSUME CanOpen, target' = [target EXCEPT ![file.to] = File(<<>>)],
             file' = [file EXCEPT !.at = "check"], UNCHANGED <<stack, result, bytes_copied>>
      PROVE  CopyInv'
  <2>1. /\ file \in [at : FileSteps, from : Location, to : Seq(Name), pos : Nat] /\ file.pos = 0
    BY <1>1, <1>2 DEF Current
  <2>2. /\ file' \in [at : FileSteps, from : Location, to : Seq(Name), pos : Nat]
        /\ file'.at = "check" /\ file'.from = file.from /\ file'.to = file.to /\ file'.pos = 0
        /\ file' # NoFile
    BY <1>3, <2>1 DEF FileSteps, NoFile
  <2>3. /\ file.to \in Location /\ target[file.to].kind # "dir"
        /\ Front(file.to) \in Location /\ target[Front(file.to)].kind = "dir"
    BY <1>3 DEF CanOpen, IsDir
  <2>4. <<>> \in Seq(Block)
    OBVIOUS
  <2>5. /\ WellFormed(target)' /\ CallsOK' /\ AllDone' /\ target'[file.to] = File(<<>>)
        /\ Pending' = Pending
    BY <1>1, <1>3, <2>2, <2>3, <2>4, FileWritten
  <2>6. SubSeq(Src.data, 1, 0) = <<>>
    BY <1>2, Beginnings
  <2>7. Current'
    <3>1. /\ 0 \in file'.pos .. Len(Src.data) /\ file'.pos <= Len(Src.data)
          /\ file'.pos <= bytes_copied'
      BY <1>2, <1>3, <2>2
    <3> QED
      BY <1>2, <1>3, <2>2, <2>3, <2>5, <2>6, <3>1, CurrentStays
  <2>8. Counted'
    <3>1. bytes_copied' = bytes_copied + 0 /\ file'.pos = file.pos + 0 /\ file.pos \in Nat
      BY <1>2, <1>3, <2>1, <2>2
    <3> QED
      BY <1>2, <1>3, <2>5, <3>1, CountGoesOn
  <2> QED
    BY <1>2, <1>3, <2>5, <2>7, <2>8 DEF CopyInv, FileOK
<1>4. ASSUME Fail, UNCHANGED target
      PROVE  CopyInv'
  <2>1. WellFormed(target)'
    BY <1>2, <1>4
  <2> QED
    BY <1>4, <2>1, FailKeeps DEF Calm
<1> QED
  BY <1>3, <1>4 DEF Open

\* At the end of the source's file the target's is the same.
LEMMA AtTheEnd ==
  ASSUME CopyInv, WellFormed(source), file # NoFile, file.at # "open",
         Left = 0 \/ file.pos >= Src.size
  PROVE  /\ file.to \in Location /\ target[file.to] = File(Src.data)
         /\ file.pos = Len(Src.data)
<1>1. /\ Current /\ Src.data \in Seq(Block) /\ Len(Src.data) \in Nat /\ file.pos \in Nat
      /\ Src.size >= Len(Src.data) /\ Left = Len(Src.data) - file.pos
  BY CurrentFile
<1>2. /\ file.to \in Location /\ file.pos <= Len(Src.data)
      /\ \E m \in file.pos .. Len(Src.data) : target[file.to] = File(SubSeq(Src.data, 1, m))
  BY <1>1 DEF Current, Begun
<1>3. Src.size \in Nat
  BY <1>1 DEF Current, WellFormed, Tree, Node, Src
<1>4. file.pos = Len(Src.data)
  BY <1>1, <1>2, <1>3
<1>5. target[file.to] = File(SubSeq(Src.data, 1, Len(Src.data)))
  BY <1>1, <1>2, <1>4
<1> QED
  BY <1>1, <1>2, <1>4, <1>5, Beginnings

LEMMA CheckHaltKeeps ==
  ASSUME CopyInv, Calm, WellFormed(source), CheckHalt
  PROVE  CopyInv'
<1>1. file # NoFile /\ file.at = "check"
  BY DEF CheckHalt, At, NoFile
<1>2. ASSUME file.pos >= Src.size \/ halt, FileDone
      PROVE  CopyInv'
  <2>1. ~halt => /\ file.to \in Location /\ target[file.to] = File(Src.data)
                  /\ file.pos = Len(Src.data)
    BY <1>1, <1>2, AtTheEnd
  <2> QED
    BY <1>1, <1>2, <2>1, FileDoneKeeps
<1>3. ASSUME file' = [file EXCEPT !.at = "send"], UNCHANGED <<target, stack, result, bytes_copied>>
      PROVE  CopyInv'
  <2>1. Current /\ bytes_copied \in Nat /\ file.pos \in Nat
    BY <1>1, CurrentFile
  <2>2. file' = [file EXCEPT !.at = "send", !.pos = file.pos] /\ file.pos <= bytes_copied
    BY <1>3, <2>1 DEF Current
  <2>3. Moved("send", file.pos)
    BY <2>1, <2>2, FileMoved DEF FileSteps
  <2>4. bytes_copied = bytes_copied - file.pos + file.pos
    BY <2>1
  <2> QED
    BY <1>1, <1>3, <2>1, <2>2, <2>3, <2>4, FileGoesOn
<1> QED
  BY <1>2, <1>3 DEF CheckHalt

\* A chunk is written: what is there is longer or, when it is written again, as long.
LEMMA ChunkKeeps ==
  ASSUME CopyInv, Calm, WellFormed(source), file # NoFile, file.at \in {"send", "write"},
         NEW k \in Nat, k <= Left,
         Overwrite(SubSeq(Src.data, file.pos + 1, file.pos + k)),
         bytes_copied' = bytes_copied + k,
         NEW step \in {"check", "read"}, step = "check" => file.at = "send",
         file' = [file EXCEPT !.at = step, !.pos = @ + k],
         UNCHANGED <<stack, result>>
  PROVE  CopyInv'
<1> DEFINE D == Src.data
           pos == file.pos
<1>1. /\ Current /\ Counted /\ WellFormed(target) /\ bytes_copied \in Nat /\ file.to # Root
      /\ D \in Seq(Block) /\ Len(D) \in Nat /\ pos \in Nat /\ Left = Len(D) - pos
  BY CurrentFile
<1>2. /\ file.to \in Location /\ pos <= Len(D) /\ pos <= bytes_copied
      /\ file \in [at : FileSteps, from : Location, to : Seq(Name), pos : Nat]
  BY <1>1 DEF Current, Begun
<1>3. PICK m \in pos .. Len(D) :
        /\ target[file.to] = File(SubSeq(D, 1, m))
        /\ file.at \in {"check", "send"} => m = pos
  BY <1>1 DEF Current, Begun
<1> DEFINE n == IF m >= pos + k THEN m ELSE pos + k
<1>4. pos \in 0 .. Len(D) /\ pos + k <= Len(D) /\ n \in pos + k .. Len(D)
  BY <1>1, <1>2
<1>5. target' = [target EXCEPT ![file.to] = File(SubSeq(D, 1, n))]
  <2> DEFINE old == SubSeq(D, 1, m)
             new == SubSeq(D, pos + 1, pos + k)
  <2>1. target[file.to].data = old
    BY <1>3 DEF File
  <2>2. target' = [target EXCEPT ![file.to] =
          File(SubSeq(old, 1, pos) \o new \o SubSeq(old, pos + Len(new) + 1, Len(old)))]
    BY <2>1 DEF Overwrite
  <2>3. SubSeq(old, 1, pos) \o new \o SubSeq(old, pos + Len(new) + 1, Len(old)) = SubSeq(D, 1, n)
    <3> HIDE DEF D, pos
    <3> QED
      BY <1>1, <1>4, Overwritten
  <2> QED
    BY <2>2, <2>3
<1>6. SubSeq(D, 1, n) \in Seq(Block)
  <2> HIDE DEF D, n
  <2>1. n \in 0 .. Len(D)
    BY <1>1, <1>4
  <2> QED
    BY <1>1, <2>1, Beginnings
<1> HIDE DEF n
<1>7. /\ file' \in [at : FileSteps, from : Location, to : Seq(Name), pos : Nat]
      /\ file'.at = step /\ file'.from = file.from /\ file'.to = file.to /\ file'.pos = pos + k
      /\ file' # NoFile
  <2>1. step \in FileSteps /\ pos + k \in Nat
    BY <1>1 DEF FileSteps
  <2>2. file' = [file EXCEPT !.at = step, !.pos = pos + k]
    OBVIOUS
  <2> QED
    BY <1>1, <2>1, <2>2, FileMoved DEF Moved, FileFields
<1>8. /\ target[file.to].kind # "dir"
      /\ Front(file.to) \in Location /\ target[Front(file.to)].kind = "dir"
  <2>1. target[file.to].kind = "file"
    BY <1>3 DEF File
  <2> DEFINE p == file.to
  <2>2. p \in Location /\ p # Root /\ target[p].kind # "none"
    BY <1>1, <1>2, <2>1
  <2> HIDE DEF p
  <2>3. Len(p) \in Nat /\ Len(p) > 0 /\ Front(p) = SubSeq(p, 1, Len(p) - 1)
    BY <2>2, PathParts
  <2>4. Front(p) \in Location /\ target[Front(p)].kind = "dir"
    <3>1. Len(p) - 1 \in 0 .. Len(p) - 1
      BY <2>3
    <3> QED
      BY <1>1, <2>2, <2>3, <3>1 DEF WellFormed
  <2> QED
    BY <2>1, <2>4 DEF p
<1>9. /\ WellFormed(target)' /\ CallsOK' /\ AllDone' /\ target'[file.to] = File(SubSeq(D, 1, n))
      /\ Pending' = Pending
  BY <1>2, <1>5, <1>6, <1>7, <1>8, FileWritten
<1>10. Current'
  <2>1. n \in file'.pos .. Len(D) /\ file'.pos <= Len(D) /\ file'.pos <= bytes_copied'
    BY <1>1, <1>2, <1>4, <1>7
  <2>2. file'.at \in {"check", "send"} => n = file'.pos
    BY <1>1, <1>3, <1>7 DEF n
  <2>3. file'.at # "open" /\ stack' = stack
    BY <1>7
  <2> QED
    BY <1>1, <1>2, <1>7, <1>9, <2>1, <2>2, <2>3, CurrentStays
<1>11. bytes_copied' \in Nat
  BY <1>1
<1>12. Counted'
  <2>1. k \in Int /\ file'.pos = file.pos + k /\ file.pos \in Nat
    BY <1>1, <1>7
  <2> QED
    BY <1>1, <1>9, <2>1, CountGoesOn DEF Calm
<1> QED
  BY <1>9, <1>10, <1>11, <1>12 DEF CopyInv, FileOK, Calm

LEMMA SendKeeps ==
  ASSUME CopyInv, Calm, WellFormed(source), CHUNK \in Nat, Send
  PROVE  CopyInv'
<1>1. file # NoFile /\ file.at = "send"
  <2>1. At("send")
    BY DEF Send
  <2> QED
    BY <2>1 DEF At, NoFile
<1>2. ASSUME NEW k \in 1 .. CHUNK, k <= Left,
             Overwrite(SubSeq(Src.data, file.pos + 1, file.pos + k)),
             bytes_copied' = bytes_copied + k,
             file' = [file EXCEPT !.at = "check", !.pos = @ + k],
             UNCHANGED <<stack, result>>
      PROVE  CopyInv'
  <2>1. k \in Nat
    OBVIOUS
  <2> QED
    BY <1>1, <1>2, <2>1, ChunkKeeps
<1>3. ASSUME Left = 0, FileDone
      PROVE  CopyInv'
  <2>1. /\ file.to \in Location /\ target[file.to] = File(Src.data)
        /\ file.pos = Len(Src.data)
    BY <1>1, <1>3, AtTheEnd
  <2> QED
    BY <1>1, <1>3, <2>1, FileDoneKeeps
<1>4. ASSUME Fail, UNCHANGED target
      PROVE  CopyInv'
  <2>1. WellFormed(target)'
    BY <1>4 DEF CopyInv
  <2> QED
    BY <1>4, <2>1, FailKeeps DEF Calm
<1> QED
  BY <1>2, <1>3, <1>4 DEF Send

LEMMA RefusedKeeps ==
  ASSUME CopyInv, Calm, WellFormed(source), Refused
  PROVE  CopyInv'
<1>1. file # NoFile /\ file.at = "send"
  BY DEF Refused, At, NoFile
<1>2. Current /\ bytes_copied \in Nat /\ file.pos \in Nat
  BY <1>1, CurrentFile
<1>3. /\ bytes_copied' = bytes_copied - file.pos /\ file' = [file EXCEPT !.at = "read", !.pos = 0]
      /\ UNCHANGED <<target, stack, result>>
  BY DEF Refused
<1>4. /\ bytes_copied' \in Nat /\ 0 <= file.pos /\ 0 <= bytes_copied'
      /\ bytes_copied' = bytes_copied - file.pos + 0
  BY <1>2, <1>3 DEF Current
<1>5. Moved("read", 0)
  BY <1>2, <1>3, FileMoved DEF FileSteps
<1> QED
  BY <1>1, <1>2, <1>3, <1>4, <1>5, FileGoesOn

LEMMA ReadKeeps ==
  ASSUME CopyInv, Calm, WellFormed(source), Read
  PROVE  CopyInv'
<1>1. file # NoFile /\ file.at = "read"
  <2>1. At("read")
    BY DEF Read
  <2> QED
    BY <2>1 DEF At, NoFile
<1>2. ASSUME Left = 0 \/ halt, FileDone
      PROVE  CopyInv'
  <2>1. ~halt => /\ file.to \in Location /\ target[file.to] = File(Src.data)
                  /\ file.pos = Len(Src.data)
    BY <1>1, <1>2, AtTheEnd
  <2> QED
    BY <1>1, <1>2, <2>1, FileDoneKeeps
<1>3. ASSUME file' = [file EXCEPT !.at = "write"], UNCHANGED <<target, stack, result, bytes_copied>>
      PROVE  CopyInv'
  <2>1. Current /\ bytes_copied \in Nat /\ file.pos \in Nat
    BY <1>1, CurrentFile
  <2>2. file' = [file EXCEPT !.at = "write", !.pos = file.pos] /\ file.pos <= bytes_copied
    BY <1>3, <2>1 DEF Current
  <2>3. Moved("write", file.pos)
    BY <2>1, <2>2, FileMoved DEF FileSteps
  <2>4. bytes_copied = bytes_copied - file.pos + file.pos
    BY <2>1
  <2> QED
    BY <1>1, <1>3, <2>1, <2>2, <2>3, <2>4, FileGoesOn
<1>4. ASSUME Fail, UNCHANGED target
      PROVE  CopyInv'
  <2>1. WellFormed(target)'
    BY <1>4 DEF CopyInv
  <2> QED
    BY <1>4, <2>1, FailKeeps DEF Calm
<1> QED
  BY <1>2, <1>3, <1>4 DEF Read

LEMMA WriteKeeps ==
  ASSUME CopyInv, Calm, WellFormed(source), CHUNK \in Nat, Write
  PROVE  CopyInv'
<1> DEFINE k == IF Left < CHUNK THEN Left ELSE CHUNK
<1>1. file # NoFile /\ file.at = "write"
  <2>1. At("write")
    BY DEF Write
  <2> QED
    BY <2>1 DEF At, NoFile
<1>2. ASSUME Overwrite(SubSeq(Src.data, file.pos + 1, file.pos + k)),
             bytes_copied' = bytes_copied + k,
             file' = [file EXCEPT !.at = "read", !.pos = @ + k],
             UNCHANGED <<stack, result>>
      PROVE  CopyInv'
  <2>1. Left \in Nat
    BY <1>1, CurrentFile
  <2>2. k \in Nat /\ k <= Left
    BY <2>1
  <2> HIDE DEF k
  <2> QED
    BY <1>1, <1>2, <2>2, ChunkKeeps
<1>3. ASSUME Fail, UNCHANGED target
      PROVE  CopyInv'
  <2>1. WellFormed(target)'
    BY <1>3 DEF CopyInv
  <2> QED
    BY <1>3, <2>1, FailKeeps DEF Calm
<1> QED
  BY <1>2, <1>3 DEF Write
-----------------------------------------------------------------------------
\* The copy as a whole.

LEMMA CopyBegins ==
  ASSUME WellFormed(source)', WellFormed(target)', stack' = <<Call(Root)>>,
         result' = "running", file' = NoFile, bytes_copied' = 0, missed' = {}
  PROVE  CopyInv'
<1> DEFINE f == Call(Root)
<1>1. source'[Root].kind = "dir" /\ Root \in Location
  BY LocationAssumption DEF WellFormed
<1>2. f \in Frames /\ f.dir = Root /\ f.at = "enter" /\ f.todo = {}
  BY <1>1 DEF Call, Frames, Steps
<1>3. /\ stack' \in Seq(Frames) /\ stack' # <<>> /\ Len(stack') = 1 /\ stack'[1] = f
      /\ Calls(stack') = {1}
  BY <1>2 DEF Calls
<1> HIDE DEF f
<1>4. FrameOK(stack[1])'
  BY <1>1, <1>2, <1>3 DEF FrameOK, IsGiven
<1>5. Apart(stack)' /\ Deeper(stack)'
  BY <1>3 DEF Apart, Deeper
<1>6. CallsOK'
  BY <1>3, <1>4, <1>5 DEF CallsOK, Frames, Calls
<1>7. \A p \in Location : p \in Pending'
  <2> SUFFICES ASSUME NEW p \in Location PROVE p \in Pending'
    OBVIOUS
  <2>1. p \in Seq(Name) /\ Len(Root) = 0
    BY LocationAssumption DEF Root
  <2>2. Under(Root, p)
    BY <2>1 DEF Under
  <2>3. p \in Awaits(stack[1])'
    BY <1>2, <1>3, <2>2 DEF Awaits
  <2>4. p \in AllAwaited(stack)'
    BY <1>3, <2>3 DEF AllAwaited, Calls
  <2> QED
    BY <2>4 DEF Pending
<1>8. AllDone'
  BY <1>7 DEF AllDone, CopiedDirs, AllDirs, CopiedFiles, AllFiles
<1>9. FileOK'
  BY DEF FileOK, NoFile
<1>10. Counted'
  <2>1. Total(Sizes, {})' = 0
    <3> DEFINE sizes == Sizes'
    <3>1. sizes \in [Location -> Nat]
      <4>1. \A p \in Location : source'[p].data \in Seq(Block)
        BY DEF WellFormed, Tree, Node
      <4>2. \A p \in Location : Len(source'[p].data) \in Nat
        BY <4>1
      <4> QED
        BY <4>2 DEF Sizes
    <3>2. {} \in SUBSET Location /\ IsFiniteSet({})
      BY FS_EmptySet
    <3> HIDE DEF sizes
    <3>3. Total(sizes, {}) = 0
      BY <3>1, <3>2, TotalStep
    <3> QED
      BY <3>3 DEF sizes
  <2>2. (CopiedFiles \ Pending)' = {}
    BY <1>7 DEF CopiedFiles, AllFiles
  <2>3. file'.pos = 0
    BY DEF NoFile
  <2> QED
    BY <2>1, <2>2, <2>3 DEF Counted
<1> QED
  BY <1>6, <1>8, <1>9, <1>10 DEF CopyInv

LEMMA CopyStepKeeps ==
  ASSUME CopyInv, source' = source, halt' = halt, WellFormed(source), CHUNK \in Nat, CopyNext
  PROVE  CopyInv'
  BY EnterKeeps, ListedKeeps, CannotLookKeeps, HaltSeenKeeps, NextFileKeeps, FilesDoneKeeps,
     NextDirKeeps, DirsDoneKeeps, OpenKeeps, CheckHaltKeeps, SendKeeps, RefusedKeeps,
     ReadKeeps, WriteKeeps DEF CopyNext, Calm

\* Nothing changes but that it may be asked to halt.
LEMMA CopyRests ==
  ASSUME CopyInv, UNCHANGED <<source, copyVars>>, halt => halt'
  PROVE  CopyInv'
<1>1. UNCHANGED <<source, target, stack, file, result, bytes_copied, missed>>
  BY DEF copyVars
<1>2. CallsOK'
  <2>1. /\ stack' \in Seq(Frames) /\ Apart(stack') /\ Deeper(stack')
        /\ \A i \in Calls(stack') :
             stack'[i] \in Frames /\ FrameOK(stack'[i]) /\ (i # Len(stack') => stack'[i].at = "dirs")
    BY <1>1 DEF CopyInv, CallsOK, Calls
  <2>2. \A i \in Calls(stack') : FrameStays(stack'[i])
    BY <1>1, <2>1, FramesStay, TargetStays
  <2>3. /\ result' = "running" <=> stack' # <<>>
        /\ result' \in {"none", "running", "ok", "failed"}
    BY <1>1 DEF CopyInv, CallsOK
  <2> QED
    BY <1>1, <2>1, <2>2, <2>3, CallsStay
<1>3. AllAwaited(stack)' = AllAwaited(stack)
  BY <1>1, Steady
<1>4. FileOK'
  <2>1. NoFile' = NoFile
    BY DEF NoFile
  <2>2. Current => Current'
    BY <1>1, <1>3 DEF Current, Top, InDir, IsFile, Given, Src, Begun
  <2> QED
    BY <1>1, <2>1, <2>2 DEF CopyInv, FileOK
<1>5. Pending' = Pending
  BY <1>1, <1>3 DEF Pending, InProgress, NoFile
<1>6. AllDone'
  BY <1>1, <1>5, Steady DEF CopyInv, AllDone
<1>7. Counted'
  BY <1>1, <1>5, Steady DEF CopyInv, Counted
<1> QED
  BY <1>1, <1>2, <1>4, <1>6, <1>7 DEF CopyInv

LEMMA CopyTyped ==
  ASSUME CopyInv
  PROVE  CopyTypeOK
<1>1. /\ target \in Tree /\ bytes_copied \in Nat /\ missed \subseteq Location
      /\ result \in {"none", "running", "ok", "failed"}
  BY DEF CopyInv, WellFormed, CallsOK
<1>2. \A i \in DOMAIN stack :
        /\ stack[i].dir \in Location /\ stack[i].at \in Steps
        /\ stack[i].todo \subseteq {Last(p) : p \in Location \ {Root}}
  <2>1. stack \in Seq(Frames)
    BY DEF CopyInv, CallsOK
  <2>2. \A i \in DOMAIN stack : stack[i] \in Frames
    BY <2>1
  <2> QED
    BY <2>2 DEF Frames
<1>3. /\ file.at \in {"none", "open", "check", "send", "read", "write"}
      /\ file.from \in Location /\ file.pos \in Nat
  BY LocationAssumption DEF CopyInv, FileOK, Current, NoFile, FileSteps
<1> QED
  BY <1>1, <1>2, <1>3 DEF CopyTypeOK

LEMMA CopyEnds ==
  ASSUME CopyInv, result # "running"
  PROVE  stack = <<>> /\ file = NoFile /\ Pending = {}
<1>1. stack = <<>> /\ file = NoFile
  BY DEF CopyInv, CallsOK, FileOK, Current
<1> QED
  BY <1>1 DEF Pending, AllAwaited, Calls, InProgress

\* A copy that returns 0 is one: the loops over names and directories leave nothing out
\* and each file is written to its end.
LEMMA CopyWhole ==
  ASSUME CopyInv
  PROVE  CopyIsWhole
<1> SUFFICES ASSUME result = "ok", ~halt, NamesStayApart, NothingInTheWay
             PROVE  IsCopy
  BY DEF CopyIsWhole
<1>1. Pending = {}
  BY CopyEnds
<1>2. \A p \in CopiedDirs : target[p].kind = "dir"
  <2> SUFFICES ASSUME NEW p \in CopiedDirs PROVE target[p].kind = "dir"
    OBVIOUS
  <2>1. target[p].kind # "none" /\ target[p].kind # "file"
    BY <1>1 DEF CopyInv, AllDone, NothingInTheWay
  <2>2. target[p].kind \in {"none", "dir", "file"}
    BY DEF CopyInv, WellFormed, Tree, Node, CopiedDirs, AllDirs
  <2> QED
    BY <2>1, <2>2
<1>3. \A p \in CopiedFiles : target[dest_path(p)] = File(source[p].data)
  BY <1>1 DEF CopyInv, AllDone
<1> QED
  BY <1>2, <1>3 DEF IsCopy

\* ... and each byte of it has been counted once, also those that were sent twice.
LEMMA CopyCounted ==
  ASSUME CopyInv, WellFormed(source)
  PROVE  BytesAreCounted
<1> SUFFICES ASSUME result = "ok", ~halt
             PROVE  bytes_copied = Total(Sizes, CopiedFiles)
  BY DEF BytesAreCounted
<1>1. Pending = {} /\ file.pos = 0
  BY CopyEnds DEF NoFile
<1>2. bytes_copied = Total(Sizes, CopiedFiles) + 0
  BY <1>1 DEF CopyInv, Counted
<1>3. CopiedFiles \in SUBSET Location
  BY DEF CopiedFiles, AllFiles
<1>4. Total(Sizes, CopiedFiles) \in Nat
  BY <1>3, TotalSize
<1> QED
  BY <1>2, <1>4
-----------------------------------------------------------------------------
\* Halting.

\* The next step may change the target.
AboutToWrite ==
  \/ file.at \in {"open", "send", "write"}
  \/ stack # <<>> /\ Top.at = "enter"

LEMMA CopyHalts ==
  ASSUME CopyInv, source' = source, halt' = halt, CopyNext
  PROVE  /\ halt => ~AboutToWrite'
         /\ target' # target => AboutToWrite
<1>1. CallsOK
  BY DEF CopyInv
<1>2. ASSUME Fail PROVE ~AboutToWrite'
  BY <1>2 DEF Fail, AboutToWrite, NoFile
<1>3. ASSUME Return, Running, UNCHANGED <<target, file, missed>>, file = NoFile
      PROVE  ~AboutToWrite'
  <2>1. stack' # <<>> => Top'.at = "dirs"
    BY <1>1, <1>3, CallReturns, TargetStays
  <2> QED
    BY <1>3, <2>1 DEF AboutToWrite, NoFile
<1>4. ASSUME NEW step \in {"listed", "dirs"}, NEW names, GoOn(step, names), Running,
             UNCHANGED file, file = NoFile
      PROVE  ~AboutToWrite'
  <2>1. stack \in Seq(Frames) /\ stack # <<>>
    BY <1>1, <1>4 DEF CallsOK, Running
  <2>2. stack' = WithLast(stack, Frame(Top.dir, step, names))
    BY <1>4 DEF GoOn, Gone, WithLast, Frame
  <2> DEFINE s == stack
             f == Frame(Top.dir, step, names)
             t == stack'
  <2>3. f.at = step
    BY DEF Frame
  <2>4. s \in Seq(Frames) /\ s # <<>> /\ t = WithLast(s, f)
    BY <2>1, <2>2
  <2> HIDE DEF s, t, f
  <2>5. Len(t) = Len(s) /\ t[Len(t)] = f
    BY <2>4 DEF WithLast
  <2>6. Top'.at = step
    BY <2>3, <2>5 DEF Top, t
  <2> QED
    BY <1>4, <2>6 DEF AboutToWrite, NoFile
<1>5. ASSUME Current, stack' = stack, file'.at \in {"none", "check", "read"}
      PROVE  ~AboutToWrite'
  <2>1. Top' = Top /\ Top.at = "files"
    BY <1>5 DEF Top, Current
  <2> QED
    BY <1>5, <2>1 DEF AboutToWrite
<1>6. ASSUME NEW step \in FileSteps, At(step) PROVE Current
  BY <1>6 DEF At, CopyInv, FileOK, NoFile, FileSteps
<1>7. ASSUME Current PROVE DOMAIN file = {"at", "from", "to", "pos"}
  BY <1>7 DEF Current
<1>8. ASSUME FileDone PROVE file'.at = "none" /\ stack' = stack /\ target' = target
  BY <1>8 DEF FileDone, NoFile
<1>9. CASE Enter
  <2>1. file = NoFile /\ Running /\ AboutToWrite
    BY <1>9 DEF Enter, AtStep, AboutToWrite, Running
  <2> QED
    BY <1>2, <1>3, <1>4, <1>9, <2>1 DEF Enter
<1>10. CASE Listed /\ UNCHANGED missed
  BY <1>3, <1>10 DEF Listed, AtStep
<1>11. CASE CannotLook
  BY <1>2, <1>11 DEF CannotLook
<1>12. CASE HaltSeen /\ UNCHANGED missed
  BY <1>3, <1>12 DEF HaltSeen
<1>13. CASE NextFile
  BY <1>13 DEF NextFile
<1>14. CASE FilesDone
  BY <1>4, <1>14 DEF FilesDone, AtStep
<1>15. CASE NextDir
  BY <1>15 DEF NextDir
<1>16. CASE DirsDone /\ UNCHANGED missed
  BY <1>3, <1>16 DEF DirsDone, AtStep
<1>17. CASE Open
  <2>1. Current /\ AboutToWrite
    BY <1>6, <1>17 DEF Open, At, FileSteps, AboutToWrite
  <2>2. ASSUME file' = [file EXCEPT !.at = "check"], UNCHANGED stack PROVE ~AboutToWrite'
    BY <1>5, <1>7, <2>1, <2>2
  <2> QED
    BY <1>2, <1>17, <2>1, <2>2 DEF Open
<1>18. CASE CheckHalt
  <2>1. Current
    BY <1>6, <1>18 DEF CheckHalt, FileSteps
  <2> QED
    BY <1>5, <1>8, <1>18, <2>1 DEF CheckHalt
<1>19. CASE Send
  <2>1. Current /\ AboutToWrite
    BY <1>6, <1>19 DEF Send, At, FileSteps, AboutToWrite
  <2>2. ASSUME NEW k, file' = [file EXCEPT !.at = "check", !.pos = @ + k], UNCHANGED stack
        PROVE  ~AboutToWrite'
    BY <1>5, <1>7, <2>1, <2>2
  <2> QED
    BY <1>2, <1>5, <1>8, <1>19, <2>1, <2>2 DEF Send
<1>20. CASE Refused
  <2>1. Current
    BY <1>6, <1>20 DEF Refused, FileSteps
  <2>2. file'.at = "read" /\ stack' = stack /\ target' = target
    BY <1>7, <1>20, <2>1 DEF Refused
  <2> QED
    BY <1>5, <2>1, <2>2
<1>21. CASE Read
  <2>1. Current
    BY <1>6, <1>21 DEF Read, FileSteps
  <2> QED
    BY <1>2, <1>5, <1>8, <1>21, <2>1 DEF Read
<1>22. CASE Write
  <2>1. Current /\ AboutToWrite
    BY <1>6, <1>22 DEF Write, At, FileSteps, AboutToWrite
  <2>2. ASSUME NEW k, file' = [file EXCEPT !.at = "read", !.pos = @ + k], UNCHANGED stack
        PROVE  ~AboutToWrite'
    BY <1>5, <1>7, <2>1, <2>2
  <2> QED
    BY <1>2, <1>22, <2>1, <2>2 DEF Write
<1> QED
  BY <1>9, <1>10, <1>11, <1>12, <1>13, <1>14, <1>15, <1>16, <1>17, <1>18, <1>19, <1>20, <1>21,
     <1>22 DEF CopyNext
-----------------------------------------------------------------------------
\* The files that appear on the target.

\* Only copy_file makes one, and gives it the name in file.to.
LEMMA FilesAppear ==
  ASSUME CopyInv, WellFormed(source), CopyNext, NEW p \in Location,
         target'[p].kind = "file", target[p].kind # "file"
  PROVE  Open /\ p = file.to /\ file.at = "open" /\ file' = [file EXCEPT !.at = "check"]
         /\ UNCHANGED stack
<1>1. target \in [Location -> Node]
  BY DEF CopyInv, WellFormed, Tree
<1>2. ASSUME UNCHANGED target PROVE FALSE
  BY <1>2
<1>3. ASSUME NEW dir, target' = [target EXCEPT ![dir] = IF @ = Absent THEN Dir ELSE @]
      PROVE  FALSE
  BY <1>1, <1>3 DEF Dir
<1>4. ~Enter
  BY <1>2, <1>3 DEF Enter
<1>5. /\ ~Listed /\ ~CannotLook /\ ~HaltSeen /\ ~NextFile /\ ~FilesDone /\ ~NextDir /\ ~DirsDone
      /\ ~CheckHalt /\ ~Refused /\ ~Read
  BY <1>2 DEF Listed, CannotLook, HaltSeen, NextFile, FilesDone, NextDir, DirsDone, CheckHalt,
     Refused, Read, FileDone
<1>6. ASSUME NEW data, Overwrite(data), file.at \in {"send", "write"}
      PROVE  FALSE
  <2>1. file # NoFile
    BY <1>6 DEF NoFile
  <2>2. file.to \in Location /\ target[file.to].kind = "file"
    <3>1. Current
      BY <2>1 DEF CopyInv, FileOK
    <3>2. Begun
      BY <1>6, <3>1 DEF Current
    <3> QED
      BY <3>2 DEF Begun, File
  <2>3. p # file.to
    BY <2>2
  <2>4. target'[p] = target[p]
    BY <1>1, <1>6, <2>3 DEF Overwrite
  <2> QED
    BY <2>4
<1>7. ~Send
  BY <1>2, <1>6 DEF Send, At, FileDone
<1>8. ~Write
  BY <1>2, <1>6 DEF Write, At
<1>9. Open
  BY <1>4, <1>5, <1>7, <1>8 DEF CopyNext
<1>10. /\ target' = [target EXCEPT ![file.to] = File(<<>>)] /\ file.at = "open"
       /\ file' = [file EXCEPT !.at = "check"] /\ UNCHANGED stack
  BY <1>2, <1>9 DEF Open, At
<1>11. p = file.to
  BY <1>1, <1>10
<1> QED
  BY <1>9, <1>10, <1>11

\* What copies leave has names that copies do not change.
LEMMA CopySettles ==
  ASSUME CopyInv, WellFormed(source), Settled(target), CopyNext
  PROVE  Settled(target)'
<1> SUFFICES ASSUME NEW p \in Location, target'[p].kind = "file"
             PROVE  dest_path(p) = p /\ ~Ignored(Front(p))
  BY DEF Settled
<1>1. CASE target[p].kind = "file"
  BY <1>1 DEF Settled
<1>2. CASE target[p].kind # "file"
  <2>1. p = file.to /\ file.at = "open"
    BY <1>2, FilesAppear
  <2>2. file # NoFile
    BY <2>1 DEF NoFile
  <2>3. /\ p # Root /\ file.from \in Location /\ file.from # Root
        /\ Front(p) = Front(file.from) /\ Last(p) = dest_name(Last(file.from))
        /\ file.from \in AllFiles
    BY <2>1, <2>2, CurrentFile DEF CopiedFiles, AllFiles
  <2>4. ~Ignored(Front(p))
    BY <2>3 DEF CopiedFiles, AllFiles
  <2>5. Last(file.from) \in Name
    BY <2>3, PathParts
  <2>6. dest_name(Last(p)) = Last(p)
    BY <2>3, <2>5, NamesSettle
  <2>7. p = Append(Front(p), Last(p))
    BY <2>3, PathParts
  <2> QED
    BY <2>4, <2>6, <2>7 DEF dest_path
<1> QED
  BY <1>1, <1>2

\* Files are made in the order of their names.
MadeInOrder ==
  \A p \in Location : target[p] = Absent /\ target'[p].kind = "file" =>
    \A q \in InDir(Front(p)) : target[q].kind = "file" => Before(Last(q), Last(p))

LEMMA CopyIsOrdered ==
  ASSUME CopyInv, InOrder, WellFormed(source), Settled(source), CopyNext
  PROVE  MadeInOrder
<1> SUFFICES ASSUME NEW p \in Location, target[p] = Absent, target'[p].kind = "file",
                    NEW q \in InDir(Front(p)), target[q].kind = "file"
             PROVE  Before(Last(q), Last(p))
  BY DEF MadeInOrder
<1>1. p = file.to /\ file.at = "open"
  BY FilesAppear DEF Absent
<1>2. file # NoFile
  BY <1>1 DEF NoFile
<1>3. p = file.from
  BY <1>1, <1>2, CurrentFile DEF Settled, Current, IsFile
<1>4. q \in Location
  BY DEF InDir
<1>5. q # p
  BY DEF Absent
<1> QED
  BY <1>2, <1>3, <1>4, <1>5 DEF InOrder

\* A step of copy_directory.
LEMMA OrderStays ==
  ASSUME InOrder, source' = source,
         \A p \in Location : target'[p].kind = "file" => target[p].kind = "file",
         AllAwaited(stack)' \subseteq AllAwaited(stack), file' = NoFile,
         stack' # <<>> /\ Top'.at = "files" =>
           \A p \in Location : target[p].kind = "file" /\ p \in InDir(Top'.dir) =>
             \A n \in Top'.todo : Before(Last(p), n)
  PROVE  InOrder'
<1>1. AllFiles' = AllFiles /\ AllAwaited(stack)' = AllAwaited(stack')
  BY SteadyCalls
<1>2. file' = NoFile'
  BY DEF NoFile
<1>3. InDir(Top.dir)' = InDir(Top'.dir)
  BY DEF InDir
<1> QED
  BY <1>1, <1>2, <1>3 DEF InOrder

\* The innermost call goes on, said of what is awaited only.
LEMMA AwaitedGoesOn ==
  ASSUME CallsOK, source' = source, Running,
         NEW step \in Steps, NEW names, GoOn(step, names), names \subseteq Entries(Top.dir),
         Awaits(Frame(Top.dir, step, names)) \subseteq Awaits(Top)
  PROVE  /\ AllAwaited(stack)' \subseteq AllAwaited(stack)
         /\ stack' # <<>> /\ Top' = Frame(Top.dir, step, names)
<1> DEFINE f == Frame(Top.dir, step, names)
<1>1. stack # <<>> /\ stack \in Seq(Frames) /\ Apart(stack)
  BY DEF Running, CallsOK
<1>2. Top \in Frames /\ Top.dir \in Location /\ Top = stack[Len(stack)]
  BY <1>1, TopCall
<1>3. f \in Frames
  <2>1. names \subseteq {Last(p) : p \in Location \ {Root}}
    BY <1>2, PathEntry
  <2> QED
    BY <1>2, <2>1 DEF Frames, Frame
<1>4. stack' = WithLast(stack, f)
  BY DEF GoOn, Gone, Frame, WithLast
<1> DEFINE s == stack
           t == stack'
<1>5. s \in Seq(Frames) /\ s # <<>> /\ Apart(s)
  BY <1>1
<1>6. f \in Frames /\ Awaits(f) \subseteq Awaits(s[Len(s)])
  BY <1>2, <1>3
<1>7. t = WithLast(s, f)
  BY <1>4
<1> HIDE DEF s, t, f
<1>8. t # <<>> /\ Len(t) = Len(s) /\ t[Len(s)] = f /\ AllAwaited(t) \subseteq AllAwaited(s)
  BY <1>5, <1>6, <1>7, StackGoesOn
<1>9. Top' = f
  BY <1>8 DEF Top, t
<1> QED
  BY <1>8, <1>9, SteadyCalls DEF s, t, f

LEMMA CopyStaysInOrder ==
  ASSUME CopyInv, InOrder, source' = source, WellFormed(source), Settled(source), CopyNext
  PROVE  InOrder'
<1>1. CallsOK /\ FileOK /\ source' = source /\ WellFormed(target)
  BY DEF CopyInv
<1>2. ASSUME UNCHANGED target
      PROVE  \A p \in Location : target'[p].kind = "file" => target[p].kind = "file"
  BY <1>2
<1>3. ASSUME Fail, \A p \in Location : target'[p].kind = "file" => target[p].kind = "file"
      PROVE  InOrder'
  <2>1. stack' = <<>> /\ file' = NoFile
    BY <1>3 DEF Fail
  <2>2. AllAwaited(stack)' = {}
    BY <2>1 DEF AllAwaited, Calls
  <2> QED
    BY <1>1, <1>3, <2>1, <2>2, OrderStays
<1>4. ASSUME Return, Running, file = NoFile, UNCHANGED <<target, file, missed>>
      PROVE  InOrder'
  <2>1. /\ stack' # <<>> => Top'.at = "dirs"
        /\ AllAwaited(stack)' \subseteq AllAwaited(stack)
    BY <1>1, <1>4, CallReturns, TargetStays
  <2> QED
    BY <1>1, <1>2, <1>4, <2>1, OrderStays
<1>5. ASSUME Running, file = NoFile, file' = NoFile,
             NEW step \in {"listed", "files", "dirs"}, NEW names, GoOn(step, names),
             names \subseteq Entries(Top.dir),
             Awaits(Frame(Top.dir, step, names)) \subseteq Awaits(Top),
             \A p \in Location : target'[p].kind = "file" => target[p].kind = "file",
             step = "files" => \A p \in Location : target[p].kind = "file" /\ p \in InDir(Top.dir) =>
                                 \A n \in names : Before(Last(p), n)
      PROVE  InOrder'
  <2>1. step \in Steps
    BY DEF Steps
  <2>2. /\ AllAwaited(stack)' \subseteq AllAwaited(stack)
        /\ stack' # <<>> /\ Top' = Frame(Top.dir, step, names)
    BY <1>1, <1>5, <2>1, AwaitedGoesOn
  <2>3. Top'.at = step /\ Top'.dir = Top.dir /\ Top'.todo = names
    BY <2>2 DEF Frame
  <2> QED
    BY <1>1, <1>5, <2>2, <2>3, OrderStays
<1>6. ASSUME file # NoFile, FileDone, \A p \in Location : target'[p].kind = "file" => target[p].kind = "file"
      PROVE  InOrder'
  <2>1. Current /\ stack' = stack /\ file' = NoFile
    BY <1>1, <1>6 DEF FileOK, FileDone
  <2>2. AllAwaited(stack)' = AllAwaited(stack) /\ Top' = Top
    BY <1>1, <2>1, SteadyCalls DEF Top
  <2>3. \A p \in Location : target[p].kind = "file" /\ p \in InDir(Top.dir) =>
          \A n \in Top.todo : Before(Last(p), n)
    BY <2>1 DEF InOrder, Current
  <2> QED
    BY <1>1, <1>6, <2>1, <2>2, <2>3, OrderStays
<1>7. ASSUME file # NoFile, file' # NoFile, file'.from = file.from, file'.at # "open", stack' = stack,
             \A p \in Location : target'[p].kind = "file" => target[p].kind = "file" \/ p = file.from
      PROVE  InOrder'
  <2>1. Current /\ file.from \in AllFiles /\ file.from \notin AllAwaited(stack)
    BY <1>7, CurrentFile DEF Current, CopiedFiles
  <2>2. AllAwaited(stack)' = AllAwaited(stack) /\ Top' = Top /\ AllFiles' = AllFiles
        /\ NoFile' = NoFile
    BY <1>1, <1>7, SteadyCalls DEF Top, NoFile
  <2>3. InDir(Top.dir)' = InDir(Top.dir) /\ InDir(Front(file.from))' = InDir(Front(file.from))
    BY <1>7, <2>2 DEF InDir
  <2>4. \A n \in Top.todo : Before(Last(file.from), n)
    BY <1>7 DEF InOrder
  <2>5. ASSUME NEW p \in Location, target'[p].kind = "file"
        PROVE  /\ p \notin AllAwaited(stack) /\ p \in AllFiles
               /\ stack # <<>> /\ Top.at = "files" /\ p \in InDir(Top.dir) =>
                    \A n \in Top.todo : Before(Last(p), n)
               /\ p \in InDir(Front(file.from)) =>
                    p = file.from \/ Before(Last(p), Last(file.from))
    <3>1. CASE p = file.from
      BY <2>1, <2>4, <3>1
    <3>2. CASE p # file.from
      BY <1>7, <2>5, <3>2 DEF InOrder
    <3> QED
      BY <3>1, <3>2
  <2> QED
    BY <1>7, <2>2, <2>3, <2>4, <2>5 DEF InOrder
<1>8. ~Open => \A p \in Location : target'[p].kind = "file" => target[p].kind = "file"
  BY FilesAppear
<1>9. ASSUME NEW step \in FileSteps, At(step)
      PROVE  Current /\ file # NoFile /\ file.at = step /\ DOMAIN file = {"at", "from", "to", "pos"}
             /\ (step # "open" => ~Open)
  BY <1>1, <1>9 DEF At, FileOK, NoFile, FileSteps, Current, Open
<1>10. ASSUME Running, file = NoFile
       PROVE  /\ stack # <<>> /\ ~Open /\ Top.dir \in Location /\ FrameOK(Top)
              /\ Top = Frame(Top.dir, Top.at, Top.todo) /\ Top.todo \subseteq Entries(Top.dir)
              /\ Awaits(Top) \subseteq AllAwaited(stack)
  BY <1>1, <1>10, TopCall DEF Open, At, NoFile, Running
<1>11. CASE Enter
  <2>1. Running /\ file = NoFile /\ Top.at = "enter"
    BY <1>11 DEF Enter, AtStep
  <2>2. ASSUME NEW names, names \subseteq Entries(Top.dir), GoOn("listed", names), file' = NoFile
        PROVE  InOrder'
    <3>1. Awaits(Frame(Top.dir, "listed", names)) = Awaits(Top)
      BY <1>10, <2>1, AwaitsListed
    <3> QED
      BY <1>5, <1>8, <1>10, <2>1, <2>2, <3>1
  <2> QED
    BY <1>3, <1>4, <1>8, <1>10, <1>11, <2>1, <2>2 DEF Enter
<1>12. CASE Listed /\ UNCHANGED missed
  <2>1. Running /\ file = NoFile /\ Top.at = "listed" /\ UNCHANGED <<target, file>>
    BY <1>12 DEF Listed, AtStep
  <2>2. ASSUME GoOn("files", Top.todo)
        PROVE  InOrder'
    <3>1. Listing(Top.dir) \subseteq Top.todo /\ Top = Frame(Top.dir, "listed", Top.todo)
      BY <1>10, <2>1 DEF FrameOK, IsGiven, Listing
    <3>2. Awaits(Frame(Top.dir, "files", Top.todo)) \subseteq Awaits(Top)
      BY <1>10, <2>1, <3>1, AwaitsFiles
    <3>3. \A p \in InDir(Top.dir) : p \in Awaits(Top)
      BY <1>10, <2>1, PathInDir DEF Awaits
    <3>4. \A p \in Location : target[p].kind = "file" => p \notin InDir(Top.dir)
      BY <1>10, <2>1, <3>3 DEF InOrder
    <3> QED
      BY <1>2, <1>5, <1>10, <2>1, <2>2, <3>2, <3>4
  <2> QED
    BY <1>4, <1>12, <2>1, <2>2 DEF Listed
<1>13. CASE CannotLook
  BY <1>2, <1>3, <1>13 DEF CannotLook
<1>14. CASE HaltSeen /\ UNCHANGED missed
  BY <1>4, <1>14 DEF HaltSeen
<1>15. CASE NextFile
  <2>1. Running /\ file = NoFile /\ Top.at = "files" /\ UNCHANGED target
    BY <1>15 DEF NextFile, AtStep
  <2>2. PICK n \in Top.todo :
          /\ IsFirst(n, Top.todo) /\ GoOn("files", Top.todo \ {n})
          /\ file' = IF IsFile(Append(Top.dir, n))
                     THEN [at |-> "open", from |-> Append(Top.dir, n),
                           to |-> dest_path(Append(Top.dir, n)), pos |-> 0]
                     ELSE NoFile
    BY <1>15 DEF NextFile, IsFile
  <2> DEFINE names == Top.todo
             dir == Top.dir
             p == Append(dir, n)
  <2>3. /\ dir \in Location /\ names \subseteq Entries(dir) /\ n \in names
        /\ Awaits(Top) = Awaits(Frame(dir, "files", names)) /\ Awaits(Top) \subseteq AllAwaited(stack)
        /\ stack # <<>>
    BY <1>10, <2>1
  <2>4. /\ Awaits(Frame(dir, "files", names \ {n})) \subseteq Awaits(Top)
        /\ IsFile(p) => p \in Awaits(Top)
    <3> HIDE DEF names, dir
    <3>1. LET old == Awaits(Frame(dir, "files", names))
              new == Awaits(Frame(dir, "files", names \ {n}))
          IN  /\ new \subseteq old
              /\ IF IsFile(Append(dir, n)) THEN Append(dir, n) \in old ELSE new = old
      BY <2>3, AwaitsFile
    <3> QED
      BY <2>3, <3>1 DEF p
  <2>5. \A q \in Location : target[q].kind = "file" /\ q \in InDir(dir) =>
          \A m \in names : Before(Last(q), m)
    BY <2>1, <2>3 DEF InOrder
  <2>6. CASE ~IsFile(p)
    <3>1. file' = NoFile
      BY <2>2, <2>6
    <3> QED
      BY <1>2, <1>5, <2>1, <2>2, <2>3, <2>4, <2>5, <3>1
  <2>7. CASE IsFile(p)
    <3>1. p \in InDir(dir) /\ n \in Name
      BY <2>3, PathEntry
    <3>2. Front(p) = dir /\ Last(p) = n
      BY <2>3, <3>1, PathAppended
    <3>3. file'.from = p /\ Top' = Frame(dir, "files", names \ {n}) /\ stack' # <<>>
          /\ AllAwaited(stack)' \subseteq AllAwaited(stack)
      <4>1. file'.from = p /\ "files" \in Steps /\ names \ {n} \subseteq Entries(dir)
        BY <2>2, <2>3, <2>7 DEF Steps
      <4> QED
        BY <1>1, <2>1, <2>2, <2>3, <2>4, <4>1, AwaitedGoesOn
    <3>4. Top'.dir = dir /\ Top'.todo = names \ {n} /\ Top'.at = "files"
      BY <3>3 DEF Frame
    <3>5. \A m \in names \ {n} : Before(n, m)
      BY <2>2 DEF IsFirst
    <3>6. AllFiles' = AllFiles
      BY <1>1, SteadyCalls
    <3>7. ASSUME NEW q \in Location, target[q].kind = "file"
          PROVE  /\ q \notin AllAwaited(stack)' /\ q \in AllFiles'
                 /\ q \in InDir(dir) => \A m \in names : Before(Last(q), m)
                 /\ q # p
      BY <2>3, <2>4, <2>5, <2>7, <3>3, <3>6, <3>7 DEF InOrder
    <3> HIDE DEF names, dir, p
    <3>8. InDir(Top.dir)' = InDir(dir) /\ InDir(Front(file.from))' = InDir(dir)
      BY <3>2, <3>3, <3>4 DEF InDir
    <3> QED
      BY <2>1, <2>3, <3>2, <3>3, <3>4, <3>5, <3>7, <3>8 DEF InOrder
  <2> QED
    BY <2>6, <2>7
<1>16. CASE FilesDone
  <2>1. Running /\ file = NoFile /\ Top.at = "files" /\ Top.todo = {} /\ UNCHANGED <<target, file>>
        /\ GoOn("dirs", Listing(Top.dir)) /\ Listing(Top.dir) \subseteq Entries(Top.dir)
    BY <1>16 DEF FilesDone, AtStep, Listing
  <2>2. Awaits(Frame(Top.dir, "dirs", Listing(Top.dir))) \subseteq Awaits(Top)
    BY <1>10, <2>1, AwaitsDirs
  <2> QED
    BY <1>2, <1>5, <2>1, <2>2
<1>17. CASE NextDir /\ UNCHANGED missed
  <2>1. Running /\ file = NoFile /\ Top.at = "dirs" /\ UNCHANGED <<target, file, result>>
    BY <1>17 DEF NextDir, AtStep
  <2>2. PICK n \in Top.todo :
          stack' = IF source[Append(Top.dir, n)].kind = "dir"
                   THEN Append(Gone("dirs", Top.todo \ {n}), Call(Append(Top.dir, n)))
                   ELSE Gone("dirs", Top.todo \ {n})
    BY <1>17 DEF NextDir
  <2>3. CASE source[Append(Top.dir, n)].kind = "dir"
    <3>1. AllAwaited(stack)' \subseteq AllAwaited(stack) /\ Top' = Call(Append(Top.dir, n))
      BY <1>1, <1>17, <2>1, <2>2, <2>3, CallCalls, TargetStays
    <3>2. Top'.at = "enter"
      BY <3>1 DEF Call
    <3> QED
      BY <1>1, <1>2, <2>1, <3>1, <3>2, OrderStays
  <2>4. CASE source[Append(Top.dir, n)].kind # "dir"
    <3> DEFINE names == Top.todo
               rest == names \ {n}
    <3>1. GoOn("dirs", rest)
      BY <2>1, <2>2, <2>4 DEF GoOn
    <3>2. rest \subseteq Entries(Top.dir) /\ Top = Frame(Top.dir, "dirs", names)
      BY <1>10, <2>1
    <3>3. Awaits(Frame(Top.dir, "dirs", rest)) \subseteq Awaits(Top)
      BY <3>2 DEF Awaits, Frame
    <3> HIDE DEF names, rest
    <3> QED
      BY <1>2, <1>5, <2>1, <3>1, <3>2, <3>3
  <2> QED
    BY <2>3, <2>4
<1>18. CASE DirsDone /\ UNCHANGED missed
  BY <1>4, <1>18 DEF DirsDone, AtStep
<1>19. CASE Open
  <2>1. Current /\ file # NoFile /\ file.at = "open" /\ DOMAIN file = {"at", "from", "to", "pos"}
    BY <1>9, <1>19 DEF Open, FileSteps
  <2>2. file.to = file.from
    BY <2>1 DEF Current, Settled, IsFile
  <2>3. ASSUME file' = [file EXCEPT !.at = "check"], UNCHANGED stack
        PROVE  InOrder'
    <3>1. \A p \in Location : target'[p].kind = "file" => target[p].kind = "file" \/ p = file.from
      BY <2>2, FilesAppear
    <3>2. file'.from = file.from /\ file'.at = "check" /\ file' # NoFile
      BY <2>1, <2>3 DEF NoFile
    <3> QED
      BY <1>7, <2>1, <2>3, <3>1, <3>2
  <2> QED
    BY <1>2, <1>3, <1>19, <2>1, <2>3 DEF Open
<1>20. ASSUME NEW step \in FileSteps \ {"open"}, At(step),
              NEW next \in FileSteps \ {"open"}, stack' = stack,
              file' = [file EXCEPT !.at = next] \/ \E pos : file' = [file EXCEPT !.at = next, !.pos = pos]
       PROVE  InOrder'
  <2>1. /\ file # NoFile /\ DOMAIN file = {"at", "from", "to", "pos"} /\ ~Open
    BY <1>9, <1>20
  <2>2. next # "none" /\ next # "open"
    BY DEF FileSteps
  <2>3. file'.from = file.from /\ file'.at = next /\ file' # NoFile
    <3>1. ASSUME file' = [file EXCEPT !.at = next] PROVE file'.from = file.from /\ file'.at = next
      BY <2>1, <3>1
    <3>2. ASSUME NEW pos, file' = [file EXCEPT !.at = next, !.pos = pos]
          PROVE  file'.from = file.from /\ file'.at = next
      BY <2>1, <3>2
    <3>3. file'.from = file.from /\ file'.at = next
      BY <1>20, <3>1, <3>2
    <3> QED
      BY <2>2, <3>3 DEF NoFile
  <2> QED
    BY <1>7, <1>8, <1>20, <2>1, <2>2, <2>3
<1>21. {"check", "send", "read", "write"} = FileSteps \ {"open"}
  BY DEF FileSteps
<1>22. CASE CheckHalt
  <2>1. At("check") /\ file # NoFile /\ ~Open
    BY <1>9, <1>21, <1>22 DEF CheckHalt
  <2> QED
    BY <1>6, <1>8, <1>20, <1>21, <1>22, <2>1 DEF CheckHalt
<1>23. CASE Send
  <2>1. At("send") /\ file # NoFile /\ ~Open
    BY <1>9, <1>21, <1>23 DEF Send
  <2> QED
    BY <1>3, <1>6, <1>8, <1>20, <1>21, <1>23, <2>1 DEF Send
<1>24. CASE Refused
  BY <1>20, <1>21, <1>24 DEF Refused
<1>25. CASE Read
  <2>1. At("read") /\ file # NoFile /\ ~Open
    BY <1>9, <1>21, <1>25 DEF Read
  <2> QED
    BY <1>3, <1>6, <1>8, <1>20, <1>21, <1>25, <2>1 DEF Read
<1>26. CASE Write
  <2>1. At("write") /\ file # NoFile /\ ~Open
    BY <1>9, <1>21, <1>26 DEF Write
  <2> QED
    BY <1>3, <1>8, <1>20, <1>21, <1>26, <2>1 DEF Write
<1> QED
  BY <1>11, <1>12, <1>13, <1>14, <1>15, <1>16, <1>17, <1>18, <1>19, <1>22, <1>23, <1>24, <1>25,
     <1>26 DEF CopyNext

\* There is no file on the target when it begins.
LEMMA OrderBegins ==
  ASSUME \A p \in Location : target'[p].kind # "file", file' = NoFile
  PROVE  InOrder'
<1>1. file' = NoFile'
  BY DEF NoFile
<1> QED
  BY <1>1 DEF InOrder

LEMMA OrderRests ==
  ASSUME InOrder, UNCHANGED <<source, copyVars>>
  PROVE  InOrder'
<1>1. UNCHANGED <<source, target, stack, file>>
  BY DEF copyVars
<1>2. AllAwaited(stack)' = AllAwaited(stack) /\ AllFiles' = AllFiles
  BY <1>1, SteadyCalls
<1>3. NoFile' = NoFile /\ Top' = Top /\ InDir(Top.dir)' = InDir(Top.dir)
      /\ InDir(Front(file.from))' = InDir(Front(file.from))
  BY <1>1 DEF NoFile, Top, InDir
<1> QED
  BY <1>1, <1>2, <1>3 DEF InOrder
=============================================================================
