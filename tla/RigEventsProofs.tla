-------------------------- MODULE RigEventsProofs --------------------------
(***************************************************************************)
(* Proofs about RigEvents, for any number of events, batches, deaths and   *)
(* lost exchanges: the types; that a page alone at its journal keeps its   *)
(* promise, and that its path implements LedgerDelivery; that the mark     *)
(* follows the answers.                                                    *)
(***************************************************************************)
EXTENDS RigEvents, FiniteSetTheorems, SequenceTheorems, TLAPS

-----------------------------------------------------------------------------
(* The file and its replay.                                                *)

\* The events are finitely many, and so is every set of them.
LEMMA EventFinite ==
  ASSUME NEW S \in SUBSET Event
  PROVE  IsFiniteSet(S) /\ Cardinality(S) \in Nat
<1>1. IsFiniteSet(Event)
  BY FS_Interval, BoundsAssumption DEF Event
<1>2. QED
  BY <1>1, FS_Subset, FS_CardinalityType

\* What a line puts into the replay, and what it takes out of it.
Puts(line) == IF line.op = "put" THEN line.ids ELSE {}
Dels(line) == IF line.op = "del" THEN line.ids ELSE {}

LEMMA LiveAppend ==
  ASSUME NEW f \in Seq(Line), NEW line \in Line
  PROVE  Live(Append(f, line)) = (Live(f) \ Dels(line)) \cup Puts(line)
<1> DEFINE g == Append(f, line)
<1>1. /\ Len(g) = Len(f) + 1 /\ g \in Seq(Line)
      /\ \A i \in 1..Len(f) : g[i] = f[i]
      /\ g[Len(f) + 1] = line
      /\ DOMAIN f = 1..Len(f) /\ DOMAIN g = 1..(Len(f) + 1) /\ Len(f) \in Nat
  BY AppendProperties, LenProperties
<1> HIDE DEF g
<1>2. ASSUME NEW e \in Live(f), e \notin Dels(line)
      PROVE  e \in Live(g)
  <2>1. PICK i \in DOMAIN f :
          /\ f[i].op = "put" /\ e \in f[i].ids
          /\ \A j \in DOMAIN f : j > i /\ f[j].op = "del" => e \notin f[j].ids
    BY <1>2 DEF Live
  <2>2. i \in DOMAIN g /\ g[i].op = "put" /\ e \in g[i].ids
    BY <1>1, <2>1
  <2>3. ASSUME NEW j \in DOMAIN g, j > i, g[j].op = "del"
        PROVE  e \notin g[j].ids
    <3>1. CASE j \in 1..Len(f)
      BY <1>1, <2>1, <2>3, <3>1
    <3>2. CASE j = Len(f) + 1
      BY <1>1, <1>2, <2>3, <3>2 DEF Dels
    <3>3. QED
      BY <1>1, <3>1, <3>2
  <2>4. QED
    BY <1>2, <2>2, <2>3 DEF Live
<1>3. ASSUME NEW e \in Puts(line)
      PROVE  e \in Live(g)
  <2>1. e \in Event /\ line.op = "put" /\ e \in line.ids
    BY <1>3 DEF Line, Puts
  <2>2. g[Len(f) + 1].op = "put" /\ e \in g[Len(f) + 1].ids
    BY <1>1, <2>1
  <2>3. \A j \in DOMAIN g : ~(j > Len(f) + 1)
    BY <1>1
  <2>4. QED
    BY <1>1, <2>1, <2>2, <2>3 DEF Live
<1>4. ASSUME NEW e \in Live(g), e \notin Puts(line)
      PROVE  e \in Live(f) \ Dels(line)
  <2>1. PICK i \in DOMAIN g :
          /\ g[i].op = "put" /\ e \in g[i].ids
          /\ \A j \in DOMAIN g : j > i /\ g[j].op = "del" => e \notin g[j].ids
    BY <1>4 DEF Live
  <2>2. i \in 1..Len(f)
    BY <1>1, <1>4, <2>1 DEF Puts
  <2>3. \A j \in DOMAIN f : j \in DOMAIN g /\ g[j] = f[j]
    BY <1>1
  <2>4. e \in Live(f)
    BY <1>1, <1>4, <2>1, <2>2, <2>3 DEF Live
  <2>5. Len(f) + 1 \in DOMAIN g /\ Len(f) + 1 > i
    BY <1>1, <2>2
  <2>6. QED
    BY <1>1, <2>1, <2>4, <2>5 DEF Dels
<1>5. QED
  BY <1>2, <1>3, <1>4 DEF g

\* The last line of a file, and another one in its place.
LEMMA EndOfFile ==
  ASSUME NEW f \in Seq(Line), f # <<>>
  PROVE  /\ AllButLast(f) \in Seq(Line) /\ f[Len(f)] \in Line
         /\ Len(f) \in Nat \ {0} /\ Len(AllButLast(f)) = Len(f) - 1
         /\ f = Append(AllButLast(f), f[Len(f)])
         /\ \A x \in Line : [f EXCEPT ![Len(f)] = x] = Append(AllButLast(f), x)
<1> DEFINE F == AllButLast(f)
<1>1. Len(f) \in Nat \ {0} /\ DOMAIN f = 1..Len(f) /\ \A i \in 1..Len(f) : f[i] \in Line
  BY EmptySeq, LenProperties
<1>2. /\ F \in Seq(Line) /\ Len(F) = Len(f) - 1
      /\ \A i \in 1..(Len(f) - 1) : F[i] = f[i]
  <2>1. 1 \in Int /\ Len(f) - 1 \in Int /\ \A i \in 1..(Len(f) - 1) : f[i] \in Line
    BY <1>1
  <2>2. QED
    BY <1>1, <2>1, SubSeqProperties DEF AllButLast
<1> HIDE DEF F
<1>3. ASSUME NEW x \in Line
      PROVE  [f EXCEPT ![Len(f)] = x] = Append(F, x)
  <2> DEFINE g == [f EXCEPT ![Len(f)] = x]
             h == Append(F, x)
  <2>1. /\ g \in Seq(Line) /\ DOMAIN g = 1..Len(f) /\ Len(g) = Len(f)
        /\ \A i \in 1..Len(f) : g[i] = IF i = Len(f) THEN x ELSE f[i]
    BY <1>1, ExceptSeq
  <2>2. /\ h \in Seq(Line) /\ Len(h) = Len(f) /\ DOMAIN h = 1..Len(f)
        /\ \A i \in 1..(Len(f) - 1) : h[i] = f[i]
        /\ h[Len(f)] = x
    <3>1. /\ h \in Seq(Line) /\ Len(h) = Len(F) + 1 /\ h[Len(F) + 1] = x
          /\ \A i \in 1..Len(F) : h[i] = F[i]
      BY <1>2, AppendProperties
    <3>2. Len(F) + 1 = Len(f) /\ Len(F) = Len(f) - 1
      BY <1>1, <1>2
    <3>3. DOMAIN h = 1..Len(h)
      BY <3>1, LenProperties
    <3> HIDE DEF h
    <3>4. QED
      BY <1>2, <3>1, <3>2, <3>3
  <2> HIDE DEF g, h
  <2>3. ASSUME NEW i \in 1..Len(f)
        PROVE  g[i] = h[i]
    <3>1. i = Len(f) \/ i \in 1..(Len(f) - 1)
      <4>1. Len(f) \in Nat /\ i \in Nat /\ 1 <= i /\ i <= Len(f)
        BY <1>1, <2>3
      <4>2. QED
        BY <4>1
    <3>2. CASE i = Len(f)
      BY <2>1, <2>2, <3>2
    <3>3. CASE i # Len(f)
      BY <2>1, <2>2, <3>1, <3>3
    <3>4. QED
      BY <3>2, <3>3
  <2>4. g = h
    BY <1>1, <2>1, <2>2, <2>3, SeqEqual
  <2>5. QED
    BY <2>4 DEF g, h
<1>4. f = Append(F, f[Len(f)])
  <2>1. f = [f EXCEPT ![Len(f)] = f[Len(f)]]
    OBVIOUS
  <2>2. f[Len(f)] \in Line
    BY <1>1
  <2>3. [f EXCEPT ![Len(f)] = f[Len(f)]] = Append(F, f[Len(f)])
    BY <1>3, <2>2
  <2>4. QED
    BY <2>1, <2>3
<1>6. f[Len(f)] \in Line
  BY <1>1
<1>5. QED
  BY <1>1, <1>2, <1>3, <1>4, <1>6 DEF F

LEMMA EndOfAppend ==
  ASSUME NEW f \in Seq(Line), NEW x \in Line
  PROVE  /\ Append(f, x) \in Seq(Line) /\ Append(f, x) # <<>>
         /\ Append(f, x)[Len(Append(f, x))] = x
         /\ AllButLast(Append(f, x)) = f
         /\ OpenTail(Append(f, x)) <=> x.open
         /\ WholeTail(Append(f, x)) <=> x.open /\ x.op = "put"
<1> DEFINE g == Append(f, x)
<1>1. /\ g \in Seq(Line) /\ Len(g) = Len(f) + 1 /\ g[Len(f) + 1] = x
      /\ \A i \in 1..Len(f) : g[i] = f[i]
      /\ Len(f) \in Nat
  BY AppendProperties, LenProperties
<1> HIDE DEF g
<1>2. g # <<>>
  BY <1>1, EmptySeq
<1>3. AllButLast(g) = f
  <2>1. /\ AllButLast(g) \in Seq(Line) /\ Len(AllButLast(g)) = Len(f)
    BY <1>1, <1>2, EndOfFile
  <2>2. \A i \in 1..Len(f) : AllButLast(g)[i] = f[i]
    <3>1. 1 \in Int /\ Len(f) \in Int /\ \A i \in 1..Len(f) : g[i] \in Line
      BY <1>1, LenProperties
    <3>2. \A i \in 1..Len(f) : SubSeq(g, 1, Len(f))[i] = g[i]
      BY <1>1, <3>1, SubSeqProperties
    <3>3. Len(g) - 1 = Len(f)
      BY <1>1
    <3>4. QED
      BY <1>1, <3>2, <3>3 DEF AllButLast
  <2>3. QED
    BY <2>1, <2>2, SeqEqual
<1>4. QED
  BY <1>1, <1>2, <1>3 DEF g, OpenTail, WholeTail

\* Two lines of which nothing can be read.
LEMMA JunkLines ==
  /\ {Junk, Bytes, Opened(Junk), Opened(Bytes)} \subseteq Line
  /\ \A x \in {Junk, Bytes, Opened(Junk), Opened(Bytes)} :
       Puts(x) = {} /\ Dels(x) = {} /\ x.op \in {"junk", "bytes"}
  /\ ~Junk.open /\ ~Bytes.open
<1>1. Opened(Junk) = [op |-> "junk", ids |-> {}, open |-> TRUE]
  BY DEF Opened, Junk
<1>2. Opened(Bytes) = [op |-> "bytes", ids |-> {}, open |-> TRUE]
  BY DEF Opened, Bytes
<1>3. \A o \in {"junk", "bytes"}, b \in BOOLEAN : 
        LET x == [op |-> o, ids |-> {}, open |-> b] IN
          x \in Line /\ Puts(x) = {} /\ Dels(x) = {} /\ x.op \in {"junk", "bytes"}
  BY DEF Line, Puts, Dels
<1>4. QED
  BY <1>1, <1>2, <1>3 DEF Junk, Bytes

\* Where a write lands: in the place of an open line, or behind the file -
\* whole, or only its beginning, or all but its newline.
LEMMA WriteLands ==
  ASSUME NEW f \in Seq(Line), NEW line \in Line,
         NEW g \in {Appended(f, line)} \cup Fragments(f, line)
  PROVE  /\ g \in Seq(Line)
         /\ OpenTail(f) =>
              \E x \in Line : /\ g = Append(AllButLast(f), x)
                              /\ x.op \in {"junk", "bytes"}
                              /\ g = Appended(f, line) => ~x.open
         /\ ~OpenTail(f) =>
              \E x \in Line : /\ g = Append(f, x)
                              /\ \/ x.op \in {"junk", "bytes"}
                                 \/ x.op = line.op /\ x.ids = line.ids
                              /\ g = Appended(f, line) => x = line
<1>1. CASE OpenTail(f)
  <2>1. f # <<>>
    BY <1>1 DEF OpenTail
  <2>2. PICK t \in {Junk, Opened(Junk), Opened(Bytes)} :
          g = Glued(f, t) /\ (g = Appended(f, line) => g = Glued(f, Junk))
    BY <1>1 DEF Appended, Fragments, Tears
  <2>3. \A y \in {Junk, Opened(Junk), Opened(Bytes)} :
          [op |-> "bytes", ids |-> {}, open |-> y.open] \in Line
    <3>1. ASSUME NEW y \in {Junk, Opened(Junk), Opened(Bytes)}
          PROVE  y.open \in BOOLEAN
      BY JunkLines DEF Line
    <3>3. \A b \in BOOLEAN : [op |-> "bytes", ids |-> {}, open |-> b] \in Line
      BY DEF Line
    <3>4. QED
      BY <3>1, <3>3
  <2>4. ASSUME NEW y \in {Junk, Opened(Junk), Opened(Bytes)}
        PROVE  \E x \in Line : /\ Glued(f, y) = Append(AllButLast(f), x)
                               /\ x.op \in {"junk", "bytes"} /\ x.open = y.open
    <3> DEFINE x == IF f[Len(f)].op = "bytes"
                   THEN [op |-> "bytes", ids |-> {}, open |-> y.open] ELSE y
    <3>1. x \in Line /\ x.op \in {"junk", "bytes"} /\ x.open = y.open
      BY <2>3, JunkLines
    <3>2. Glued(f, y) = [f EXCEPT ![Len(f)] = x]
      BY DEF Glued
    <3> HIDE DEF x
    <3>3. QED
      BY <2>1, <3>1, <3>2, EndOfFile
  <2>5. \E x \in Line : /\ g = Append(AllButLast(f), x)
                        /\ x.op \in {"junk", "bytes"}
                        /\ g = Appended(f, line) => ~x.open
    <3>1. CASE g = Appended(f, line)
      <4>1. g = Glued(f, Junk)
        BY <2>2, <3>1
      <4>2. PICK x \in Line : /\ Glued(f, Junk) = Append(AllButLast(f), x)
                             /\ x.op \in {"junk", "bytes"} /\ x.open = Junk.open
        BY <2>4
      <4>3. ~x.open
        BY <4>2, JunkLines
      <4>4. QED
        BY <4>1, <4>2, <4>3
    <3>2. CASE g # Appended(f, line)
      <4>1. PICK x \in Line : /\ Glued(f, t) = Append(AllButLast(f), x)
                             /\ x.op \in {"junk", "bytes"} /\ x.open = t.open
        BY <2>4
      <4>2. QED
        BY <2>2, <3>2, <4>1
    <3>3. QED
      BY <3>1, <3>2
  <2>6. AllButLast(f) \in Seq(Line)
    BY <2>1, EndOfFile
  <2>7. g \in Seq(Line)
    BY <2>5, <2>6, EndOfAppend
  <2>8. QED
    BY <1>1, <2>5, <2>7
<1>2. CASE ~OpenTail(f)
  <2>1. Opened(line) \in Line /\ Opened(line).op = line.op /\ Opened(line).ids = line.ids
    BY DEF Opened, Line
  <2>2. CASE g = Appended(f, line)
    <3>1. g = Append(f, line)
      BY <1>2, <2>2 DEF Appended
    <3>2. QED
      BY <1>2, <3>1, EndOfAppend
  <2>3. CASE g # Appended(f, line)
    <3>1. PICK x \in {Opened(Junk), Opened(Bytes), Opened(line)} : g = Append(f, x)
      BY <1>2, <2>3 DEF Fragments, Tears
    <3>2. x \in Line /\ (x.op \in {"junk", "bytes"} \/ (x.op = line.op /\ x.ids = line.ids))
      BY <2>1, <3>1, JunkLines
    <3>3. g \in Seq(Line)
      BY <3>1, <3>2, EndOfAppend
    <3>4. QED
      BY <1>2, <2>3, <3>1, <3>2, <3>3
  <2>4. QED
    BY <2>2, <2>3
<1>3. QED
  BY <1>1, <1>2

\* What a write does to the replay, where the last line has its newline, and
\* where the write spoils it.
LEMMA LiveWritten ==
  ASSUME NEW f \in Seq(Line), NEW line \in Line,
         NEW g \in {Appended(f, line)} \cup Fragments(f, line)
  PROVE  /\ g \in Seq(Line)
         /\ ~OpenTail(f) =>
              /\ Live(g) \in {Live(f), (Live(f) \ Dels(line)) \cup Puts(line)}
              /\ g = Appended(f, line) => Live(g) = (Live(f) \ Dels(line)) \cup Puts(line)
         /\ OpenTail(f) => Live(g) = Live(AllButLast(f))
<1>1. CASE OpenTail(f)
  <2>1. PICK x \in Line : g = Append(AllButLast(f), x) /\ x.op \in {"junk", "bytes"}
    BY <1>1, WriteLands
  <2>2. AllButLast(f) \in Seq(Line)
    BY <1>1, EndOfFile DEF OpenTail
  <2>3. Puts(x) = {} /\ Dels(x) = {}
    BY <2>1 DEF Puts, Dels
  <2>4. Live(g) = (Live(AllButLast(f)) \ Dels(x)) \cup Puts(x) /\ g \in Seq(Line)
    BY <2>1, <2>2, LiveAppend, EndOfAppend
  <2>5. QED
    BY <1>1, <2>3, <2>4
<1>2. CASE ~OpenTail(f)
  <2>1. PICK x \in Line : /\ g = Append(f, x)
                          /\ \/ x.op \in {"junk", "bytes"}
                             \/ x.op = line.op /\ x.ids = line.ids
                          /\ g = Appended(f, line) => x = line
    BY <1>2, WriteLands
  <2>2. Live(g) = (Live(f) \ Dels(x)) \cup Puts(x) /\ g \in Seq(Line)
    BY <2>1, LiveAppend, EndOfAppend
  <2>3. \/ Dels(x) = {} /\ Puts(x) = {}
        \/ Dels(x) = Dels(line) /\ Puts(x) = Puts(line)
    BY <2>1 DEF Dels, Puts
  <2>4. Live(g) \in {Live(f), (Live(f) \ Dels(line)) \cup Puts(line)}
    BY <2>2, <2>3
  <2>5. g = Appended(f, line) => Live(g) = (Live(f) \ Dels(line)) \cup Puts(line)
    BY <2>1, <2>2
  <2>6. QED
    BY <1>2, <2>2, <2>4, <2>5
<1>3. QED
  BY <1>1, <1>2

\* An open last line accounts for what the replay has beyond the others.
LEMMA LiveOpen ==
  ASSUME NEW f \in Seq(Line), OpenTail(f)
  PROVE  Live(f) = (Live(AllButLast(f)) \ Dels(f[Len(f)])) \cup Puts(f[Len(f)])
BY EndOfFile, LiveAppend DEF OpenTail

\* Every event of a replay comes from a line that put it, and no line puts two.
LEMMA LiveIsShort ==
  ASSUME NEW f \in Seq(Line),
         \A i \in DOMAIN f : f[i].op = "put" => \E e \in Event : f[i].ids = {e}
  PROVE  Cardinality(Live(f)) <= Len(f)
<1> DEFINE n == Len(f)
           I == {i \in 1..n : f[i].op = "put" /\ f[i].ids \subseteq Live(f)}
           g == [i \in I |-> CHOOSE e \in Event : f[i].ids = {e}]
<1>1. Len(f) \in Nat /\ DOMAIN f = 1..Len(f)
  BY LenProperties
<1>2. IsFiniteSet(I) /\ Cardinality(I) <= n
  <2>1. IsFiniteSet(1..n) /\ Cardinality(1..n) = n /\ n \in Nat
    BY <1>1, FS_Interval
  <2>2. I \in SUBSET (1..n)
    OBVIOUS
  <2>3. QED
    BY <2>1, <2>2, FS_Subset
<1>3. g \in Surjection(I, Live(f))
  <2>1. ASSUME NEW i \in I
        PROVE  g[i] \in Live(f) /\ f[i].ids = {g[i]}
    <3>1. i \in DOMAIN f /\ f[i].op = "put" /\ f[i].ids \subseteq Live(f)
      BY <1>1, <2>1
    <3>2. PICK e \in Event : f[i].ids = {e}
      BY <3>1
    <3>3. f[i].ids = {g[i]}
      BY <2>1, <3>2
    <3>4. QED
      BY <3>1, <3>3
  <2>2. ASSUME NEW e \in Live(f)
        PROVE  \E i \in I : g[i] = e
    <3>1. PICK i \in DOMAIN f : f[i].op = "put" /\ e \in f[i].ids
      BY <2>2 DEF Live
    <3>2. PICK d \in Event : f[i].ids = {d}
      BY <3>1
    <3>3. i \in I
      BY <1>1, <2>2, <3>1, <3>2
    <3>4. QED
      BY <2>1, <3>1, <3>3
  <2>3. g \in [I -> Live(f)]
    BY <2>1
  <2>4. QED
    BY <2>2, <2>3 DEF Surjection
<1>4. Cardinality(Live(f)) <= Cardinality(I)
  BY <1>2, <1>3, FS_Surjection
<1>5. Live(f) \in SUBSET Event
  BY DEF Live
<1>6. Cardinality(Live(f)) \in Nat /\ Cardinality(I) \in Nat
  BY <1>2, <1>5, EventFinite, FS_CardinalityType
<1>7. QED
  BY <1>1, <1>2, <1>4, <1>6

\* And a last line that puts none makes the replay shorter than the file.
LEMMA TornIsShort ==
  ASSUME NEW f \in Seq(Line), f # <<>>, f[Len(f)].op # "put",
         \A i \in DOMAIN f : f[i].op = "put" => \E e \in Event : f[i].ids = {e}
  PROVE  Cardinality(Live(f)) < Len(f)
<1> DEFINE n == Len(f) - 1
           I == {i \in 1..n : f[i].op = "put" /\ f[i].ids \subseteq Live(f)}
           g == [i \in I |-> CHOOSE e \in Event : f[i].ids = {e}]
<1>1. Len(f) \in Nat \ {0} /\ DOMAIN f = 1..Len(f) /\ f[Len(f)].op # "put"
  BY EmptySeq, LenProperties
<1>2. IsFiniteSet(I) /\ Cardinality(I) <= n
  <2>1. IsFiniteSet(1..n) /\ Cardinality(1..n) = n /\ n \in Nat
    BY <1>1, FS_Interval
  <2>2. I \in SUBSET (1..n)
    OBVIOUS
  <2>3. QED
    BY <2>1, <2>2, FS_Subset
<1>3. g \in Surjection(I, Live(f))
  <2>1. ASSUME NEW i \in I
        PROVE  g[i] \in Live(f) /\ f[i].ids = {g[i]}
    <3>1. i \in DOMAIN f /\ f[i].op = "put" /\ f[i].ids \subseteq Live(f)
      BY <1>1, <2>1
    <3>2. PICK e \in Event : f[i].ids = {e}
      BY <3>1
    <3>3. f[i].ids = {g[i]}
      BY <2>1, <3>2
    <3>4. QED
      BY <3>1, <3>3
  <2>2. ASSUME NEW e \in Live(f)
        PROVE  \E i \in I : g[i] = e
    <3>1. PICK i \in DOMAIN f : f[i].op = "put" /\ e \in f[i].ids
      BY <2>2 DEF Live
    <3>2. PICK d \in Event : f[i].ids = {d}
      BY <3>1
    <3>3. i \in I
      BY <1>1, <2>2, <3>1, <3>2
    <3>4. QED
      BY <2>1, <3>1, <3>3
  <2>3. g \in [I -> Live(f)]
    BY <2>1
  <2>4. QED
    BY <2>2, <2>3 DEF Surjection
<1>4. Cardinality(Live(f)) <= Cardinality(I)
  BY <1>2, <1>3, FS_Surjection
<1>5. Live(f) \in SUBSET Event
  BY DEF Live
<1>6. Cardinality(Live(f)) \in Nat /\ Cardinality(I) \in Nat
  BY <1>2, <1>5, EventFinite, FS_CardinalityType
<1>7. QED
  BY <1>1, <1>2, <1>4, <1>6

\* What `sort_by_key' returns: the events themselves, each once.
LEMMA SeqOrdersType ==
  ASSUME NEW S \in SUBSET Event, NEW s \in SeqOrders(S)
  PROVE  s \in Seq(Event) /\ Range(s) = S /\ Len(s) = Cardinality(S)
<1>1. Cardinality(S) \in Nat
  BY EventFinite
<1>2. s \in [1..Cardinality(S) -> S] /\ Range(s) = S
  BY DEF SeqOrders
<1>3. s \in Seq(S) /\ Len(s) = Cardinality(S)
  BY <1>1, <1>2
<1>4. s \in Seq(Event)
  BY <1>3, SeqMonotonic
<1>5. QED
  BY <1>2, <1>3, <1>4

LEMMA LivePutLines ==
  ASSUME NEW s \in Seq(Event)
  PROVE  /\ PutLines(s) \in Seq(Line)
         /\ Live(PutLines(s)) = Range(s)
         /\ ~OpenTail(PutLines(s)) /\ Readable(PutLines(s))
         /\ \A i \in DOMAIN PutLines(s) : PutLines(s)[i] = Put(s[i])
<1> DEFINE f == PutLines(s)
<1>1. DOMAIN s = 1..Len(s) /\ Len(s) \in Nat /\ \A i \in 1..Len(s) : s[i] \in Event
  BY LenProperties
<1>2. f = [i \in 1..Len(s) |-> Put(s[i])]
  BY <1>1 DEF PutLines
<1>3. \A i \in 1..Len(s) : 
        f[i] \in Line /\ f[i].op = "put" /\ f[i].ids = {s[i]} /\ ~f[i].open
  BY <1>1, <1>2 DEF Put, Line
<1>4. f \in Seq(Line) /\ Len(f) = Len(s) /\ DOMAIN f = 1..Len(s)
  BY <1>1, <1>2, <1>3
<1> HIDE DEF f
<1>5. Live(f) = Range(s)
  <2>1. ASSUME NEW e \in Live(f)
        PROVE  e \in Range(s)
    <3>1. PICK i \in DOMAIN f : f[i].op = "put" /\ e \in f[i].ids
      BY <2>1 DEF Live
    <3>2. QED
      BY <1>1, <1>3, <1>4, <3>1 DEF Range
  <2>2. ASSUME NEW e \in Range(s)
        PROVE  e \in Live(f)
    <3>1. PICK i \in 1..Len(s) : e = s[i]
      BY <1>1, <2>2 DEF Range
    <3>2. e \in Event /\ i \in DOMAIN f /\ f[i].op = "put" /\ e \in f[i].ids
      BY <1>1, <1>3, <1>4, <3>1
    <3>3. \A j \in DOMAIN f : f[j].op # "del"
      BY <1>3, <1>4
    <3>4. QED
      BY <3>2, <3>3 DEF Live
  <2>3. QED
    BY <2>1, <2>2
<1>6. ~OpenTail(f) /\ Readable(f)
  <2>1. f # <<>> => Len(f) \in 1..Len(s)
    BY <1>4, EmptySeq
  <2>2. ~OpenTail(f)
    BY <1>3, <2>1 DEF OpenTail
  <2>3. Readable(f)
    BY <1>3, <1>4 DEF Readable
  <2>4. QED
    BY <2>2, <2>3
<1>7. QED
  BY <1>2, <1>4, <1>5, <1>6 DEF f

\* Compaction by the process that just replayed the file loses nothing of
\* what it keeps, and leaves no open line but a whole record.
LEMMA CompactedKeeps ==
  ASSUME NEW f \in Seq(Line), Single(f), NEW S \in SUBSET Live(f),
         NEW order \in SeqOrders(S)
  PROVE  \/ /\ Compacted(f, Len(f), order) = f
            /\ OpenTail(f) => WholeTail(f)
            /\ Live(f) = S
         \/ /\ Compacted(f, Len(f), order) = PutLines(order)
            /\ PutLines(order) \in Seq(Line)
            /\ Live(PutLines(order)) = S
            /\ ~OpenTail(PutLines(order)) /\ Readable(PutLines(order))
<1>1. Live(f) \in SUBSET Event /\ S \in SUBSET Event
  BY DEF Live
<1>2. order \in Seq(Event) /\ Range(order) = S /\ Len(order) = Cardinality(S)
  BY <1>1, SeqOrdersType
<1>3. CASE Len(order) = Len(f)
  <2>0. /\ Cardinality(S) <= Cardinality(Live(f))
        /\ Cardinality(S) = Cardinality(Live(f)) => S = Live(f)
    BY <1>1, EventFinite, FS_Subset
  <2>1. Cardinality(Live(f)) <= Len(f)
    BY LiveIsShort DEF Single
  <2>2. Live(f) = S
    BY <1>1, <1>2, <1>3, <2>0, <2>1, EventFinite
  <2>3. OpenTail(f) => WholeTail(f)
    <3>1. SUFFICES ASSUME OpenTail(f), ~WholeTail(f) PROVE FALSE
      OBVIOUS
    <3>2. Cardinality(Live(f)) < Len(f)
      BY <3>1, TornIsShort DEF Single, OpenTail, WholeTail
    <3>3. Len(f) \in Nat /\ Cardinality(Live(f)) = Len(f)
      BY <1>2, <1>3, <2>2, LenProperties
    <3>4. QED
      BY <3>2, <3>3
  <2>4. QED
    BY <1>3, <2>2, <2>3 DEF Compacted
<1>4. CASE Len(order) # Len(f)
  BY <1>2, <1>4, LivePutLines DEF Compacted
<1>5. QED
  BY <1>3, <1>4

-----------------------------------------------------------------------------
(* The service and the senders.                                            *)

\* What ingest inserts: the events of the batch the ledger lacks, each once.
LEMMA InsertsType ==
  ASSUME ledger \in Seq(Event), NEW batch \in Seq(Event),
         NEW rows \in Inserts(batch)
  PROVE  /\ rows \in Seq(Event)
         /\ Range(rows) = Range(batch) \ Range(ledger)
         /\ \A i, j \in DOMAIN rows : i < j => rows[i] # rows[j]
<1>1. Fresh(batch) \in SUBSET Event
  <2>1. \A i \in DOMAIN batch : batch[i] \in Event
    BY LenProperties
  <2>2. QED
    BY <2>1 DEF Fresh, Range
<1>2. Cardinality(Fresh(batch)) \in Nat
  BY <1>1, EventFinite
<1>3. rows \in [1..Cardinality(Fresh(batch)) -> Fresh(batch)]
  BY DEF Inserts
<1>4. rows \in Seq(Event)
  BY <1>1, <1>2, <1>3
<1>5. Range(rows) = Fresh(batch) /\ \A i, j \in DOMAIN rows : i < j => rows[i] # rows[j]
  BY DEF Inserts
<1>6. QED
  BY <1>4, <1>5 DEF Fresh

\* The union of the two ranges, for the rows that come after.
LEMMA RangeConcat ==
  ASSUME NEW S, NEW s \in Seq(S), NEW t \in Seq(S)
  PROVE  Range(s \o t) = Range(s) \cup Range(t)
<1> DEFINE u == s \o t
<1>1. /\ DOMAIN s = 1..Len(s) /\ DOMAIN t = 1..Len(t) /\ DOMAIN u = 1..Len(u)
      /\ Len(u) = Len(s) + Len(t) /\ Len(s) \in Nat /\ Len(t) \in Nat
      /\ \A i \in 1..(Len(s) + Len(t)) :
           u[i] = IF i <= Len(s) THEN s[i] ELSE t[i - Len(s)]
  BY ConcatProperties, LenProperties
<1> HIDE DEF u
<1>2. ASSUME NEW x \in Range(u)
      PROVE  x \in Range(s) \cup Range(t)
  <2>1. PICK i \in DOMAIN u : x = u[i]
    BY <1>2 DEF Range
  <2>2. CASE i <= Len(s)
    BY <1>1, <2>1, <2>2 DEF Range
  <2>3. CASE ~(i <= Len(s))
    <3>1. i - Len(s) \in DOMAIN t /\ u[i] = t[i - Len(s)]
      BY <1>1, <2>1, <2>3
    <3>2. QED
      BY <2>1, <3>1 DEF Range
  <2>4. QED
    BY <2>2, <2>3
<1>3. ASSUME NEW x \in Range(s)
      PROVE  x \in Range(u)
  <2>1. PICK i \in DOMAIN s : x = s[i]
    BY <1>3 DEF Range
  <2>2. i \in DOMAIN u /\ u[i] = s[i]
    BY <1>1, <2>1
  <2>3. QED
    BY <2>1, <2>2 DEF Range
<1>4. ASSUME NEW x \in Range(t)
      PROVE  x \in Range(u)
  <2>1. PICK i \in DOMAIN t : x = t[i]
    BY <1>4 DEF Range
  <2>2. i + Len(s) \in DOMAIN u /\ u[i + Len(s)] = t[i]
    BY <1>1, <2>1
  <2>3. QED
    BY <2>1, <2>2 DEF Range
<1>5. QED
  BY <1>2, <1>3, <1>4 DEF u

\* Ingest adds the whole batch to the ledger and nothing else.
LEMMA IngestAdds ==
  ASSUME ledger \in Seq(Event), NEW batch \in Seq(Event), Ingest(batch)
  PROVE  /\ ledger' \in Seq(Event)
         /\ Range(ledger') = Range(ledger) \cup Range(batch)
<1>1. PICK rows \in Inserts(batch) : ledger' = ledger \o rows
  BY DEF Ingest
<1>2. rows \in Seq(Event) /\ Range(rows) = Range(batch) \ Range(ledger)
  BY InsertsType
<1>3. ledger' \in Seq(Event) /\ Range(ledger') = Range(ledger) \cup Range(rows)
  BY <1>1, <1>2, ConcatProperties, RangeConcat
<1>4. QED
  BY <1>2, <1>3

LEMMA HighestType ==
  ASSUME seqOf \in [Event -> Nat], NEW S \in SUBSET Event, NEW top \in Highest(S)
  PROVE  top \in Nat \cup {-1}
BY DEF Highest

LEMMA BatchType ==
  ASSUME NEW s \in Seq(Event), NEW n \in Nat
  PROVE  FirstOf(s) \in Seq(Event) /\ AfterFirst(s, n) \in Seq(Event)
<1>1. Len(s) \in Nat /\ \A i \in 1..Len(s) : s[i] \in Event
  BY LenProperties
<1>2. AfterFirst(s, n) \in Seq(Event)
  <2>1. n + 1 \in Int /\ Len(s) \in Int /\ \A i \in (n + 1)..Len(s) : s[i] \in Event
    BY <1>1
  <2>2. QED
    BY <2>1, SubSeqProperties DEF AfterFirst
<1>3. FirstOf(s) \in Seq(Event)
  <2> DEFINE m == IF Len(s) < Batch THEN Len(s) ELSE Batch
  <2>1. m \in Int /\ \A i \in 1..m : s[i] \in Event
    BY <1>1, BatchAssumption
  <2> HIDE DEF m
  <2>2. SubSeq(s, 1, m) \in Seq(Event)
    BY <2>1, SubSeqProperties
  <2>3. QED
    BY <2>2 DEF m, FirstOf
<1>4. QED
  BY <1>2, <1>3

LEMMA RangeType ==
  ASSUME NEW s \in Seq(Event)
  PROVE  Range(s) \in SUBSET Event
BY LenProperties DEF Range

LEMMA LateType ==
  ASSUME TypeOK, NEW S \in SUBSET Sender
  PROVE  GivenUp(S) \subseteq Seq(Event)
BY DEF GivenUp, TypeOK, RequestType

\* The types that do not depend on the step: a new batch in flight.
LEMMA RequestStep ==
  ASSUME TypeOK, NEW s \in Sender,
         NEW st \in {"none", "sent", "ok", "refused"}, NEW b \in Seq(Event)
  PROVE  [request EXCEPT ![s] = [status |-> st, batch |-> b]]
           \in [Sender -> RequestType]
BY DEF TypeOK, RequestType

\* What compaction writes, from whatever a process last read.
LEMMA CompactedType ==
  ASSUME NEW f \in Seq(Line), NEW n \in Nat, NEW S \in SUBSET Event,
         NEW order \in SeqOrders(S)
  PROVE  order \in Seq(Event) /\ Compacted(f, n, order) \in Seq(Line)
BY SeqOrdersType, LivePutLines DEF Compacted

LEMMA OwedType == Owed(file, mark) \in SUBSET Event
BY DEF Owed, Unsent, Live

LEMMA NoRequestType == NoRequest \in RequestType
<1>1. <<>> \in Seq(Event)
  BY EmptySeq
<1>2. QED
  BY <1>1 DEF NoRequest, RequestType

-----------------------------------------------------------------------------
(* Type correctness, whatever the configuration.                           *)

LEMMA InitTypeOK == Init => TypeOK
<1> SUFFICES ASSUME Init PROVE TypeOK
  OBVIOUS
<1>1. <<>> \in Seq(Event) /\ <<>> \in Seq(Line)
  BY EmptySeq
<1>2. request \in [Sender -> RequestType]
  BY NoRequestType DEF Init
<1>3. /\ snapshot \in [live : SUBSET Event, lines : Nat]
      /\ deaths \in [page : Nat, uploader : Nat]
      /\ seqOf \in [Event -> Nat]
  BY DEF Init
<1>4. mark \in Nat \cup {-1} /\ filed \in 0..MaxEvents /\ seq \in Nat /\ lost \in Nat
  BY BoundsAssumption DEF Init
<1>5. QED
  BY <1>1, <1>2, <1>3, <1>4 DEF Init, TypeOK

LEMMA StepTypeOK == TypeOK /\ [Next]_vars => TypeOK'
<1> SUFFICES ASSUME TypeOK, [Next]_vars PROVE TypeOK'
  OBVIOUS
<1> USE DEF pageVars, diskVars, uploaderVars, netVars, boundVars
<1>1. ASSUME File PROVE TypeOK'
  <2>1. filed + 1 \in Event /\ filed' \in 0..MaxEvents
    BY <1>1, BoundsAssumption DEF File, TypeOK, Event
  <2>2. Put(filed + 1) \in Line
    BY <2>1 DEF Put, Line
  <2>3. outbox' \in Seq(Event) /\ chain' \in Seq(Line)
    BY <1>1, <2>1, <2>2, AppendProperties DEF File, TypeOK
  <2>4. seqOf' \in [Event -> Nat] /\ seq' \in Nat
    BY <1>1, <2>1 DEF File, TypeOK
  <2>5. QED
    BY <1>1, <2>1, <2>3, <2>4 DEF File, TypeOK
<1>2. ASSUME chain # <<>>
      PROVE  /\ Tail(chain) \in Seq(Line) /\ Head(chain).ids \subseteq Event
             /\ {Appended(file, Head(chain))} \cup Fragments(file, Head(chain)) \subseteq Seq(Line)
             /\ Spoils \subseteq Event
  <2>1. Head(chain) \in Line /\ Tail(chain) \in Seq(Line)
    BY <1>2, HeadTailProperties DEF TypeOK
  <2>2. WholeTail(file) => file[Len(file)].ids \subseteq Event
    BY EndOfFile DEF WholeTail, OpenTail, TypeOK, Line
  <2>3. file \in Seq(Line) /\ Head(chain).ids \subseteq Event
    BY <2>1 DEF TypeOK, Line
  <2>4. QED
    BY <2>1, <2>2, <2>3, LiveWritten DEF Spoils
<1>19. ASSUME JournalWrite PROVE TypeOK'
  <2>1. chain # <<>> /\ file' = Appended(file, Head(chain))
    BY <1>19 DEF JournalWrite
  <2>2. /\ chain' \in Seq(Line) /\ file' \in Seq(Line)
        /\ promised' \subseteq Event /\ spoiled' \subseteq Event
    BY <1>2, <1>19, <2>1 DEF JournalWrite, TypeOK
  <2>3. QED
    BY <1>19, <2>2 DEF JournalWrite, TypeOK
<1>3. ASSUME JournalWriteFails PROVE TypeOK'
  <2>1. /\ chain' \in Seq(Line) /\ file' \in Seq(Line)
        /\ spoiled' \subseteq Event
    BY <1>2, <1>3 DEF JournalWriteFails, Wrote, TypeOK
  <2>2. QED
    BY <1>3, <2>1 DEF JournalWriteFails, TypeOK
<1>4. ASSUME FlushStart PROVE TypeOK'
  <2>1. FirstOf(outbox) \in Seq(Event)
    BY BatchType DEF TypeOK
  <2>2. request' \in [Sender -> RequestType]
    BY <1>4, <2>1, RequestStep DEF FlushStart, Sender
  <2>3. QED
    BY <1>4, <2>2 DEF FlushStart, TypeOK
<1>5. ASSUME FlushAnswered PROVE TypeOK'
  <2> DEFINE batch == request["page"].batch
  <2>1. batch \in Seq(Event)
    BY DEF TypeOK, RequestType, Sender
  <2>2. Len(batch) \in Nat /\ Range(batch) \in SUBSET Event
    BY <2>1, RangeType, LenProperties
  <2>3. outbox' \in Seq(Event)
    BY <1>5, <2>2, BatchType DEF FlushAnswered, TypeOK
  <2>4. chain' \in Seq(Line)
    <3>1. Del(Range(batch)) \in Line
      BY <2>2 DEF Del, Line
    <3>2. QED
      BY <1>5, <3>1, AppendProperties DEF FlushAnswered, TypeOK
  <2>5. request' \in [Sender -> RequestType]
    BY <1>5, NoRequestType DEF FlushAnswered, TypeOK
  <2>6. refused' \subseteq Event
    BY <1>5, <2>2 DEF FlushAnswered, TypeOK
  <2>7. QED
    BY <1>5, <2>3, <2>4, <2>5, <2>6 DEF FlushAnswered, TypeOK
<1>6. ASSUME FlushLost PROVE TypeOK'
  <2>1. request' \in [Sender -> RequestType]
    BY <1>6, NoRequestType DEF FlushLost, TypeOK
  <2>2. late' \subseteq Seq(Event)
    BY <1>6, LateType DEF FlushLost, Sender
  <2>3. QED
    BY <1>6, <2>1, <2>2 DEF FlushLost, TypeOK
<1>7. ASSUME PageGone, PageDies \/ PowerCut PROVE TypeOK'
  <2>1. <<>> \in Seq(Event) /\ <<>> \in Seq(Line)
    BY EmptySeq
  <2>2. late' \subseteq Seq(Event)
    BY <1>7, LateType DEF PageDies, PowerCut, Sender
  <2>3. file' \in Seq(Line) /\ spoiled' \subseteq Event
    <3>1. CASE file' = file
      BY <1>7, <3>1 DEF PageDies, PowerCut, Wrote, TypeOK
    <3>2. CASE file' # file
      <4>1. /\ chain # <<>> /\ spoiled' = spoiled \cup Spoils
            /\ file' \in {Appended(file, Head(chain))} \cup Fragments(file, Head(chain))
        BY <1>7, <3>2 DEF PageDies, PowerCut, Wrote, InHand, TornInHand
      <4>2. QED
        BY <1>2, <4>1 DEF TypeOK
    <3>3. QED
      BY <3>1, <3>2
  <2>5. request' \in [Sender -> RequestType]
    BY <1>7, NoRequestType DEF PageDies, PowerCut, TypeOK
  <2>6. deaths' \in [page : Nat, uploader : Nat]
    <3>1. deaths.page + 1 \in Nat
      BY DEF TypeOK
    <3>2. QED
      BY <1>7, <3>1 DEF PageGone, TypeOK
  <2>7. up' \in {"idle", "read", "post"} /\ snapshot' \in [live : SUBSET Event, lines : Nat]
    BY <1>7 DEF PageDies, PowerCut, TypeOK
  <2>8. QED
    BY <1>7, <2>1, <2>2, <2>3, <2>5, <2>6, <2>7 DEF PageGone, PageDies, PowerCut, TypeOK
<1>8. ASSUME BootLoad PROVE TypeOK'
  <2>1. Owed(file, mark) \in SUBSET Event
    BY OwedType
  <2>2. PICK order \in SeqOrders(Owed(file, mark)) :
          outbox' = order /\ file' = Compacted(file, Len(file), order)
    BY <1>8 DEF BootLoad
  <2>3. outbox' \in Seq(Event) /\ file' \in Seq(Line)
    BY <2>1, <2>2, CompactedType DEF TypeOK
  <2>4. seq' \in Nat
    <3>1. PICK top \in Highest(Owed(file, mark)) : seq' = top + 1
      BY <1>8 DEF BootLoad
    <3>2. top \in Nat \/ top = -1
      BY <2>1, HighestType DEF TypeOK
    <3>3. QED
      BY <3>1, <3>2
  <2>5. QED
    BY <1>8, <2>3, <2>4 DEF BootLoad, TypeOK
<1>9. ASSUME BootLoadFails PROVE TypeOK'
  BY <1>9 DEF BootLoadFails, TypeOK
<1>10. ASSUME BootAlign PROVE TypeOK'
  <2>1. Range(ledger) \in SUBSET Event
    BY RangeType DEF TypeOK
  <2>2. \A held \in Cursor : held \in Nat \cup {-1}
    BY <2>1, HighestType DEF Cursor, TypeOK
  <2>3. seq' \in Nat
    <3>1. CASE seq' = seq
      BY <3>1 DEF TypeOK
    <3>2. ASSUME NEW held \in Cursor, seq' = IF held + 1 > seq THEN held + 1 ELSE seq
          PROVE  seq' \in Nat
      <4>1. (held \in Nat \/ held = -1) /\ seq \in Nat
        BY <2>2 DEF TypeOK
      <4>2. QED
        BY <3>2, <4>1
    <3>3. QED
      BY <1>10, <3>1, <3>2 DEF BootAlign
  <2>4. QED
    BY <1>10, <2>3 DEF BootAlign, TypeOK
<1>11. ASSUME UploaderReads PROVE TypeOK'
  <2>1. Live(file) \in SUBSET Event /\ Len(file) \in Nat
    BY LenProperties DEF Live, TypeOK
  <2>2. QED
    BY <1>11, <2>1 DEF UploaderReads, TypeOK
<1>12. ASSUME UploaderCompacts PROVE TypeOK'
  <2> DEFINE S == Unsent(snapshot.live, mark)
  <2>1. S \in SUBSET Event
    BY DEF Unsent, TypeOK
  <2>2. PICK order \in SeqOrders(S) :
          /\ file' = Compacted(file, snapshot.lines, order)
          /\ IF order = <<>>
               THEN up' = "idle" /\ UNCHANGED request
               ELSE /\ up' = "post"
                    /\ request' = [request EXCEPT !["uploader"] =
                         [status |-> "sent", batch |-> FirstOf(order)]]
    BY <1>12 DEF UploaderCompacts
  <2>3. order \in Seq(Event) /\ file' \in Seq(Line)
    BY <2>1, <2>2, CompactedType DEF TypeOK
  <2>4. FirstOf(order) \in Seq(Event)
    BY <2>3, BatchType
  <2>5. request' \in [Sender -> RequestType] /\ up' \in {"idle", "read", "post"}
    <3>1. CASE order = <<>>
      BY <2>2, <3>1 DEF TypeOK
    <3>2. CASE order # <<>>
      BY <2>2, <2>4, <3>2, RequestStep DEF Sender
    <3>3. QED
      BY <3>1, <3>2
  <2>6. QED
    BY <1>12, <2>3, <2>5 DEF UploaderCompacts, TypeOK
<1>13. ASSUME UploaderAnswered PROVE TypeOK'
  <2> DEFINE batch == request["uploader"].batch
  <2>1. batch \in Seq(Event)
    BY DEF TypeOK, RequestType, Sender
  <2>2. Range(batch) \in SUBSET Event
    BY <2>1, RangeType
  <2>3. mark' \in Nat \cup {-1} /\ refused' \subseteq Event
    BY <1>13, <2>2, HighestType DEF UploaderAnswered, TypeOK
  <2>4. request' \in [Sender -> RequestType]
    BY <1>13, NoRequestType DEF UploaderAnswered, TypeOK
  <2>5. QED
    BY <1>13, <2>3, <2>4 DEF UploaderAnswered, TypeOK
<1>14. ASSUME UploaderLost PROVE TypeOK'
  <2>1. request' \in [Sender -> RequestType]
    BY <1>14, NoRequestType DEF UploaderLost, TypeOK
  <2>2. late' \subseteq Seq(Event)
    BY <1>14, LateType DEF UploaderLost, Sender
  <2>3. QED
    BY <1>14, <2>1, <2>2 DEF UploaderLost, TypeOK
<1>15. ASSUME UploaderDies PROVE TypeOK'
  <2>1. request' \in [Sender -> RequestType]
    BY <1>15, NoRequestType DEF UploaderDies, TypeOK
  <2>2. late' \subseteq Seq(Event)
    BY <1>15, LateType DEF UploaderDies, Sender
  <2>3. deaths' \in [page : Nat, uploader : Nat]
    <3>1. deaths.uploader + 1 \in Nat
      BY DEF TypeOK
    <3>2. QED
      BY <1>15, <3>1 DEF UploaderDies, TypeOK
  <2>4. QED
    BY <1>15, <2>1, <2>2, <2>3 DEF UploaderDies, TypeOK
<1>16. ASSUME NEW s \in Sender, Serve(s) PROVE TypeOK'
  <2>1. request[s].batch \in Seq(Event)
    BY DEF TypeOK, RequestType
  <2>2. ledger' \in Seq(Event)
    BY <1>16, <2>1, IngestAdds DEF Serve, TypeOK
  <2>3. request' \in [Sender -> RequestType]
    <3>1. request[s] \in RequestType
      BY DEF TypeOK
    <3>2. /\ [request[s] EXCEPT !.status = "ok"] \in RequestType
          /\ [request[s] EXCEPT !.status = "refused"] \in RequestType
      BY <3>1 DEF RequestType
    <3>3. QED
      BY <1>16, <3>2 DEF Serve, TypeOK
  <2>4. QED
    BY <1>16, <2>2, <2>3 DEF Serve, TypeOK
<1>17. ASSUME ServeLate PROVE TypeOK'
  <2>1. late' \subseteq Seq(Event) /\ ledger' \in Seq(Event)
    BY <1>17, IngestAdds DEF ServeLate, TypeOK
  <2>2. QED
    BY <1>17, <2>1 DEF ServeLate, TypeOK
<1>18. ASSUME UNCHANGED vars PROVE TypeOK'
  BY <1>18 DEF vars, TypeOK
<1>20. QED
  BY <1>1, <1>19, <1>3, <1>4, <1>5, <1>6, <1>7, <1>8, <1>9, <1>10, <1>11, <1>12,
     <1>13, <1>14, <1>15, <1>16, <1>17, <1>18
  DEF Next, PageNext, UploaderNext, PageDies, PowerCut

\* Every variable keeps its type in every configuration: any number of
\* events, deaths and losses, one sender or two.
THEOREM TypeCorrect == Spec => []TypeOK
<1>1. QED
  BY InitTypeOK, StepTypeOK, PTL DEF Spec

-----------------------------------------------------------------------------
(* A page alone at its journal keeps its promise: what it was told is on   *)
(* the platter is settled or comes back with the next boot.                *)

\* What is settled stays settled.
LEMMA SettledGrows ==
  ASSUME TypeOK, [Next]_vars
  PROVE  Settled \subseteq Settled' /\ JournalWrites \subseteq JournalWrites'
<1> USE DEF pageVars, diskVars, uploaderVars, netVars, boundVars
<1>1. refused \subseteq refused'
  BY DEF Next, vars, PageNext, File, JournalWrite, JournalWriteFails, FlushStart,
     FlushAnswered, FlushLost, PageDies, PowerCut, BootLoad, BootLoadFails,
     BootAlign, UploaderNext, UploaderReads, UploaderCompacts, UploaderAnswered,
     UploaderLost, UploaderDies, Serve, ServeLate
<1>2. Range(ledger) \subseteq Range(ledger')
  <2>1. CASE UNCHANGED ledger
    BY <2>1
  <2>2. ASSUME NEW s \in Sender, Serve(s) PROVE Range(ledger) \subseteq Range(ledger')
    <3>1. request[s].batch \in Seq(Event)
      BY DEF TypeOK, RequestType
    <3>2. QED
      BY <2>1, <2>2, <3>1, IngestAdds DEF Serve, TypeOK
  <2>3. ASSUME ServeLate PROVE Range(ledger) \subseteq Range(ledger')
    BY <2>1, <2>3, IngestAdds DEF ServeLate, TypeOK
  <2>4. ASSUME PageNext PROVE UNCHANGED ledger
    BY <2>4 DEF PageNext, File, JournalWrite, JournalWriteFails, FlushStart,
       FlushAnswered, FlushLost, PageDies, PowerCut, BootLoad, BootLoadFails,
       BootAlign
  <2>5. ASSUME UploaderNext PROVE UNCHANGED ledger
    BY <2>5 DEF UploaderNext, UploaderReads, UploaderCompacts, UploaderAnswered,
       UploaderLost, UploaderDies
  <2>6. QED
    BY <2>1, <2>2, <2>3, <2>4, <2>5 DEF Next, vars
<1>3. QED
  BY <1>1, <1>2 DEF Settled, JournalWrites

\* The two kinds of queued write, and what they put or forget.
LEMMA WriteKinds ==
  ASSUME NEW line \in JournalWrites
  PROVE  /\ line.op \in {"put", "del"}
         /\ line.op = "put" => \E e \in Event : line.ids = {e}
         /\ line.op = "del" => line.ids \subseteq Settled
BY DEF JournalWrites, Put, Del

\* A line behind a file whose puts are single.
LEMMA SingleAppend ==
  ASSUME NEW f \in Seq(Line), Single(f), NEW x \in Line,
         x.op = "put" => \E e \in Event : x.ids = {e}
  PROVE  Single(Append(f, x))
<1> DEFINE g == Append(f, x)
<1>1. /\ DOMAIN f = 1..Len(f) /\ Len(f) \in Nat /\ DOMAIN g = 1..(Len(f) + 1)
      /\ g[Len(f) + 1] = x /\ \A i \in 1..Len(f) : g[i] = f[i]
  BY AppendProperties, LenProperties
<1> HIDE DEF g
<1>2. \A i \in DOMAIN g : i \in DOMAIN f \/ i = Len(f) + 1
  BY <1>1
<1>3. Single(g)
  BY <1>1, <1>2 DEF Single
<1>4. QED
  BY <1>3 DEF g

LEMMA SingleBut ==
  ASSUME NEW f \in Seq(Line), Single(f), f # <<>>
  PROVE  Single(AllButLast(f))
<1>1. Len(f) \in Nat \ {0} /\ DOMAIN f = 1..Len(f) /\ \A i \in 1..Len(f) : f[i] \in Line
  BY EmptySeq, LenProperties
<1>2. 1 \in Int /\ Len(f) - 1 \in Int /\ \A i \in 1..(Len(f) - 1) : f[i] \in Line
  BY <1>1
<1> DEFINE F == AllButLast(f)
<1>3. F \in Seq(Line) /\ Len(F) = Len(f) - 1 /\ \A i \in 1..(Len(f) - 1) : F[i] = f[i]
  BY <1>1, <1>2, SubSeqProperties DEF AllButLast
<1>4. DOMAIN F = 1..(Len(f) - 1)
  BY <1>3, LenProperties
<1> HIDE DEF F
<1>5. \A i \in DOMAIN F : i \in DOMAIN f /\ F[i] = f[i]
  BY <1>1, <1>3, <1>4
<1>6. Single(F)
  BY <1>5 DEF Single
<1>7. QED
  BY <1>6 DEF F

LEMMA SinglePutLines ==
  ASSUME NEW s \in Seq(Event)
  PROVE  Single(PutLines(s))
<1>1. DOMAIN PutLines(s) = DOMAIN s /\ DOMAIN s = 1..Len(s)
      /\ \A i \in 1..Len(s) : s[i] \in Event
  BY LenProperties DEF PutLines
<1>2. \A i \in DOMAIN s : PutLines(s)[i].ids = {s[i]}
  BY DEF PutLines, Put
<1>3. QED
  BY <1>1, <1>2 DEF Single

\* Queues of writes, at either end.
LEMMA RangeEnds ==
  ASSUME NEW S, NEW s \in Seq(S)
  PROVE  /\ \A x \in S : Range(Append(s, x)) = Range(s) \cup {x}
         /\ s # <<>> => Head(s) \in Range(s) /\ Range(Tail(s)) \subseteq Range(s)
<1>0. DOMAIN s = 1..Len(s) /\ Len(s) \in Nat
  BY LenProperties
<1>1. ASSUME NEW x \in S
      PROVE  Range(Append(s, x)) = Range(s) \cup {x}
  <2> DEFINE t == Append(s, x)
  <2>1. /\ DOMAIN t = 1..(Len(s) + 1) /\ t[Len(s) + 1] = x
        /\ \A i \in 1..Len(s) : t[i] = s[i]
    BY AppendProperties, LenProperties
  <2> HIDE DEF t
  <2>2. DOMAIN t = DOMAIN s \cup {Len(s) + 1}
    BY <1>0, <2>1
  <2>3. Range(t) = Range(s) \cup {x}
    BY <1>0, <2>1, <2>2 DEF Range
  <2>4. QED
    BY <2>3 DEF t
<1>2. ASSUME s # <<>>
      PROVE  Head(s) \in Range(s) /\ Range(Tail(s)) \subseteq Range(s)
  <2> DEFINE t == Tail(s)
  <2>1. Len(s) \in Nat \ {0} /\ Head(s) = s[1]
    BY <1>0, <1>2, EmptySeq, HeadTailProperties
  <2>2. /\ DOMAIN t = 1..(Len(s) - 1)
        /\ \A i \in 1..(Len(s) - 1) : t[i] = s[i + 1]
    BY <1>2, <2>1, HeadTailProperties, LenProperties
  <2> HIDE DEF t
  <2>3. \A i \in DOMAIN t : i + 1 \in DOMAIN s /\ t[i] = s[i + 1]
    BY <1>0, <2>1, <2>2
  <2>4. Range(t) \subseteq Range(s)
    BY <2>3 DEF Range
  <2>5. 1 \in DOMAIN s
    BY <1>0, <2>1
  <2>6. QED
    BY <2>1, <2>4, <2>5 DEF t, Range
<1>3. QED
  BY <1>1, <1>2

-----------------------------------------------------------------------------
(* The invariant.                                                          *)

\* A write behind the last queued one leaves these shorter queues.
LEMMA ChainRest ==
  ASSUME TypeOK, chain # <<>>
  PROVE  /\ Head(chain) = chain[1] /\ 1 \in DOMAIN chain
         /\ Head(chain) \in Line /\ Tail(chain) \in Seq(Line)
         /\ \A i \in DOMAIN Tail(chain) :
              /\ i + 1 \in DOMAIN chain /\ Tail(chain)[i] = chain[i + 1]
              /\ 1 < i + 1
              /\ \A j \in DOMAIN Tail(chain) : j < i => j + 1 < i + 1
<1>1. chain \in Seq(Line)
  BY DEF TypeOK
<1>2. /\ Len(chain) \in Nat \ {0} /\ DOMAIN chain = 1..Len(chain)
      /\ Head(chain) = chain[1] /\ Head(chain) \in Line
  BY <1>1, EmptySeq, LenProperties, HeadTailProperties
<1> DEFINE t == Tail(chain)
<1>3. /\ t \in Seq(Line) /\ Len(t) = Len(chain) - 1
      /\ \A i \in 1..Len(t) : t[i] = chain[i + 1]
  BY <1>1, <1>2, HeadTailProperties
<1>4. DOMAIN t = 1..(Len(chain) - 1)
  BY <1>3, LenProperties
<1> HIDE DEF t
<1>5. \A i \in DOMAIN t : /\ i + 1 \in DOMAIN chain /\ t[i] = chain[i + 1]
                          /\ 1 < i + 1
                          /\ \A j \in DOMAIN t : j < i => j + 1 < i + 1
  BY <1>2, <1>3, <1>4
<1>6. QED
  BY <1>2, <1>3, <1>5 DEF t

\* What the write in hand does to a file the page has to itself.  Behind a
\* whole record without its newline it takes that one off the disk with it;
\* behind any other open line it takes nothing but what is settled.
LEMMA WriteKeeps ==
  ASSUME TypeOK, PromiseInv, chain # <<>>,
         NEW g \in {Appended(file, Head(chain))} \cup Fragments(file, Head(chain))
  PROVE  /\ Single(g)
         /\ OpenTail(g) /\ g[Len(g)].op = "del" => g[Len(g)].ids \subseteq Settled
         /\ WholeTail(g) =>
              Head(chain).op = "put" /\ g[Len(g)].ids = Head(chain).ids
         /\ g = Appended(file, Head(chain)) => ~OpenTail(g)
         /\ Live(file) \ (Settled \cup Spoils) \subseteq Live(g)
         /\ Head(chain).op = "put" /\ ~broken /\ g = Appended(file, Head(chain)) =>
              Head(chain).ids \subseteq Live(g) \cup Spoils
         /\ g = file => Spoils = {}
<1> DEFINE line == Head(chain)
<1>1. line \in Line /\ line \in JournalWrites /\ file \in Seq(Line) /\ Single(file)
  BY HeadTailProperties, RangeEnds DEF TypeOK, PromiseInv
<1>2. /\ line.op = "put" => \E e \in Event : line.ids = {e}
      /\ line.op = "del" => line.ids \subseteq Settled
      /\ ~line.open
  BY <1>1, WriteKinds DEF JournalWrites, Put, Del
<1>3. page # "off"
  BY DEF PromiseInv
<1> HIDE DEF line
<1>4. CASE ~OpenTail(file)
  <2>1. Spoils = {}
    BY <1>4 DEF Spoils, WholeTail
  <2>2. PICK x \in Line : /\ g = Append(file, x)
                          /\ \/ x.op \in {"junk", "bytes"}
                             \/ x.op = line.op /\ x.ids = line.ids
                          /\ g = Appended(file, line) => x = line
    BY <1>1, <1>4, WriteLands DEF line
  <2>3. x.op = "put" => \E e \in Event : x.ids = {e}
    BY <1>2, <2>2
  <2>4. Single(g)
    BY <1>1, <2>2, <2>3, SingleAppend
  <2>5. /\ g[Len(g)] = x /\ (OpenTail(g) <=> x.open)
        /\ WholeTail(g) <=> x.open /\ x.op = "put"
    BY <1>1, <2>2, EndOfAppend
  <2>6. Live(g) = (Live(file) \ Dels(x)) \cup Puts(x)
    BY <1>1, <2>2, LiveAppend
  <2>7. Dels(x) \subseteq Settled
    BY <1>2, <2>2 DEF Dels
  <2>8. g = Appended(file, line) /\ line.op = "put" => line.ids \subseteq Live(g)
    BY <2>2, <2>6 DEF Puts
  <2>9. x.op = "del" => x.ids \subseteq Settled
    BY <1>2, <2>2
  <2>10. WholeTail(g) => line.op = "put" /\ g[Len(g)].ids = line.ids
    BY <2>2, <2>5
  <2>11. Live(file) \ (Settled \cup Spoils) \subseteq Live(g)
    BY <2>6, <2>7
  <2>12. g = Appended(file, line) => ~OpenTail(g)
    BY <1>2, <2>2, <2>5
  <2>13. QED
    BY <2>1, <2>4, <2>5, <2>8, <2>9, <2>10, <2>11, <2>12 DEF line
<1>5. CASE OpenTail(file)
  <2>1. PICK x \in Line : /\ g = Append(AllButLast(file), x)
                          /\ x.op \in {"junk", "bytes"}
                          /\ g = Appended(file, line) => ~x.open
    BY <1>1, <1>5, WriteLands DEF line
  <2>2. /\ file # <<>> /\ AllButLast(file) \in Seq(Line)
        /\ Live(file) = (Live(AllButLast(file)) \ Dels(file[Len(file)]))
                           \cup Puts(file[Len(file)])
    BY <1>1, <1>5, EndOfFile, LiveOpen DEF OpenTail
  <2>3. Single(g)
    BY <1>1, <2>1, <2>2, SingleBut, SingleAppend
  <2>4. /\ g[Len(g)] = x /\ (OpenTail(g) <=> x.open) /\ ~WholeTail(g)
    BY <2>1, <2>2, EndOfAppend
  <2>5. Live(g) = Live(AllButLast(file))
    BY <1>1, <1>5, LiveWritten DEF line
  <2>6. Puts(file[Len(file)]) \subseteq Spoils
    BY <1>5 DEF Puts, Spoils, WholeTail
  <2>7. line.op = "put" /\ ~broken => line.ids \subseteq Spoils
    <3>1. ~broken => WholeTail(file)
      BY <1>3, <1>5 DEF PromiseInv, OpenSinceDeath
    <3>2. QED
      BY <3>1 DEF Spoils, line
  <2>8. g = file => Spoils = {}
    BY <2>4 DEF Spoils
  <2>9. Live(file) \ (Settled \cup Spoils) \subseteq Live(g)
    BY <2>2, <2>5, <2>6
  <2>10. QED
    BY <2>1, <2>3, <2>4, <2>7, <2>8, <2>9 DEF line
<1>6. QED
  BY <1>4, <1>5

\* What is spoiled had not been promised, and the rest of the queue is clear
\* of it.
LEMMA SpoilsType ==
  ASSUME TypeOK, PromiseInv, chain # <<>>
  PROVE  /\ Spoils \subseteq 1..filed
         /\ Spoils \cap promised = {}
         /\ Puts(Head(chain)) \subseteq 1..filed
         /\ Puts(Head(chain)) \cap (promised \cup spoiled) = {}
         /\ \A i \in DOMAIN Tail(chain) :
              Puts(Tail(chain)[i]) \cap (Spoils \cup Puts(Head(chain))) = {}
<1>1. /\ Head(chain) = chain[1] /\ 1 \in DOMAIN chain
      /\ \A i \in DOMAIN Tail(chain) :
           i + 1 \in DOMAIN chain /\ Tail(chain)[i] = chain[i + 1] /\ 1 < i + 1
  BY ChainRest
<1>2. OncePromised
  BY DEF PromiseInv
<1>3. /\ Puts(Head(chain)) \subseteq 1..filed
      /\ Puts(Head(chain)) \cap (promised \cup spoiled) = {}
  BY <1>1, <1>2 DEF OncePromised, Puts
<1>4. WholeTail(file) => file[Len(file)].ids \subseteq 1..filed \ promised
  BY <1>2 DEF OncePromised
<1>5. ASSUME NEW i \in DOMAIN Tail(chain)
      PROVE  /\ Puts(Tail(chain)[i]) \cap Puts(Head(chain)) = {}
             /\ WholeTail(file) => Puts(Tail(chain)[i]) \cap file[Len(file)].ids = {}
  BY <1>1, <1>2, <1>5 DEF OncePromised, Puts
<1>6. Spoils \subseteq 1..filed /\ Spoils \cap promised = {}
  BY <1>3, <1>4 DEF Spoils, Puts
<1>7. \A i \in DOMAIN Tail(chain) :
        Puts(Tail(chain)[i]) \cap (Spoils \cup Puts(Head(chain))) = {}
  BY <1>5 DEF Spoils, Puts
<1>8. QED
  BY <1>3, <1>6, <1>7

LEMMA OnceWritten ==
  ASSUME TypeOK, PromiseInv, chain # <<>>, filed' = filed,
         chain' \in {Tail(chain), <<>>},
         \/ file' = file /\ spoiled' = spoiled
         \/ /\ file' \in {Appended(file, Head(chain))} \cup Fragments(file, Head(chain))
            /\ spoiled' = spoiled \cup Spoils,
         \/ promised' = promised
         \/ /\ promised' = promised \cup Puts(Head(chain))
            /\ file' = Appended(file, Head(chain))
  PROVE  OncePromised'
<1>1. /\ Spoils \subseteq 1..filed
      /\ Spoils \cap promised = {}
      /\ Puts(Head(chain)) \subseteq 1..filed
      /\ Puts(Head(chain)) \cap (promised \cup spoiled) = {}
      /\ \A i \in DOMAIN Tail(chain) :
           Puts(Tail(chain)[i]) \cap (Spoils \cup Puts(Head(chain))) = {}
  BY SpoilsType
<1>2. OncePromised
  BY DEF PromiseInv
<1>3. promised' \cup spoiled' \subseteq 1..filed'
  BY <1>1, <1>2 DEF OncePromised
<1>4. WholeTail(file') =>
        \/ /\ WholeTail(file) /\ file'[Len(file')].ids = file[Len(file)].ids
           /\ promised' = promised
        \/ /\ file'[Len(file')].ids = Puts(Head(chain)) /\ promised' = promised
  <2>1. CASE file' = file /\ promised' = promised
    BY <2>1
  <2>2. CASE file' \in {Appended(file, Head(chain))} \cup Fragments(file, Head(chain))
    <3>1. /\ WholeTail(file') =>
               Head(chain).op = "put" /\ file'[Len(file')].ids = Head(chain).ids
          /\ file' = Appended(file, Head(chain)) => ~OpenTail(file')
      <4>1. PICK g \in {Appended(file, Head(chain))} \cup Fragments(file, Head(chain)) :
              file' = g
        BY <2>2
      <4>2. /\ WholeTail(g) =>
                 Head(chain).op = "put" /\ g[Len(g)].ids = Head(chain).ids
            /\ g = Appended(file, Head(chain)) => ~OpenTail(g)
        BY WriteKeeps
      <4>3. QED
        BY <4>1, <4>2
    <3>2. QED
      BY <3>1 DEF WholeTail, Puts
  <2>3. QED
    BY <2>1, <2>2
<1>5. WholeTail(file') => file'[Len(file')].ids \subseteq 1..filed' \ promised'
  BY <1>1, <1>2, <1>4 DEF OncePromised
<1>6. ASSUME NEW i \in DOMAIN chain', chain'[i].op = "put"
      PROVE  /\ chain'[i].ids \subseteq 1..filed' \ (promised' \cup spoiled')
             /\ \A j \in DOMAIN chain' : j < i /\ chain'[j].op = "put" =>
                  chain'[i].ids \cap chain'[j].ids = {}
             /\ WholeTail(file') => chain'[i].ids \cap file'[Len(file')].ids = {}
  <2>1. chain' = Tail(chain)
    BY <1>6
  <2>2. /\ i + 1 \in DOMAIN chain /\ chain'[i] = chain[i + 1]
        /\ \A j \in DOMAIN chain' : j < i =>
             j + 1 < i + 1 /\ j + 1 \in DOMAIN chain /\ chain'[j] = chain[j + 1]
    BY <1>6, <2>1, ChainRest
  <2>3. /\ chain'[i].ids \subseteq 1..filed \ (promised \cup spoiled)
        /\ \A j \in DOMAIN chain' : j < i /\ chain'[j].op = "put" =>
             chain'[i].ids \cap chain'[j].ids = {}
        /\ WholeTail(file) => chain'[i].ids \cap file[Len(file)].ids = {}
    BY <1>2, <1>6, <2>2 DEF OncePromised
  <2>4. chain'[i].ids \cap (Spoils \cup Puts(Head(chain))) = {}
    BY <1>1, <1>6, <2>1 DEF Puts
  <2>5. chain'[i].ids \subseteq 1..filed' \ (promised' \cup spoiled')
    BY <2>3, <2>4
  <2>6. WholeTail(file') => chain'[i].ids \cap file'[Len(file')].ids = {}
    BY <1>4, <2>3, <2>4
  <2>7. QED
    BY <2>3, <2>5, <2>6
<1>7. QED
  BY <1>3, <1>5, <1>6 DEF OncePromised

LEMMA InitPromise == Init => PromiseInv
<1> SUFFICES ASSUME Init PROVE PromiseInv
  OBVIOUS
<1>1. Range(<<>>) = {} /\ DOMAIN <<>> = {}
  BY DEF Range
<1>2. request["page"] = NoRequest /\ request["uploader"] = NoRequest
  BY DEF Init, Sender
<1>3. OncePromised
  BY <1>1 DEF Init, OncePromised, WholeTail, OpenTail
<1>4. OpenSinceDeath
  <2>1. promised \cap spoiled = {}
    BY DEF Init
  <2>2. Cardinality(promised \cap spoiled) = 0 /\ deaths.page = 0
    BY <2>1, FS_EmptySet DEF Init
  <2>3. QED
    BY <2>2 DEF Init, OpenSinceDeath, OpenTail
<1>5. QED
  BY <1>1, <1>2, <1>3, <1>4 DEF Init, PromiseInv, Single, OpenTail, NoRequest

\* How many promised events are spoiled, after a write.
LEMMA SpoiltCount ==
  ASSUME TypeOK
  PROVE  /\ Cardinality(promised \cap spoiled) \in Nat
         /\ deaths.page \in Nat
         /\ \A e \in Event : Cardinality((promised \cap spoiled) \cup {e})
                               <= Cardinality(promised \cap spoiled) + 1
<1> DEFINE S == promised \cap spoiled
<1>1. S \in SUBSET Event /\ deaths.page \in Nat
  BY DEF TypeOK
<1>2. IsFiniteSet(S) /\ Cardinality(S) \in Nat
  BY <1>1, EventFinite
<1> HIDE DEF S
<1>3. ASSUME NEW e \in Event
      PROVE  Cardinality(S \cup {e}) <= Cardinality(S) + 1
  <2>1. Cardinality(S \cup {e}) \in {Cardinality(S), Cardinality(S) + 1}
    BY <1>2, FS_AddElement
  <2>2. QED
    BY <1>2, <2>1
<1>4. QED
  BY <1>1, <1>2, <1>3 DEF S

\* A write that returns: at most the event it was for is lost, and then the
\* line it was glued on to is gone.
LEMMA WriteCounts ==
  ASSUME TypeOK, PromiseInv, JournalWrite
  PROVE  Cardinality(promised' \cap spoiled') <= deaths.page
<1> DEFINE line == Head(chain)
<1>0. chain # <<>> /\ spoiled' = spoiled \cup Spoils
      /\ promised' = IF line.op = "put" /\ ~broken THEN promised \cup line.ids ELSE promised
  BY DEF JournalWrite
<1>1. Spoils \cap promised = {} /\ Puts(line) \cap (promised \cup spoiled) = {}
  BY <1>0, SpoilsType
<1>2. page # "off" /\ OpenSinceDeath
  BY <1>0 DEF PromiseInv
<1> HIDE DEF line
<1>3. CASE line.op = "put" /\ ~broken
  <2>1. PICK e \in Event : line.ids = {e}
    <3>1. line \in JournalWrites
      BY <1>0, RangeEnds DEF PromiseInv, TypeOK, line
    <3>2. QED
      BY <1>3, <3>1, WriteKinds
  <2>2. e \notin promised /\ e \notin spoiled
    BY <1>1, <1>3, <2>1 DEF Puts
  <2>3. CASE Spoils = {}
    <3>1. promised' \cap spoiled' = promised \cap spoiled
      BY <1>0, <1>3, <2>1, <2>2, <2>3
    <3>2. QED
      BY <1>2, <3>1 DEF OpenSinceDeath
  <2>4. CASE Spoils # {}
    <3>1. OpenTail(file)
      BY <2>4 DEF Spoils, WholeTail
    <3>2. Cardinality(promised \cap spoiled) < deaths.page
      BY <1>2, <1>3, <3>1 DEF OpenSinceDeath
    <3>3. e \in Spoils
      BY <1>3, <2>1, <2>4 DEF Spoils, line
    <3>4. promised' \cap spoiled' = (promised \cap spoiled) \cup {e}
      BY <1>0, <1>1, <1>3, <2>1, <2>2, <3>3
    <3>5. Cardinality((promised \cap spoiled) \cup {e}) <= Cardinality(promised \cap spoiled) + 1
      BY SpoiltCount
    <3>6. Cardinality((promised \cap spoiled) \cup {e}) \in Nat
      <4>1. (promised \cap spoiled) \cup {e} \in SUBSET Event
        BY DEF TypeOK
      <4>2. QED
        BY <4>1, EventFinite
    <3> DEFINE K == Cardinality(promised \cap spoiled)
               L == Cardinality((promised \cap spoiled) \cup {e})
    <3>7. K \in Nat /\ deaths.page \in Nat
      BY SpoiltCount
    <3>8. Cardinality(promised' \cap spoiled') = L
      BY <3>4
    <3> HIDE DEF K, L
    <3>9. L <= K + 1 /\ L \in Nat /\ K < deaths.page
      BY <3>2, <3>5, <3>6 DEF K, L
    <3>10. QED
      BY <3>7, <3>8, <3>9
  <2>5. QED
    BY <2>3, <2>4
<1>4. CASE ~(line.op = "put" /\ ~broken)
  <2>1. promised' \cap spoiled' = promised \cap spoiled
    BY <1>0, <1>1, <1>4
  <2>2. QED
    BY <1>2, <2>1 DEF OpenSinceDeath
<1>5. QED
  BY <1>3, <1>4

\* The steps that touch neither the disk nor the queue of writes.
LEMMA QuietStep ==
  ASSUME TypeOK, PromiseInv, [Next]_vars,
         UNCHANGED <<file, chain, promised, spoiled, filed, deaths, up, mark>>,
         request'["uploader"] = NoRequest,
         page' = "off" => page = "off" /\ request'["page"] = request["page"],
         page' # "off" /\ ~broken' => page # "off" /\ ~broken,
         request'["page"].status = "ok" =>
           Range(request'["page"].batch) \subseteq Range(ledger')
  PROVE  PromiseInv'
<1>1. Settled \subseteq Settled' /\ JournalWrites \subseteq JournalWrites'
  BY SettledGrows
<1>2. OncePromised'
  BY DEF PromiseInv, OncePromised, WholeTail, OpenTail
<1>3. OpenSinceDeath'
  BY DEF PromiseInv, OpenSinceDeath, WholeTail, OpenTail
<1>4. QED
  BY <1>1, <1>2, <1>3 DEF PromiseInv, Single, OpenTail, Live

LEMMA StepPromise ==
  ASSUME WithUploader = FALSE, TypeOK, PromiseInv, [Next]_vars
  PROVE  PromiseInv'
<1> USE DEF pageVars, diskVars, uploaderVars, netVars, boundVars
<1>0. Settled \subseteq Settled' /\ JournalWrites \subseteq JournalWrites'
  BY SettledGrows
<1>1. ASSUME File PROVE PromiseInv'
  <2>1. filed + 1 \in Event
    BY <1>1, BoundsAssumption DEF File, TypeOK, Event
  <2>2. Put(filed + 1) \in Line /\ Put(filed + 1) \in JournalWrites
    BY <2>1 DEF Put, Line, JournalWrites
  <2>3. Range(chain') \subseteq JournalWrites'
    BY <1>0, <1>1, <2>2, RangeEnds DEF File, TypeOK, PromiseInv
  <2>4. /\ filed + 1 \notin 1..filed /\ 1..filed \subseteq 1..(filed + 1)
        /\ filed + 1 \in 1..(filed + 1)
    BY <2>1, BoundsAssumption DEF TypeOK, Event
  <2>5. /\ DOMAIN chain = 1..Len(chain) /\ Len(chain) \in Nat
        /\ DOMAIN chain' = 1..(Len(chain) + 1)
        /\ \A i \in 1..Len(chain) : chain'[i] = chain[i]
        /\ chain'[Len(chain) + 1] = Put(filed + 1)
    <3>1. chain \in Seq(Line) /\ chain' = Append(chain, Put(filed + 1))
      BY <1>1 DEF File, TypeOK
    <3>2. QED
      BY <2>2, <3>1, AppendProperties, LenProperties
  <2>6. OncePromised
    BY DEF PromiseInv
  <2>7. UNCHANGED <<file, promised, spoiled>> /\ filed' = filed + 1
    BY <1>1 DEF File
  <2>8. ASSUME NEW i \in DOMAIN chain', chain'[i].op = "put"
        PROVE  /\ chain'[i].ids \subseteq 1..filed' \ (promised' \cup spoiled')
               /\ \A j \in DOMAIN chain' : j < i /\ chain'[j].op = "put" =>
                    chain'[i].ids \cap chain'[j].ids = {}
               /\ WholeTail(file') => chain'[i].ids \cap file'[Len(file')].ids = {}
    <3>1. CASE i \in 1..Len(chain)
      <4>1. /\ i \in DOMAIN chain /\ chain'[i] = chain[i]
            /\ \A j \in DOMAIN chain' : j < i => j \in DOMAIN chain /\ chain'[j] = chain[j]
        BY <2>5, <3>1
      <4>2. QED
        BY <2>4, <2>6, <2>7, <2>8, <4>1 DEF OncePromised
    <3>2. CASE i = Len(chain) + 1
      <4>1. /\ chain'[i].ids = {filed + 1}
            /\ \A j \in DOMAIN chain' : j < i => j \in DOMAIN chain /\ chain'[j] = chain[j]
        BY <2>5, <3>2 DEF Put
      <4>2. \A j \in DOMAIN chain : chain[j].op = "put" => chain[j].ids \subseteq 1..filed
        BY <2>6 DEF OncePromised
      <4>3. /\ promised \cup spoiled \subseteq 1..filed
            /\ WholeTail(file) => file[Len(file)].ids \subseteq 1..filed
        BY <2>6 DEF OncePromised
      <4>4. QED
        BY <2>4, <2>7, <4>1, <4>2, <4>3
    <3>3. QED
      BY <2>5, <3>1, <3>2
  <2>9. OncePromised'
    BY <2>4, <2>6, <2>7, <2>8 DEF OncePromised
  <2>10. OpenSinceDeath'
    BY <1>1 DEF File, PromiseInv, OpenSinceDeath
  <2>11. QED
    BY <1>0, <1>1, <2>3, <2>9, <2>10 DEF File, PromiseInv
<1>2. ASSUME JournalWrite PROVE PromiseInv'
  <2> DEFINE line == Head(chain)
  <2>1. /\ chain # <<>> /\ file' = Appended(file, line) /\ chain' = Tail(chain)
        /\ spoiled' = spoiled \cup Spoils
        /\ promised' = IF line.op = "put" /\ ~broken THEN promised \cup line.ids ELSE promised
    BY <1>2 DEF JournalWrite
  <2>2. page # "off" /\ Range(chain') \subseteq JournalWrites
    BY <2>1, RangeEnds DEF TypeOK, PromiseInv
  <2>3. /\ Single(file') /\ ~OpenTail(file')
        /\ Live(file) \ (Settled \cup Spoils) \subseteq Live(file')
        /\ line.op = "put" /\ ~broken => line.ids \subseteq Live(file') \cup Spoils
    BY <2>1, WriteKeeps
  <2>4. promised' \subseteq Settled' \cup Live(file') \cup spoiled'
    BY <1>0, <2>1, <2>3 DEF PromiseInv
  <2>5. OncePromised'
    <3>1. filed' = filed
      BY <1>2 DEF JournalWrite
    <3>2. promised' = promised \/ promised' = promised \cup Puts(Head(chain))
      BY <2>1 DEF Puts
    <3>3. file' \in {Appended(file, Head(chain))} \cup Fragments(file, Head(chain))
      BY <2>1
    <3>4. QED
      BY <2>1, <3>1, <3>2, <3>3, OnceWritten
  <2>6. OpenSinceDeath'
    <3>1. Cardinality(promised' \cap spoiled') <= deaths.page /\ deaths' = deaths
      BY <1>2, WriteCounts DEF JournalWrite
    <3>2. QED
      BY <2>3, <3>1 DEF OpenSinceDeath
  <2>7. QED
    BY <1>0, <1>2, <2>2, <2>3, <2>4, <2>5, <2>6 DEF JournalWrite, PromiseInv
<1>3. ASSUME chain # <<>>, filed' = filed, promised' = promised,
             chain' \in {Tail(chain), <<>>}, Wrote,
             file' \in {file, Appended(file, Head(chain))} \cup Fragments(file, Head(chain))
      PROVE  /\ Range(chain') \subseteq JournalWrites
             /\ Single(file')
             /\ OpenTail(file') /\ file'[Len(file')].op = "del" =>
                  file'[Len(file')].ids \subseteq Settled'
             /\ promised' \subseteq Settled' \cup Live(file') \cup spoiled'
             /\ OncePromised'
             /\ promised' \cap spoiled' = promised \cap spoiled
  <2>1. Range(chain') \subseteq JournalWrites
    <3>1. Range(<<>>) = {}
      BY DEF Range
    <3>2. QED
      BY <1>3, <3>1, RangeEnds DEF TypeOK, PromiseInv
  <2>2. CASE file' = file
    <3>1. spoiled' = spoiled
      BY <1>3, <2>2 DEF Wrote
    <3>2. OncePromised'
      BY <1>3, <2>2, <3>1, OnceWritten
    <3>3. QED
      BY <1>0, <1>3, <2>1, <2>2, <3>1, <3>2 DEF PromiseInv
  <2>3. CASE file' # file
    <3>1. /\ spoiled' = spoiled \cup Spoils
          /\ file' \in {Appended(file, Head(chain))} \cup Fragments(file, Head(chain))
      BY <1>3, <2>3 DEF Wrote
    <3>2. OncePromised'
      BY <1>3, <3>1, OnceWritten
    <3>3. Spoils \cap promised = {}
      BY <1>3, SpoilsType
    <3>4. PICK g \in {Appended(file, Head(chain))} \cup Fragments(file, Head(chain)) : file' = g
      BY <3>1
    <3>5. /\ Single(g)
          /\ OpenTail(g) /\ g[Len(g)].op = "del" => g[Len(g)].ids \subseteq Settled
          /\ Live(file) \ (Settled \cup Spoils) \subseteq Live(g)
      BY <1>3, WriteKeeps
    <3>6. Single(file') /\ (OpenTail(file') /\ file'[Len(file')].op = "del" =>
                              file'[Len(file')].ids \subseteq Settled')
      BY <1>0, <3>4, <3>5
    <3>7. Live(file) \ (Settled \cup Spoils) \subseteq Live(file')
      BY <3>4, <3>5
    <3>8. promised' \subseteq Settled' \cup Live(file') \cup spoiled'
      BY <1>0, <1>3, <3>1, <3>7 DEF PromiseInv
    <3>9. QED
      BY <1>3, <2>1, <3>1, <3>2, <3>3, <3>6, <3>8
  <2>4. QED
    BY <2>2, <2>3
<1>16. ASSUME JournalWriteFails PROVE PromiseInv'
  <2>1. /\ chain # <<>> /\ filed' = filed /\ promised' = promised /\ chain' = Tail(chain)
        /\ Wrote /\ broken' /\ UNCHANGED <<page, deaths>>
        /\ file' \in {file, Appended(file, Head(chain))} \cup Fragments(file, Head(chain))
    BY <1>16 DEF JournalWriteFails
  <2>2. page # "off"
    BY <2>1 DEF PromiseInv
  <2>3. promised' \cap spoiled' = promised \cap spoiled
    BY <1>3, <2>1
  <2>4. OpenSinceDeath'
    BY <2>1, <2>2, <2>3 DEF PromiseInv, OpenSinceDeath
  <2>5. /\ Range(chain') \subseteq JournalWrites'
        /\ Single(file')
        /\ OpenTail(file') /\ file'[Len(file')].op = "del" =>
             file'[Len(file')].ids \subseteq Settled'
        /\ promised' \subseteq Settled' \cup Live(file') \cup spoiled'
        /\ OncePromised'
    BY <1>0, <1>3, <2>1
  <2>6. QED
    BY <1>16, <2>2, <2>4, <2>5 DEF JournalWriteFails, PromiseInv
<1>4. ASSUME FlushStart PROVE PromiseInv'
  <2>1. request'["page"].status = "sent" /\ request'["uploader"] = request["uploader"]
    BY <1>4 DEF FlushStart, TypeOK, Sender
  <2>2. QED
    BY <1>4, <2>1, QuietStep DEF FlushStart, PromiseInv
<1>5. ASSUME FlushAnswered PROVE PromiseInv'
  <2> DEFINE batch == request["page"].batch
  <2>1. batch \in Seq(Event)
    BY DEF TypeOK, RequestType, Sender
  <2>2. Range(batch) \subseteq Settled' /\ Range(batch) \in SUBSET Event
    BY <1>5, <2>1, RangeType DEF FlushAnswered, PromiseInv, Settled
  <2>3. Del(Range(batch)) \in Line /\ Del(Range(batch)) \in JournalWrites'
    BY <2>2 DEF Del, Line, JournalWrites
  <2>4. Range(chain') \subseteq JournalWrites'
    BY <1>0, <1>5, <2>3, RangeEnds DEF FlushAnswered, TypeOK, PromiseInv
  <2>5. request'["page"] = NoRequest /\ request'["uploader"] = request["uploader"]
    BY <1>5 DEF FlushAnswered, TypeOK, Sender
  <2>6. page # "off"
    BY <1>5 DEF FlushAnswered, PromiseInv, NoRequest
  <2>7. UNCHANGED <<file, promised, spoiled, filed, deaths, page, broken, up, mark, ledger>>
    BY <1>5 DEF FlushAnswered
  <2>8. /\ \A i \in DOMAIN chain' : chain'[i].op = "put" => i \in DOMAIN chain
        /\ \A i \in DOMAIN chain : i \in DOMAIN chain' /\ chain'[i] = chain[i]
    <3>1. chain \in Seq(Line) /\ chain' = Append(chain, Del(Range(batch)))
      BY <1>5 DEF FlushAnswered, TypeOK
    <3> DEFINE n == Len(chain) + 1
    <3>2. /\ DOMAIN chain = 1..Len(chain) /\ Len(chain) \in Nat
          /\ DOMAIN chain' = 1..n
          /\ \A i \in 1..Len(chain) : chain'[i] = chain[i]
          /\ chain'[n] = Del(Range(batch))
      BY <2>3, <3>1, AppendProperties, LenProperties
    <3>3. chain'[n].op # "put"
      BY <3>2 DEF Del
    <3>4. QED
      BY <3>2, <3>3
  <2>9. OncePromised'
    BY <2>7, <2>8 DEF PromiseInv, OncePromised, WholeTail, OpenTail
  <2>10. OpenSinceDeath'
    BY <2>7 DEF PromiseInv, OpenSinceDeath, WholeTail, OpenTail
  <2>11. QED
    BY <1>0, <2>4, <2>5, <2>6, <2>7, <2>9, <2>10
    DEF PromiseInv, NoRequest, Single, OpenTail, Live
<1>6. ASSUME FlushLost PROVE PromiseInv'
  <2>1. request'["page"] = NoRequest /\ request'["uploader"] = request["uploader"]
    BY <1>6 DEF FlushLost, TypeOK, Sender
  <2>2. page # "off"
    BY <1>6 DEF FlushLost, PromiseInv, NoRequest
  <2>3. QED
    BY <1>6, <2>1, <2>2, QuietStep DEF FlushLost, PromiseInv, NoRequest
<1>7. ASSUME PageGone, PageDies \/ PowerCut PROVE PromiseInv'
  <2>1. /\ filed' = filed /\ promised' = promised /\ chain' = <<>> /\ Wrote
        /\ chain = <<>> => file' = file
        /\ chain # <<>> =>
             file' \in {file, Appended(file, Head(chain))} \cup Fragments(file, Head(chain))
        /\ deaths'.page = deaths.page + 1
    <3>1. deaths' = [deaths EXCEPT !.page = @ + 1]
      BY <1>7 DEF PageGone
    <3>2. deaths'.page = deaths.page + 1
      BY <3>1 DEF TypeOK
    <3>3. chain = <<>> => file' = file
      BY <1>7 DEF PageDies, PowerCut, InHand, TornInHand
    <3>4. chain # <<>> =>
             file' \in {file, Appended(file, Head(chain))} \cup Fragments(file, Head(chain))
      BY <1>7 DEF PageDies, PowerCut, InHand, TornInHand
    <3>5. QED
      BY <1>7, <3>2, <3>3, <3>4 DEF PageGone, PageDies, PowerCut
  <2>2. /\ Range(chain') \subseteq JournalWrites'
        /\ Single(file')
        /\ OpenTail(file') /\ file'[Len(file')].op = "del" =>
             file'[Len(file')].ids \subseteq Settled'
        /\ promised' \subseteq Settled' \cup Live(file') \cup spoiled'
        /\ OncePromised'
        /\ promised' \cap spoiled' = promised \cap spoiled
    <3>1. CASE chain # <<>>
      BY <1>0, <1>3, <2>1, <3>1
    <3>2. CASE chain = <<>>
      <4>1. file' = file /\ spoiled' = spoiled /\ Range(chain') = {} /\ DOMAIN chain' = {}
        BY <2>1, <3>2 DEF Wrote, Range
      <4>2. OncePromised'
        BY <2>1, <4>1 DEF PromiseInv, OncePromised
      <4>3. QED
        BY <1>0, <2>1, <4>1, <4>2 DEF PromiseInv
    <3>3. QED
      BY <3>1, <3>2
  <2>3. request'["page"] = NoRequest /\ request'["uploader"] = NoRequest
    BY <1>7 DEF PageDies, PowerCut, TypeOK, Sender, PromiseInv
  <2>4. /\ page' = "off" /\ chain' = <<>> /\ up' = "idle" /\ mark' = mark
        /\ promised' = promised
    BY <1>7 DEF PageGone, PageDies, PowerCut, PromiseInv
  <2>5. OpenSinceDeath'
    <3> DEFINE K == Cardinality(promised \cap spoiled)
    <3>1. K \in Nat /\ deaths.page \in Nat /\ K <= deaths.page
      BY SpoiltCount DEF PromiseInv, OpenSinceDeath
    <3> HIDE DEF K
    <3>2. K < deaths'.page
      BY <2>1, <3>1
    <3>3. Cardinality(promised' \cap spoiled') = K
      BY <2>2 DEF K
    <3>4. K <= deaths'.page
      BY <2>1, <3>1
    <3>5. QED
      BY <2>4, <3>2, <3>3, <3>4 DEF OpenSinceDeath
  <2>6. QED
    BY <2>2, <2>3, <2>4, <2>5 DEF PromiseInv, NoRequest
<1>8. ASSUME BootLoad PROVE PromiseInv'
  <2>1. Owed(file, mark) = Live(file)
    BY DEF Owed, Unsent, Live, TypeOK, PromiseInv
  <2>2. PICK order \in SeqOrders(Live(file)) :
          file' = Compacted(file, Len(file), order)
    BY <1>8, <2>1 DEF BootLoad
  <2>3. Live(file) \in SUBSET Event
    BY DEF Live
  <2>4. order \in Seq(Event)
    BY <2>3, SeqOrdersType
  <2>5. /\ Live(file') = Live(file)
        /\ OpenTail(file') => WholeTail(file') /\ file' = file
        /\ file' = file \/ file' = PutLines(order)
    <3>1. \/ /\ Compacted(file, Len(file), order) = file
             /\ OpenTail(file) => WholeTail(file)
          \/ /\ Compacted(file, Len(file), order) = PutLines(order)
             /\ Live(PutLines(order)) = Live(file) /\ ~OpenTail(PutLines(order))
      BY <2>2, CompactedKeeps DEF TypeOK, PromiseInv
    <3>2. QED
      BY <2>2, <3>1
  <2>6. Single(file')
    BY <2>4, <2>5, SinglePutLines DEF PromiseInv
  <2>7. /\ page = "off" /\ chain = <<>> /\ page' = "loaded"
        /\ UNCHANGED <<chain, promised, spoiled, filed, deaths, broken, up, mark, request, refused, ledger>>
    BY <1>8 DEF BootLoad, PromiseInv
  <2>8. OncePromised'
    <3>1. DOMAIN chain' = {}
      BY <2>7
    <3>2. WholeTail(file') => file' = file
      BY <2>5 DEF WholeTail
    <3>3. QED
      BY <2>7, <3>1, <3>2 DEF PromiseInv, OncePromised
  <2>9. OpenSinceDeath'
    BY <2>5, <2>7 DEF PromiseInv, OpenSinceDeath
  <2>10. OpenTail(file') /\ file'[Len(file')].op = "del" =>
           file'[Len(file')].ids \subseteq Settled'
    BY <2>5 DEF WholeTail
  <2>11. promised' \subseteq Settled' \cup Live(file') \cup spoiled'
    BY <1>0, <2>5, <2>7 DEF PromiseInv
  <2>12. QED
    BY <1>0, <2>6, <2>7, <2>8, <2>9, <2>10, <2>11 DEF PromiseInv
<1>9. ASSUME BootLoadFails PROVE PromiseInv'
  BY <1>9, QuietStep DEF BootLoadFails, PromiseInv
<1>10. ASSUME BootAlign PROVE PromiseInv'
  BY <1>10, QuietStep DEF BootAlign, PromiseInv
<1>11. ~UploaderNext
  BY DEF UploaderNext, UploaderReads, UploaderCompacts, UploaderAnswered,
     UploaderLost, UploaderDies, PromiseInv, NoRequest
<1>12. ASSUME NEW s \in Sender, Serve(s) PROVE PromiseInv'
  <2>1. s = "page"
    BY <1>12 DEF Serve, Sender, PromiseInv, NoRequest
  <2>2. request["page"].batch \in Seq(Event) /\ page # "off"
    BY <1>12, <2>1 DEF TypeOK, RequestType, Serve, PromiseInv, NoRequest
  <2>3. /\ request'["uploader"] = request["uploader"]
        /\ request'["page"].batch = request["page"].batch
        /\ request'["page"].status = "ok" => Ingest(request["page"].batch)
    <3> DEFINE r == request["page"]
    <3>1. r \in RequestType /\ request \in [Sender -> RequestType]
      BY DEF TypeOK, Sender
    <3>2. /\ [r EXCEPT !.status = "ok"].batch = r.batch
          /\ [r EXCEPT !.status = "refused"].batch = r.batch
          /\ [r EXCEPT !.status = "refused"].status = "refused"
      BY <3>1 DEF RequestType
    <3>3. CASE Refuses(r.batch)
      <4>1. request' = [request EXCEPT !["page"] = [r EXCEPT !.status = "refused"]]
        BY <1>12, <2>1, <3>3 DEF Serve
      <4>2. QED
        BY <3>1, <3>2, <4>1 DEF Sender
    <3>4. CASE ~Refuses(r.batch)
      <4>1. request' = [request EXCEPT !["page"] = [r EXCEPT !.status = "ok"]]
            /\ Ingest(r.batch)
        BY <1>12, <2>1, <3>4 DEF Serve
      <4>2. QED
        BY <3>1, <3>2, <4>1 DEF Sender
    <3>5. QED
      BY <3>3, <3>4
  <2>4. request'["page"].status = "ok" =>
          Range(request'["page"].batch) \subseteq Range(ledger')
    BY <2>2, <2>3, IngestAdds DEF TypeOK
  <2>5. QED
    BY <1>12, <2>2, <2>3, <2>4, QuietStep DEF Serve, PromiseInv
<1>13. ASSUME ServeLate PROVE PromiseInv'
  <2>1. Range(ledger) \subseteq Range(ledger')
    BY <1>13, IngestAdds DEF ServeLate, TypeOK
  <2>2. QED
    BY <1>13, <2>1, QuietStep DEF ServeLate, PromiseInv
<1>14. ASSUME UNCHANGED vars PROVE PromiseInv'
  BY <1>14, QuietStep DEF vars, PromiseInv
<1>15. QED
  BY <1>1, <1>2, <1>16, <1>4, <1>5, <1>6, <1>7, <1>8, <1>9, <1>10, <1>11, <1>12,
     <1>13, <1>14 DEF Next, PageNext, PageDies, PowerCut

LEMMA PromiseInvImplies == TypeOK /\ PromiseInv => PromiseKept
<1> SUFFICES ASSUME TypeOK, PromiseInv PROVE PromiseKept
  OBVIOUS
<1>1. Owed(file, mark) = Live(file)
  BY DEF Owed, Unsent, Live, TypeOK, PromiseInv
<1>2. QED
  BY <1>1 DEF PromiseInv, PromiseKept, OpenSinceDeath

\* What a page alone at its journal was told is on the platter is never lost:
\* it is in the ledger, refused, or handed back by the next boot - whatever
\* dies, is lost or is torn, for any number of events, deaths and losses.
THEOREM PromiseHolds ==
  ASSUME WithUploader = FALSE
  PROVE  Spec => []PromiseKept
<1>1. TypeOK /\ PromiseInv /\ [Next]_vars => PromiseInv'
  BY StepPromise
<1>2. QED
  BY <1>1, InitPromise, TypeCorrect, PromiseInvImplies, PTL DEF Spec

-----------------------------------------------------------------------------
(* The page alone at its journal implements LedgerDelivery, step by step.  *)

\* What is on disk and not settled: the events LedgerDelivery calls held, and
\* those it calls frayed.
Waiting == (Owed(file, mark) \ Frayed) \ Settled
Fraying == (Owed(file, mark) \cap Frayed) \ Settled

\* Where an event stands, read off the four sets it may be in.
Stands(rows, aside, frayed, held) ==
  [e \in Event |-> IF e \in rows THEN "stored"
                   ELSE IF e \in aside THEN "setAside"
                   ELSE IF e \in frayed THEN "frayed"
                   ELSE IF e \in held THEN "held" ELSE "none"]

StandingIsRead ==
  /\ Standing = Stands(Range(ledger), refused, Fraying, Waiting)
  /\ Waiting \subseteq Event \ Settled /\ Fraying \subseteq Event \ Settled
  /\ Waiting \cap Fraying = {}

LEMMA StandingIs == StandingIsRead
<1>1. /\ Waiting \subseteq Event \ Settled /\ Fraying \subseteq Event \ Settled
      /\ Waiting \cap Fraying = {}
  BY OwedType DEF Waiting, Fraying
<1>2. ASSUME NEW e \in Event
      PROVE  Standing[e] = Stands(Range(ledger), refused, Fraying, Waiting)[e]
  <2>1. /\ e \in Fraying <=> e \in (Owed(file, mark) \cap Frayed) \ Settled
        /\ e \in Waiting <=> e \in (Owed(file, mark) \ Frayed) \ Settled
        /\ e \in Settled <=> e \in Range(ledger) \/ e \in refused
    BY DEF Settled, Waiting, Fraying
  <2>2. e \in Fraying => e \notin Settled /\ e \notin Waiting
    BY <1>1
  <2>3. e \in Waiting => e \notin Settled
    BY <1>1
  <2> HIDE DEF Waiting, Fraying, Settled
  <2>4. QED
    BY <2>1, <2>2, <2>3 DEF Standing, Stands
<1>3. QED
  BY <1>1, <1>2 DEF StandingIsRead, Standing, Stands

LEMMA StandingIsNext == StandingIsRead'
BY StandingIs, PTL

LEMMA StandsStill ==
  ASSUME Range(ledger') = Range(ledger), refused' = refused,
         Fraying' = Fraying, Waiting' = Waiting
  PROVE  UNCHANGED Standing
BY StandingIs, StandingIsNext DEF StandingIsRead

\* An event that is not settled comes to stand elsewhere: on the disk for good,
\* on the disk in a line without its newline, or off it again.
LEMMA StandsMoved ==
  ASSUME Range(ledger') = Range(ledger), refused' = refused, NEW e \in Event,
         \/ /\ e \notin Waiting /\ Waiting' = Waiting \cup {e}
            /\ Fraying' = Fraying \ {e}
         \/ /\ e \notin Waiting /\ Waiting' = Waiting
            /\ Fraying = {} /\ Fraying' = {e}
         \/ /\ Fraying = {e} /\ Waiting' = Waiting
            /\ Fraying' = {}
  PROVE  [Delivery!Next]_Standing
<1>1. e \notin Range(ledger) /\ e \notin refused
  BY StandingIs, StandingIsNext DEF StandingIsRead, Settled
<1>2. /\ Standing = Stands(Range(ledger), refused, Fraying, Waiting)
      /\ Standing' = Stands(Range(ledger), refused, Fraying', Waiting')
      /\ Waiting \cap Fraying = {}
  BY StandingIs, StandingIsNext DEF StandingIsRead
<1>3. CASE e \notin Waiting /\ Waiting' = Waiting \cup {e} /\ Fraying' = Fraying \ {e}
  <2>1. Standing[e] \in {"none", "frayed"}
    BY <1>1, <1>2, <1>3 DEF Stands
  <2>2. Standing' = [d \in Event |-> IF d \in {e} THEN "held" ELSE Standing[d]]
    BY <1>1, <1>2, <1>3 DEF Stands
  <2>3. Delivery!Hold(e) \/ Delivery!Mend(e)
    BY <2>1, <2>2 DEF Delivery!Hold, Delivery!Mend, Delivery!Becomes
  <2>4. QED
    BY <2>3 DEF Delivery!Next
<1>4. CASE /\ e \notin Waiting /\ Waiting' = Waiting
           /\ Fraying = {} /\ Fraying' = {e}
  <2>1. Standing[e] = "none" /\ \A d \in Event : Standing[d] # "frayed"
    BY <1>1, <1>2, <1>4 DEF Stands
  <2>2. Standing' = [d \in Event |-> IF d \in {e} THEN "frayed" ELSE Standing[d]]
    BY <1>1, <1>2, <1>4 DEF Stands
  <2>3. Delivery!Fray(e)
    BY <2>1, <2>2 DEF Delivery!Fray, Delivery!Becomes
  <2>4. QED
    BY <2>3 DEF Delivery!Next
<1>5. CASE Fraying = {e} /\ Waiting' = Waiting /\ Fraying' = {}
  <2>1. Standing[e] = "frayed"
    BY <1>1, <1>2, <1>5 DEF Stands
  <2>2. Standing' = [d \in Event |-> IF d \in {e} THEN "none" ELSE Standing[d]]
    BY <1>1, <1>2, <1>5 DEF Stands
  <2>3. Delivery!Spoil(e)
    BY <2>1, <2>2 DEF Delivery!Spoil, Delivery!Becomes
  <2>4. QED
    BY <2>3 DEF Delivery!Next
<1>6. QED
  BY <1>3, <1>4, <1>5

\* A batch is committed: what was fresh in it comes to be stored.
LEMMA StandsStored ==
  ASSUME NEW S \in SUBSET Event, Range(ledger') = Range(ledger) \cup S,
         refused' = refused, Waiting' = Waiting \ S, Fraying' = Fraying \ S
  PROVE  [Delivery!Next]_Standing
<1>1. CASE S \subseteq Range(ledger)
  <2>1. Waiting' = Waiting /\ Fraying' = Fraying /\ Range(ledger') = Range(ledger)
    BY <1>1, StandingIs DEF StandingIsRead, Settled
  <2>2. QED
    BY <2>1, StandsStill
<1>2. CASE ~(S \subseteq Range(ledger))
  <2>1. Standing' = [d \in Event |-> IF d \in S THEN "stored" ELSE Standing[d]]
    BY StandingIs, StandingIsNext DEF StandingIsRead, Stands
  <2>2. Delivery!Store(S)
    BY <1>2, <2>1 DEF Delivery!Store, Delivery!Becomes
  <2>3. QED
    BY <2>2 DEF Delivery!Next
<1>3. QED
  BY <1>1, <1>2

\* A refusal is seen: what of the batch is not in the ledger is set aside.
LEMMA StandsAside ==
  ASSUME NEW S \in SUBSET Event, Range(ledger') = Range(ledger),
         refused' = refused \cup S, Waiting' = Waiting \ S, Fraying' = Fraying \ S
  PROVE  [Delivery!Next]_Standing
<1> DEFINE T == S \ Range(ledger)
<1>0. /\ Standing = Stands(Range(ledger), refused, Fraying, Waiting)
      /\ Standing' = Stands(Range(ledger), refused \cup S, Fraying \ S, Waiting \ S)
  BY StandingIs, StandingIsNext DEF StandingIsRead
<1>1. CASE T = {}
  <2>1. Standing' = Standing
    BY <1>0, <1>1, StandingIs DEF StandingIsRead, Stands, Settled
  <2>2. QED
    BY <2>1
<1>2. CASE T # {}
  <2>1. \A d \in T : Standing[d] # "stored"
    BY <1>0 DEF Stands
  <2>2. Standing' = [d \in Event |-> IF d \in T THEN "setAside" ELSE Standing[d]]
    BY <1>0 DEF Stands
  <2>3. Delivery!SetAside(T)
    BY <1>2, <2>1, <2>2 DEF Delivery!SetAside, Delivery!Becomes
  <2>4. QED
    BY <2>3 DEF Delivery!Next
<1>3. QED
  BY <1>1, <1>2

\* Where the mark is not used, the file is all there is to it.
OnDiskAlone == /\ Waiting = (Live(file) \ Frayed) \ Settled
               /\ Fraying = Frayed \ Settled

LEMMA OwedIsLive == TypeOK /\ mark = -1 => Owed(file, mark) = Live(file)
BY DEF Owed, Unsent, Live, TypeOK

LEMMA OnDisk == TypeOK /\ mark = -1 => OnDiskAlone
<1> SUFFICES ASSUME TypeOK, mark = -1 PROVE OnDiskAlone
  OBVIOUS
<1>1. Owed(file, mark) = Live(file)
  BY OwedIsLive
<1>2. Frayed \subseteq Live(file)
  BY DEF Frayed
<1>3. QED
  BY <1>1, <1>2 DEF OnDiskAlone, Waiting, Fraying

LEMMA OnDiskNext == (TypeOK /\ mark = -1 => OnDiskAlone)'
BY OnDisk, PTL

\* The write in hand lands, whole or in part: it puts one event on the disk at
\* most, takes away only what is settled, and where it is glued on to a record
\* without its newline, that record's event.
LEMMA WriteStands ==
  ASSUME TypeOK, TypeOK', PromiseInv, chain # <<>>,
         file' \in {file, Appended(file, Head(chain))} \cup Fragments(file, Head(chain)),
         UNCHANGED <<mark, ledger, refused>>
  PROVE  [Delivery!Next]_Standing
<1> DEFINE line == Head(chain)
<1>1. line \in Line /\ line \in JournalWrites /\ file \in Seq(Line) /\ mark = -1 /\ mark' = -1
  BY HeadTailProperties, RangeEnds DEF TypeOK, PromiseInv
<1>2. /\ line.op = "put" => \E e \in Event : line.ids = {e}
      /\ line.op = "del" => line.ids \subseteq Settled
  BY <1>1, WriteKinds
<1>3. Settled' = Settled
  BY DEF Settled
<1>4. /\ Waiting = (Live(file) \ Frayed) \ Settled /\ Fraying = Frayed \ Settled
      /\ Waiting' = (Live(file') \ Frayed') \ Settled /\ Fraying' = Frayed' \ Settled
  BY <1>1, <1>3, OnDisk, OnDiskNext DEF OnDiskAlone
<1> HIDE DEF line
<1>5. CASE file' = file
  BY <1>3, <1>4, <1>5, StandsStill DEF Live, Frayed, OpenTail
<1>6. CASE ~OpenTail(file) /\ file' # file
  <2>1. PICK x \in Line : /\ file' = Append(file, x)
                          /\ \/ x.op \in {"junk", "bytes"}
                             \/ x.op = line.op /\ x.ids = line.ids
    BY <1>1, <1>6, WriteLands DEF line
  <2>2. /\ AllButLast(file') = file /\ (OpenTail(file') <=> x.open)
        /\ Live(file') = (Live(file) \ Dels(x)) \cup Puts(x)
    BY <1>1, <2>1, EndOfAppend, LiveAppend
  <2>3. Frayed = {} /\ Frayed' = IF x.open THEN Live(file') \ Live(file) ELSE {}
    BY <1>6, <2>2 DEF Frayed
  <2>4. Dels(x) \subseteq Settled
    BY <1>2, <2>1 DEF Dels
  <2>5. CASE Puts(x) = {}
    <3>1. Waiting' = Waiting /\ Fraying' = Fraying
      BY <1>4, <2>2, <2>3, <2>4, <2>5
    <3>2. QED
      BY <3>1, StandsStill
  <2>6. CASE Puts(x) # {}
    <3>1. PICK e \in Event : Puts(x) = {e}
      BY <1>2, <2>1, <2>6 DEF Puts
    <3>2. Dels(x) = {}
      BY <2>6 DEF Puts, Dels
    <3>3. CASE e \in Settled \/ e \in Live(file)
      <4>1. Waiting' = Waiting /\ Fraying' = Fraying
        BY <1>4, <2>2, <2>3, <3>1, <3>2, <3>3
      <4>2. QED
        BY <4>1, StandsStill
    <3>4. CASE e \notin Settled /\ e \notin Live(file)
      <4>1. CASE x.open
        <5>1. Waiting' = Waiting /\ Fraying' = {e} /\ Fraying = {} /\ e \notin Waiting
          BY <1>4, <2>2, <2>3, <3>1, <3>2, <3>4, <4>1
        <5>2. QED
          BY <5>1, StandsMoved
      <4>2. CASE ~x.open
        <5>1. Waiting' = Waiting \cup {e} /\ Fraying' = Fraying \ {e} /\ e \notin Waiting
          BY <1>4, <2>2, <2>3, <3>1, <3>2, <3>4, <4>2
        <5>2. QED
          BY <5>1, StandsMoved
      <4>3. QED
        BY <4>1, <4>2
    <3>5. QED
      BY <3>3, <3>4
  <2>7. QED
    BY <2>5, <2>6
<1>7. CASE OpenTail(file) /\ file' # file
  <2>1. PICK x \in Line : file' = Append(AllButLast(file), x) /\ x.op \in {"junk", "bytes"}
    BY <1>1, <1>7, WriteLands DEF line
  <2>2. /\ file # <<>> /\ AllButLast(file) \in Seq(Line) /\ file[Len(file)] \in Line
        /\ Live(file) = (Live(AllButLast(file)) \ Dels(file[Len(file)]))
                           \cup Puts(file[Len(file)])
    BY <1>1, <1>7, EndOfFile, LiveOpen DEF OpenTail
  <2>3. AllButLast(file') = AllButLast(file) /\ Live(file') = Live(AllButLast(file))
    <3>1. AllButLast(file') = AllButLast(file)
      BY <2>1, <2>2, EndOfAppend
    <3>2. file' \in {Appended(file, line)} \cup Fragments(file, line)
      BY <1>7 DEF line
    <3>3. Live(file') = Live(AllButLast(file))
      BY <1>1, <1>7, <3>2, LiveWritten
    <3>4. QED
      BY <3>1, <3>3
  <2>4. Frayed = Live(file) \ Live(AllButLast(file)) /\ Frayed' = {}
    BY <1>7, <2>3 DEF Frayed
  <2>5. Dels(file[Len(file)]) \subseteq Settled
    BY <1>7 DEF PromiseInv, Dels
  <2>6. Waiting' = Waiting
    BY <1>4, <2>2, <2>3, <2>4, <2>5
  <2>7. Fraying' = {}
    BY <1>4, <2>4
  <2>8. Fraying \subseteq Puts(file[Len(file)])
    BY <1>4, <2>2, <2>4
  <2>9. CASE Fraying = {}
    BY <2>6, <2>7, <2>9, StandsStill
  <2>10. CASE Fraying # {}
    <3>1. Len(file) \in DOMAIN file /\ file[Len(file)].op = "put"
      <4>1. Len(file) \in Nat \ {0} /\ DOMAIN file = 1..Len(file)
        BY <1>1, <2>2, EmptySeq, LenProperties
      <4>2. QED
        BY <2>8, <2>10, <4>1 DEF Puts
    <3>2. PICK e \in Event : file[Len(file)].ids = {e}
      BY <3>1 DEF PromiseInv, Single
    <3>3. Fraying = {e}
      BY <2>8, <2>10, <3>2 DEF Puts
    <3>4. QED
      BY <2>6, <2>7, <3>3, StandsMoved
  <2>11. QED
    BY <2>9, <2>10
<1>8. QED
  BY <1>5, <1>6, <1>7

\* The file is written anew at boot: what hung on the last line is mended.
LEMMA BootStands ==
  ASSUME TypeOK, TypeOK', PromiseInv, NEW order \in SeqOrders(Live(file)),
         file' = Compacted(file, Len(file), order), UNCHANGED <<mark, ledger, refused>>
  PROVE  [Delivery!Next]_Standing
<1>1. file \in Seq(Line) /\ mark = -1 /\ mark' = -1 /\ Settled' = Settled
  BY DEF TypeOK, PromiseInv, Settled
<1>2. /\ Waiting = (Live(file) \ Frayed) \ Settled /\ Fraying = Frayed \ Settled
      /\ Waiting' = (Live(file') \ Frayed') \ Settled /\ Fraying' = Frayed' \ Settled
  BY <1>1, OnDisk, OnDiskNext DEF OnDiskAlone
<1>3. \/ file' = file
      \/ Live(file') = Live(file) /\ ~OpenTail(file')
  BY <1>1, CompactedKeeps DEF PromiseInv
<1>4. CASE file' = file
  BY <1>2, <1>4, StandsStill DEF Live, Frayed, OpenTail
<1>5. CASE Live(file') = Live(file) /\ ~OpenTail(file')
  <2>1. Frayed' = {}
    BY <1>5 DEF Frayed
  <2>2. Waiting' = Waiting \cup Fraying /\ Fraying' = {} /\ Waiting \cap Fraying = {}
    BY <1>2, <1>5, <2>1 DEF Frayed
  <2>3. CASE Fraying = {}
    BY <2>2, <2>3, StandsStill
  <2>4. CASE Fraying # {}
    <3>1. OpenTail(file) /\ file # <<>>
      BY <1>2, <2>4 DEF Frayed, OpenTail
    <3>2. /\ Len(file) \in DOMAIN file /\ Fraying \subseteq Puts(file[Len(file)])
      <4>1. Len(file) \in Nat \ {0} /\ DOMAIN file = 1..Len(file)
        BY <1>1, <3>1, EmptySeq, LenProperties
      <4>2. Live(file) = (Live(AllButLast(file)) \ Dels(file[Len(file)]))
                            \cup Puts(file[Len(file)])
        BY <1>1, <3>1, LiveOpen
      <4>3. Frayed = Live(file) \ Live(AllButLast(file))
        BY <3>1 DEF Frayed
      <4>4. QED
        BY <1>2, <4>1, <4>2, <4>3
    <3>3. PICK e \in Event : file[Len(file)].ids = {e} /\ file[Len(file)].op = "put"
      BY <2>4, <3>2 DEF PromiseInv, Single, Puts
    <3>4. Fraying = {e}
      BY <2>4, <3>2, <3>3 DEF Puts
    <3>5. e \notin Waiting /\ Waiting' = Waiting \cup {e} /\ Fraying' = Fraying \ {e}
      BY <2>2, <3>4
    <3>6. QED
      BY <3>5, StandsMoved
  <2>5. QED
    BY <2>3, <2>4
<1>6. QED
  BY <1>3, <1>4, <1>5

\* A file that nobody touches.
LEMMA SameFileStands ==
  ASSUME UNCHANGED <<file, mark, ledger, refused>>, TypeOK, TypeOK', mark = -1
  PROVE  [Delivery!Next]_Standing
<1>1. Frayed' = Frayed /\ Live(file') = Live(file) /\ Settled' = Settled
  BY DEF Frayed, Live, OpenTail, Settled
<1>2. Waiting' = Waiting /\ Fraying' = Fraying
  BY <1>1, OnDisk, OnDiskNext DEF OnDiskAlone
<1>3. QED
  BY <1>2, StandsStill

LEMMA StepDelivers ==
  ASSUME WithUploader = FALSE, TypeOK, TypeOK', PromiseInv, [Next]_vars
  PROVE  [Delivery!Next]_Standing
<1> USE DEF pageVars, diskVars, uploaderVars, netVars, boundVars
<1>0. mark = -1 /\ file \in Seq(Line)
  BY DEF PromiseInv, TypeOK
<1>1. ASSUME UNCHANGED <<file, mark, ledger, refused>>
      PROVE  [Delivery!Next]_Standing
  BY <1>0, <1>1, SameFileStands
<1>2. ASSUME JournalWrite \/ JournalWriteFails
      PROVE  [Delivery!Next]_Standing
  <2>1. /\ chain # <<>> /\ UNCHANGED <<mark, ledger, refused>>
        /\ file' \in {file, Appended(file, Head(chain))} \cup Fragments(file, Head(chain))
    BY <1>2 DEF JournalWrite, JournalWriteFails
  <2>2. QED
    BY <2>1, WriteStands
<1>3. ASSUME PageDies \/ PowerCut
      PROVE  [Delivery!Next]_Standing
  <2>1. /\ UNCHANGED <<mark, ledger, refused>>
        /\ chain = <<>> => file' = file
        /\ chain # <<>> =>
             file' \in {file, Appended(file, Head(chain))} \cup Fragments(file, Head(chain))
    BY <1>3 DEF PageDies, PowerCut, PageGone, InHand, TornInHand
  <2>2. QED
    BY <1>1, <2>1, WriteStands
<1>4. ASSUME BootLoad
      PROVE  [Delivery!Next]_Standing
  <2>1. Owed(file, mark) = Live(file)
    BY <1>0, OwedIsLive
  <2>2. PICK order \in SeqOrders(Live(file)) :
          file' = Compacted(file, Len(file), order)
    BY <1>4, <2>1 DEF BootLoad
  <2>3. UNCHANGED <<mark, ledger, refused>>
    BY <1>4 DEF BootLoad
  <2>4. QED
    BY <2>2, <2>3, BootStands
<1>5. ASSUME UNCHANGED <<file, mark, seqOf>>
      PROVE  Owed(file, mark)' = Owed(file, mark) /\ Frayed' = Frayed
  BY <1>5 DEF Owed, Unsent, Live, Frayed, OpenTail
<1>7. ASSUME FlushAnswered
      PROVE  [Delivery!Next]_Standing
  <2> DEFINE batch == request["page"].batch
  <2>1. Range(batch) \in SUBSET Event
    BY RangeType DEF TypeOK, RequestType, Sender
  <2>2. UNCHANGED <<file, mark, ledger, seqOf>>
    BY <1>7 DEF FlushAnswered
  <2>3. CASE refused' = refused
    BY <1>1, <2>2, <2>3
  <2>4. CASE refused' = refused \cup Range(batch)
    <3>1. Owed(file, mark)' = Owed(file, mark) /\ Frayed' = Frayed
      BY <1>5, <2>2
    <3>2. Settled' = Settled \cup Range(batch)
      BY <2>2, <2>4 DEF Settled
    <3>3. Waiting' = Waiting \ Range(batch) /\ Fraying' = Fraying \ Range(batch)
      BY <3>1, <3>2 DEF Waiting, Fraying
    <3>4. QED
      BY <2>1, <2>2, <2>4, <3>3, StandsAside
  <2>5. QED
    BY <1>7, <2>3, <2>4 DEF FlushAnswered
<1>8. ASSUME NEW batch \in Seq(Event), Ingest(batch),
             UNCHANGED <<file, mark, refused, seqOf>>
      PROVE  [Delivery!Next]_Standing
  <2>1. Range(batch) \in SUBSET Event /\ Range(ledger') = Range(ledger) \cup Range(batch)
    BY <1>8, RangeType, IngestAdds DEF TypeOK
  <2>2. Owed(file, mark)' = Owed(file, mark) /\ Frayed' = Frayed
    BY <1>5, <1>8
  <2>3. Settled' = Settled \cup Range(batch)
    BY <1>8, <2>1 DEF Settled
  <2>4. Waiting' = Waiting \ Range(batch) /\ Fraying' = Fraying \ Range(batch)
    BY <2>2, <2>3 DEF Waiting, Fraying
  <2>5. QED
    BY <1>8, <2>1, <2>4, StandsStored
<1>9. ASSUME NEW s \in Sender, Serve(s)
      PROVE  [Delivery!Next]_Standing
  <2>1. request[s].batch \in Seq(Event)
    BY DEF TypeOK, RequestType
  <2>2. QED
    BY <1>1, <1>8, <1>9, <2>1 DEF Serve
<1>10. ASSUME ServeLate
       PROVE  [Delivery!Next]_Standing
  <2>1. PICK batch \in late : UNCHANGED ledger \/ Ingest(batch)
    BY <1>10 DEF ServeLate
  <2>2. batch \in Seq(Event) /\ UNCHANGED <<file, mark, refused, seqOf>>
    BY <1>10 DEF ServeLate, TypeOK
  <2>3. QED
    BY <1>1, <1>8, <2>1, <2>2
<1>11. ASSUME File \/ FlushStart \/ FlushLost \/ BootLoadFails \/ BootAlign
       PROVE  [Delivery!Next]_Standing
  <2>1. CASE ~File
    BY <1>1, <1>11, <2>1 DEF FlushStart, FlushLost, BootLoadFails, BootAlign
  <2>2. CASE File
    BY <1>1, <2>2 DEF File
  <2>3. QED
    BY <2>1, <2>2
<1>12. ~UploaderNext
  BY DEF UploaderNext, UploaderReads, UploaderCompacts, UploaderAnswered,
     UploaderLost, UploaderDies, PromiseInv, NoRequest
<1>13. ASSUME UNCHANGED vars
       PROVE  [Delivery!Next]_Standing
  BY <1>1, <1>13 DEF vars
<1>14. QED
  BY <1>2, <1>3, <1>4, <1>7, <1>9, <1>10, <1>11, <1>12, <1>13 DEF Next, PageNext

LEMMA InitDelivers == Init => Delivery!Init
<1> SUFFICES ASSUME Init PROVE Delivery!Init
  OBVIOUS
<1>1. DOMAIN <<>> = {} /\ Range(<<>>) = {}
  BY DEF Range
<1>2. Range(ledger) = {} /\ refused = {} /\ Waiting = {} /\ Fraying = {}
  BY <1>1 DEF Init, Waiting, Fraying, Owed, Unsent, Live
<1>3. QED
  BY <1>2, StandingIs DEF StandingIsRead, Stands, Delivery!Init

\* A page alone at its journal implements the abstract promise: an event the
\* disk holds is let go of only into the ledger or by a refusal, the ledger
\* never lets go, and nothing else happens to any event - through deaths, cut
\* writes, compactions, lost answers and late arrivals (emit, flush and
\* recoverJournal of rig.js, load and compact of journal.rs, ingest).
THEOREM DeliveryImplemented ==
  ASSUME WithUploader = FALSE
  PROVE  Spec => ImplementsDelivery
<1>1. TypeOK /\ TypeOK' /\ PromiseInv /\ [Next]_vars => [Delivery!Next]_Standing
  BY StepDelivers
<1>2. TypeOK /\ PromiseInv /\ [Next]_vars => PromiseInv'
  BY StepPromise
<1>3. QED
  BY <1>1, <1>2, InitDelivers, InitPromise, TypeCorrect, PTL
  DEF Spec, ImplementsDelivery, Delivery!Spec

-----------------------------------------------------------------------------
(* The mark follows the answers, where nothing is refused, every boot reads *)
(* its journal and reaches the service, and no record was spoiled yet.      *)

Undisturbed ==
  Bad = {} /\ Wide = {} /\ OfflineBoot = FALSE /\ JournalFails = FALSE

Carried == Range(request["uploader"].batch)

\* What the disk has, and what the uploader has read off it.
Seen == Live(file) \cup snapshot.live \cup Carried

\* A process that is not there has nothing in hand, and an ok means stored.
InHandInv ==
  /\ refused = {}
  /\ page # "up" => chain = <<>> /\ request["page"] = NoRequest
  /\ up # "read" => snapshot.live = {}
  /\ up # "post" => request["uploader"] = NoRequest
  /\ \A s \in Sender : /\ request[s].status # "refused"
                       /\ request[s].status = "ok" =>
                            Range(request[s].batch) \subseteq Range(ledger)
  /\ Range(chain) \subseteq JournalWrites

\* No event turns up anywhere before it is filed.
FiledFirst ==
  /\ Seen \cup Range(outbox) \cup Range(ledger) \cup Range(request["page"].batch)
       \subseteq 1..filed
  /\ \A batch \in late : Range(batch) \subseteq 1..filed
  /\ \A i \in DOMAIN chain : Puts(chain[i]) \subseteq 1..filed

\* The numbers of what the disk and the uploader have are all different, and
\* the queued writes carry later ones, in order.
NumbersGrow ==
  /\ \A d, e \in Seen : seqOf[d] = seqOf[e] => d = e
  /\ \A i \in DOMAIN chain : \A e \in Puts(chain[i]) :
       /\ seqOf[e] < seq
       /\ \A d \in Seen : seqOf[d] < seqOf[e]
       /\ \A j \in DOMAIN chain : j < i => \A d \in Puts(chain[j]) : seqOf[d] < seqOf[e]

\* The next number is past all of them, once a boot has asked the service.
SeqIsNext ==
  /\ page = "up" => \A d \in Seen : seqOf[d] < seq
  /\ page = "loaded" =>
       \A d \in Seen : seqOf[d] < seq \/ d \in Range(ledger) \/ seqOf[d] <= mark

\* What the uploader has read is on the disk, stored, or below the mark; what
\* came to the disk since is later.
ReadIsKept ==
  /\ \A d \in snapshot.live \cup Carried :
       d \in Live(file) \/ d \in Range(ledger) \/ seqOf[d] <= mark
  /\ \A d \in snapshot.live, e \in Live(file) \ snapshot.live : seqOf[d] < seqOf[e]

\* The mark is the number of an event of the ledger, and what it would pass
\* over next is in the batch.
MarkIsAnswered == mark = -1 \/ \E e \in Range(ledger) : seqOf[e] = mark

BatchIsAll ==
  \A e \in Live(file), b \in Carried :
    mark < seqOf[e] /\ seqOf[e] <= seqOf[b] => e \in Carried \cup Range(ledger)

\* Every line puts one event and can be read, and while the page is there the
\* last one wants its newline at most.
FileIsWhole ==
  /\ Single(file) /\ Readable(file)
  /\ page # "off" /\ OpenTail(file) => WholeTail(file)

MarkInv == /\ FileIsWhole
           /\ InHandInv
           /\ FiledFirst
           /\ NumbersGrow
           /\ SeqIsNext
           /\ ReadIsKept
           /\ MarkIsAnswered
           /\ BatchIsAll
NumbersInv == NumbersGrow /\ SeqIsNext /\ ReadIsKept /\ MarkIsAnswered /\ BatchIsAll

\* Steps that put nothing on the disk and number nothing.
LEMMA NumbersKept ==
  ASSUME TypeOK, MarkInv, UNCHANGED <<seqOf, mark>>, Range(ledger) \subseteq Range(ledger'),
         Live(file') \subseteq Live(file),
         \A d \in Live(file) :
           d \in Live(file') \/ d \in Range(ledger') \/ seqOf[d] <= mark,
         snapshot'.live \in {snapshot.live, {}}, Carried' \in {Carried, {}},
         \A i \in DOMAIN chain' :
           Puts(chain'[i]) # {} => i \in DOMAIN chain /\ chain'[i] = chain[i] /\ seq' = seq,
         page' = "off" \/ (page' = page /\ seq' = seq)
  PROVE  NumbersInv'
<1>1. Seen' \subseteq Seen
  BY DEF Seen
<1>2. NumbersGrow'
  <2>1. \A d, e \in Seen' : seqOf'[d] = seqOf'[e] => d = e
    BY <1>1 DEF MarkInv, NumbersGrow
  <2>2. ASSUME NEW i \in DOMAIN chain', NEW e \in Puts(chain'[i])
        PROVE  /\ seqOf'[e] < seq'
               /\ \A d \in Seen' : seqOf'[d] < seqOf'[e]
               /\ \A j \in DOMAIN chain' : j < i =>
                    \A d \in Puts(chain'[j]) : seqOf'[d] < seqOf'[e]
    BY <1>1, <2>2 DEF MarkInv, NumbersGrow
  <2>3. QED
    BY <2>1, <2>2 DEF NumbersGrow
<1>3. SeqIsNext'
  BY <1>1 DEF MarkInv, SeqIsNext
<1>4. ReadIsKept' /\ MarkIsAnswered' /\ BatchIsAll'
  BY DEF MarkInv, ReadIsKept, MarkIsAnswered, BatchIsAll
<1>5. QED
  BY <1>2, <1>3, <1>4 DEF NumbersInv

\* A file that nobody touches, while no page comes to it.
LEMMA WholeKept ==
  ASSUME MarkInv, file' = file, page' # "off" => page # "off"
  PROVE  FileIsWhole'
BY DEF MarkInv, FileIsWhole, Single, Readable, OpenTail, WholeTail

\* A write that spoils nothing lands behind a closed line.
LEMMA WriteLeaves ==
  ASSUME Undisturbed, TypeOK, MarkInv, chain # <<>>, Spoils = {},
         NEW g \in {Appended(file, Head(chain))} \cup Fragments(file, Head(chain))
  PROVE  /\ Live(g) \subseteq Live(file) \cup Puts(Head(chain))
         /\ Live(file) \ Range(ledger) \subseteq Live(g)
         /\ Single(g) /\ Readable(g)
         /\ g = Appended(file, Head(chain)) => ~OpenTail(g)
<1> DEFINE line == Head(chain)
<1>1. /\ line \in Line /\ line \in JournalWrites /\ file \in Seq(Line)
      /\ FileIsWhole /\ page # "off"
  BY HeadTailProperties, RangeEnds DEF TypeOK, MarkInv, InHandInv
<1>2. /\ line.op \in {"put", "del"} /\ ~line.open
      /\ line.op = "put" => \E e \in Event : line.ids = {e}
      /\ line.op = "del" => line.ids \subseteq Range(ledger)
  BY <1>1, WriteKinds DEF JournalWrites, Put, Del, MarkInv, InHandInv, Settled
<1> HIDE DEF line
<1>3. ~OpenTail(file)
  <2>1. SUFFICES ASSUME OpenTail(file) PROVE FALSE
    OBVIOUS
  <2>2. WholeTail(file) /\ file[Len(file)].op = "put" /\ file # <<>>
    BY <1>1, <2>1 DEF FileIsWhole, WholeTail, OpenTail
  <2>3. Len(file) \in DOMAIN file
    <3>1. Len(file) \in Nat \ {0} /\ DOMAIN file = 1..Len(file)
      BY <1>1, <2>2, EmptySeq, LenProperties
    <3>2. QED
      BY <3>1
  <2>4. PICK e \in Event : file[Len(file)].ids = {e}
    BY <1>1, <2>2, <2>3 DEF FileIsWhole, Single
  <2>5. QED
    BY <2>2, <2>4 DEF Spoils
<1>4. PICK x \in Line : /\ g = Append(file, x)
                        /\ \/ x.op = "junk"
                           \/ x.op = line.op /\ x.ids = line.ids
                        /\ g = Appended(file, line) => x = line
  <2>1. CASE g = Appended(file, line)
    BY <1>1, <1>3, <2>1 DEF Appended
  <2>2. CASE g # Appended(file, line)
    <3>1. g = Append(file, Opened(Junk)) \/ g = Append(file, Opened(line))
      BY <1>3, <2>2 DEF Fragments, Tears, Undisturbed, line
    <3>2. /\ Opened(Junk) \in Line /\ Opened(Junk).op = "junk"
          /\ Opened(line) \in Line /\ Opened(line).op = line.op /\ Opened(line).ids = line.ids
      BY <1>1 DEF Opened, Junk, Line
    <3>3. QED
      BY <2>2, <3>1, <3>2
  <2>3. QED
    BY <2>1, <2>2
<1>5. Live(g) = (Live(file) \ Dels(x)) \cup Puts(x)
  BY <1>1, <1>4, LiveAppend
<1>6. Puts(x) \subseteq Puts(line) /\ Dels(x) \subseteq Range(ledger)
  BY <1>2, <1>4 DEF Puts, Dels
<1>7. Single(g)
  <2>1. x.op = "put" => \E e \in Event : x.ids = {e}
    BY <1>2, <1>4
  <2>2. QED
    BY <1>1, <1>4, <2>1, SingleAppend DEF FileIsWhole
<1>8. Readable(g)
  <2>1. x.op # "bytes"
    BY <1>2, <1>4
  <2>2. /\ DOMAIN file = 1..Len(file) /\ DOMAIN g = 1..(Len(file) + 1)
        /\ Len(file) \in Nat
        /\ g[Len(file) + 1] = x /\ \A i \in 1..Len(file) : g[i] = file[i]
    BY <1>1, <1>4, AppendProperties, LenProperties
  <2>3. \A i \in DOMAIN g : i \in DOMAIN file \/ i = Len(file) + 1
    BY <2>2
  <2>4. QED
    BY <1>1, <2>1, <2>2, <2>3 DEF FileIsWhole, Readable
<1>9. g = Appended(file, line) => ~OpenTail(g)
  BY <1>1, <1>2, <1>4, EndOfAppend
<1>10. QED
  BY <1>5, <1>6, <1>7, <1>8, <1>9 DEF line

\* The head of the queue is written: the latest number on the disk, or the
\* forgetting of what the ledger has.
LEMMA NumbersWritten ==
  ASSUME TypeOK, MarkInv, chain # <<>>,
         Live(file') \subseteq Live(file) \cup Puts(Head(chain)),
         Live(file) \ Range(ledger) \subseteq Live(file'),
         UNCHANGED <<seqOf, mark, ledger>>,
         snapshot'.live \in {snapshot.live, {}}, Carried' \in {Carried, {}},
         \/ chain' = Tail(chain) /\ page' = page /\ seq' = seq
         \/ chain' = <<>> /\ page' = "off"
  PROVE  NumbersInv' /\ Seen' \subseteq Seen \cup Puts(Head(chain))
<1> DEFINE new == Puts(Head(chain))
<1>0. /\ Len(chain) \in Nat \ {0} /\ DOMAIN chain = 1..Len(chain)
      /\ Head(chain) = chain[1] /\ Head(chain) \in Line
      /\ Head(chain) \in JournalWrites
  BY EmptySeq, LenProperties, HeadTailProperties, RangeEnds
  DEF TypeOK, MarkInv, InHandInv
<1>1. \A d, e \in new : d = e
  <2>1. Head(chain).op = "put" => \E e \in Event : Head(chain).ids = {e}
    BY <1>0, WriteKinds
  <2>2. QED
    BY <2>1 DEF Puts
<1>2. Live(file') \subseteq Live(file) \cup new /\ Live(file) \ Range(ledger) \subseteq Live(file')
  OBVIOUS
<1>3. Seen' \subseteq Seen \cup new
  BY <1>2 DEF Seen
<1>4. \A e \in new : seqOf[e] < seq /\ \A d \in Seen : seqOf[d] < seqOf[e]
  BY <1>0 DEF MarkInv, NumbersGrow
<1>5. seqOf \in [Event -> Nat] /\ Seen \subseteq Event /\ new \subseteq Event /\ seq \in Nat
  <2>1. Carried \subseteq Event
    BY RangeType DEF Carried, TypeOK, RequestType, Sender
  <2>2. QED
    BY <1>0, <2>1 DEF TypeOK, Seen, Live, Line, Puts
<1>6. \A i \in DOMAIN chain' : /\ i \in 1..(Len(chain) - 1) /\ chain'[i] = chain[i + 1]
                               /\ i + 1 \in DOMAIN chain /\ seq' = seq
  <2>1. CASE chain' = <<>>
    BY <2>1
  <2>2. CASE chain' = Tail(chain) /\ seq' = seq
    <3>1. /\ Tail(chain) \in Seq(Line) /\ Len(Tail(chain)) = Len(chain) - 1
          /\ \A i \in 1..Len(Tail(chain)) : Tail(chain)[i] = chain[i + 1]
      BY HeadTailProperties DEF TypeOK
    <3>2. DOMAIN Tail(chain) = 1..(Len(chain) - 1)
      BY <3>1, LenProperties
    <3>3. QED
      BY <1>0, <2>2, <3>1, <3>2
  <2>3. QED
    BY <2>1, <2>2
<1> HIDE DEF new
<1>7. NumbersGrow'
  <2>1. \A d, e \in Seen' : seqOf'[d] = seqOf'[e] => d = e
    <3>1. ASSUME NEW d \in Seen, NEW e \in new
          PROVE  seqOf[d] # seqOf[e]
      BY <1>4, <1>5
    <3>2. QED
      BY <1>1, <1>3, <3>1 DEF MarkInv, NumbersGrow
  <2>2. ASSUME NEW i \in DOMAIN chain', NEW e \in Puts(chain'[i])
        PROVE  /\ seqOf'[e] < seq'
               /\ \A d \in Seen' : seqOf'[d] < seqOf'[e]
               /\ \A j \in DOMAIN chain' : j < i =>
                    \A d \in Puts(chain'[j]) : seqOf'[d] < seqOf'[e]
    <3>1. i + 1 \in DOMAIN chain /\ e \in Puts(chain[i + 1]) /\ 1 < i + 1 /\ 1 \in DOMAIN chain
      BY <1>0, <1>6, <2>2
    <3>2. /\ seqOf[e] < seq /\ \A d \in Seen : seqOf[d] < seqOf[e]
          /\ \A j \in DOMAIN chain : j < i + 1 => \A d \in Puts(chain[j]) : seqOf[d] < seqOf[e]
      BY <3>1 DEF MarkInv, NumbersGrow
    <3>3. \A d \in new : seqOf[d] < seqOf[e]
      BY <1>0, <3>1, <3>2 DEF new
    <3>4. ASSUME NEW j \in DOMAIN chain', j < i, NEW d \in Puts(chain'[j])
          PROVE  seqOf[d] < seqOf[e]
      <4>1. j + 1 \in DOMAIN chain /\ j + 1 < i + 1 /\ d \in Puts(chain[j + 1])
        BY <1>6, <3>4
      <4>2. QED
        BY <3>2, <4>1
    <3>5. seq' = seq
      BY <1>6
    <3>6. QED
      BY <1>3, <3>2, <3>3, <3>4, <3>5
  <2>3. QED
    BY <2>1, <2>2 DEF NumbersGrow
<1>8. SeqIsNext'
  <2>1. page = "up"
    BY DEF MarkInv, InHandInv
  <2>2. QED
    BY <1>3, <1>4, <2>1 DEF MarkInv, SeqIsNext
<1>9. ReadIsKept'
  <2>1. ASSUME NEW d \in snapshot'.live \cup Carried'
        PROVE  d \in Live(file') \/ d \in Range(ledger') \/ seqOf'[d] <= mark'
    BY <1>2, <2>1 DEF MarkInv, ReadIsKept
  <2>2. ASSUME NEW d \in snapshot'.live, NEW e \in Live(file') \ snapshot'.live
        PROVE  seqOf'[d] < seqOf'[e]
    BY <1>2, <1>4, <2>2 DEF MarkInv, ReadIsKept, Seen
  <2>3. QED
    BY <2>1, <2>2 DEF ReadIsKept
<1>10. MarkIsAnswered'
  BY DEF MarkInv, MarkIsAnswered
<1>11. BatchIsAll'
  <2>1. ASSUME NEW e \in new, NEW b \in Carried
        PROVE  ~(seqOf[e] <= seqOf[b])
    BY <1>4, <1>5, <2>1 DEF Seen
  <2>2. QED
    BY <1>2, <2>1 DEF MarkInv, BatchIsAll
<1>12. QED
  BY <1>3, <1>7, <1>8, <1>9, <1>10, <1>11 DEF NumbersInv, new

\* The ranges the invariant speaks of hold events, and the numbers are natural.
LEMMA MarkTypes ==
  ASSUME TypeOK
  PROVE  /\ seqOf \in [Event -> Nat] /\ seq \in Nat /\ mark \in Nat \cup {-1}
         /\ filed \in Nat /\ filed <= MaxEvents
         /\ Seen \subseteq Event /\ Range(ledger) \subseteq Event
         /\ \A s \in Sender : /\ request[s].batch \in Seq(Event)
                              /\ Range(request[s].batch) \subseteq Event
<1>1. \A s \in Sender : request[s].batch \in Seq(Event) /\ Range(request[s].batch) \subseteq Event
  BY RangeType DEF TypeOK, RequestType
<1>2. Carried \subseteq Event
  BY <1>1 DEF Carried, Sender
<1>3. Range(ledger) \subseteq Event
  BY RangeType DEF TypeOK
<1>4. Seen \subseteq Event
  BY <1>2 DEF Seen, TypeOK, Live
<1>5. filed \in Nat /\ filed <= MaxEvents
  BY BoundsAssumption DEF TypeOK
<1>6. QED
  BY <1>1, <1>3, <1>4, <1>5 DEF TypeOK

LEMMA InitMark == Init => MarkInv
<1> SUFFICES ASSUME Init PROVE MarkInv
  OBVIOUS
<1>1. Range(<<>>) = {} /\ DOMAIN <<>> = {}
  BY DEF Range
<1>2. request["page"] = NoRequest /\ request["uploader"] = NoRequest
  BY DEF Init, Sender
<1>3. Live(file) = {} /\ snapshot.live = {} /\ Carried = {} /\ Seen = {}
  BY <1>1, <1>2 DEF Init, Live, Carried, NoRequest, Seen
<1>4. InHandInv
  BY <1>1, <1>2 DEF Init, InHandInv, Sender, NoRequest
<1>5. FiledFirst
  BY <1>1, <1>2, <1>3 DEF Init, FiledFirst, NoRequest
<1>6. FileIsWhole
  BY <1>1 DEF Init, FileIsWhole, Single, Readable, OpenTail
<1>7. QED
  BY <1>1, <1>3, <1>4, <1>5, <1>6
  DEF Init, MarkInv, NumbersGrow, SeqIsNext, ReadIsKept, MarkIsAnswered, BatchIsAll

\* The ends of a sequence of events.
LEMMA CutRange ==
  ASSUME NEW s \in Seq(Event), NEW n \in Nat
  PROVE  /\ Range(FirstOf(s)) \subseteq Range(s)
         /\ Range(AfterFirst(s, n)) \subseteq Range(s)
<1>1. Len(s) \in Nat /\ DOMAIN s = 1..Len(s) /\ \A i \in 1..Len(s) : s[i] \in Range(s)
  BY LenProperties DEF Range
<1>2. ASSUME NEW a \in Nat \ {0}, NEW b \in Int, b <= Len(s)
      PROVE  Range(SubSeq(s, a, b)) \subseteq Range(s)
  <2>1. SubSeq(s, a, b) \in Seq(Range(s))
    BY <1>1, <1>2, SubSeqProperties
  <2>2. QED
    BY <2>1, LenProperties DEF Range
<1>3. QED
  BY <1>1, <1>2, BatchAssumption DEF FirstOf, AfterFirst

-----------------------------------------------------------------------------
(* The steps of the page.                                                  *)

LEMMA FileMarks ==
  ASSUME TypeOK, MarkInv, File
  PROVE  MarkInv'
<1> USE DEF diskVars, uploaderVars, netVars, boundVars
<1> DEFINE new == filed + 1
<1>0. /\ new \in Event /\ seqOf' = [seqOf EXCEPT ![new] = seq] /\ filed' = new
      /\ seq' = seq + 1 /\ page = "up" /\ page' = "up"
      /\ outbox' = Append(outbox, new) /\ chain' = Append(chain, Put(new))
      /\ UNCHANGED <<file, mark, snapshot, up, request, late, ledger, refused>>
  BY MarkTypes, BoundsAssumption DEF File, Event
<1>1. \A d \in 1..filed : seqOf'[d] = seqOf[d] /\ d \in Event /\ d \in 1..new
  <2>1. ASSUME NEW d \in 1..filed
        PROVE  d \in Event /\ d # new /\ d \in 1..new
    BY MarkTypes, BoundsAssumption DEF Event
  <2>2. QED
    BY <1>0, <2>1, MarkTypes
<1>2. seqOf'[new] = seq
  BY <1>0, MarkTypes
<1>3. Seen' = Seen /\ Live(file)' = Live(file) /\ Carried' = Carried
  BY <1>0 DEF Seen, Live, Carried
<1>4. Put(new) \in Line /\ Put(new) \in JournalWrites /\ Puts(Put(new)) = {new}
  BY <1>0 DEF Put, Line, JournalWrites, Puts
<1>5. /\ DOMAIN chain = 1..Len(chain) /\ Len(chain) \in Nat
      /\ DOMAIN chain' = 1..(Len(chain) + 1)
      /\ \A i \in 1..Len(chain) : chain'[i] = chain[i]
      /\ chain'[Len(chain) + 1] = Put(new)
  <2>1. chain \in Seq(Line)
    BY DEF TypeOK
  <2>2. QED
    BY <1>0, <1>4, <2>1, AppendProperties, LenProperties
<1> HIDE DEF new
<1>6. \A i \in DOMAIN chain' : i \in DOMAIN chain \/ i = Len(chain) + 1
  BY <1>5
<1>7. InHandInv'
  <2>1. Range(chain') \subseteq JournalWrites'
    <3>1. JournalWrites' = JournalWrites
      BY <1>0 DEF JournalWrites, Settled
    <3>2. Range(chain') = Range(chain) \cup {Put(new)}
      BY <1>0, <1>4, RangeEnds DEF TypeOK
    <3>3. QED
      BY <1>4, <3>1, <3>2 DEF MarkInv, InHandInv
  <2>2. QED
    BY <1>0, <2>1 DEF MarkInv, InHandInv
<1>8. FiledFirst'
  <2>1. Range(outbox') = Range(outbox) \cup {new}
    BY <1>0, RangeEnds DEF TypeOK
  <2>2. new \in 1..new
    BY <1>0 DEF Event
  <2>3. \A i \in DOMAIN chain' : Puts(chain'[i]) \subseteq 1..new
    BY <1>1, <1>4, <1>5, <1>6, <2>2 DEF MarkInv, FiledFirst
  <2>4. QED
    BY <1>0, <1>1, <1>3, <2>1, <2>2, <2>3 DEF MarkInv, FiledFirst
<1>9. \A d \in Seen \cup Range(ledger) : seqOf'[d] = seqOf[d]
  BY <1>1 DEF MarkInv, FiledFirst
<1>10. SeqIsNext'
  BY <1>0, <1>3, <1>9, MarkTypes DEF MarkInv, SeqIsNext
<1>11. NumbersGrow'
  <2>1. \A d, e \in Seen' : seqOf'[d] = seqOf'[e] => d = e
    BY <1>3, <1>9 DEF MarkInv, NumbersGrow
  <2>2. ASSUME NEW i \in DOMAIN chain, NEW e \in Puts(chain[i])
        PROVE  /\ seqOf'[e] = seqOf[e] /\ seqOf[e] < seq /\ seqOf[e] \in Nat
               /\ \A d \in Seen : seqOf[d] < seqOf[e]
               /\ \A j \in DOMAIN chain : j < i =>
                    \A d \in Puts(chain[j]) : seqOf'[d] < seqOf'[e]
    BY <1>1, <2>2, MarkTypes DEF MarkInv, NumbersGrow, FiledFirst
  <2>3. ASSUME NEW i \in DOMAIN chain', NEW e \in Puts(chain'[i])
        PROVE  /\ seqOf'[e] < seq'
               /\ \A d \in Seen' : seqOf'[d] < seqOf'[e]
               /\ \A j \in DOMAIN chain' : j < i =>
                    \A d \in Puts(chain'[j]) : seqOf'[d] < seqOf'[e]
    <3>1. CASE i \in DOMAIN chain
      <4>1. chain'[i] = chain[i] /\ \A j \in DOMAIN chain' : j < i => j \in DOMAIN chain /\ chain'[j] = chain[j]
        BY <1>5, <3>1
      <4>2. e \in Puts(chain[i])
        BY <2>3, <4>1
      <4>3. seqOf'[e] < seq' /\ \A d \in Seen' : seqOf'[d] < seqOf'[e]
        BY <1>0, <1>3, <1>9, <2>2, <3>1, <4>2, MarkTypes
      <4>4. QED
        BY <2>2, <3>1, <4>1, <4>2, <4>3
    <3>2. CASE i = Len(chain) + 1
      <4>1. e = new
        BY <1>4, <1>5, <2>3, <3>2
      <4>2. \A d \in Seen : seqOf[d] < seq
        BY <1>0 DEF MarkInv, SeqIsNext
      <4>3. \A j \in DOMAIN chain' : j < i => j \in DOMAIN chain /\ chain'[j] = chain[j]
        BY <1>5, <3>2
      <4>4. \A j \in DOMAIN chain : \A d \in Puts(chain[j]) : seqOf'[d] < seq
        BY <2>2
      <4>5. QED
        BY <1>0, <1>2, <1>3, <1>9, <4>1, <4>2, <4>3, <4>4, MarkTypes
    <3>3. QED
      BY <1>6, <3>1, <3>2
  <2>4. QED
    BY <2>1, <2>3 DEF NumbersGrow
<1>12. ReadIsKept' /\ BatchIsAll'
  <2>1. snapshot'.live \cup Carried' \cup Live(file)' = Seen
    BY <1>0, <1>3 DEF Seen
  <2>2. QED
    BY <1>0, <1>3, <1>9, <2>1 DEF MarkInv, ReadIsKept, BatchIsAll, Seen
<1>13. MarkIsAnswered'
  BY <1>0, <1>9 DEF MarkInv, MarkIsAnswered
<1>14. FileIsWhole'
  BY <1>0, WholeKept
<1>15. QED
  BY <1>7, <1>8, <1>10, <1>11, <1>12, <1>13, <1>14 DEF MarkInv

\* The page's writes: one when it is due, one when the page or the power goes.
LEMMA JournalMarks ==
  ASSUME Undisturbed, TypeOK, MarkInv, [Next]_vars, JournalWrite, spoiled' = {}
  PROVE  MarkInv'
<1> USE DEF uploaderVars, netVars, boundVars
<1>0. /\ chain # <<>> /\ file' = Appended(file, Head(chain)) /\ chain' = Tail(chain)
      /\ Spoils = {}
      /\ UNCHANGED <<page, seq, outbox, mark, up, snapshot, request, late, ledger, seqOf,
                     filed, refused>>
  BY DEF JournalWrite
<1>1. Carried' = Carried
  BY <1>0 DEF Carried
<1>2. /\ Live(file') \subseteq Live(file) \cup Puts(Head(chain))
      /\ Live(file) \ Range(ledger) \subseteq Live(file')
      /\ Single(file') /\ Readable(file') /\ ~OpenTail(file')
  BY <1>0, WriteLeaves
<1>3. NumbersInv' /\ Seen' \subseteq Seen \cup Puts(Head(chain))
  BY <1>0, <1>1, <1>2, NumbersWritten
<1>4. chain \in Seq(Line) /\ page = "up" /\ JournalWrites \subseteq JournalWrites'
  BY <1>0, SettledGrows DEF TypeOK, MarkInv, InHandInv
<1>5. InHandInv'
  BY <1>0, <1>4, RangeEnds DEF MarkInv, InHandInv
<1>6. /\ Puts(Head(chain)) \subseteq 1..filed
      /\ \A i \in DOMAIN chain' : Puts(chain'[i]) \subseteq 1..filed
  <2>1. /\ Len(chain) \in Nat \ {0} /\ DOMAIN chain = 1..Len(chain)
        /\ Head(chain) = chain[1] /\ DOMAIN chain' = 1..(Len(chain) - 1)
        /\ \A i \in 1..(Len(chain) - 1) : chain'[i] = chain[i + 1]
    BY <1>0, <1>4, EmptySeq, LenProperties, HeadTailProperties
  <2>2. \A i \in DOMAIN chain' : i + 1 \in DOMAIN chain /\ chain'[i] = chain[i + 1]
    BY <2>1
  <2>3. QED
    BY <2>1, <2>2 DEF MarkInv, FiledFirst
<1>7. FiledFirst'
  BY <1>0, <1>3, <1>6 DEF MarkInv, FiledFirst
<1>8. FileIsWhole'
  BY <1>2 DEF FileIsWhole
<1>9. QED
  BY <1>3, <1>5, <1>7, <1>8 DEF MarkInv, NumbersInv

LEMMA FlushMarks ==
  ASSUME TypeOK, MarkInv, [Next]_vars, FlushStart \/ FlushAnswered \/ FlushLost
  PROVE  MarkInv'
<1> USE DEF pageVars, diskVars, uploaderVars, netVars, boundVars
<1>0. /\ UNCHANGED <<page, seq, file, mark, up, snapshot, ledger, seqOf, filed>>
      /\ request \in [Sender -> RequestType] /\ "page" \in Sender
  BY DEF FlushStart, FlushAnswered, FlushLost, TypeOK, Sender
<1> DEFINE batch == request["page"].batch
<1>1. batch \in Seq(Event) /\ Len(batch) \in Nat /\ outbox \in Seq(Event)
  BY MarkTypes, LenProperties DEF TypeOK, Sender
<1>2. \/ FlushAnswered /\ chain' = Append(chain, Del(Range(batch)))
           /\ Range(batch) \subseteq Range(ledger) /\ refused' = refused
           /\ Range(outbox') \subseteq Range(outbox) /\ late' = late
      \/ FlushStart /\ UNCHANGED <<chain, refused, outbox, late>>
      \/ FlushLost /\ UNCHANGED <<chain, refused, outbox>>
           /\ late' \subseteq late \cup {batch}
  <2>1. ASSUME FlushAnswered
        PROVE  /\ chain' = Append(chain, Del(Range(batch)))
               /\ Range(batch) \subseteq Range(ledger) /\ refused' = refused
               /\ Range(outbox') \subseteq Range(outbox) /\ late' = late
    BY <1>0, <1>1, <2>1, CutRange DEF FlushAnswered, MarkInv, InHandInv
  <2>2. QED
    BY <2>1 DEF FlushStart, FlushLost, GivenUp
<1>3. /\ request'["uploader"] = request["uploader"]
      /\ \/ request'["page"] = NoRequest
         \/ /\ request'["page"].status = "sent" /\ page = "up"
            /\ Range(request'["page"].batch) \subseteq Range(outbox)
  BY <1>0, <1>1, CutRange DEF FlushStart, FlushAnswered, FlushLost, Sender
<1>4. Carried' = Carried /\ Live(file') = Live(file) /\ Seen' = Seen
  BY <1>0, <1>3 DEF Carried, Seen, Live
<1>5. \A i \in DOMAIN chain' : Puts(chain'[i]) # {} => i \in DOMAIN chain /\ chain'[i] = chain[i]
  <2>1. CASE chain' = chain
    BY <2>1
  <2>2. CASE chain' = Append(chain, Del(Range(batch)))
    <3>1. chain \in Seq(Line) /\ Del(Range(batch)) \in Line /\ Puts(Del(Range(batch))) = {}
      BY <1>1, RangeType DEF TypeOK, Del, Line, Puts
    <3>2. /\ DOMAIN chain = 1..Len(chain) /\ Len(chain) \in Nat
          /\ DOMAIN chain' = 1..(Len(chain) + 1)
          /\ \A i \in 1..Len(chain) : chain'[i] = chain[i]
          /\ chain'[Len(chain) + 1] = Del(Range(batch))
      BY <2>2, <3>1, AppendProperties, LenProperties
    <3>3. \A i \in DOMAIN chain' : i \in DOMAIN chain \/ i = Len(chain) + 1
      BY <3>2
    <3>4. QED
      BY <3>1, <3>2, <3>3
  <2>3. QED
    BY <1>2, <2>1, <2>2
<1>6. NumbersInv'
  BY <1>0, <1>4, <1>5, NumbersKept
<1>7. Range(chain') \subseteq JournalWrites'
  <2>1. JournalWrites \subseteq JournalWrites'
    BY SettledGrows
  <2>2. CASE chain' = Append(chain, Del(Range(batch))) /\ Range(batch) \subseteq Range(ledger)
    <3>1. Del(Range(batch)) \in Line /\ Del(Range(batch)) \in JournalWrites
      BY <1>1, <2>2, RangeType DEF Del, Line, JournalWrites, Settled
    <3>2. QED
      BY <2>1, <2>2, <3>1, RangeEnds DEF TypeOK, MarkInv, InHandInv
  <2>3. QED
    BY <1>2, <2>1, <2>2 DEF MarkInv, InHandInv
<1>8. InHandInv'
  <2>1. page # "up" => chain' = <<>> /\ request'["page"] = NoRequest
    BY <1>2, <1>3 DEF FlushStart, FlushAnswered, FlushLost, MarkInv, InHandInv, NoRequest
  <2>2. QED
    BY <1>0, <1>2, <1>3, <1>7, <2>1 DEF MarkInv, InHandInv, Sender, NoRequest
<1>9. FiledFirst'
  <2>1. Range(<<>>) = {}
    BY DEF Range
  <2>2. Range(request'["page"].batch) \subseteq Range(outbox)
    BY <1>3, <2>1 DEF NoRequest
  <2>3. \A i \in DOMAIN chain' : Puts(chain'[i]) \subseteq 1..filed
    BY <1>5 DEF MarkInv, FiledFirst
  <2>4. Range(outbox') \subseteq Range(outbox) /\ late' \subseteq late \cup {batch}
    BY <1>2
  <2>5. QED
    BY <1>0, <1>4, <2>2, <2>3, <2>4 DEF MarkInv, FiledFirst
<1>10. FileIsWhole'
  BY <1>0, WholeKept
<1>11. QED
  BY <1>6, <1>8, <1>9, <1>10 DEF MarkInv, NumbersInv

LEMMA GoneMarks ==
  ASSUME Undisturbed, TypeOK, MarkInv, [Next]_vars, PageDies \/ PowerCut, spoiled' = {}
  PROVE  MarkInv'
<1> USE DEF uploaderVars, boundVars
<1>0. /\ page' = "off" /\ outbox' = <<>> /\ chain' = <<>>
      /\ late' \subseteq late \cup {request[s].batch : s \in Sender}
      /\ UNCHANGED <<mark, ledger, seqOf, filed, refused>>
      /\ \/ up' = up /\ snapshot' = snapshot /\ request' = [request EXCEPT !["page"] = NoRequest]
         \/ up' = "idle" /\ snapshot'.live = {} /\ request' = [s \in Sender |-> NoRequest]
      /\ \/ file' = file
         \/ /\ chain # <<>> /\ Spoils = {}
            /\ file' \in {Appended(file, Head(chain))} \cup Fragments(file, Head(chain))
  <2>1. \/ file' = file
        \/ /\ chain # <<>> /\ Spoils = {}
           /\ file' \in {Appended(file, Head(chain))} \cup Fragments(file, Head(chain))
    BY DEF PageDies, PowerCut, InHand, TornInHand, Wrote
  <2>2. late' \subseteq late \cup {request[s].batch : s \in Sender}
    BY DEF PageDies, PowerCut, GivenUp, Sender
  <2>3. QED
    BY <2>1, <2>2 DEF PageDies, PowerCut, PageGone
<1>1. Range(<<>>) = {} /\ DOMAIN <<>> = {}
  BY DEF Range
<1>2. /\ request'["page"] = NoRequest
      /\ \/ up' = up /\ snapshot' = snapshot /\ request'["uploader"] = request["uploader"]
         \/ up' = "idle" /\ snapshot'.live = {} /\ request'["uploader"] = NoRequest
  BY <1>0 DEF TypeOK, Sender
<1>3. Carried' \in {Carried, {}} /\ snapshot'.live \in {snapshot.live, {}}
  BY <1>1, <1>2 DEF Carried, NoRequest
<1>4. NumbersInv' /\ Seen' \subseteq 1..filed /\ FileIsWhole'
  <2>1. CASE /\ chain # <<>> /\ Spoils = {}
             /\ file' \in {Appended(file, Head(chain))} \cup Fragments(file, Head(chain))
    <3>0. /\ Live(file') \subseteq Live(file) \cup Puts(Head(chain))
          /\ Live(file) \ Range(ledger) \subseteq Live(file')
          /\ Single(file') /\ Readable(file')
      <4>1. PICK g \in {Appended(file, Head(chain))} \cup Fragments(file, Head(chain)) :
              file' = g
        BY <2>1
      <4>2. /\ Live(g) \subseteq Live(file) \cup Puts(Head(chain))
            /\ Live(file) \ Range(ledger) \subseteq Live(g)
            /\ Single(g) /\ Readable(g)
        BY <2>1, WriteLeaves
      <4>3. QED
        BY <4>1, <4>2
    <3>1. Seen' \subseteq Seen \cup Puts(Head(chain)) /\ NumbersInv'
      BY <1>0, <1>3, <2>1, <3>0, NumbersWritten
    <3>2. 1 \in DOMAIN chain /\ Head(chain) = chain[1]
      BY <2>1, ChainRest
    <3>3. FileIsWhole'
      BY <1>0, <3>0 DEF FileIsWhole
    <3>4. QED
      BY <3>1, <3>2, <3>3 DEF MarkInv, FiledFirst
  <2>2. CASE file' = file
    <3>1. Live(file') = Live(file)
      BY <2>2
    <3>2. Seen' \subseteq Seen
      BY <1>3, <3>1 DEF Seen
    <3>3. NumbersInv'
      BY <1>0, <1>1, <1>3, <3>1, NumbersKept
    <3>4. FileIsWhole'
      BY <1>0, <2>2, WholeKept
    <3>5. QED
      BY <3>2, <3>3, <3>4 DEF MarkInv, FiledFirst
  <2>3. QED
    BY <1>0, <2>1, <2>2
<1>5. InHandInv'
  BY <1>0, <1>1, <1>2 DEF MarkInv, InHandInv, Sender, NoRequest
<1>6. FiledFirst'
  <2>1. Range(outbox') = {} /\ Range(request'["page"].batch) = {} /\ DOMAIN chain' = {}
    BY <1>0, <1>1, <1>2 DEF NoRequest
  <2>2. \A batch \in late' : Range(batch) \subseteq 1..filed
    <3>1. Carried \subseteq Seen /\ \A s \in Sender : s = "page" \/ s = "uploader"
      BY DEF Seen, Sender
    <3>2. \A s \in Sender : Range(request[s].batch) \subseteq 1..filed
      BY <3>1 DEF MarkInv, FiledFirst, Carried
    <3>3. QED
      BY <1>0, <3>2 DEF MarkInv, FiledFirst
  <2>3. QED
    BY <1>0, <1>4, <2>1, <2>2 DEF MarkInv, FiledFirst
<1>7. QED
  BY <1>4, <1>5, <1>6 DEF MarkInv, NumbersInv

\* Of what a set of numbered events offers, the highest is above all.
LEMMA HighestIs ==
  ASSUME TypeOK, NEW S \in SUBSET Event, NEW top \in Highest(S)
  PROVE  /\ \A e \in S : seqOf[e] <= top
         /\ top = -1 \/ \E e \in S : top = seqOf[e]
BY DEF Highest, TypeOK

\* The file as compaction leaves it has all of the order, or is untouched.
LEMMA CompactedLive ==
  ASSUME NEW f \in Seq(Line), NEW n, NEW S \in SUBSET Event, NEW order \in SeqOrders(S)
  PROVE  /\ order \in Seq(Event) /\ Range(order) = S
         /\ \/ Compacted(f, n, order) = f
            \/ Live(Compacted(f, n, order)) = S
BY SeqOrdersType, LivePutLines DEF Compacted

LEMMA BootMarks ==
  ASSUME TypeOK, MarkInv, [Next]_vars, Undisturbed, BootLoad \/ BootAlign
  PROVE  MarkInv'
<1> USE DEF pageVars, diskVars, uploaderVars, netVars, boundVars
<1>0. /\ UNCHANGED <<chain, mark, up, snapshot, request, late, ledger, seqOf, filed, refused>>
      /\ page # "up" /\ chain = <<>> /\ DOMAIN <<>> = {}
      /\ request["page"] = NoRequest
  BY DEF BootLoad, BootAlign, MarkInv, InHandInv
<1>1. Carried' = Carried
  BY <1>0 DEF Carried
<1>2. JournalWrites \subseteq JournalWrites'
  BY SettledGrows
<1>3. InHandInv'
  BY <1>0, <1>2 DEF BootLoad, BootAlign, MarkInv, InHandInv
<1>4. CASE BootLoad
  <2>1. PICK order \in SeqOrders(Owed(file, mark)) :
          outbox' = order /\ file' = Compacted(file, Len(file), order)
    BY <1>4 DEF BootLoad
  <2>2. /\ Range(outbox') = Owed(file, mark)
        /\ file' = file \/ Live(file') = Owed(file, mark)
        /\ Owed(file, mark) \subseteq Live(file)
    BY <2>1, OwedType, CompactedLive DEF TypeOK, Owed, Unsent
  <2>3. \A d \in Live(file) : d \in Owed(file, mark) \/ seqOf[d] <= mark
    BY MarkTypes DEF Owed, Unsent, Live
  <2>4. Seen' \subseteq Seen
    BY <1>0, <1>1, <2>2 DEF Seen
  <2>5. PICK top \in Highest(Owed(file, mark)) : seq' = top + 1
    BY <1>4 DEF BootLoad
  <2>6. page' = "loaded"
    BY <1>4 DEF BootLoad
  <2>7. SeqIsNext'
    <3>1. ASSUME NEW d \in Owed(file, mark) PROVE seqOf[d] < seq'
      <4>1. seqOf[d] <= top /\ d \in Event /\ top \in Nat \cup {-1} /\ seqOf[d] \in Nat
        BY <3>1, OwedType, HighestIs, HighestType DEF TypeOK
      <4>2. QED
        BY <2>5, <4>1
    <3>2. ASSUME NEW d \in Seen'
          PROVE  seqOf[d] < seq' \/ d \in Range(ledger) \/ seqOf[d] <= mark
      <4>1. d \in Live(file) \/ d \in Range(ledger) \/ seqOf[d] <= mark
        BY <1>0, <1>1, <2>2 DEF Seen, MarkInv, ReadIsKept
      <4>2. QED
        BY <2>3, <3>1, <4>1
    <3>3. QED
      BY <1>0, <2>6, <3>2 DEF SeqIsNext
  <2>8. NumbersGrow'
    BY <1>0, <2>4 DEF MarkInv, NumbersGrow
  <2>9. ReadIsKept' /\ BatchIsAll' /\ MarkIsAnswered'
    BY <1>0, <1>1, <2>2, <2>3 DEF MarkInv, ReadIsKept, BatchIsAll, MarkIsAnswered
  <2>10. FiledFirst'
    <3>1. Owed(file, mark) \subseteq 1..filed
      BY <2>2 DEF MarkInv, FiledFirst, Seen
    <3>2. Range(outbox') \subseteq 1..filed /\ Seen' \subseteq 1..filed
      <4>1. Seen \subseteq 1..filed
        BY DEF MarkInv, FiledFirst
      <4>2. Range(outbox') = Owed(file, mark)
        BY <2>2
      <4>3. QED
        BY ONLY <2>4, <3>1, <4>1, <4>2
    <3>3. QED
      BY <1>0, <3>2 DEF MarkInv, FiledFirst
  <2>11. FileIsWhole'
    <3>1. Owed(file, mark) \subseteq Live(file) /\ Single(file) /\ Readable(file)
      BY <2>2 DEF MarkInv, FileIsWhole
    <3>2. \/ file' = file /\ (OpenTail(file) => WholeTail(file))
          \/ file' = PutLines(order) /\ ~OpenTail(file') /\ Readable(file')
      <4>1. \/ /\ Compacted(file, Len(file), order) = file
               /\ OpenTail(file) => WholeTail(file)
            \/ /\ Compacted(file, Len(file), order) = PutLines(order)
               /\ ~OpenTail(PutLines(order)) /\ Readable(PutLines(order))
        BY <2>1, <3>1, CompactedKeeps DEF TypeOK
      <4>2. QED
        BY <2>1, <4>1
    <3>3. order \in Seq(Event)
      BY <2>1, OwedType, SeqOrdersType
    <3>4. QED
      BY <3>1, <3>2, <3>3, SinglePutLines DEF FileIsWhole
  <2>12. QED
    BY <1>3, <2>7, <2>8, <2>9, <2>10, <2>11 DEF MarkInv
<1>5. CASE BootAlign
  <2>1. page = "loaded" /\ page' = "up" /\ UNCHANGED <<file, outbox>>
    BY <1>5 DEF BootAlign
  <2>2. PICK held \in Cursor : seq' = IF held + 1 > seq THEN held + 1 ELSE seq
    BY <1>5 DEF BootAlign, Undisturbed
  <2>3. held \in Nat \cup {-1} /\ \A e \in Range(ledger) : seqOf[e] <= held
    BY MarkTypes, HighestIs, HighestType DEF Cursor
  <2>4. mark <= held
    BY <2>3, MarkTypes DEF MarkInv, MarkIsAnswered
  <2>5. Seen' = Seen
    BY <1>0, <1>1, <2>1 DEF Seen
  <2>6. SeqIsNext'
    <3>1. ASSUME NEW d \in Seen PROVE seqOf[d] < seq'
      <4>1. seqOf[d] < seq \/ d \in Range(ledger) \/ seqOf[d] <= mark
        BY <2>1, <3>1 DEF MarkInv, SeqIsNext
      <4>2. seqOf[d] < seq \/ seqOf[d] <= held
        BY <2>3, <2>4, <3>1, <4>1, MarkTypes
      <4>3. seqOf[d] \in Nat /\ seq \in Nat
        BY <3>1, MarkTypes
      <4>4. QED
        BY <2>2, <2>3, <4>2, <4>3
    <3>2. QED
      BY <1>0, <2>1, <2>5, <3>1 DEF SeqIsNext
  <2>7. NumbersGrow'
    BY <1>0, <2>5 DEF MarkInv, NumbersGrow
  <2>8. ReadIsKept' /\ BatchIsAll' /\ MarkIsAnswered' /\ FiledFirst'
    BY <1>0, <1>1, <2>1, <2>5
    DEF MarkInv, ReadIsKept, BatchIsAll, MarkIsAnswered, FiledFirst
  <2>9. FileIsWhole'
    BY <2>1, WholeKept
  <2>10. QED
    BY <1>3, <2>6, <2>7, <2>8, <2>9 DEF MarkInv
<1>6. QED
  BY <1>4, <1>5

-----------------------------------------------------------------------------
(* The steps of the service and of the uploader.                           *)

LEMMA ServeMarks ==
  ASSUME TypeOK, MarkInv, [Next]_vars, Undisturbed,
         ServeLate \/ \E s \in Sender : Serve(s)
  PROVE  MarkInv'
<1> USE DEF pageVars, diskVars, uploaderVars, netVars, boundVars
<1>0. /\ UNCHANGED <<page, seq, outbox, chain, file, mark, up, snapshot, seqOf, filed, refused>>
      /\ late' \subseteq late /\ request \in [Sender -> RequestType]
  BY DEF Serve, ServeLate, TypeOK
<1>1. Range(ledger) \subseteq Range(ledger') /\ JournalWrites \subseteq JournalWrites'
  <2>1. JournalWrites \subseteq JournalWrites' /\ Settled \subseteq Settled'
    BY SettledGrows
  <2>2. QED
    BY <1>0, <2>1 DEF Settled, MarkInv, InHandInv
<1>2. \A e \in Range(ledger') :
        \/ e \in Range(ledger)
        \/ \E b \in late : e \in Range(b)
        \/ \E s \in Sender : e \in Range(request[s].batch)
  <2>1. CASE ServeLate
    <3>1. PICK b \in late : ledger' = ledger \/ Ingest(b)
      BY <2>1 DEF ServeLate
    <3>2. QED
      BY <3>1, IngestAdds DEF TypeOK
  <2>2. ASSUME NEW s \in Sender, Serve(s)
        PROVE  Range(ledger') \subseteq Range(ledger) \cup Range(request[s].batch)
    BY <2>2, IngestAdds, MarkTypes DEF Serve, TypeOK
  <2>3. QED
    BY <2>1, <2>2
<1>3. \A s \in Sender :
        /\ request'[s].batch = request[s].batch
        /\ request'[s].status # "refused"
        /\ request'[s].status = "ok" => Range(request'[s].batch) \subseteq Range(ledger')
        /\ request[s].status = "none" => request'[s] = request[s]
  <2>1. CASE request' = request
    BY <1>1, <2>1 DEF MarkInv, InHandInv
  <2>2. ASSUME NEW s \in Sender, Serve(s)
        PROVE  \A r \in Sender :
                 /\ request'[r].batch = request[r].batch
                 /\ request'[r].status # "refused"
                 /\ request'[r].status = "ok" => Range(request'[r].batch) \subseteq Range(ledger')
                 /\ request[r].status = "none" => request'[r] = request[r]
    <3>1. /\ request[s].status = "sent" /\ Ingest(request[s].batch)
          /\ request' = [request EXCEPT ![s].status = "ok"]
      BY <2>2 DEF Serve, Refuses, Undisturbed
    <3>2. Range(request[s].batch) \subseteq Range(ledger')
      BY <3>1, IngestAdds, MarkTypes DEF TypeOK
    <3>3. request[s] \in RequestType
      BY <1>0
    <3>4. request'[s].batch = request[s].batch /\ request'[s].status = "ok"
          /\ \A r \in Sender \ {s} : request'[r] = request[r]
      BY <1>0, <3>1, <3>3 DEF RequestType
    <3>5. QED
      BY <1>1, <3>1, <3>2, <3>4 DEF MarkInv, InHandInv
  <2>3. CASE ServeLate
    BY <2>1, <2>3 DEF ServeLate
  <2>4. QED
    BY <2>2, <2>3
<1>4. Carried' = Carried /\ Seen' = Seen
  BY <1>0, <1>3 DEF Carried, Seen, Live, Sender
<1>5. NumbersInv'
  BY <1>0, <1>1, <1>4, NumbersKept
<1>6. InHandInv'
  BY <1>0, <1>1, <1>3 DEF MarkInv, InHandInv, Sender, NoRequest
<1>7. FiledFirst'
  <2>1. Range(request["page"].batch) \subseteq 1..filed /\ Carried \subseteq 1..filed
        /\ Range(ledger) \subseteq 1..filed /\ \A b \in late : Range(b) \subseteq 1..filed
    BY DEF MarkInv, FiledFirst, Seen
  <2>2. Range(ledger') \subseteq 1..filed
    <3>1. \A s \in Sender : Range(request[s].batch) \subseteq 1..filed
      BY <2>1 DEF Carried, Sender
    <3>2. QED
      BY <1>2, <2>1, <3>1
  <2>3. request'["page"].batch = request["page"].batch
    BY <1>3 DEF Sender
  <2>4. QED
    BY <1>0, <1>4, <2>2, <2>3 DEF MarkInv, FiledFirst
<1>8. FileIsWhole'
  BY <1>0, WholeKept
<1>9. QED
  BY <1>5, <1>6, <1>7, <1>8 DEF MarkInv, NumbersInv

LEMMA ReadsMarks ==
  ASSUME TypeOK, MarkInv, [Next]_vars, UploaderReads
  PROVE  MarkInv'
<1> USE DEF pageVars, diskVars, netVars
<1>0. /\ up = "idle" /\ up' = "read" /\ snapshot'.live = Live(file)
      /\ UNCHANGED <<page, seq, outbox, chain, file, mark, request, late, ledger, seqOf,
                     filed, refused>>
  BY DEF UploaderReads
<1>1. Range(<<>>) = {}
  BY DEF Range
<1>2. Carried = {} /\ Carried' = {} /\ Seen' = Seen
  BY <1>0, <1>1 DEF Carried, Seen, MarkInv, InHandInv, NoRequest, Live
<1>3. JournalWrites' = JournalWrites
  BY <1>0 DEF JournalWrites, Settled
<1>4. InHandInv'
  BY <1>0, <1>3 DEF MarkInv, InHandInv
<1>5. FiledFirst' /\ SeqIsNext'
  BY <1>0, <1>2 DEF MarkInv, FiledFirst, SeqIsNext
<1>6. NumbersGrow'
  BY <1>0, <1>2 DEF MarkInv, NumbersGrow
<1>7. ReadIsKept' /\ MarkIsAnswered' /\ BatchIsAll'
  BY <1>0, <1>2 DEF MarkInv, ReadIsKept, MarkIsAnswered, BatchIsAll, Live
<1>8. FileIsWhole'
  BY <1>0, WholeKept
<1>9. QED
  BY <1>4, <1>5, <1>6, <1>7, <1>8 DEF MarkInv

\* The oldest batch of what is offered: nothing offered is older and not in it.
LEMMA FirstAreLowest ==
  ASSUME TypeOK, NEW S \in SUBSET Event, NEW order \in SeqOrders(S),
         NEW e \in S, NEW b \in Range(FirstOf(order))
  PROVE  e \in Range(FirstOf(order)) \/ seqOf[b] <= seqOf[e]
<1> DEFINE n == IF Len(order) < Batch THEN Len(order) ELSE Batch
           first == FirstOf(order)
<1>1. /\ order \in Seq(Event) /\ Range(order) = S /\ Len(order) \in Nat
      /\ DOMAIN order = 1..Len(order)
  BY SeqOrdersType, LenProperties
<1>2. n \in Int /\ n <= Len(order)
  BY <1>1, BatchAssumption
<1>3. first = SubSeq(order, 1, n)
  BY DEF FirstOf
<1> HIDE DEF n, first
<1>4. /\ first \in Seq(Event) /\ DOMAIN first = 1..Len(first)
      /\ \A i \in 1..n : first[i] = order[i]
      /\ Len(first) = IF 1 <= n THEN n ELSE 0
  <2>1. \A i \in 1..n : order[i] \in Event
    BY <1>1, <1>2
  <2>2. /\ SubSeq(order, 1, n) \in Seq(Event)
        /\ Len(SubSeq(order, 1, n)) = IF 1 <= n THEN n - 1 + 1 ELSE 0
        /\ \A i \in 1..(n - 1 + 1) : SubSeq(order, 1, n)[i] = order[1 + i - 1]
    BY <1>2, <2>1, SubSeqProperties
  <2>3. n - 1 + 1 = n /\ \A i \in 1..n : 1 + i - 1 = i
    BY <1>2
  <2>4. QED
    BY <1>2, <1>3, <2>2, <2>3, LenProperties
<1>5. \A i \in 1..n : i \in DOMAIN first
  BY <1>2, <1>4
<1>6. PICK k \in DOMAIN first : b = first[k]
  BY DEF Range, first
<1>7. k \in 1..n /\ b = order[k] /\ k \in DOMAIN order
  BY <1>1, <1>2, <1>4, <1>6
<1>8. PICK i \in DOMAIN order : e = order[i]
  BY <1>1 DEF Range
<1>9. CASE i \in 1..n
  BY <1>4, <1>5, <1>8, <1>9 DEF Range, first
<1>10. CASE i \notin 1..n
  <2>1. k < i
    BY <1>1, <1>2, <1>7, <1>10
  <2>2. QED
    BY <1>7, <1>8, <2>1 DEF SeqOrders
<1>11. QED
  BY <1>9, <1>10

LEMMA CompactsMarks ==
  ASSUME TypeOK, MarkInv, [Next]_vars, UploaderCompacts
  PROVE  MarkInv'
<1> USE DEF pageVars
<1> DEFINE offered == Unsent(snapshot.live, mark)
<1>0. /\ up = "read" /\ snapshot'.live = {} /\ request["uploader"] = NoRequest
      /\ UNCHANGED <<page, seq, outbox, chain, mark, late, ledger, seqOf, filed, refused>>
      /\ request \in [Sender -> RequestType] /\ "uploader" \in Sender /\ "page" \in Sender
  BY DEF UploaderCompacts, MarkInv, InHandInv, TypeOK, Sender
<1>1. PICK order \in SeqOrders(offered) :
        /\ file' = Compacted(file, snapshot.lines, order)
        /\ \/ up' = "idle" /\ request' = request
           \/ /\ up' = "post"
              /\ request' = [request EXCEPT
                   !["uploader"] = [status |-> "sent", batch |-> FirstOf(order)]]
  BY DEF UploaderCompacts
<1>2. offered \in SUBSET Event /\ offered \subseteq snapshot.live
  BY DEF Unsent, TypeOK
<1>3. /\ order \in Seq(Event) /\ Range(order) = offered
      /\ file' = file \/ Live(file') = offered
  BY <1>1, <1>2, CompactedLive DEF TypeOK
<1>4. Range(<<>>) = {}
  BY DEF Range
<1>5. Carried' = {} \/ (Carried' = Range(FirstOf(order)) /\ Carried' \subseteq offered)
  <2>1. CASE request' = request
    BY <1>0, <1>4, <2>1 DEF Carried, NoRequest
  <2>2. CASE request' = [request EXCEPT
                   !["uploader"] = [status |-> "sent", batch |-> FirstOf(order)]]
    <3>1. Carried' = Range(FirstOf(order))
      BY <1>0, <2>2 DEF Carried
    <3>2. QED
      BY <1>3, <3>1, CutRange
  <2>3. QED
    BY <1>1, <2>1, <2>2
<1>6. Carried = {}
  BY <1>0, <1>4 DEF Carried, NoRequest
<1> HIDE DEF offered
<1>7. Seen' \subseteq Seen
  BY <1>0, <1>2, <1>3, <1>5 DEF Seen
<1>8. InHandInv'
  <2>1. JournalWrites' = JournalWrites
    BY <1>0 DEF JournalWrites, Settled
  <2>2. request'["page"] = request["page"]
    BY <1>0, <1>1
  <2>3. /\ request'["uploader"].status \notin {"ok", "refused"}
        /\ up' # "post" => request'["uploader"] = NoRequest
    BY <1>0, <1>1 DEF NoRequest
  <2>4. \A s \in Sender : /\ request'[s].status # "refused"
                          /\ request'[s].status = "ok" =>
                               Range(request'[s].batch) \subseteq Range(ledger')
    BY <1>0, <2>2, <2>3 DEF MarkInv, InHandInv, Sender
  <2>5. QED
    BY <1>0, <2>1, <2>2, <2>3, <2>4 DEF MarkInv, InHandInv
<1>9. FiledFirst'
  <2>1. request'["page"] = request["page"]
    BY <1>0, <1>1
  <2>2. QED
    BY <1>0, <1>7, <2>1 DEF MarkInv, FiledFirst
<1>10. NumbersGrow'
  BY <1>0, <1>7 DEF MarkInv, NumbersGrow
<1>11. SeqIsNext' /\ MarkIsAnswered'
  BY <1>0, <1>7 DEF MarkInv, SeqIsNext, MarkIsAnswered
<1>12. ReadIsKept'
  BY <1>0, <1>2, <1>3, <1>5 DEF MarkInv, ReadIsKept
<1>13. BatchIsAll'
  <2> SUFFICES ASSUME NEW e \in Live(file'), NEW b \in Carried',
                      mark < seqOf[e], seqOf[e] <= seqOf[b], e \notin Carried'
               PROVE  FALSE
    BY <1>0 DEF BatchIsAll
  <2>1. b \in offered /\ b \in snapshot.live /\ Carried' = Range(FirstOf(order))
    BY <1>2, <1>5
  <2>2. e \in Event /\ b \in Event /\ seqOf[e] \in Nat /\ seqOf[b] \in Nat
    BY <1>2, <2>1, MarkTypes DEF Live
  <2>3. e \in snapshot.live
    <3>1. ~(seqOf[b] < seqOf[e])
      BY <2>2
    <3>2. QED
      BY <1>2, <1>3, <2>1, <3>1 DEF MarkInv, ReadIsKept
  <2>4. e \in offered
    BY <2>3 DEF offered, Unsent
  <2>5. seqOf[b] <= seqOf[e]
    BY <1>1, <1>2, <2>1, <2>4, FirstAreLowest
  <2>6. seqOf[b] = seqOf[e]
    BY <2>2, <2>5
  <2>7. e = b
    BY <2>1, <2>3, <2>6 DEF MarkInv, NumbersGrow, Seen
  <2>8. QED
    BY <2>7
<1>14. FileIsWhole'
  <2>1. CASE file' = file
    BY <1>0, <2>1, WholeKept
  <2>2. CASE file' # file
    <3>1. file' = PutLines(order)
      BY <1>1, <2>2 DEF Compacted
    <3>2. QED
      BY <1>3, <3>1, SinglePutLines, LivePutLines DEF FileIsWhole
  <2>3. QED
    BY <2>1, <2>2
<1>15. QED
  BY <1>8, <1>9, <1>10, <1>11, <1>12, <1>13, <1>14 DEF MarkInv

\* The answer is an ok: the mark moves to the highest number of the batch.
LEMMA AnsweredMarks ==
  ASSUME TypeOK, MarkInv, UploaderAnswered
  PROVE  MarkInv' /\ Owed(file, mark) \ Owed(file, mark') \subseteq Settled'
<1> USE DEF pageVars
<1>0. /\ UNCHANGED <<page, seq, outbox, chain, file, snapshot, late, ledger, seqOf, filed>>
      /\ refused' = refused /\ Carried \subseteq Range(ledger)
      /\ up' = "idle" /\ request' = [request EXCEPT !["uploader"] = NoRequest]
      /\ request \in [Sender -> RequestType] /\ "uploader" \in Sender /\ "page" \in Sender
  BY DEF UploaderAnswered, MarkInv, InHandInv, TypeOK, Sender, Carried
<1>1. PICK top \in Highest(Carried) : mark' = IF top > mark THEN top ELSE mark
  BY DEF UploaderAnswered, Carried
<1>2. Range(<<>>) = {}
  BY DEF Range
<1>3. request'["uploader"] = NoRequest /\ request'["page"] = request["page"]
  BY <1>0
<1>4. Carried' = {} /\ Seen' \subseteq Seen
  BY <1>0, <1>2, <1>3 DEF Carried, Seen, NoRequest, Live
<1>5. /\ top \in Nat \cup {-1} /\ \A e \in Carried : seqOf[e] <= top
      /\ top = -1 \/ \E e \in Carried : top = seqOf[e]
  <2>1. PICK S \in SUBSET Event : S = Carried
    BY MarkTypes DEF Seen
  <2>2. seqOf \in [Event -> Nat]
    BY DEF TypeOK
  <2>3. top \in Highest(S)
    BY <1>1, <2>1
  <2>4. top \in Nat \cup {-1}
    BY <2>2, <2>3, HighestType
  <2>5. /\ \A e \in S : seqOf[e] <= top
        /\ top = -1 \/ \E e \in S : top = seqOf[e]
    BY <2>2, <2>3, HighestIs DEF TypeOK
  <2>6. QED
    BY <2>1, <2>4, <2>5
<1>6. mark' \in Nat \cup {-1} /\ mark <= mark' /\ (mark' = mark \/ mark' = top)
  BY <1>1, <1>5, MarkTypes
<1>7. InHandInv'
  <2>1. JournalWrites' = JournalWrites
    BY <1>0 DEF JournalWrites, Settled
  <2>2. snapshot.live = {}
    <3>1. up = "post"
      BY DEF UploaderAnswered, MarkInv, InHandInv, NoRequest
    <3>2. QED
      BY <3>1 DEF MarkInv, InHandInv
  <2>3. QED
    BY <1>0, <1>3, <2>1, <2>2 DEF MarkInv, InHandInv, Sender, NoRequest
<1>8. FiledFirst'
  BY <1>0, <1>3, <1>4 DEF MarkInv, FiledFirst
<1>9. NumbersGrow'
  BY <1>0, <1>4 DEF MarkInv, NumbersGrow
<1>10. \A d \in Seen : seqOf[d] \in Nat /\ (seqOf[d] <= mark => seqOf[d] <= mark')
  BY <1>6, MarkTypes
<1>11. SeqIsNext'
  BY <1>0, <1>4, <1>10 DEF MarkInv, SeqIsNext
<1>12. ReadIsKept'
  BY <1>0, <1>4, <1>10 DEF MarkInv, ReadIsKept, Seen
<1>13. MarkIsAnswered'
  BY <1>0, <1>5, <1>6 DEF MarkInv, MarkIsAnswered
<1>14. BatchIsAll'
  BY <1>4 DEF BatchIsAll
<1>15. Owed(file, mark) \ Owed(file, mark') \subseteq Settled'
  <2> SUFFICES ASSUME NEW e \in Live(file), mark < seqOf[e], ~(mark' < seqOf[e])
               PROVE  e \in Range(ledger)
    BY <1>0, MarkTypes DEF Owed, Unsent, Settled
  <2>1. seqOf[e] \in Nat
    BY MarkTypes DEF Live
  <2>2. mark' # mark /\ mark' = top /\ seqOf[e] <= top /\ top # -1
    BY <1>6, <2>1, MarkTypes
  <2>3. PICK b \in Carried : top = seqOf[b]
    BY <1>5, <2>2
  <2>4. e \in Carried \cup Range(ledger)
    BY <2>2, <2>3 DEF MarkInv, BatchIsAll
  <2>5. QED
    BY <1>0, <2>4
<1>16. FileIsWhole'
  BY <1>0, WholeKept
<1>17. QED
  BY <1>7, <1>8, <1>9, <1>11, <1>12, <1>13, <1>14, <1>15, <1>16 DEF MarkInv

LEMMA StoppedMarks ==
  ASSUME TypeOK, MarkInv, UploaderLost \/ UploaderDies
  PROVE  MarkInv'
<1> USE DEF pageVars, diskVars
<1>0. /\ UNCHANGED <<page, seq, outbox, chain, file, mark, ledger, seqOf, filed, refused>>
      /\ snapshot'.live \in {snapshot.live, {}} /\ up' = "idle"
      /\ up = "post" \/ snapshot'.live = {}
      /\ late' \subseteq late \cup {request["uploader"].batch}
      /\ request' = [request EXCEPT !["uploader"] = NoRequest]
      /\ request \in [Sender -> RequestType] /\ "uploader" \in Sender /\ "page" \in Sender
  BY DEF UploaderLost, UploaderDies, GivenUp, TypeOK, Sender, MarkInv, InHandInv, NoRequest
<1>1. Range(<<>>) = {}
  BY DEF Range
<1>2. request'["uploader"] = NoRequest /\ request'["page"] = request["page"]
  BY <1>0
<1>3. Carried' = {} /\ Seen' \subseteq Seen
  BY <1>0, <1>1, <1>2 DEF Carried, Seen, NoRequest, Live
<1>4. NumbersInv'
  BY <1>0, <1>3, NumbersKept
<1>5. InHandInv'
  <2>1. JournalWrites' = JournalWrites
    BY <1>0 DEF JournalWrites, Settled
  <2>2. snapshot'.live = {}
    BY <1>0 DEF MarkInv, InHandInv
  <2>3. QED
    BY <1>0, <1>2, <2>1, <2>2 DEF MarkInv, InHandInv, Sender, NoRequest
<1>6. FiledFirst'
  <2>1. Range(request["uploader"].batch) \subseteq 1..filed
    BY DEF MarkInv, FiledFirst, Seen, Carried
  <2>2. \A b \in late' : Range(b) \subseteq 1..filed
    BY <1>0, <2>1 DEF MarkInv, FiledFirst
  <2>3. QED
    BY <1>0, <1>2, <1>3, <2>2 DEF MarkInv, FiledFirst
<1>7. FileIsWhole'
  BY <1>0, WholeKept
<1>8. QED
  BY <1>4, <1>5, <1>6, <1>7 DEF MarkInv, NumbersInv

\* What is spoiled stays so.
LEMMA SpoiledGrows ==
  ASSUME [Next]_vars
  PROVE  spoiled \subseteq spoiled'
BY DEF Next, vars, PageNext, File, JournalWrite, JournalWriteFails, FlushStart,
   FlushAnswered, FlushLost, PageDies, PowerCut, Wrote, BootLoad, BootLoadFails,
   BootAlign, UploaderNext, UploaderReads, UploaderCompacts, UploaderAnswered,
   UploaderLost, UploaderDies, Serve, ServeLate

LEMMA StepMarks ==
  ASSUME Undisturbed, TypeOK, MarkInv, [Next]_vars, spoiled' = {}
  PROVE  MarkInv'
<1>1. ~JournalWriteFails /\ ~BootLoadFails
  BY DEF JournalWriteFails, BootLoadFails, Undisturbed, MarkInv, FileIsWhole
<1>2. CASE UNCHANGED vars
  <2>1. FileIsWhole'
    BY <1>2, WholeKept DEF vars, pageVars, diskVars
  <2>2. QED
    BY <1>2, <2>1
    DEF vars, pageVars, diskVars, uploaderVars, netVars, MarkInv, InHandInv, FiledFirst,
        NumbersGrow, SeqIsNext, ReadIsKept, MarkIsAnswered, BatchIsAll, Seen, Carried, Live,
        JournalWrites, Settled
<1>3. QED
  BY <1>1, <1>2, FileMarks, JournalMarks, FlushMarks, GoneMarks, BootMarks, ServeMarks,
     ReadsMarks, CompactsMarks, AnsweredMarks, StoppedMarks
  DEF Next, PageNext, UploaderNext

\* Only an answer moves the mark.
LEMMA StepRetires ==
  ASSUME TypeOK, MarkInv, [Next]_vars
  PROVE  Owed(file, mark) \ Owed(file, mark') \subseteq Settled'
<1> USE DEF pageVars, diskVars
<1>1. CASE UploaderAnswered
  BY <1>1, AnsweredMarks
<1>2. CASE UNCHANGED vars
  BY <1>2 DEF vars
<1>3. CASE PageNext
  <2>1. mark' = mark
    BY <1>3
    DEF PageNext, File, JournalWrite, JournalWriteFails, FlushStart, FlushAnswered, FlushLost,
        PageDies, PowerCut, PageGone, BootLoad, BootLoadFails, BootAlign
  <2>2. QED
    BY <2>1
<1>4. CASE UploaderReads \/ UploaderCompacts \/ UploaderLost \/ UploaderDies
  <2>1. mark' = mark
    BY <1>4 DEF UploaderReads, UploaderCompacts, UploaderLost, UploaderDies
  <2>2. QED
    BY <2>1
<1>5. CASE ServeLate \/ \E s \in Sender : Serve(s)
  <2>1. mark' = mark
    BY <1>5 DEF ServeLate, Serve
  <2>2. QED
    BY <2>1
<1>6. QED
  BY <1>1, <1>2, <1>3, <1>4, <1>5 DEF Next, UploaderNext

\* The mark moves only over events the service has answered for: everything
\* the disk holds that a move of the mark newly retires is in the ledger or
\* refused (upload.rs 242-247).  It holds where the service refuses nothing and
\* every boot reads its journal and reaches the service: then no number is
\* minted twice while no record was glued on to another, and what the mark
\* passes over was in the batch.
THEOREM MarkFollows ==
  ASSUME Bad = {}, Wide = {}, OfflineBoot = FALSE, JournalFails = FALSE
  PROVE  Spec => MarkFollowsAnswers
<1> DEFINE Inv == spoiled = {} => MarkInv
           Follows == spoiled = {} =>
                        Owed(file, mark) \ Owed(file, mark') \subseteq Settled'
<1>1. Undisturbed
  BY DEF Undisturbed
<1>2. TypeOK /\ Inv /\ [Next]_vars => Inv'
  BY <1>1, StepMarks, SpoiledGrows
<1>3. TypeOK /\ Inv /\ [Next]_vars => [Follows]_vars
  BY StepRetires
<1>4. Init => Inv
  BY InitMark
<1> HIDE DEF Inv, Follows
<1>5. Spec => [][Follows]_vars
  BY <1>2, <1>3, <1>4, TypeCorrect, PTL DEF Spec
<1>6. MarkFollowsAnswers <=> [][Follows]_vars
  BY PTL DEF MarkFollowsAnswers, Follows
<1>7. QED
  BY <1>5, <1>6, PTL
=============================================================================
