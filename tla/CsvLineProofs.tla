---------------------------- MODULE CsvLineProofs ----------------------------
(***************************************************************************)
(* What a line of a table file is, written and read: proofs for CsvLine.   *)
(***************************************************************************)
EXTENDS CsvLine, SequenceLemmas

-----------------------------------------------------------------------------
(* The line as a text.                                                     *)

\* What Doubled puts together.
Singles(v) == [i \in 1..Len(v) |-> IF v[i] = Quote THEN <<Quote, Quote>> ELSE <<v[i]>>]

LEMMA SinglesType ==
  ASSUME NEW v \in Seq(Char)
  PROVE  /\ Singles(v) \in Seq(Seq(Char)) /\ Len(Singles(v)) = Len(v)
         /\ \A i \in 1..Len(v) : Singles(v)[i] = IF v[i] = Quote THEN <<Quote, Quote>> ELSE <<v[i]>>
<1> DEFINE s == Singles(v)
<1>1. Quote \in Char /\ \A i \in 1..Len(v) : v[i] \in Char
  BY DEF Char
<1>2. <<Quote, Quote>> \in Seq(Char) /\ \A c \in Char : <<c>> \in Seq(Char)
  BY <1>1
<1>3. \A i \in 1..Len(v) : (IF v[i] = Quote THEN <<Quote, Quote>> ELSE <<v[i]>>) \in Seq(Char)
  BY <1>1, <1>2
<1>4. Len(v) \in Nat
  OBVIOUS
<1> QED
  BY <1>3, <1>4 DEF Singles

LEMMA DoubledType ==
  ASSUME NEW v \in Seq(Char)
  PROVE  Doubled(v) \in Seq(Char) /\ Doubled(v) = FlattenSeq(Singles(v))
<1>1. Doubled(v) = FlattenSeq(Singles(v))
  BY DEF Doubled, Singles
<1>2. FlattenSeq(Singles(v)) \in Seq(Char)
  BY SinglesType, FlattenSeqType
<1> QED
  BY <1>1, <1>2

\* Values that are written between quotes.
Quoted(v) == v = <<>> \/ NeedsQuotes(v)

\* csv_escape_field doubles the quotes and adds two.
LEMMA EscapedQuoted ==
  ASSUME NEW v \in Seq(Char), Quoted(v)
  PROVE  Escaped(v) = <<Quote>> \o Doubled(v) \o <<Quote>>
<1>1. CASE v = <<>>
  <2>1. Singles(v) = <<>>
    BY <1>1 DEF Singles
  <2>2. FlattenSeq(<<>>) = <<>>
    <3>1. <<>> \in Seq(Seq(Char)) /\ Len(<<>>) = 0
      OBVIOUS
    <3> QED
      BY <3>1, FlattenSeqIs
  <2>3. Doubled(v) = <<>>
    BY <2>1, <2>2, DoubledType
  <2>4. <<Quote>> \o <<>> \o <<Quote>> = <<Quote, Quote>>
    <3>1. <<Quote>> \in Seq(Char)
      BY DEF Char
    <3>2. <<Quote>> \o <<>> = <<Quote>>
      BY <3>1, ConcatEmptySeq
    <3>3. <<Quote>> \o <<Quote>> = <<Quote, Quote>>
      <4>1. PICK u, w : u = <<Quote>> \o <<Quote>> /\ w = <<Quote, Quote>>
        OBVIOUS
      <4>2. Joins(u, <<Quote>>, <<Quote>>, Char)
        BY <3>1, <4>1, ConcatJoins
      <4>3. /\ u \in Seq(Char) /\ Len(u) = 2 /\ u[1] = Quote /\ u[1 + 1] = Quote
            /\ w \in Seq(Char) /\ Len(w) = 2 /\ w[1] = Quote /\ w[2] = Quote
        BY <3>1, <4>1, <4>2 DEF Joins, Char
      <4>4. u = w
        BY <4>3, SeqEqual
      <4> QED
        BY <4>1, <4>4
    <3> QED
      BY <3>2, <3>3
  <2> QED
    BY <1>1, <2>3, <2>4 DEF Escaped
<1>2. CASE v # <<>>
  BY <1>2 DEF Escaped, Quoted
<1> QED
  BY <1>1, <1>2

LEMMA EscapedType ==
  ASSUME NEW v \in Seq(Char)
  PROVE  Escaped(v) \in Seq(Char)
<1>1. PICK a, d : a = <<Quote>> /\ d = Doubled(v)
  OBVIOUS
<1>2. a \in Seq(Char) /\ d \in Seq(Char)
  BY <1>1, DoubledType DEF Char
<1>3. a \o d \in Seq(Char)
  BY <1>2, ConcatJoins DEF Joins
<1>4. (a \o d) \o a \in Seq(Char)
  BY <1>2, <1>3, ConcatJoins DEF Joins
<1>5. CASE Quoted(v)
  BY <1>1, <1>4, <1>5, EscapedQuoted
<1>6. CASE ~Quoted(v)
  BY <1>6 DEF Escaped, Quoted
<1> QED
  BY <1>5, <1>6

\* The characters of a value between quotes.
LEMMA EscapedChars ==
  ASSUME NEW v \in Seq(Char), Quoted(v)
  PROVE  /\ Len(Doubled(v)) \in Nat
         /\ Len(Escaped(v)) = Len(Doubled(v)) + 2
         /\ Escaped(v)[1] = Quote
         /\ Escaped(v)[Len(Doubled(v)) + 2] = Quote
         /\ \A j \in 1..Len(Doubled(v)) : Escaped(v)[j + 1] = Doubled(v)[j]
<1>1. PICK d, a, ad, e : d = Doubled(v) /\ a = <<Quote>> /\ ad = a \o d /\ e = ad \o a
  OBVIOUS
<1>2. d \in Seq(Char) /\ Len(d) \in Nat
  BY <1>1, DoubledType
<1>3. a \in Seq(Char) /\ Len(a) = 1 /\ a[1] = Quote
  BY <1>1 DEF Char
<1>4. Joins(ad, a, d, Char)
  BY <1>1, <1>2, <1>3, ConcatJoins
<1>5. /\ ad \in Seq(Char) /\ Len(ad) = 1 + Len(d) /\ ad[1] = Quote
      /\ \A j \in 1..Len(d) : ad[1 + j] = d[j]
  BY <1>3, <1>4 DEF Joins
<1>6. Joins(e, ad, a, Char)
  BY <1>1, <1>3, <1>5, ConcatJoins
<1>7. /\ Len(e) = 1 + Len(d) + 1
      /\ \A j \in 1..(1 + Len(d)) : e[j] = ad[j]
      /\ e[1 + Len(d) + 1] = Quote
  BY <1>3, <1>5, <1>6 DEF Joins
<1>8. e = Escaped(v)
  BY <1>1, EscapedQuoted
<1>9. e[1] = Quote
  BY <1>2, <1>5, <1>7
<1>10. e[Len(d) + 2] = Quote /\ Len(e) = Len(d) + 2
  <2>1. 1 + Len(d) + 1 = Len(d) + 2
    BY <1>2
  <2> QED
    BY <1>7, <2>1
<1>11. ASSUME NEW j \in 1..Len(d) PROVE e[j + 1] = d[j]
  <2>1. PICK i : i = j + 1
    OBVIOUS
  <2>2. i \in 1..(1 + Len(d)) /\ i = 1 + j
    BY <1>2, <2>1
  <2>3. e[i] = ad[i] /\ ad[i] = d[j]
    BY <1>5, <1>7, <2>2
  <2> QED
    BY <2>1, <2>3
<1> QED
  BY <1>1, <1>2, <1>8, <1>9, <1>10, <1>11

\* The characters of a value between quotes that begins behind b: the k-th ends at q[k].
InsideQuotes(q, v, b, text) ==
  /\ q \in [0..Len(v) -> Nat]
  /\ q[0] = b + 1
  /\ \A k \in 1..Len(v) :
       IF v[k] = Quote
       THEN q[k] = q[k - 1] + 2 /\ text[q[k - 1] + 1] = Quote /\ text[q[k - 1] + 2] = Quote
       ELSE q[k] = q[k - 1] + 1 /\ text[q[k - 1] + 1] = v[k]
  /\ q[Len(v)] + 1 = b + Len(Escaped(v))
  /\ text[b + 1] = Quote
  /\ text[q[Len(v)] + 1] = Quote

\* Where each character of a quoted value stands in a text that holds it.
LEMMA QuotedPlaces ==
  ASSUME NEW v \in Seq(Char), Quoted(v), NEW b \in Nat, NEW text,
         \A j \in 1..Len(Escaped(v)) : text[b + j] = Escaped(v)[j]
  PROVE  \E q : InsideQuotes(q, v, b, text)
<1>1. PICK d, e, s : d = Doubled(v) /\ e = Escaped(v) /\ s = Singles(v)
  OBVIOUS
<1>2. /\ Len(d) \in Nat /\ Len(e) = Len(d) + 2 /\ e[1] = Quote /\ e[Len(d) + 2] = Quote
      /\ \A j \in 1..Len(d) : e[j + 1] = d[j]
  BY <1>1, EscapedChars
<1>3. /\ s \in Seq(Seq(Char)) /\ Len(s) = Len(v)
      /\ \A i \in 1..Len(v) : s[i] = IF v[i] = Quote THEN <<Quote, Quote>> ELSE <<v[i]>>
  BY <1>1, SinglesType
<1>4. d = FlattenSeq(s) /\ d \in Seq(Char)
  BY <1>1, DoubledType
<1>5. PICK p : Layout(p, s, d)
  BY <1>3, <1>4, FlattenLayout
<1>6. /\ p \in [0..Len(v) -> Nat] /\ p[0] = 0 /\ p[Len(v)] = Len(d)
      /\ \A i \in 1..Len(v) : p[i] = p[i - 1] + Len(s[i]) /\ p[i] <= Len(d)
      /\ \A i \in 1..Len(v) : \A j \in 1..Len(s[i]) : d[p[i - 1] + j] = s[i][j]
  BY <1>3, <1>5 DEF Layout
<1> DEFINE q == [k \in 0..Len(v) |-> b + 1 + p[k]]
<1>7. Len(v) \in Nat /\ q \in [0..Len(v) -> Nat] /\ \A k \in 0..Len(v) : q[k] = b + 1 + p[k]
  BY <1>6
<1> HIDE DEF q
<1>8. \A j \in 1..(Len(d) + 2) : text[b + j] = e[j]
  BY <1>1, <1>2
<1>9. \A j \in 1..Len(d) : text[b + 1 + j] = d[j]
  <2> SUFFICES ASSUME NEW j \in 1..Len(d) PROVE text[b + 1 + j] = d[j]
    OBVIOUS
  <2>1. j + 1 \in 1..(Len(d) + 2) /\ b + 1 + j = b + (j + 1)
    BY <1>2
  <2>2. text[b + (j + 1)] = e[j + 1]
    BY <1>8, <2>1
  <2> QED
    BY <1>2, <2>1, <2>2
<1>10. ASSUME NEW k \in 1..Len(v)
       PROVE  IF v[k] = Quote
              THEN q[k] = q[k - 1] + 2 /\ text[q[k - 1] + 1] = Quote /\ text[q[k - 1] + 2] = Quote
              ELSE q[k] = q[k - 1] + 1 /\ text[q[k - 1] + 1] = v[k]
  <2>1. PICK h : h = k - 1
    OBVIOUS
  <2>2. h \in 0..Len(v) /\ k \in 0..Len(v)
    BY <1>7, <2>1
  <2>3. PICK x, y : x = p[h] /\ y = p[k]
    OBVIOUS
  <2>4. x \in Nat /\ y \in Nat /\ y = x + Len(s[k]) /\ y <= Len(d) /\ q[h] = b + 1 + x /\ q[k] = b + 1 + y
    BY <1>6, <1>7, <2>1, <2>2, <2>3
  <2>5. \A j \in 1..Len(s[k]) : d[x + j] = s[k][j]
    BY <1>6, <2>1, <2>3
  <2>6. ASSUME NEW j \in Nat, j >= 1, j <= Len(s[k]), Len(s[k]) \in Nat PROVE text[q[h] + j] = s[k][j]
    <3>1. x + j \in 1..Len(d) /\ q[h] + j = b + 1 + (x + j)
      BY <1>2, <2>4, <2>6
    <3>2. text[b + 1 + (x + j)] = d[x + j]
      BY <1>9, <3>1
    <3>3. d[x + j] = s[k][j]
      BY <2>5, <2>6
    <3> QED
      BY <3>1, <3>2, <3>3
  <2>7. CASE v[k] = Quote
    <3>1. s[k] = <<Quote, Quote>>
      BY <1>3, <2>7
    <3>2. Len(s[k]) = 2 /\ s[k][1] = Quote /\ s[k][2] = Quote
      BY <3>1
    <3>3. q[k] = q[h] + 2
      BY <2>4, <3>2
    <3>4. text[q[h] + 1] = s[k][1] /\ text[q[h] + 2] = s[k][2]
      BY <2>6, <3>2
    <3> QED
      BY <2>1, <2>7, <3>2, <3>3, <3>4
  <2>8. CASE v[k] # Quote
    <3>1. s[k] = <<v[k]>>
      BY <1>3, <2>8
    <3>2. Len(s[k]) = 1 /\ s[k][1] = v[k]
      BY <3>1
    <3>3. q[k] = q[h] + 1
      BY <2>4, <3>2
    <3>4. text[q[h] + 1] = s[k][1]
      BY <2>6, <3>2
    <3> QED
      BY <2>1, <2>8, <3>2, <3>3, <3>4
  <2> QED
    BY <2>7, <2>8
<1>11. q[0] = b + 1
  BY <1>6, <1>7
<1>12. q[Len(v)] + 1 = b + Len(e) /\ q[Len(v)] + 1 = b + (Len(d) + 2)
  <2>1. Len(v) \in 0..Len(v)
    BY <1>7
  <2>2. q[Len(v)] = b + 1 + Len(d)
    BY <1>6, <1>7, <2>1
  <2> QED
    BY <1>2, <2>2
<1>13. text[b + 1] = Quote
  BY <1>2, <1>8
<1>14. text[q[Len(v)] + 1] = Quote
  <2>1. Len(d) + 2 \in 1..(Len(d) + 2)
    BY <1>2
  <2> QED
    BY <1>2, <1>8, <1>12, <2>1
<1>15. InsideQuotes(q, v, b, text)
  BY <1>1, <1>7, <1>10, <1>11, <1>12, <1>13, <1>14 DEF InsideQuotes
<1> QED
  BY <1>15

\* Field i of a written row stands in the text behind place b[i].
Starts(b, values, text) ==
  /\ b \in [1..Len(values) -> Nat]
  /\ b[1] = 0
  /\ \A i \in 1..Len(values) :
       /\ \A j \in 1..Len(Escaped(values[i])) : text[b[i] + j] = Escaped(values[i])[j]
       /\ b[i] + Len(Escaped(values[i])) <= Len(text)
       /\ i = Len(values) => b[i] + Len(Escaped(values[i])) = Len(text)
       /\ i # Len(values) =>
            /\ b[i + 1] = b[i] + Len(Escaped(values[i])) + 1
            /\ b[i + 1] <= Len(text)
            /\ text[b[i + 1]] = Comma

\* What Line puts together.
Chunks(values) ==
  [i \in 1..Len(values) |->
     IF i = 1 THEN Escaped(values[i]) ELSE <<Comma>> \o Escaped(values[i])]

LEMMA ChunksType ==
  ASSUME NEW values \in Seq(Seq(Char))
  PROVE  /\ Chunks(values) \in Seq(Seq(Char)) /\ Len(Chunks(values)) = Len(values)
         /\ \A i \in 1..Len(values) :
              /\ Escaped(values[i]) \in Seq(Char)
              /\ i = 1 => Chunks(values)[i] = Escaped(values[i])
              /\ i # 1 => Joins(Chunks(values)[i], <<Comma>>, Escaped(values[i]), Char)
<1>1. <<Comma>> \in Seq(Char) /\ Len(values) \in Nat
  BY DEF Char
<1>2. ASSUME NEW i \in 1..Len(values)
      PROVE  /\ Escaped(values[i]) \in Seq(Char)
             /\ Joins(<<Comma>> \o Escaped(values[i]), <<Comma>>, Escaped(values[i]), Char)
             /\ <<Comma>> \o Escaped(values[i]) \in Seq(Char)
  <2>1. values[i] \in Seq(Char)
    OBVIOUS
  <2>2. Escaped(values[i]) \in Seq(Char)
    BY <2>1, EscapedType
  <2>3. Joins(<<Comma>> \o Escaped(values[i]), <<Comma>>, Escaped(values[i]), Char)
    BY <1>1, <2>2, ConcatJoins
  <2> QED
    BY <2>2, <2>3 DEF Joins
<1> DEFINE e(i) == IF i = 1 THEN Escaped(values[i]) ELSE <<Comma>> \o Escaped(values[i])
<1>3. \A i \in 1..Len(values) : e(i) \in Seq(Char)
  BY <1>2
<1>4. [i \in 1..Len(values) |-> e(i)] \in Seq(Seq(Char))
  <2> HIDE DEF e
  <2> QED
    BY <1>1, <1>3
<1>5. Chunks(values) \in Seq(Seq(Char)) /\ Len(Chunks(values)) = Len(values)
  BY <1>1, <1>4 DEF Chunks
<1>6. ASSUME NEW i \in 1..Len(values)
      PROVE  /\ i = 1 => Chunks(values)[i] = Escaped(values[i])
             /\ i # 1 => Chunks(values)[i] = <<Comma>> \o Escaped(values[i])
  BY DEF Chunks
<1> QED
  BY <1>2, <1>5, <1>6, Zenon

LEMMA LineType ==
  ASSUME NEW values \in Seq(Seq(Char))
  PROVE  Line(values) \in Seq(Char) /\ Line(values) = FlattenSeq(Chunks(values))
<1>1. Line(values) = FlattenSeq(Chunks(values))
  BY DEF Line, Chunks
<1> QED
  BY <1>1, ChunksType, FlattenSeqType

\* Where each field of a written line begins.
LEMMA LineStarts ==
  ASSUME NEW values \in Seq(Seq(Char)), values # <<>>
  PROVE  \E b : Starts(b, values, Line(values))
<1>1. PICK s, t : s = Chunks(values) /\ t = Line(values)
  OBVIOUS
<1>2. /\ s \in Seq(Seq(Char)) /\ Len(s) = Len(values)
      /\ \A i \in 1..Len(values) :
           /\ Escaped(values[i]) \in Seq(Char)
           /\ i = 1 => s[i] = Escaped(values[i])
           /\ i # 1 => Joins(s[i], <<Comma>>, Escaped(values[i]), Char)
  BY <1>1, ChunksType
<1>3. PICK p : Layout(p, s, t)
  BY <1>1, <1>2, LineType, FlattenLayout
<1>4. PICK n : n = Len(values)
  OBVIOUS
<1>5. n \in Nat /\ n >= 1
  BY <1>4
<1>6. /\ p \in [0..n -> Nat] /\ p[0] = 0 /\ p[n] = Len(t)
      /\ \A i \in 1..n : p[i] = p[i - 1] + Len(s[i]) /\ p[i] <= Len(t)
      /\ \A i \in 1..n : \A j \in 1..Len(s[i]) : t[p[i - 1] + j] = s[i][j]
  BY <1>2, <1>3, <1>4 DEF Layout
<1> DEFINE b == [i \in 1..n |-> IF i = 1 THEN 0 ELSE p[i - 1] + 1]
<1>7. b \in [1..n -> Nat] /\ b[1] = 0 /\ \A i \in 1..n : b[i] = IF i = 1 THEN 0 ELSE p[i - 1] + 1
  <2>1. \A i \in 1..n : i # 1 => i - 1 \in 0..n
    BY <1>5
  <2> QED
    BY <1>5, <1>6, <2>1
<1> HIDE DEF b
<1>8. ASSUME NEW i \in 1..n
      PROVE  /\ b[i] + Len(Escaped(values[i])) = p[i]
             /\ b[i] \in Nat /\ p[i] \in Nat /\ Len(Escaped(values[i])) \in Nat
             /\ \A j \in 1..Len(Escaped(values[i])) : t[b[i] + j] = Escaped(values[i])[j]
             /\ i # 1 => t[b[i]] = Comma
  <2>1. PICK h, e, l : h = i - 1 /\ e = Escaped(values[i]) /\ l = Len(e)
    OBVIOUS
  <2>2. h \in 0..n /\ i \in 0..n /\ l \in Nat /\ e \in Seq(Char)
    BY <1>2, <1>4, <1>5, <2>1
  <2>3. PICK x, y : x = p[h] /\ y = p[i]
    OBVIOUS
  <2>4. x \in Nat /\ y \in Nat /\ y = x + Len(s[i]) /\ b[i] = (IF i = 1 THEN 0 ELSE x + 1)
    BY <1>6, <1>7, <2>1, <2>2, <2>3
  <2>5. \A j \in 1..Len(s[i]) : t[x + j] = s[i][j]
    BY <1>6, <2>1, <2>3
  <2>6. CASE i = 1
    <3>1. s[i] = e /\ x = 0 /\ b[i] = 0
      BY <1>2, <1>4, <1>6, <2>1, <2>3, <2>4, <2>6
    <3> QED
      BY <2>1, <2>2, <2>3, <2>4, <2>5, <2>6, <3>1
  <2>7. CASE i # 1
    <3>1. Joins(s[i], <<Comma>>, e, Char)
      BY <1>2, <1>4, <2>1, <2>7
    <3>2. /\ Len(s[i]) = 1 + l /\ s[i][1] = Comma
          /\ \A j \in 1..l : s[i][1 + j] = e[j]
      BY <2>1, <3>1 DEF Joins
    <3>3. b[i] = x + 1 /\ y = b[i] + l
      BY <2>2, <2>4, <2>7, <3>2
    <3>4. t[b[i]] = Comma
      <4>1. 1 \in 1..Len(s[i])
        BY <2>2, <3>2
      <4> QED
        BY <2>5, <3>2, <3>3, <4>1
    <3>5. ASSUME NEW j \in 1..l PROVE t[b[i] + j] = e[j]
      <4>1. 1 + j \in 1..Len(s[i]) /\ b[i] + j = x + (1 + j)
        BY <2>2, <2>4, <3>2, <3>3
      <4>2. t[x + (1 + j)] = s[i][1 + j]
        BY <2>5, <4>1
      <4> QED
        BY <3>2, <4>1, <4>2
    <3>6. b[i] \in Nat
      BY <2>4, <3>3
    <3> QED
      BY <2>1, <2>2, <2>3, <2>4, <3>3, <3>4, <3>5, <3>6
  <2> QED
    BY <2>6, <2>7
<1>9. ASSUME NEW i \in 1..n
      PROVE  /\ b[i] + Len(Escaped(values[i])) <= Len(t)
             /\ i = n => b[i] + Len(Escaped(values[i])) = Len(t)
             /\ i # n => /\ b[i + 1] = b[i] + Len(Escaped(values[i])) + 1
                         /\ b[i + 1] <= Len(t)
                         /\ t[b[i + 1]] = Comma
  <2>1. p[i] <= Len(t) /\ (i = n => p[i] = Len(t))
    BY <1>6
  <2>2. CASE i # n
    <3>1. PICK j : j = i + 1 /\ j \in 1..n /\ j # 1 /\ j - 1 = i
      BY <1>5, <2>2
    <3>2. b[j] = p[i] + 1 /\ t[b[j]] = Comma
      BY <1>7, <1>8, <3>1
    <3>3. p[j] = p[i] + Len(s[j]) /\ p[j] <= Len(t)
      BY <1>6, <3>1
    <3>4. Len(s[j]) \in Nat /\ Len(s[j]) >= 1
      <4>1. Joins(s[j], <<Comma>>, Escaped(values[j]), Char)
        BY <1>2, <1>4, <3>1
      <4>2. Len(s[j]) = 1 + Len(Escaped(values[j]))
        BY <4>1 DEF Joins
      <4> QED
        BY <1>8, <3>1, <4>2
    <3>5. Len(t) \in Nat
      BY <1>5, <1>6
    <3>6. b[j] <= Len(t)
      BY <1>8, <3>1, <3>2, <3>3, <3>4, <3>5
    <3> QED
      BY <1>8, <2>1, <2>2, <3>1, <3>2, <3>6
  <2>3. CASE i = n
    BY <1>8, <2>1, <2>3
  <2> QED
    BY <2>2, <2>3
<1>10. Starts(b, values, t)
  BY <1>4, <1>7, <1>8, <1>9 DEF Starts
<1> QED
  BY <1>1, <1>10

-----------------------------------------------------------------------------
(* Types.                                                                  *)

LEMMA TrimType ==
  ASSUME NEW s \in Seq(Char)
  PROVE  Trim(s) \in Seq(Char)
<1> DEFINE ink == {i \in 1..Len(s) : s[i] # Space}
<1>1. CASE ink = {}
  <2>1. <<>> \in Seq(Char)
    OBVIOUS
  <2> QED
    BY <1>1, <2>1 DEF Trim
<1>2. CASE ink # {}
  <2>1. PICK a, z : a = Min(ink) /\ z = Max(ink)
    OBVIOUS
  <2>2. ink \subseteq Nat /\ ink \subseteq 0..Len(s) /\ Len(s) \in Nat
    OBVIOUS
  <2>3. a \in ink /\ z \in ink
    BY <1>2, <2>1, <2>2, MinMember, MaxMember
  <2>4. a \in Int /\ z \in Int /\ \A i \in a..z : s[i] \in Char
    BY <2>3
  <2>5. SubSeq(s, a, z) \in Seq(Char)
    BY <2>4, SubSeqProperties
  <2> QED
    BY <1>2, <2>1, <2>5 DEF Trim
<1> QED
  BY <1>1, <1>2

\* The range of every variable, whatever is written or typed.
LEMMA TypeInit == RowAssumption /\ Init => TypeOK
<1> SUFFICES ASSUME RowAssumption, Init PROVE TypeOK
  OBVIOUS
<1>1. line \in Seq(Char) /\ row \in Rows \cup {NoRow}
  <2>1. CASE row \in Rows /\ line = Line(row)
    <3>1. row \in Seq(Seq(Char \ {CR}))
      BY <2>1 DEF RowAssumption
    <3>2. row \in Seq(Seq(Char))
      BY <3>1
    <3> QED
      BY <2>1, <3>2, LineType
  <2>2. CASE row = NoRow /\ line \in TypedLines
    BY <2>2 DEF RowAssumption
  <2> QED
    BY <2>1, <2>2 DEF Init
<1>2. cursor \in 1..(Len(line) + 1)
  BY <1>1 DEF Init
<1>3. fields \in Seq(Seq(Char))
  BY DEF Init
<1> QED
  BY <1>1, <1>2, <1>3 DEF Init, TypeOK

LEMMA TextType ==
  TypeOK => Text \in Seq(Char) /\ FieldText \in Seq(Char)
<1> SUFFICES ASSUME TypeOK PROVE Text \in Seq(Char) /\ FieldText \in Seq(Char)
  OBVIOUS
<1>1. Text \in Seq(Char)
  BY DEF Text, TypeOK
<1> QED
  BY <1>1, TrimType DEF FieldText

LEMMA TakeType ==
  ASSUME TypeOK, NEW s \in Seq(Char), NEW n \in 1..2, cursor + n <= Len(line) + 1, Take(s, n)
  PROVE  buffer' \in Seq(Char) \cup {Null} /\ cursor' \in 1..(Len(line) + 1)
<1>1. Text \o s \in Seq(Char)
  BY TextType, ConcatJoins DEF Joins
<1>2. buffer' \in Seq(Char) \cup {Null}
  BY <1>1 DEF Take, TypeOK
<1> QED
  BY <1>2 DEF Take, TypeOK

\* No step of csv_parse_line leaves the line.
LEMMA TypeStep == TypeOK /\ [Next]_vars => TypeOK'
<1> SUFFICES ASSUME TypeOK, [Next]_vars PROVE TypeOK'
  OBVIOUS
<1>1. /\ row \in Rows \cup {NoRow} /\ line \in Seq(Char) /\ Len(line) \in Nat /\ cursor \in 1..(Len(line) + 1)
      /\ in_quotes \in BOOLEAN /\ just_closed_quote \in BOOLEAN
      /\ buffer \in Seq(Char) \cup {Null} /\ fields \in Seq(Seq(Char))
      /\ result \in {"parsing", "ok", "malformed", "outOfMemory"}
  BY DEF TypeOK
<1>2. ~AtEnd => line[cursor] \in Char /\ <<line[cursor]>> \in Seq(Char) /\ cursor + 1 <= Len(line) + 1
  BY <1>1 DEF AtEnd
<1>3. <<>> \in Seq(Char) /\ <<Quote>> \in Seq(Char)
  BY DEF Char
<1>4. CASE DoubledQuote
  <2>1. PICK s : s = <<Quote>>
    OBVIOUS
  <2>2. Take(s, 2) /\ s \in Seq(Char) /\ cursor + 2 <= Len(line) + 1
    BY <1>3, <1>1, <1>4, <2>1 DEF DoubledQuote, NextIs
  <2>3. buffer' \in Seq(Char) \cup {Null} /\ cursor' \in 1..(Len(line) + 1)
    BY <2>2, TakeType
  <2> QED
    BY <1>1, <1>4, <2>3 DEF DoubledQuote, TypeOK
<1>5. CASE ClosingQuote
  <2>1. PICK s : s = <<>>
    OBVIOUS
  <2>2. Take(s, 1) /\ s \in Seq(Char) /\ cursor + 1 <= Len(line) + 1
    BY <1>2, <1>3, <1>5, <2>1 DEF ClosingQuote, Sees
  <2>3. buffer' \in Seq(Char) \cup {Null} /\ cursor' \in 1..(Len(line) + 1)
    BY <2>2, TakeType
  <2> QED
    BY <1>1, <1>5, <2>3 DEF ClosingQuote, TypeOK
<1>6. CASE Unterminated \/ AfterQuoteRejected
  BY <1>1, <1>6 DEF Unterminated, AfterQuoteRejected, Reject, TypeOK
<1>7. CASE QuotedChar
  <2>1. PICK s : s = <<line[cursor]>>
    OBVIOUS
  <2>2. Take(s, 1) /\ s \in Seq(Char) /\ ~AtEnd
    BY <1>2, <1>7, <2>1 DEF QuotedChar
  <2>3. buffer' \in Seq(Char) \cup {Null} /\ cursor' \in 1..(Len(line) + 1)
    BY <1>2, <2>2, TakeType
  <2> QED
    BY <1>1, <1>7, <2>3 DEF QuotedChar, TypeOK
<1>8. CASE FieldEnds
  <2>1. fields' \in Seq(Seq(Char))
    BY <1>1, <1>8, TextType DEF FieldEnds
  <2>2. cursor' \in 1..(Len(line) + 1) /\ result' \in {"parsing", "ok", "malformed", "outOfMemory"}
    BY <1>1, <1>2, <1>8 DEF FieldEnds
  <2> QED
    BY <1>1, <1>8, <2>1, <2>2 DEF FieldEnds, TypeOK
<1>9. CASE OpeningQuote
  <2>1. PICK s : s = <<>>
    OBVIOUS
  <2>2. Take(s, 1) /\ s \in Seq(Char) /\ cursor + 1 <= Len(line) + 1
    BY <1>2, <1>3, <1>9, <2>1 DEF OpeningQuote, Sees
  <2>3. buffer' \in Seq(Char) \cup {Null} /\ cursor' \in 1..(Len(line) + 1)
    BY <2>2, TakeType
  <2> QED
    BY <1>1, <1>9, <2>3 DEF OpeningQuote, TypeOK
<1>10. CASE BareChar
  <2>1. PICK s : s = IF Sees(CR) THEN <<>> ELSE <<line[cursor]>>
    OBVIOUS
  <2>2. Take(s, 1) /\ ~AtEnd /\ s \in Seq(Char)
    BY <1>2, <1>3, <1>10, <2>1 DEF BareChar, AtBareChar
  <2>3. buffer' \in Seq(Char) \cup {Null} /\ cursor' \in 1..(Len(line) + 1)
    BY <1>2, <2>2, TakeType
  <2> QED
    BY <1>1, <1>10, <2>3 DEF BareChar, TypeOK
<1>11. CASE OutOfMemory
  BY <1>1, <1>11 DEF OutOfMemory, TypeOK
<1>12. CASE UNCHANGED vars
  BY <1>1, <1>12 DEF vars, TypeOK
<1> QED
  BY <1>4, <1>5, <1>6, <1>7, <1>8, <1>9, <1>10, <1>11, <1>12 DEF Next, Step

\* Whatever rows are written and whatever lines are typed, the reader keeps its
\* variables in their ranges and its cursor within the line.
THEOREM TypeCorrect == Spec => []TypeOK
<1>1. Init => TypeOK
  BY TypeInit, RowAssumption
<1> QED
  BY <1>1, TypeStep, PTL DEF Spec

-----------------------------------------------------------------------------
(* Reading a field that was written.                                       *)

\* What is read of a value that was written.
Restored(v) == IF NeedsQuotes(v) THEN v ELSE Trim(v)

\* The value v was written behind place b of the line, and a comma or nothing after it.
FieldIn(v, b) ==
  /\ b \in Nat
  /\ Len(Escaped(v)) \in Nat
  /\ \A j \in 1..Len(Escaped(v)) : line[b + j] = Escaped(v)[j]
  /\ b + Len(Escaped(v)) <= Len(line)
  /\ \/ b + Len(Escaped(v)) = Len(line)
     \/ b + Len(Escaped(v)) + 1 <= Len(line) /\ line[b + Len(Escaped(v)) + 1] = Comma

\* The reader has read q's first k characters of v between quotes.
BetweenQuotes(v, q, k) ==
  /\ k \in 0..Len(v)
  /\ cursor = q[k] + 1
  /\ Text = SubSeq(v, 1, k)

AtQuoted(v, b) ==
  \/ cursor = b + 1 /\ ~in_quotes /\ ~just_closed_quote /\ buffer = Null
  \/ /\ in_quotes /\ ~just_closed_quote
     /\ \E q, k : InsideQuotes(q, v, b, line) /\ BetweenQuotes(v, q, k)
  \/ cursor = b + Len(Escaped(v)) + 1 /\ ~in_quotes /\ just_closed_quote /\ Text = v

AtBare(v, b) ==
  /\ ~in_quotes /\ ~just_closed_quote
  /\ \E k \in 0..Len(v) : cursor = b + k + 1 /\ Text = SubSeq(v, 1, k)

\* The reader stands somewhere in the field.
AtField(v, b) == IF Quoted(v) THEN AtQuoted(v, b) ELSE AtBare(v, b)

\* What the reader does next keeps it in the field, or ends it at its end.
GoesOn(v, b) ==
  \/ AtField(v, b)' /\ UNCHANGED <<row, line, fields, result>>
  \/ FieldEnds /\ cursor = b + Len(Escaped(v)) + 1 /\ FieldText = Restored(v)

\* Behind a comma the reader is at the first character of the next field.
LEMMA FieldBegins ==
  ASSUME NEW v \in Seq(Char), NEW b \in Nat, cursor' = b + 1, in_quotes' = FALSE,
         just_closed_quote' = FALSE, buffer' = Null
  PROVE  AtField(v, b)'
<1>1. Text' = SubSeq(v, 1, 0)
  BY PrefixType DEF Text
<1>2. 0 \in 0..Len(v) /\ cursor' = b + 0 + 1
  OBVIOUS
<1> QED
  BY <1>1, <1>2 DEF AtField, AtQuoted, AtBare

LEMMA CharsDiffer ==
  RowAssumption => Quote # Comma /\ Quote # Space /\ Quote # CR /\ Comma # Space /\ Comma # CR
                   /\ Space # CR /\ Null \notin Seq(Char)
  BY DEF RowAssumption

\* The character c of a text follows.
LEMMA TextGrows ==
  ASSUME TypeOK, Null \notin Seq(Char), NEW v \in Seq(Char), NEW k \in Nat, k < Len(v),
         Text = SubSeq(v, 1, k), NEW n, Take(<<v[k + 1]>>, n)
  PROVE  Text' = SubSeq(v, 1, k + 1)
<1>1. PICK s : s = <<v[k + 1]>>
  OBVIOUS
<1>2. s # <<>> /\ s \in Seq(Char)
  BY <1>1, PrefixGrows
<1>3. buffer' = Text \o s
  BY <1>1, <1>2 DEF Take
<1>4. Text \o s = SubSeq(v, 1, k + 1) /\ SubSeq(v, 1, k + 1) \in Seq(Char)
  BY <1>1, PrefixGrows
<1>5. buffer' # Null
  BY <1>3, <1>4
<1> QED
  BY <1>3, <1>4, <1>5 DEF Text

\* A step from the start of a quoted field opens it,
LEMMA OpensField ==
  ASSUME TypeOK, RowAssumption, NEW v \in Seq(Char), NEW b, FieldIn(v, b), Quoted(v),
         cursor = b + 1, ~in_quotes, ~just_closed_quote, buffer = Null, Step
  PROVE  GoesOn(v, b)
<1>1. /\ Len(line) \in Nat /\ cursor \in 1..(Len(line) + 1)
      /\ in_quotes \in BOOLEAN /\ just_closed_quote \in BOOLEAN
  BY DEF TypeOK
<1>2. PICK q : InsideQuotes(q, v, b, line)
  BY QuotedPlaces DEF FieldIn
<1>3. line[cursor] = Quote /\ ~AtEnd
  <2>1. Len(Escaped(v)) >= 2 /\ Len(Escaped(v)) \in Nat
    BY EscapedChars DEF FieldIn
  <2>2. line[b + 1] = Quote
    BY <1>2 DEF InsideQuotes
  <2> QED
    BY <1>1, <2>1, <2>2 DEF FieldIn, AtEnd
<1>4. Sees(Quote) /\ ~Sees(Comma)
  BY <1>3, CharsDiffer DEF Sees
<1>5. OpeningQuote
  BY <1>3, <1>4 DEF Step, DoubledQuote, ClosingQuote, Unterminated, QuotedChar, FieldEnds,
    AfterQuoteRejected, BareChar, AtBareChar
<1>6. cursor' = b + 2 /\ in_quotes' = TRUE /\ just_closed_quote' = FALSE /\ buffer' = Null
      /\ UNCHANGED <<row, line, fields, result>>
  <2>1. cursor' = cursor + 1 /\ buffer' = buffer
    BY <1>5 DEF OpeningQuote, Take
  <2> QED
    BY <1>5, <2>1 DEF OpeningQuote, FieldIn
<1>7. BetweenQuotes(v, q, 0)'
  <2>1. Text' = SubSeq(v, 1, 0)
    BY <1>6, PrefixType DEF Text
  <2>2. q[0] = b + 1 /\ b \in Nat
    BY <1>2 DEF InsideQuotes, FieldIn
  <2> QED
    BY <1>6, <2>1, <2>2 DEF BetweenQuotes
<1>8. AtQuoted(v, b)'
  BY <1>2, <1>6, <1>7 DEF AtQuoted
<1> QED
  BY <1>6, <1>8 DEF GoesOn, AtField

\* a step inside it takes the next character or closes it,
LEMMA ReadsInQuotes ==
  ASSUME TypeOK, RowAssumption, NEW v \in Seq(Char), NEW b, FieldIn(v, b), Quoted(v),
         in_quotes, ~just_closed_quote, NEW q, NEW k, InsideQuotes(q, v, b, line),
         BetweenQuotes(v, q, k), Step
  PROVE  GoesOn(v, b)
<1>1. /\ line \in Seq(Char) /\ Len(line) \in Nat /\ cursor \in 1..(Len(line) + 1)
      /\ in_quotes \in BOOLEAN /\ just_closed_quote \in BOOLEAN /\ Len(v) \in Nat
  BY DEF TypeOK
<1>2. k \in 0..Len(v) /\ cursor = q[k] + 1 /\ Text = SubSeq(v, 1, k) /\ q[k] \in Nat
  BY DEF BetweenQuotes, InsideQuotes
<1>3. PICK l : l = Len(Escaped(v))
  OBVIOUS
<1>4. /\ b \in Nat /\ l \in Nat /\ b + l <= Len(line)
      /\ b + l = Len(line) \/ (b + l + 1 <= Len(line) /\ line[b + l + 1] = Comma)
  BY <1>3 DEF FieldIn
<1>5. /\ \A i \in 1..Len(v) :
           IF v[i] = Quote
           THEN q[i] = q[i - 1] + 2 /\ line[q[i - 1] + 1] = Quote /\ line[q[i - 1] + 2] = Quote
           ELSE q[i] = q[i - 1] + 1 /\ line[q[i - 1] + 1] = v[i]
      /\ q \in [0..Len(v) -> Nat]
      /\ q[Len(v)] + 1 = b + l /\ line[q[Len(v)] + 1] = Quote
  BY <1>3 DEF InsideQuotes
<1>6. Quote # Comma /\ Null \notin Seq(Char)
  BY CharsDiffer
<1>7. CASE k = Len(v)
  <2>1. cursor = b + l /\ line[cursor] = Quote
    BY <1>2, <1>5, <1>7
  <2>2. Sees(Quote)
    BY <1>1, <1>4, <2>1 DEF Sees, AtEnd
  <2>3. ~NextIs(Quote)
    BY <1>1, <1>4, <1>6, <2>1 DEF NextIs
  <2>4. ClosingQuote
    BY <2>2, <2>3 DEF Step, DoubledQuote, Unterminated, QuotedChar, FieldEnds,
      OpeningQuote, AfterQuoteRejected, BareChar, AtBareChar, Sees
  <2>5. cursor' = b + l + 1 /\ in_quotes' = FALSE /\ just_closed_quote' = TRUE /\ buffer' = buffer
        /\ UNCHANGED <<row, line, fields, result>>
    BY <1>1, <1>4, <2>1, <2>4 DEF ClosingQuote, Take
  <2>6. Text' = v
    BY <1>2, <1>7, <2>5, PrefixType DEF Text
  <2>7. AtQuoted(v, b)'
    BY <1>3, <2>5, <2>6 DEF AtQuoted
  <2> QED
    BY <2>5, <2>7 DEF GoesOn, AtField
<1>8. CASE k # Len(v)
  <2>1. PICK i : i = k + 1
    OBVIOUS
  <2>2. i \in 1..Len(v) /\ i - 1 = k /\ i \in 0..Len(v) /\ k \in Nat /\ k < Len(v)
    BY <1>1, <1>2, <1>8, <2>1
  <2>3. q[i] \in Nat /\ line[cursor] = (IF v[i] = Quote THEN Quote ELSE v[i])
    BY <1>2, <1>5, <2>2
  <2>4. q[i] + 1 <= b + l
    <3>1. \A j \in 0..Len(v) : q[j] <= q[Len(v)]
      <4> DEFINE T == {n \in Nat : n <= Len(v) => q[Len(v) - n] <= q[Len(v)]}
      <4>1. 0 \in T
        <5>1. Len(v) - 0 = Len(v) /\ Len(v) \in 0..Len(v)
          BY <1>1
        <5>2. q[Len(v)] \in Nat
          BY <1>5, <5>1
        <5> QED
          BY <5>1, <5>2
      <4>2. ASSUME NEW n \in Nat, n \in T PROVE n + 1 \in T
        <5> SUFFICES ASSUME n + 1 <= Len(v) PROVE q[Len(v) - (n + 1)] <= q[Len(v)]
          OBVIOUS
        <5>1. PICK j, h : j = Len(v) - n /\ h = Len(v) - (n + 1)
          OBVIOUS
        <5>2. j \in 1..Len(v) /\ h = j - 1 /\ h \in 0..Len(v) /\ j \in 0..Len(v) /\ n <= Len(v)
          BY <1>1, <5>1
        <5>3. PICK y, z, w : y = q[h] /\ z = q[j] /\ w = q[Len(v)]
          OBVIOUS
        <5>4. y \in Nat /\ z \in Nat /\ w \in Nat /\ z <= w
          <6>1. Len(v) \in 0..Len(v)
            BY <1>1
          <6> QED
            BY <1>5, <4>2, <5>1, <5>2, <5>3, <6>1
        <5>5. z = y + 1 \/ z = y + 2
          BY <1>5, <5>2, <5>3
        <5> QED
          BY <5>1, <5>3, <5>4, <5>5
      <4>3. \A n \in Nat : n \in T
        <5> HIDE DEF T
        <5> QED
          BY <4>1, <4>2, SetInduction
      <4> SUFFICES ASSUME NEW j \in 0..Len(v) PROVE q[j] <= q[Len(v)]
        OBVIOUS
      <4>4. PICK n : n = Len(v) - j
        OBVIOUS
      <4>5. n \in Nat /\ n <= Len(v) /\ Len(v) - n = j
        BY <1>1, <4>4
      <4> QED
        BY <4>3, <4>5
    <3>2. PICK y, z : y = q[i] /\ z = q[Len(v)]
      OBVIOUS
    <3>3. y <= z /\ z + 1 = b + l /\ y \in Nat /\ z \in Nat
      <4>1. Len(v) \in 0..Len(v)
        BY <1>1
      <4> QED
        BY <1>5, <2>2, <3>1, <3>2, <4>1
    <3> QED
      BY <3>2, <3>3
  <2>5. CASE v[i] = Quote
    <3>1. q[i] = q[k] + 2 /\ line[q[k] + 1] = Quote /\ line[q[k] + 2] = Quote
      BY <1>5, <2>2, <2>5
    <3>2. cursor + 1 = q[k] + 2 /\ cursor < Len(line)
      <4>1. PICK y, z : y = q[k] /\ z = q[i]
        OBVIOUS
      <4>2. y \in Nat /\ z \in Nat /\ cursor = y + 1 /\ z = y + 2 /\ z + 1 <= b + l
        BY <1>2, <2>3, <2>4, <3>1, <4>1
      <4>3. b + l <= Len(line) /\ b \in Nat /\ l \in Nat /\ Len(line) \in Nat
        BY <1>1, <1>4
      <4>4. cursor + 1 = y + 2 /\ cursor < Len(line)
        BY <4>2, <4>3
      <4> QED
        BY <4>1, <4>4
    <3>3. Sees(Quote) /\ NextIs(Quote)
      BY <1>1, <1>2, <3>1, <3>2 DEF Sees, NextIs, AtEnd
    <3>4. DoubledQuote
      BY <3>3 DEF Step, ClosingQuote, Unterminated, QuotedChar, FieldEnds,
        OpeningQuote, AfterQuoteRejected, BareChar, AtBareChar, Sees
    <3>5. Take(<<v[k + 1]>>, 2)
      BY <2>1, <2>5, <3>4 DEF DoubledQuote
    <3>6. Text' = SubSeq(v, 1, k + 1)
      BY <1>2, <1>6, <2>2, <3>5, TextGrows
    <3>7. cursor' = q[i] + 1
      BY <1>1, <1>2, <3>1, <3>5 DEF Take
    <3>8. BetweenQuotes(v, q, i)'
      BY <2>1, <2>2, <3>6, <3>7 DEF BetweenQuotes
    <3>9. in_quotes' /\ ~just_closed_quote' /\ UNCHANGED <<row, line, fields, result>>
      BY <3>4 DEF DoubledQuote
    <3>10. AtQuoted(v, b)'
      BY <3>8, <3>9 DEF AtQuoted
    <3> QED
      BY <3>9, <3>10 DEF GoesOn, AtField
  <2>6. CASE v[i] # Quote
    <3>1. q[i] = q[k] + 1 /\ line[cursor] = v[i]
      BY <1>2, <1>5, <2>2, <2>6
    <3>2. ~AtEnd
      BY <1>1, <1>2, <1>4, <2>4, <3>1 DEF AtEnd
    <3>3. ~Sees(Quote)
      BY <2>6, <3>1 DEF Sees
    <3>4. QuotedChar
      BY <3>2, <3>3 DEF Step, DoubledQuote, ClosingQuote, Unterminated, FieldEnds,
        OpeningQuote, AfterQuoteRejected, BareChar, AtBareChar
    <3>5. Take(<<v[k + 1]>>, 1)
      BY <2>1, <3>1, <3>4 DEF QuotedChar
    <3>6. Text' = SubSeq(v, 1, k + 1)
      BY <1>2, <1>6, <2>2, <3>5, TextGrows
    <3>7. cursor' = q[i] + 1
      BY <1>1, <1>2, <3>1, <3>5 DEF Take
    <3>8. BetweenQuotes(v, q, i)'
      BY <2>1, <2>2, <3>6, <3>7 DEF BetweenQuotes
    <3>9. in_quotes' /\ ~just_closed_quote' /\ UNCHANGED <<row, line, fields, result>>
      BY <3>4 DEF QuotedChar
    <3>10. AtQuoted(v, b)'
      BY <3>8, <3>9 DEF AtQuoted
    <3> QED
      BY <3>9, <3>10 DEF GoesOn, AtField
  <2> QED
    BY <2>5, <2>6
<1> QED
  BY <1>7, <1>8

LEMMA TrimNothing == Trim(<<>>) = <<>>
<1>1. Len(<<>>) = 0
  OBVIOUS
<1>2. {i \in 1..Len(<<>>) : <<>>[i] # Space} = {}
  BY <1>1
<1> QED
  BY <1>2 DEF Trim

\* and a step behind it ends the field.
LEMMA LeavesQuoted ==
  ASSUME TypeOK, RowAssumption, NEW v \in Seq(Char), NEW b, FieldIn(v, b), Quoted(v),
         cursor = b + Len(Escaped(v)) + 1, ~in_quotes, just_closed_quote, Text = v, Step
  PROVE  GoesOn(v, b)
<1>1. Len(line) \in Nat /\ cursor \in 1..(Len(line) + 1)
  BY DEF TypeOK
<1>2. AtEnd \/ Sees(Comma)
  BY <1>1 DEF FieldIn, AtEnd, Sees
<1>3. ~Sees(Quote)
  BY <1>1, CharsDiffer DEF FieldIn, AtEnd, Sees
<1>4. FieldEnds
  BY <1>2, <1>3 DEF Step, DoubledQuote, ClosingQuote, Unterminated, QuotedChar,
    OpeningQuote, AfterQuoteRejected, BareChar, AtBareChar
<1>5. FieldText = v
  BY DEF FieldText
<1>6. v = Restored(v)
  <2>1. v = <<>> => v = Restored(v)
    BY TrimNothing DEF Restored
  <2> QED
    BY <2>1 DEF Restored, Quoted
<1> QED
  BY <1>4, <1>5, <1>6 DEF GoesOn

\* A value without quotes is read up to the comma behind it.
LEMMA ReadsBare ==
  ASSUME TypeOK, RowAssumption, NEW v \in Seq(Char \ {CR}), NEW b, FieldIn(v, b), ~Quoted(v),
         AtBare(v, b), Step
  PROVE  GoesOn(v, b)
<1>1. /\ line \in Seq(Char) /\ Len(line) \in Nat /\ cursor \in 1..(Len(line) + 1)
      /\ in_quotes = FALSE /\ just_closed_quote = FALSE
      /\ Len(v) \in Nat /\ b \in Nat /\ v \in Seq(Char)
  BY DEF TypeOK, AtBare, FieldIn
<1>2. PICK k \in 0..Len(v) : cursor = b + k + 1 /\ Text = SubSeq(v, 1, k)
  BY DEF AtBare
<1>3. Escaped(v) = v /\ ~NeedsQuotes(v)
  BY DEF Quoted, Escaped
<1>4. /\ \A j \in 1..Len(v) : line[b + j] = v[j]
      /\ b + Len(v) <= Len(line)
      /\ b + Len(v) = Len(line) \/ (b + Len(v) + 1 <= Len(line) /\ line[b + Len(v) + 1] = Comma)
  BY <1>3 DEF FieldIn
<1>5. Quote # Comma /\ Comma # CR /\ Null \notin Seq(Char)
  BY CharsDiffer
<1>6. CASE k = Len(v)
  <2>1. AtEnd \/ Sees(Comma)
    BY <1>1, <1>2, <1>4, <1>6 DEF AtEnd, Sees
  <2>2. ~Sees(Quote)
    BY <1>1, <1>2, <1>4, <1>5, <1>6 DEF AtEnd, Sees
  <2>3. FieldEnds
    BY <1>1, <2>1, <2>2 DEF Step, DoubledQuote, ClosingQuote, Unterminated, QuotedChar,
      OpeningQuote, AfterQuoteRejected, BareChar, AtBareChar
  <2>4. Text = v
    BY <1>1, <1>2, <1>6, PrefixType
  <2>5. FieldText = Restored(v)
    BY <1>1, <1>3, <2>4 DEF FieldText, Restored
  <2> QED
    BY <1>1, <1>2, <1>3, <1>6, <2>3, <2>5 DEF GoesOn
<1>7. CASE k # Len(v)
  <2>1. PICK i : i = k + 1
    OBVIOUS
  <2>2. i \in 1..Len(v) /\ k \in Nat /\ k < Len(v) /\ cursor = b + i
    BY <1>1, <1>2, <1>7, <2>1
  <2>3. line[cursor] = v[i] /\ v[i] \in Char \ {CR}
    BY <1>4, <2>2
  <2>4. v[i] # Quote /\ v[i] # Comma
    BY <1>3, <2>2 DEF NeedsQuotes, Contains
  <2>5. ~AtEnd /\ ~Sees(Quote) /\ ~Sees(Comma) /\ ~Sees(CR)
    BY <1>1, <1>4, <2>2, <2>3, <2>4 DEF AtEnd, Sees
  <2>6. BareChar
    BY <1>1, <2>5 DEF Step, DoubledQuote, ClosingQuote, Unterminated, QuotedChar, FieldEnds,
      OpeningQuote, AfterQuoteRejected
  <2>7. Take(<<v[k + 1]>>, 1)
    BY <2>1, <2>3, <2>5, <2>6 DEF BareChar
  <2>8. Text' = SubSeq(v, 1, i)
    BY <1>1, <1>2, <1>5, <2>1, <2>2, <2>7, TextGrows
  <2>9. cursor' = b + i + 1
    BY <1>1, <2>2, <2>7 DEF Take
  <2>10. ~in_quotes' /\ ~just_closed_quote' /\ UNCHANGED <<row, line, fields, result>>
    BY <1>1, <2>6 DEF BareChar
  <2>11. i \in 0..Len(v)
    BY <2>2
  <2>12. AtBare(v, b)'
    BY <2>8, <2>9, <2>10, <2>11 DEF AtBare
  <2> QED
    BY <2>10, <2>12 DEF GoesOn, AtField
<1> QED
  BY <1>6, <1>7

\* Every step goes on in its field or ends it with the value restored.
LEMMA FieldStep ==
  ASSUME TypeOK, RowAssumption, NEW v \in Seq(Char \ {CR}), NEW b, FieldIn(v, b), AtField(v, b), Step
  PROVE  GoesOn(v, b)
<1>1. v \in Seq(Char)
  OBVIOUS
<1>2. CASE Quoted(v)
  <2>1. AtQuoted(v, b)
    BY <1>2 DEF AtField
  <2>2. CASE cursor = b + 1 /\ ~in_quotes /\ ~just_closed_quote /\ buffer = Null
    BY <1>1, <1>2, <2>2, OpensField
  <2>3. CASE /\ in_quotes /\ ~just_closed_quote
             /\ \E q, k : InsideQuotes(q, v, b, line) /\ BetweenQuotes(v, q, k)
    <3>1. PICK q, k : InsideQuotes(q, v, b, line) /\ BetweenQuotes(v, q, k)
      BY <2>3
    <3>2. in_quotes /\ ~just_closed_quote
      BY <2>3
    <3> QED
      BY <1>1, <1>2, <3>1, <3>2, ReadsInQuotes
  <2>4. CASE cursor = b + Len(Escaped(v)) + 1 /\ ~in_quotes /\ just_closed_quote /\ Text = v
    BY <1>1, <1>2, <2>4, LeavesQuoted
  <2> QED
    BY <2>1, <2>2, <2>3, <2>4 DEF AtQuoted
<1>3. CASE ~Quoted(v)
  BY <1>3, ReadsBare DEF AtField
<1> QED
  BY <1>2, <1>3

-----------------------------------------------------------------------------
(* Reading a row that was written.                                         *)

AtRow ==
  /\ Len(fields) < Len(row)
  /\ \E b : Starts(b, row, line) /\ AtField(row[Len(fields) + 1], b[Len(fields) + 1])

FieldsRestored ==
  /\ Len(fields) <= Len(row)
  /\ \A i \in 1..Len(fields) : fields[i] = Restored(row[i])

\* Why a written row comes back: the reader is always at some character of the
\* field whose number the complete fields give.
WrittenInv ==
  row # NoRow =>
    /\ FieldsRestored
    /\ result # "malformed"
    /\ result = "ok" => Len(fields) = Len(row)
    /\ result = "parsing" => AtRow

LEMMA WrittenInit == RowAssumption /\ Init => WrittenInv
<1> SUFFICES ASSUME RowAssumption, Init, row # NoRow PROVE WrittenInv
  BY DEF WrittenInv
<1>1. row \in Rows /\ line = Line(row)
  BY DEF Init
<1>2. row \in Seq(Seq(Char \ {CR})) /\ row # <<>>
  BY <1>1 DEF RowAssumption
<1>3. row \in Seq(Seq(Char)) /\ Len(row) \in Nat /\ Len(row) >= 1
  BY <1>2
<1>4. PICK b : Starts(b, row, line)
  BY <1>1, <1>2, <1>3, LineStarts
<1>5. row[1] \in Seq(Char) /\ b[1] = 0
  BY <1>3, <1>4 DEF Starts
<1>6. PICK v : v = row[1]
  OBVIOUS
<1>7. AtField(v, 0)
  <2>1. Text = SubSeq(v, 1, 0)
    BY <1>5, <1>6, PrefixType DEF Text, Init
  <2>2. 0 \in 0..Len(v) /\ cursor = 0 + 0 + 1 /\ cursor = 0 + 1
    BY <1>5, <1>6 DEF Init
  <2> QED
    BY <2>1, <2>2 DEF AtField, AtQuoted, AtBare, Init
<1>8. fields = <<>> /\ Len(fields) = 0 /\ result = "parsing"
  BY DEF Init
<1>9. AtRow
  BY <1>3, <1>4, <1>5, <1>6, <1>7, <1>8 DEF AtRow
<1> QED
  BY <1>3, <1>8, <1>9 DEF WrittenInv, FieldsRestored

\* The fields of a written line are the escaped values, each with a comma or the end behind.
LEMMA FieldInRow ==
  ASSUME RowAssumption, TypeOK, row # NoRow, NEW b, Starts(b, row, line), NEW i \in 1..Len(row)
  PROVE  FieldIn(row[i], b[i]) /\ row[i] \in Seq(Char \ {CR}) /\ b[i] \in Nat
<1>1. row \in Seq(Seq(Char \ {CR})) /\ line \in Seq(Char) /\ Len(row) \in Nat /\ Len(line) \in Nat
  BY DEF RowAssumption, TypeOK
<1>2. row[i] \in Seq(Char \ {CR})
  BY <1>1
<1>3. row[i] \in Seq(Char)
  BY <1>2
<1>4. PICK l : l = Len(Escaped(row[i]))
  OBVIOUS
<1>5. l \in Nat
  BY <1>3, <1>4, EscapedType
<1>6. b[i] \in Nat
  BY DEF Starts
<1>7. /\ \A j \in 1..l : line[b[i] + j] = Escaped(row[i])[j]
      /\ b[i] + l <= Len(line)
      /\ i = Len(row) => b[i] + l = Len(line)
      /\ i # Len(row) => b[i + 1] = b[i] + l + 1 /\ b[i + 1] <= Len(line) /\ line[b[i + 1]] = Comma
  BY <1>4 DEF Starts
<1>8. b[i] + l = Len(line) \/ (b[i] + l + 1 <= Len(line) /\ line[b[i] + l + 1] = Comma)
  BY <1>7
<1> QED
  BY <1>2, <1>4, <1>5, <1>6, <1>7, <1>8 DEF FieldIn

\* The reader of a written line goes from field to field.
LEMMA WrittenStep == RowAssumption /\ TypeOK /\ WrittenInv /\ [Next]_vars => WrittenInv'
<1> SUFFICES ASSUME RowAssumption, TypeOK, WrittenInv, [Next]_vars, row' # NoRow PROVE WrittenInv'
  BY DEF WrittenInv
<1>1. row' = row /\ line' = line
  BY DEF Next, Step, vars, DoubledQuote, ClosingQuote, Unterminated, QuotedChar, FieldEnds,
    OpeningQuote, AfterQuoteRejected, BareChar, OutOfMemory, Reject
<1>2. row # NoRow /\ FieldsRestored /\ (result = "parsing" => AtRow)
  BY <1>1 DEF WrittenInv
<1>3. CASE UNCHANGED vars
  <2>1. UNCHANGED <<row, line, cursor, in_quotes, just_closed_quote, buffer, fields, result>>
    BY <1>3 DEF vars
  <2> QED
    BY <2>1 DEF WrittenInv, FieldsRestored, AtRow, AtField, AtQuoted, AtBare, BetweenQuotes, Text
<1>4. CASE OutOfMemory
  BY <1>2, <1>4 DEF OutOfMemory, WrittenInv, FieldsRestored
<1>5. CASE Step
  <2>1. result = "parsing"
    BY <1>5 DEF Step, DoubledQuote, ClosingQuote, Unterminated, QuotedChar, FieldEnds, OpeningQuote,
      AfterQuoteRejected, BareChar, AtBareChar, Parsing
  <2>2. PICK b, n, i, v : /\ Starts(b, row, line) /\ n = Len(row) /\ i = Len(fields) + 1 /\ v = row[i]
                          /\ AtField(v, b[i]) /\ Len(fields) < n
    BY <1>2, <2>1 DEF AtRow
  <2>3. /\ row \in Seq(Seq(Char \ {CR})) /\ n \in Nat /\ i \in 1..n /\ Len(fields) \in Nat
        /\ fields \in Seq(Seq(Char))
    BY <1>2, <2>2 DEF RowAssumption, TypeOK
  <2>4. FieldIn(v, b[i]) /\ v \in Seq(Char \ {CR}) /\ v \in Seq(Char) /\ b[i] \in Nat
    BY <1>2, <2>2, <2>3, FieldInRow
  <2>5. PICK a : a = b[i]
    OBVIOUS
  <2>6. GoesOn(v, a)
    BY <1>5, <2>2, <2>4, <2>5, FieldStep
  <2>7. CASE AtField(v, a)' /\ UNCHANGED <<row, line, fields, result>>
    <3>1. AtRow'
      BY <2>2, <2>5, <2>7 DEF AtRow
    <3>2. FieldsRestored'
      BY <1>2, <2>7 DEF FieldsRestored
    <3> QED
      BY <2>1, <2>7, <3>1, <3>2 DEF WrittenInv
  <2>8. CASE FieldEnds /\ cursor = a + Len(Escaped(v)) + 1 /\ FieldText = Restored(v)
    <3>1. fields' = Append(fields, FieldText) /\ FieldText = Restored(v) /\ FieldText \in Seq(Char)
      BY <2>8, TextType DEF FieldEnds
    <3>2. PICK f, g : f = fields /\ g = fields'
      OBVIOUS
    <3>3. /\ Len(g) = Len(f) + 1 /\ g[Len(f) + 1] = Restored(v)
          /\ \A j \in 1..Len(f) : g[j] = f[j]
      BY <2>3, <3>1, <3>2, AppendProperties
    <3>4. FieldsRestored'
      <4>1. ASSUME NEW j \in 1..Len(g) PROVE g[j] = Restored(row[j])
        <5>1. j = Len(f) + 1 \/ j \in 1..Len(f)
          BY <2>3, <3>2, <3>3
        <5> QED
          BY <1>2, <2>2, <3>2, <3>3, <5>1 DEF FieldsRestored
      <4>2. Len(g) <= Len(row)
        BY <2>2, <2>3, <3>2, <3>3
      <4> QED
        BY <1>1, <3>2, <4>1, <4>2 DEF FieldsRestored
    <3>5. PICK l : l = Len(Escaped(v))
      OBVIOUS
    <3>6. /\ l \in Nat /\ a \in Nat /\ cursor = a + l + 1 /\ a + l <= Len(line) /\ Len(line) \in Nat
          /\ i = n => a + l = Len(line)
          /\ i # n => b[i + 1] = a + l + 1 /\ b[i + 1] <= Len(line)
      <4>1. l \in Nat /\ a \in Nat /\ a + l <= Len(line) /\ cursor = a + l + 1
        BY <2>4, <2>5, <2>8, <3>5 DEF FieldIn
      <4>2. Len(line) \in Nat
        BY DEF TypeOK
      <4>3. i \in 1..Len(row)
        BY <2>2, <2>3
      <4>4. /\ i = Len(row) => b[i] + Len(Escaped(row[i])) = Len(line)
            /\ i # Len(row) => b[i + 1] = b[i] + Len(Escaped(row[i])) + 1 /\ b[i + 1] <= Len(line)
        BY <2>2, <4>3 DEF Starts
      <4> QED
        BY <2>2, <2>5, <3>5, <4>1, <4>2, <4>4
    <3>7. CASE i = n
      <4>1. AtEnd
        BY <3>6, <3>7 DEF AtEnd
      <4>2. result' = "ok"
        BY <2>8, <4>1 DEF FieldEnds
      <4>3. Len(fields') = Len(row)
        BY <2>2, <2>3, <3>2, <3>3, <3>7
      <4> QED
        BY <1>1, <3>4, <4>2, <4>3 DEF WrittenInv
    <3>8. CASE i # n
      <4>1. ~AtEnd
        BY <3>6, <3>8 DEF AtEnd
      <4>2. /\ result' = "parsing" /\ cursor' = cursor + 1 /\ buffer' = Null
            /\ in_quotes' = FALSE /\ just_closed_quote' = FALSE
        BY <2>1, <2>8, <4>1 DEF FieldEnds, TypeOK
      <4>3. PICK k, w, c : k = i + 1 /\ w = row[k] /\ c = b[k]
        OBVIOUS
      <4>4. k \in 1..n /\ c \in Nat /\ cursor' = c + 1
        BY <2>3, <3>6, <3>8, <4>2, <4>3
      <4>5. w \in Seq(Char)
        BY <2>2, <2>3, <4>3, <4>4
      <4>6. AtField(w, c)'
        BY <4>2, <4>4, <4>5, FieldBegins
      <4>7. Len(fields') + 1 = k /\ Len(fields') < n
        BY <2>2, <2>3, <3>2, <3>3, <4>3, <4>4
      <4>8. AtRow'
        BY <1>1, <2>2, <4>3, <4>6, <4>7 DEF AtRow
      <4> QED
        BY <3>4, <4>2, <4>8 DEF WrittenInv
    <3> QED
      BY <3>7, <3>8
  <2> QED
    BY <2>6, <2>7, <2>8 DEF GoesOn
<1> QED
  BY <1>3, <1>4, <1>5 DEF Next

\* For rows of any length and values of any characters: a line INSERT wrote is never
\* refused and gives the row's values back, but for the outer blanks of a value that
\* was written without quotes.
THEOREM RowsComeBack == Spec => []WrittenRowComesBack
<1>1. Init => TypeOK /\ WrittenInv
  BY TypeInit, WrittenInit, RowAssumption
<1>2. TypeOK /\ WrittenInv /\ [Next]_vars => TypeOK' /\ WrittenInv'
  BY TypeStep, WrittenStep, RowAssumption
<1>3. WrittenInv => WrittenRowComesBack
  BY DEF WrittenInv, WrittenRowComesBack, FieldsRestored, Restored
<1> QED
  BY <1>1, <1>2, <1>3, PTL DEF Spec

-----------------------------------------------------------------------------
(* Reading a line that has no quote.                                       *)

\* What Between puts together.
Kept(first, n) ==
  [i \in 1..n |-> IF line[first + i - 1] = CR THEN <<>> ELSE <<line[first + i - 1]>>]

\* One character more, which is left out when it ends a line.
LEMMA BetweenGrows ==
  ASSUME TypeOK, NEW first \in Nat, NEW last \in Nat, first >= 1, first <= last + 1, last + 1 <= Len(line)
  PROVE  /\ Between(first, last) \in Seq(Char)
         /\ Between(first, last + 1) =
              Between(first, last) \o (IF line[last + 1] = CR THEN <<>> ELSE <<line[last + 1]>>)
<1>1. PICK n, k : n = last - first + 1 /\ k = n + 1
  OBVIOUS
<1>2. n \in Nat /\ k \in Nat /\ k = last + 1 - first + 1 /\ first + k - 1 = last + 1
  BY <1>1
<1>3. line \in Seq(Char) /\ Len(line) \in Nat
  BY DEF TypeOK
<1>4. <<>> \in Seq(Char)
  OBVIOUS
<1> DEFINE c(i) == IF line[first + i - 1] = CR THEN <<>> ELSE <<line[first + i - 1]>>
<1>5. ASSUME NEW i \in 1..k PROVE c(i) \in Seq(Char)
  <2>1. first + i - 1 \in 1..Len(line)
    BY <1>2, <1>3
  <2>2. line[first + i - 1] \in Char
    BY <1>3, <2>1
  <2> QED
    BY <1>4, <2>2
<1>6. PICK s, t : s = Kept(first, n) /\ t = Kept(first, k)
  OBVIOUS
<1>7. s = [i \in 1..n |-> c(i)] /\ t = [i \in 1..k |-> c(i)]
  BY <1>6 DEF Kept
<1>8. c(k) \in Seq(Char) /\ k \in 1..k /\ \A i \in 1..n : c(i) \in Seq(Char)
  <2>1. k \in 1..k /\ \A i \in 1..n : i \in 1..k
    BY <1>1, <1>2
  <2> HIDE DEF c
  <2> QED
    BY <1>5, <2>1
<1>9. c(k) = IF line[last + 1] = CR THEN <<>> ELSE <<line[last + 1]>>
  BY <1>2
<1> HIDE DEF c
<1>10. s \in Seq(Seq(Char)) /\ t \in Seq(Seq(Char)) /\ Len(s) = n /\ Len(t) = k
  BY <1>2, <1>5, <1>7, <1>8
<1>11. t = Append(s, c(k))
  <2>1. PICK u : u = Append(s, c(k))
    OBVIOUS
  <2>2. /\ u \in Seq(Seq(Char)) /\ Len(u) = n + 1 /\ u[n + 1] = c(k)
        /\ \A i \in 1..n : u[i] = s[i]
    BY <1>8, <1>10, <2>1, AppendProperties
  <2>3. ASSUME NEW i \in 1..k PROVE t[i] = u[i]
    <3>1. t[i] = c(i)
      BY <1>7
    <3>2. i = k \/ i \in 1..n
      BY <1>1, <1>2
    <3>3. i \in 1..n => u[i] = c(i)
      BY <1>7, <2>2
    <3>4. i = k => u[i] = c(i)
      BY <1>1, <2>2
    <3> QED
      BY <3>1, <3>2, <3>3, <3>4
  <2>4. t = u
    BY <1>1, <1>10, <2>2, <2>3, SeqEqual
  <2> QED
    BY <2>1, <2>4
<1>12. FlattenSeq(t) = FlattenSeq(s) \o c(k)
  BY <1>8, <1>10, <1>11, FlattenAppend
<1>13. FlattenSeq(s) \in Seq(Char)
  BY <1>10, FlattenSeqType
<1>14. Between(first, last) = FlattenSeq(s) /\ Between(first, last + 1) = FlattenSeq(t)
  BY <1>1, <1>2, <1>6 DEF Between, Kept
<1> QED
  BY <1>9, <1>12, <1>13, <1>14

\* Between two neighbours there is nothing.
LEMMA BetweenNothing ==
  ASSUME NEW first \in Nat, NEW last \in Nat, first = last + 1
  PROVE  Between(first, last) = <<>>
<1>1. last - first + 1 = 0
  OBVIOUS
<1>2. PICK s : s = Kept(first, 0)
  OBVIOUS
<1>3. s \in Seq(Seq(Char)) /\ Len(s) = 0
  BY <1>2 DEF Kept
<1>4. FlattenSeq(s) = <<>>
  BY <1>3, FlattenSeqIs
<1> QED
  BY <1>1, <1>2, <1>4 DEF Between, Kept

\* Where field i begins when at numbers the commas before it.
Begins(at, i) == IF i = 1 THEN 1 ELSE at[i - 1] + 1

\* at numbers the n commas before the cursor, which end the complete fields.
SplitSoFar(at, n) ==
  /\ at \in [1..n -> Commas]
  /\ \A i \in 1..n : at[i] < cursor
  /\ \A i, j \in 1..n : i < j => at[i] < at[j]
  /\ \A c \in Commas : c < cursor => \E i \in 1..n : at[i] = c
  /\ \A i \in 1..n : fields[i] = Trim(Between(Begins(at, i), at[i] - 1))
  /\ Text = Between(Begins(at, n + 1), cursor - 1)

SplitAtEnd ==
  \E at \in [1..(Len(fields) - 1) -> Commas] :
    /\ NumbersCommas(at)
    /\ \A i \in 1..Len(fields) :
         fields[i] = Trim(Between(IF i = 1 THEN 1 ELSE at[i - 1] + 1,
                                  IF i = Len(fields) THEN Len(line) ELSE at[i] - 1))

\* Why the commas separate: the field so far is what stands behind the last one.
CommaInv ==
  ~Contains(line, Quote) =>
    /\ result # "malformed"
    /\ ~in_quotes /\ ~just_closed_quote
    /\ result = "parsing" => \E at : SplitSoFar(at, Len(fields))
    /\ result = "ok" => SplitAtEnd

LEMMA CommaInit == RowAssumption /\ Init => CommaInv
<1> SUFFICES ASSUME RowAssumption, Init PROVE CommaInv
  OBVIOUS
<1>1. /\ fields = <<>> /\ Len(fields) = 0 /\ cursor = 1 /\ buffer = Null /\ result = "parsing"
      /\ ~in_quotes /\ ~just_closed_quote
  BY DEF Init
<1> DEFINE at == [i \in 1..0 |-> 0]
<1>2. Text = Between(Begins(at, 0 + 1), cursor - 1)
  BY <1>1, BetweenNothing DEF Text, Begins
<1>3. \A c \in Commas : c \in Nat /\ c >= 1
  BY DEF Commas
<1>4. SplitSoFar(at, 0)
  BY <1>1, <1>2, <1>3 DEF SplitSoFar
<1> QED
  BY <1>1, <1>4 DEF CommaInv

\* Where the field that is read begins.
LEMMA BeginsBefore ==
  ASSUME TypeOK, NEW n \in Nat, NEW at, SplitSoFar(at, n)
  PROVE  /\ Begins(at, n + 1) \in Nat /\ Begins(at, n + 1) >= 1 /\ Begins(at, n + 1) <= cursor
         /\ \A i \in 1..n : at[i] \in Nat /\ at[i] \in Commas
<1>1. \A c \in Commas : c \in Nat /\ c >= 1
  BY DEF Commas
<1>2. \A i \in 1..n : at[i] \in Commas /\ at[i] \in Nat /\ at[i] >= 1 /\ at[i] < cursor
  BY <1>1 DEF SplitSoFar
<1>3. cursor \in Nat /\ cursor >= 1
  BY DEF TypeOK
<1>4. CASE n = 0
  BY <1>2, <1>3, <1>4 DEF Begins
<1>5. CASE n # 0
  <2>1. n \in 1..n /\ n + 1 - 1 = n /\ n + 1 # 1
    BY <1>5
  <2>2. PICK y : y = at[n]
    OBVIOUS
  <2>3. y \in Nat /\ y < cursor /\ Begins(at, n + 1) = y + 1
    BY <1>2, <2>1, <2>2 DEF Begins
  <2> QED
    BY <1>2, <1>3, <2>3
<1> QED
  BY <1>4, <1>5

\* Taking characters adds them to the text of the field.
LEMMA TakesText ==
  ASSUME TypeOK, Null \notin Seq(Char), NEW s \in Seq(Char), NEW n, Take(s, n)
  PROVE  Text' = Text \o s /\ cursor' = cursor + n
<1>1. Text \in Seq(Char)
  BY TextType
<1>2. Text \o s \in Seq(Char)
  BY <1>1, ConcatJoins DEF Joins
<1>3. CASE s = <<>>
  <2>1. buffer' = buffer
    BY <1>3 DEF Take
  <2>2. Text' = Text
    BY <2>1 DEF Text
  <2>3. Text \o <<>> = Text
    BY <1>1, ConcatEmptySeq
  <2> QED
    BY <1>3, <2>2, <2>3 DEF Take
<1>4. CASE s # <<>>
  <2>1. buffer' = Text \o s /\ buffer' # Null
    BY <1>2, <1>4 DEF Take
  <2> QED
    BY <2>1 DEF Text, Take
<1> QED
  BY <1>3, <1>4

\* A character that is no comma belongs to the field so far;
LEMMA BareStep ==
  ASSUME RowAssumption, TypeOK, BareChar, NEW n \in Nat, NEW at, SplitSoFar(at, n)
  PROVE  SplitSoFar(at, n)'
<1>1. /\ line \in Seq(Char) /\ Len(line) \in Nat /\ cursor \in Nat /\ cursor >= 1
      /\ cursor <= Len(line) /\ ~Sees(Comma)
  BY DEF TypeOK, BareChar, AtBareChar, AtEnd
<1>2. line' = line /\ fields' = fields
  BY DEF BareChar
<1>3. PICK s : s = IF line[cursor] = CR THEN <<>> ELSE <<line[cursor]>>
  OBVIOUS
<1>4. s \in Seq(Char)
  <2>1. line[cursor] \in Char
    BY <1>1
  <2>2. <<>> \in Seq(Char)
    OBVIOUS
  <2> QED
    BY <1>3, <2>1, <2>2
<1>5. Take(s, 1)
  BY <1>1, <1>3 DEF BareChar, Sees, AtBareChar, AtEnd
<1>6. Text' = Text \o s /\ cursor' = cursor + 1
  BY <1>4, <1>5, TakesText, CharsDiffer
<1>7. PICK b, e : b = Begins(at, n + 1) /\ e = cursor - 1
  OBVIOUS
<1>8. b \in Nat /\ b >= 1 /\ e \in Nat /\ b <= e + 1 /\ e + 1 = cursor /\ e + 1 <= Len(line)
  BY <1>1, <1>7, BeginsBefore
<1>9. Between(b, e + 1) = Between(b, e) \o s
  BY <1>3, <1>8, BetweenGrows
<1>10. Text' = Between(b, cursor)
  BY <1>6, <1>7, <1>8, <1>9 DEF SplitSoFar
<1>11. Text' = Between(Begins(at, n + 1), cursor - 1)'
  <2>1. cursor' - 1 = cursor
    BY <1>1, <1>6
  <2> QED
    BY <1>2, <1>7, <1>10, <2>1 DEF Between, Begins
<1>12. cursor \notin Commas
  BY <1>1 DEF Commas, Sees, AtEnd
<1>13. \A c \in Commas : c \in Nat /\ (c < cursor' => c < cursor)
  BY <1>1, <1>6, <1>12 DEF Commas
<1>14. \A i \in 1..n : at[i] < cursor'
  <2>1. \A i \in 1..n : at[i] \in Nat
    BY BeginsBefore
  <2>2. \A i \in 1..n : at[i] < cursor
    BY DEF SplitSoFar
  <2> QED
    BY <1>1, <1>6, <2>1, <2>2
<1>15. Commas' = Commas
  BY <1>2 DEF Commas
<1>16. \A i \in 1..n : fields'[i] = Trim(Between(Begins(at, i), at[i] - 1)')
  BY <1>2 DEF SplitSoFar, Between, Begins
<1>17. /\ at \in [1..n -> Commas]
       /\ \A i, j \in 1..n : i < j => at[i] < at[j]
       /\ \A c \in Commas : c < cursor' => \E i \in 1..n : at[i] = c
  BY <1>13 DEF SplitSoFar
<1> QED
  BY <1>11, <1>14, <1>15, <1>16, <1>17 DEF SplitSoFar

\* a comma ends the field, and the next begins behind it.
LEMMA EndStep ==
  ASSUME RowAssumption, TypeOK, FieldEnds, ~just_closed_quote, NEW n, n = Len(fields), NEW at, SplitSoFar(at, n)
  PROVE  IF AtEnd THEN SplitAtEnd' ELSE \E f : SplitSoFar(f, n + 1)'
<1>1. /\ line \in Seq(Char) /\ Len(line) \in Nat /\ cursor \in Nat /\ cursor >= 1
      /\ cursor <= Len(line) + 1 /\ fields \in Seq(Seq(Char)) /\ n \in Nat
  BY DEF TypeOK
<1>2. PICK b : b = Begins(at, n + 1)
  OBVIOUS
<1>3. FieldText = Trim(Between(b, cursor - 1)) /\ FieldText \in Seq(Char)
  BY <1>2, TextType DEF FieldText, SplitSoFar
<1>4. line' = line /\ fields' = Append(fields, FieldText)
  BY DEF FieldEnds
<1>5. /\ Len(fields') = n + 1 /\ fields'[n + 1] = FieldText
      /\ \A i \in 1..n : fields'[i] = fields[i]
  BY <1>1, <1>3, <1>4, AppendProperties
<1>6. \A x, y : Between(x, y)' = Between(x, y)
  BY <1>4 DEF Between
<1>7. Commas' = Commas
  BY <1>4 DEF Commas
<1>8. \A i \in 1..n : fields[i] = Trim(Between(Begins(at, i), at[i] - 1))
  BY DEF SplitSoFar
<1>9. CASE AtEnd
  <2>1. cursor - 1 = Len(line) /\ \A c \in Commas : c < cursor
    BY <1>1, <1>9 DEF AtEnd, Commas
  <2>2. at \in [1..n -> Commas] /\ DOMAIN at = 1..n /\ n + 1 - 1 = n
    BY <1>1 DEF SplitSoFar
  <2>3. NumbersCommas(at)
    BY <2>1, <2>2 DEF NumbersCommas, SplitSoFar
  <2>4. ASSUME NEW i \in 1..(n + 1)
        PROVE  fields'[i] = Trim(Between(IF i = 1 THEN 1 ELSE at[i - 1] + 1,
                                         IF i = n + 1 THEN Len(line) ELSE at[i] - 1))
    <3>1. CASE i = n + 1
      BY <1>2, <1>3, <1>5, <2>1, <3>1 DEF Begins
    <3>2. CASE i # n + 1
      <4>1. i \in 1..n
        BY <1>1, <3>2
      <4> QED
        BY <1>5, <1>8, <3>2, <4>1 DEF Begins
    <3> QED
      BY <3>1, <3>2
  <2>5. SplitAtEnd'
    <3>1. NumbersCommas(at)'
      BY <1>7, <2>3 DEF NumbersCommas
    <3> QED
      BY <1>4, <1>5, <1>6, <1>7, <2>2, <2>4, <3>1 DEF SplitAtEnd
  <2> QED
    BY <1>9, <2>5
<1>10. CASE ~AtEnd
  <2>1. cursor \in Commas /\ cursor <= Len(line)
    BY <1>1, <1>10 DEF FieldEnds, Sees, Commas, AtEnd
  <2>2. cursor' = cursor + 1 /\ buffer' = Null
    BY <1>10 DEF FieldEnds
  <2>3. PICK m : m = n + 1
    OBVIOUS
  <2>4. PICK f : f = [i \in 1..m |-> IF i = m THEN cursor ELSE at[i]]
    OBVIOUS
  <2>5. m \in Nat /\ m \in 1..m /\ f[m] = cursor /\ \A i \in 1..n : i \in 1..m /\ f[i] = at[i]
    BY <1>1, <2>3, <2>4
  <2>6. at \in [1..n -> Commas] /\ \A i \in 1..n : at[i] < cursor
    BY DEF SplitSoFar
  <2>7. f \in [1..m -> Commas]
    <3>1. \A i \in 1..m : i = m \/ i \in 1..n
      BY <1>1, <2>3
    <3> QED
      BY <2>1, <2>6, <2>4, <3>1
  <2>8. ASSUME NEW i \in 1..m PROVE f[i] < cursor'
    <3>1. i = m \/ i \in 1..n
      BY <1>1, <2>3
    <3>2. CASE i = m
      BY <1>1, <2>2, <2>5, <3>2
    <3>3. CASE i \in 1..n
      <4>1. at[i] \in Nat
        BY <1>1, <3>3, BeginsBefore
      <4>2. at[i] < cursor /\ f[i] = at[i]
        BY <2>5, <2>6, <3>3
      <4> QED
        BY <1>1, <2>2, <4>1, <4>2
    <3> QED
      BY <3>1, <3>2, <3>3
  <2>9. ASSUME NEW i \in 1..m, NEW j \in 1..m, i < j PROVE f[i] < f[j]
    <3>1. i \in 1..n /\ (j = m \/ j \in 1..n)
      BY <1>1, <2>3, <2>9
    <3>2. at[i] < cursor /\ (j \in 1..n => at[i] < at[j])
      BY <2>6, <2>9, <3>1 DEF SplitSoFar
    <3> QED
      BY <2>5, <3>1, <3>2
  <2>10. ASSUME NEW c \in Commas, c < cursor' PROVE \E i \in 1..m : f[i] = c
    <3>1. c = cursor \/ c < cursor
      BY <1>1, <2>2, <2>10 DEF Commas
    <3>2. CASE c < cursor
      <4>1. PICK i \in 1..n : at[i] = c
        BY <3>2 DEF SplitSoFar
      <4> QED
        BY <2>5, <4>1
    <3> QED
      BY <2>5, <3>1, <3>2
  <2>11. ASSUME NEW i \in 1..m PROVE fields'[i] = Trim(Between(Begins(f, i), f[i] - 1))
    <3>1. Begins(f, i) = Begins(at, i)
      <4>1. i # 1 => i - 1 \in 1..n
        BY <1>1, <2>3
      <4> QED
        BY <2>5, <4>1 DEF Begins
    <3>2. CASE i = m
      BY <1>2, <1>3, <1>5, <2>3, <2>5, <3>1, <3>2
    <3>3. CASE i # m
      <4>1. i \in 1..n
        BY <1>1, <2>3, <3>3
      <4> QED
        BY <1>5, <1>8, <2>5, <3>1, <4>1
    <3> QED
      BY <3>2, <3>3
  <2>12. Text' = Between(Begins(f, m + 1), cursor' - 1)
    <3>1. Begins(f, m + 1) = cursor + 1
      BY <1>1, <2>3, <2>5 DEF Begins
    <3>2. cursor' - 1 = cursor
      BY <1>1, <2>2
    <3>3. Between(cursor + 1, cursor) = <<>>
      BY <1>1, BetweenNothing
    <3> QED
      BY <2>2, <3>1, <3>2, <3>3 DEF Text
  <2>13. SplitSoFar(f, m)'
    <3>1. \A i \in 1..m : fields'[i] = Trim(Between(Begins(f, i), f[i] - 1)')
      <4> SUFFICES ASSUME NEW i \in 1..m PROVE fields'[i] = Trim(Between(Begins(f, i), f[i] - 1)')
        OBVIOUS
      <4>1. PICK x, y : x = Begins(f, i) /\ y = f[i] - 1
        OBVIOUS
      <4>2. Between(x, y)' = Between(x, y)
        BY <1>4 DEF Between
      <4>3. fields'[i] = Trim(Between(x, y))
        BY <2>11, <4>1
      <4>4. fields'[i] = Trim(Between(x, y)')
        BY <4>2, <4>3
      <4> QED
        BY <4>1, <4>4 DEF Begins
    <3>2. Text' = Between(Begins(f, m + 1), cursor - 1)'
      BY <1>4, <2>12 DEF Between, Begins
    <3> QED
      BY <1>7, <2>7, <2>8, <2>9, <2>10, <3>1, <3>2 DEF SplitSoFar
  <2> QED
    BY <1>10, <2>3, <2>13
<1> QED
  BY <1>9, <1>10

\* Without quotes the reader splits at each comma it comes to.
LEMMA CommaStep == RowAssumption /\ TypeOK /\ CommaInv /\ [Next]_vars => CommaInv'
<1> SUFFICES ASSUME RowAssumption, TypeOK, CommaInv, [Next]_vars, ~Contains(line', Quote)
             PROVE  CommaInv'
  BY DEF CommaInv
<1>1. row' = row /\ line' = line
  BY DEF Next, Step, vars, DoubledQuote, ClosingQuote, Unterminated, QuotedChar, FieldEnds,
    OpeningQuote, AfterQuoteRejected, BareChar, OutOfMemory, Reject
<1>2. ~Contains(line, Quote) /\ ~in_quotes /\ ~just_closed_quote /\ result # "malformed"
      /\ (result = "parsing" => \E at : SplitSoFar(at, Len(fields)))
  BY <1>1 DEF CommaInv
<1>3. CASE UNCHANGED vars
  <2>1. UNCHANGED <<row, line, cursor, in_quotes, just_closed_quote, buffer, fields, result>>
    BY <1>3 DEF vars
  <2>2. result = "parsing" => (\E at : SplitSoFar(at, Len(fields)))'
    <3> SUFFICES ASSUME result = "parsing" PROVE (\E at : SplitSoFar(at, Len(fields)))'
      OBVIOUS
    <3>1. PICK n, at : n = Len(fields) /\ SplitSoFar(at, n)
      BY <1>2
    <3>2. SplitSoFar(at, n)'
      BY <2>1, <3>1 DEF SplitSoFar, Commas, Between, Begins, Text
    <3> QED
      BY <2>1, <3>1, <3>2
  <2>3. SplitAtEnd' = SplitAtEnd
    BY <2>1 DEF SplitAtEnd, NumbersCommas, Commas, Between
  <2> QED
    BY <1>2, <2>1, <2>2, <2>3 DEF CommaInv
<1>4. CASE OutOfMemory
  BY <1>2, <1>4 DEF OutOfMemory, CommaInv
<1>5. CASE Step
  <2>1. ~Sees(Quote)
    <3>1. cursor \in 1..(Len(line) + 1) /\ Len(line) \in Nat
      BY DEF TypeOK
    <3> QED
      BY <1>2, <3>1 DEF Contains, Sees, AtEnd
  <2>2. (BareChar \/ FieldEnds) /\ result = "parsing"
    BY <1>2, <1>5, <2>1 DEF Step, DoubledQuote, ClosingQuote, Unterminated, QuotedChar, OpeningQuote,
      AfterQuoteRejected, BareChar, AtBareChar, FieldEnds, Parsing
  <2>3. PICK n, at : n = Len(fields) /\ SplitSoFar(at, n)
    BY <1>2, <2>2
  <2>4. n \in Nat /\ fields \in Seq(Seq(Char))
    BY <2>3 DEF TypeOK
  <2>5. CASE BareChar
    <3>1. SplitSoFar(at, n)'
      BY <2>3, <2>4, <2>5, BareStep
    <3>2. fields' = fields /\ ~in_quotes' /\ ~just_closed_quote' /\ result' = "parsing"
      BY <1>2, <2>2, <2>5 DEF BareChar
    <3>3. (\E f : SplitSoFar(f, Len(fields)))'
      BY <2>3, <3>1, <3>2
    <3> QED
      BY <3>2, <3>3 DEF CommaInv
  <2>6. CASE FieldEnds
    <3>1. IF AtEnd THEN SplitAtEnd' ELSE \E f : SplitSoFar(f, n + 1)'
      BY <1>2, <2>3, <2>6, EndStep
    <3>2. ~in_quotes' /\ ~just_closed_quote'
      BY <1>2, <2>6 DEF FieldEnds
    <3>3. Len(fields') = n + 1
      <4>1. fields' = Append(fields, FieldText) /\ FieldText \in Seq(Char)
        BY <2>6, TextType DEF FieldEnds
      <4> QED
        BY <2>3, <2>4, <4>1, AppendProperties
    <3>4. CASE AtEnd
      <4>1. result' = "ok" /\ SplitAtEnd'
        BY <2>6, <3>1, <3>4 DEF FieldEnds
      <4> QED
        BY <3>2, <4>1 DEF CommaInv
    <3>5. CASE ~AtEnd
      <4>1. result' = "parsing" /\ \E f : SplitSoFar(f, n + 1)'
        BY <2>2, <2>6, <3>1, <3>5 DEF FieldEnds
      <4>2. (\E f : SplitSoFar(f, Len(fields)))'
        BY <3>3, <4>1
      <4> QED
        BY <3>2, <4>1, <4>2 DEF CommaInv
    <3> QED
      BY <3>4, <3>5
  <2> QED
    BY <2>2, <2>5, <2>6
<1> QED
  BY <1>3, <1>4, <1>5 DEF Next

\* A line without quotes, however long, is never refused and splits at its commas
\* and nowhere else.
THEOREM CommasSplit == Spec => []CommasSeparate
<1>1. Init => TypeOK /\ CommaInv
  BY TypeInit, CommaInit, RowAssumption
<1>2. TypeOK /\ CommaInv /\ [Next]_vars => TypeOK' /\ CommaInv'
  BY TypeStep, CommaStep, RowAssumption
<1>3. CommaInv => CommasSeparate
  BY DEF CommaInv, CommasSeparate, SplitAtEnd
<1> QED
  BY <1>1, <1>2, <1>3, PTL DEF Spec

=============================================================================
