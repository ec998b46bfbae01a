-------------------------- MODULE BufferedIOProofs -------------------------
(***************************************************************************)
(* What BufferedIO promises, for every buffer size and every list of       *)
(* elements: the file is always a prefix of the stream that the save       *)
(* produces, and a load brings back the elements that are complete in it.  *)
(***************************************************************************)
EXTENDS BufferedIO, SequenceTheorems, NaturalsInduction, WellFoundedInduction, TLAPS

-----------------------------------------------------------------------------
(* The layout of the stream                                                *)

ElemsOK == elems \in Seq(Nat \ {0})

LEMMA LeastOf ==
    ASSUME NEW T \in SUBSET Nat, T # {}
    PROVE  \E m \in T : \A n \in T : ~(n < m)
<1>0. T \subseteq Nat
  OBVIOUS
<1>1. PICK m \in T : \A n \in T : ~(<<n, m>> \in OpToRel(<, Nat))
  BY <1>0, NatLessThanWellFounded, WFMin, Zenon
<1>2. \A n \in T : ~(n < m)
  BY <1>1 DEF OpToRel
<1> QED  BY <1>2

LEMMA CallSizes ==
    ASSUME ElemsOK
    PROVE  /\ Calls \in Nat \ {0}
           /\ \A c \in 1 .. Calls : CallSize(c) \in Nat \ {0}
<1>1. Len(elems) \in Nat /\ \A n \in 1 .. Len(elems) : elems[n] \in Nat \ {0}
  BY DEF ElemsOK
<1>2. Calls \in Nat \ {0}
  BY <1>1 DEF Calls
<1>3. ASSUME NEW c \in 1 .. Calls PROVE CallSize(c) \in Nat \ {0}
  <2>1. c # 1 /\ c % 2 # 0 => c \div 2 \in 1 .. Len(elems)
    BY <1>1 DEF Calls
  <2> QED  BY <1>1, <2>1, BufferAssumption DEF CallSize
<1> QED  BY <1>2, <1>3

\* A function that sums the sizes of the calls before n, up to n.
IsSum(f, n) == f = [c \in 1 .. n |-> IF c = 1 THEN 0 ELSE f[c - 1] + CallSize(c - 1)]

LEMMA SumExists ==
    ASSUME NEW n \in Nat
    PROVE  \E f : IsSum(f, n)
<1> DEFINE T == {m \in Nat : ~\E f : IsSum(f, m)}
<1>1. ASSUME T # {} PROVE FALSE
  <2>1. PICK m \in T : \A q \in T : ~(q < m)
    BY <1>1, LeastOf
  <2>2. CASE m = 0
    <3>1. IsSum([c \in 1 .. m |-> 0], m)
      BY <2>2 DEF IsSum
    <3> QED  BY <2>1, <3>1
  <2>3. CASE m # 0
    <3>1. m - 1 \in Nat /\ m - 1 < m
      BY <2>1, <2>3
    <3>2. PICK f : IsSum(f, m - 1)
      BY <2>1, <3>1
    <3> DEFINE g == [c \in 1 .. m |-> IF c < m THEN f[c]
                                      ELSE IF c = 1 THEN 0 ELSE f[c - 1] + CallSize(c - 1)]
    <3>3. \A c \in 1 .. m - 1 : f[c] = IF c = 1 THEN 0 ELSE f[c - 1] + CallSize(c - 1)
      BY <3>2 DEF IsSum
    <3>4. ASSUME NEW c \in 1 .. m
          PROVE  g[c] = IF c = 1 THEN 0 ELSE g[c - 1] + CallSize(c - 1)
      <4>1. CASE c = 1
        BY <3>1, <3>3, <4>1
      <4>2. CASE c # 1
        <5>1. c - 1 \in 1 .. m /\ c - 1 < m /\ g[c - 1] = f[c - 1]
          BY <3>1, <4>2
        <5>2. g[c] = f[c - 1] + CallSize(c - 1)
          BY <3>1, <3>3, <4>2
        <5> QED  BY <4>2, <5>1, <5>2
      <4> QED  BY <4>1, <4>2
    <3>5. DOMAIN g = 1 .. m /\ g = [c \in 1 .. m |-> g[c]]
      OBVIOUS
    <3> HIDE DEF g
    <3>6. IsSum(g, m)
      BY <3>4, <3>5 DEF IsSum
    <3> QED  BY <2>1, <3>6
  <2> QED  BY <2>2, <2>3
<1> QED  BY <1>1

LEMMA StartIsSum ==
    ASSUME ElemsOK
    PROVE  /\ CallStart(1) = 0
           /\ \A c \in 1 .. Calls : CallStart(c + 1) = CallStart(c) + CallSize(c)
<1>1. Calls + 1 \in Nat
  BY CallSizes
<1>2. PICK f : IsSum(f, Calls + 1)
  BY <1>1, SumExists
<1> DEFINE S == CHOOSE s : IsSum(s, Calls + 1)
<1>3. IsSum(S, Calls + 1)
  BY <1>2
<1>4. \A c : CallStart(c) = S[c]
  BY DEF CallStart, IsSum
<1> HIDE DEF S
<1>5. \A c \in 1 .. Calls + 1 : S[c] = IF c = 1 THEN 0 ELSE S[c - 1] + CallSize(c - 1)
  BY <1>3 DEF IsSum
<1>6. S[1] = 0
  BY <1>1, <1>5, CallSizes
<1>7. ASSUME NEW c \in 1 .. Calls PROVE S[c + 1] = S[c] + CallSize(c)
  <2>1. c + 1 \in 1 .. Calls + 1 /\ c + 1 # 1 /\ (c + 1) - 1 = c
    BY <1>1, CallSizes
  <2> QED  BY <1>5, <2>1
<1> QED  BY <1>4, <1>6, <1>7

\* Calls start at growing positions.
LEMMA StartsGrow ==
    ASSUME ElemsOK
    PROVE  /\ \A c \in 1 .. Calls + 1 : CallStart(c) \in Nat
           /\ \A c, d \in 1 .. Calls + 1 : c < d => CallStart(c) < CallStart(d)
<1>c. Calls \in Nat \ {0} /\ \A c \in 1 .. Calls : CallSize(c) \in Nat \ {0}
  BY CallSizes
<1>r. /\ CallStart(1) = 0
      /\ \A c \in 1 .. Calls : CallStart(c + 1) = CallStart(c) + CallSize(c)
  BY StartIsSum
<1> DEFINE Good(d) == /\ CallStart(d) \in Nat
                      /\ \A c \in 1 .. d - 1 : CallStart(c) \in Nat /\ CallStart(c) < CallStart(d)
           T == {d \in 1 .. Calls + 1 : ~Good(d)}
<1>1. ASSUME T # {} PROVE FALSE
  <2>1. T \in SUBSET Nat
    BY <1>c
  <2>2. PICK m \in T : \A n \in T : ~(n < m)
    BY <1>1, <2>1, LeastOf
  <2>3. CASE m = 1
    <3>1. Good(1)
      BY <1>r
    <3> QED  BY <2>2, <2>3, <3>1
  <2>4. CASE m # 1
    <3>1. /\ m \in Nat /\ m - 1 \in 1 .. Calls /\ m - 1 < m /\ m - 1 \in 1 .. Calls + 1
          /\ (m - 1) + 1 = m
      BY <1>c, <2>2, <2>4
    <3>2. Good(m - 1)
      BY <2>2, <3>1
    <3>3. CallStart(m) = CallStart(m - 1) + CallSize(m - 1) /\ CallSize(m - 1) \in Nat \ {0}
      BY <1>c, <1>r, <3>1
    <3>4. ASSUME NEW c \in 1 .. m - 1 PROVE CallStart(c) \in Nat /\ CallStart(c) < CallStart(m)
      <4>1. CASE c = m - 1
        BY <3>2, <3>3, <4>1
      <4>2. CASE c # m - 1
        <5>1. c \in 1 .. (m - 1) - 1
          BY <3>1, <4>2
        <5> QED  BY <3>2, <3>3, <5>1
      <4> QED  BY <4>1, <4>2
    <3>5. Good(m)
      BY <3>2, <3>3, <3>4
    <3> QED  BY <2>2, <3>5
  <2> QED  BY <2>3, <2>4
<1>2. \A d \in 1 .. Calls + 1 : Good(d)
  BY <1>1
<1> HIDE DEF T
<1>3. ASSUME NEW c \in 1 .. Calls + 1, NEW d \in 1 .. Calls + 1, c < d
      PROVE  CallStart(c) < CallStart(d)
  <2>1. c \in 1 .. d - 1
    BY <1>c, <1>3
  <2> QED  BY <1>2, <2>1
<1> QED  BY <1>2, <1>3

-----------------------------------------------------------------------------
(* Spans of the stream                                                     *)

LEMMA SpanSeq ==
    ASSUME NEW a \in Nat, NEW n \in Nat
    PROVE  /\ Span(a, n) \in Seq(Int) /\ Len(Span(a, n)) = n
           /\ \A c \in 1 .. n : Span(a, n)[c] = a + c
  BY DEF Span

LEMMA SpanEq ==
    ASSUME NEW a \in Nat, NEW n \in Nat, NEW s \in Seq(Int), Len(s) = n,
           \A c \in 1 .. n : s[c] = a + c
    PROVE  s = Span(a, n)
<1>1. s = [c \in 1 .. n |-> s[c]]
  OBVIOUS
<1> QED  BY <1>1 DEF Span

LEMMA SpanCat ==
    ASSUME NEW a \in Nat, NEW m \in Nat, NEW n \in Nat
    PROVE  Span(a, m) \o Span(a + m, n) = Span(a, m + n)
<1> DEFINE s == Span(a, m)
           u == Span(a + m, n)
<1>0. a + m \in Nat
  OBVIOUS
<1>1. /\ s \in Seq(Int) /\ Len(s) = m /\ \A c \in 1 .. m : s[c] = a + c
      /\ u \in Seq(Int) /\ Len(u) = n /\ \A c \in 1 .. n : u[c] = (a + m) + c
  BY <1>0, SpanSeq, Zenon
<1> HIDE DEF s, u
<1>2. /\ s \o u \in Seq(Int) /\ Len(s \o u) = m + n /\ m + n \in Nat
      /\ \A c \in 1 .. m + n : (s \o u)[c] = IF c <= m THEN s[c] ELSE u[c - m]
  <2>1. /\ s \o u \in Seq(Int) /\ Len(s \o u) = Len(s) + Len(u)
        /\ \A c \in 1 .. Len(s) + Len(u) :
              (s \o u)[c] = IF c <= Len(s) THEN s[c] ELSE u[c - Len(s)]
    BY <1>1, ConcatProperties, Zenon
  <2> QED  BY <1>1, <2>1
<1>3. ASSUME NEW c \in 1 .. m + n PROVE (s \o u)[c] = a + c
  <2>1. CASE c <= m
    BY <1>1, <1>2, <2>1
  <2>2. CASE ~(c <= m)
    <3>1. c - m \in 1 .. n
      BY <2>2
    <3> QED  BY <1>1, <1>2, <2>2, <3>1
  <2> QED  BY <2>1, <2>2
<1>4. s \o u = Span(a, m + n)
  BY <1>2, <1>3, SpanEq
<1> QED  BY <1>4 DEF s, u

\* Positions l to h of the m bytes after a are the n bytes after d.
Cuts(a, m, l, h, d, n) ==
    /\ a \in Nat /\ m \in Nat /\ l \in Nat \ {0} /\ h \in Nat /\ d \in Nat /\ n \in Nat
    /\ h <= m /\ d + 1 = a + l /\ n + l = h + 1

LEMMA SpanSub ==
    ASSUME NEW a, NEW m, NEW l, NEW h, NEW d, NEW n, Cuts(a, m, l, h, d, n)
    PROVE  SubSeq(Span(a, m), l, h) = Span(d, n)
<1> USE DEF Cuts
<1> DEFINE s == Span(a, m)
           u == SubSeq(s, l, h)
<1>1. s \in Seq(Int) /\ Len(s) = m /\ \A c \in 1 .. m : s[c] = a + c
  BY SpanSeq
<1> HIDE DEF s
<1>2. u \in Seq(Int) /\ Len(u) = n /\ \A c \in 1 .. n : u[c] = s[(l - 1) + c]
  BY <1>1
<1>3. ASSUME NEW c \in 1 .. n PROVE u[c] = d + c
  <2>1. (l - 1) + c \in 1 .. m
    OBVIOUS
  <2> QED  BY <1>1, <1>2, <2>1
<1> HIDE DEF u
<1>4. u = Span(d, n)
  BY <1>2, <1>3, SpanEq
<1> QED  BY <1>4 DEF s, u

\* A span says where it starts.
LEMMA SpanStart ==
    ASSUME NEW a \in Nat, NEW b \in Nat, NEW n \in Nat \ {0}, Span(a, n) = Span(b, n)
    PROVE  a = b
<1>1. 1 \in 1 .. n /\ n \in Nat
  OBVIOUS
<1>2. Span(a, n)[1] = a + 1 /\ Span(b, n)[1] = b + 1
  BY <1>1, SpanSeq
<1> QED  BY <1>2

LEMMA SpanEmpty == ASSUME NEW a \in Nat PROVE Span(a, 0) = <<>>
<1>1. <<>> \in Seq(Int) /\ Len(<<>>) = 0 /\ 0 \in Nat /\ 1 .. 0 = {}
  OBVIOUS
<1>2. \A c \in 1 .. 0 : <<>>[c] = a + c
  BY <1>1
<1> QED  BY <1>1, <1>2, SpanEq, Zenon

-----------------------------------------------------------------------------
(* The inductive invariant                                                 *)

BioType ==
    /\ buffer_size \in Nat \ {0} /\ ElemsOK
    /\ stage \in {"save", "count", "size", "body", "end"}
    /\ file_offset \in Nat /\ buffer_pos \in Nat /\ chunk \in Nat /\ rest \in Nat

\* The file holds what was flushed, the buffer what was taken since.
WriterOK ==
    /\ file = Span(0, file_offset)
    /\ stage = "save" => buffer = Span(file_offset, buffer_pos) /\ sent = file_offset + buffer_pos

\* The call of buffered_write whose bytes the load expects next.
Cur == IF stage = "count" THEN 1
       ELSE IF stage = "size" THEN 2 * Len(got) + 2 ELSE 2 * Len(got) + 3

\* The reader's buffer is a piece of the file, and what it has taken out of it is
\* the beginning of that call.
ReaderOK ==
    /\ stage = "save" => rbuf = <<>> /\ rpos = 0 /\ roffset = 0 /\ part = <<>> /\ got = <<>>
    /\ Reading =>
         /\ roffset \in Nat /\ roffset <= file_offset /\ rpos \in Nat
         /\ Len(rbuf) \in Nat /\ Len(rbuf) <= roffset /\ rpos <= Len(rbuf)
         /\ rbuf = Span(roffset - Len(rbuf), Len(rbuf))
         /\ want = CallSize(Cur) /\ Len(part) \in Nat /\ Len(part) <= want
         /\ part = Span(CallStart(Cur), Len(part))
         /\ CallStart(Cur) + Len(part) = (roffset - Len(rbuf)) + rpos
         /\ stage = "count" => got = <<>>
         /\ stage \in {"size", "body"} => Len(got) < Len(elems)

GotOK ==
    /\ got \in Seq(Seq(Int)) /\ Len(got) <= Len(elems)
    /\ \A n \in 1 .. Len(got) : got[n] = BytesOf(2 * n + 1)
    /\ stage = "end" /\ ~failed => 1 .. Len(got) = Complete

BioInv == BioType /\ WriterOK /\ ReaderOK /\ GotOK

LEMMA BioInitInv == BioInit => BioInv
<1> SUFFICES ASSUME BioInit PROVE BioInv
  OBVIOUS
<1>1. BioType
  BY BufferAssumption DEF BioInit, BioType, ElemsOK
<1>2. WriterOK
  BY SpanEmpty DEF BioInit, WriterOK
<1>3. ReaderOK /\ GotOK
  BY <1>1 DEF BioInit, ReaderOK, Reading, GotOK, BioType, ElemsOK
<1> QED  BY <1>1, <1>2, <1>3 DEF BioInv

-----------------------------------------------------------------------------
(* Save                                                                    *)

\* What a flush leaves, in the file and in the buffer.
LEMMA FlushSpans ==
    ASSUME BioInv, stage = "save", NEW w \in Written
    PROVE  /\ w \in Nat /\ w <= buffer_pos
           /\ OnDisk(w) = Span(0, file_offset + w)
           /\ Kept(w) = Span(file_offset + w, buffer_pos - w)
<1>1. file_offset \in Nat /\ buffer_pos \in Nat
  BY DEF BioInv, BioType
<1>2. file = Span(0, file_offset) /\ buffer = Span(file_offset, buffer_pos)
  BY DEF BioInv, WriterOK
<1>3. w \in Nat /\ w <= buffer_pos
  BY <1>1 DEF Written
<1>a. 0 \in Nat /\ 0 + file_offset = file_offset
  BY <1>1
<1>4. SubSeq(file, 1, file_offset) = Span(0, file_offset)
  <2>1. Cuts(0, file_offset, 1, file_offset, 0, file_offset)
    BY <1>1 DEF Cuts
  <2> QED  BY <1>2, <2>1, SpanSub
<1>5. SubSeq(buffer, 1, w) = Span(file_offset, w)
  <2>1. Cuts(file_offset, buffer_pos, 1, w, file_offset, w)
    BY <1>1, <1>3 DEF Cuts
  <2> QED  BY <1>2, <2>1, SpanSub
<1>6. Span(0, file_offset) \o Span(0 + file_offset, w) = Span(0, file_offset + w)
  BY <1>1, <1>3, <1>a, SpanCat, Zenon
<1>7. OnDisk(w) = Span(0, file_offset + w)
  BY <1>4, <1>5, <1>6, <1>a DEF OnDisk
<1>8. PICK l \in Nat, d \in Nat, n \in Nat :
          l = w + 1 /\ d = file_offset + w /\ n = buffer_pos - w
  BY <1>1, <1>3
<1>9. SubSeq(buffer, l, buffer_pos) = Span(d, n)
  <2>1. Cuts(file_offset, buffer_pos, l, buffer_pos, d, n)
    BY <1>1, <1>3, <1>8 DEF Cuts
  <2>2. SubSeq(Span(file_offset, buffer_pos), l, buffer_pos) = Span(d, n)
    BY <2>1, SpanSub
  <2> QED  BY <1>2, <2>2
<1>10. Kept(w) = Span(file_offset + w, buffer_pos - w)
  BY <1>2, <1>8, <1>9 DEF Kept
<1> QED  BY <1>3, <1>7, <1>10

\* The writer's state after a copy.
LEMMA CopySpans ==
    ASSUME NEW o \in Nat, NEW m \in Nat, NEW n \in Nat, sent = o + m, n <= rest, rest \in Nat,
           CopyIn(Span(o, m), n)
    PROVE  /\ buffer' = Span(o, m + n) /\ buffer_pos' = m + n
           /\ sent' = o + (m + n) /\ rest' \in Nat
<1>1. Len(Span(o, m)) = m
  BY SpanSeq
<1>2. buffer' = Span(o, m) \o Span(o + m, n) /\ buffer_pos' = m + n
      /\ sent' = sent + n /\ rest' = rest - n
  BY <1>1 DEF CopyIn
<1>3. Span(o, m) \o Span(o + m, n) = Span(o, m + n)
  BY SpanCat, Zenon
<1> QED  BY <1>2, <1>3

LEMMA SaveInv ==
    ASSUME BioInv, NextCall \/ WriteCopy \/ WriteFlush
    PROVE  BioInv'
<1>t. BioType /\ stage = "save"
  BY DEF BioInv, NextCall, WriteCopy, WriteFlush
<1>w. file = Span(0, file_offset) /\ buffer = Span(file_offset, buffer_pos)
      /\ sent = file_offset + buffer_pos
  BY <1>t DEF BioInv, WriterOK
<1>1. /\ stage' = stage /\ elems' = elems /\ buffer_size' = buffer_size
      /\ rbuf' = rbuf /\ rpos' = rpos /\ roffset' = roffset /\ part' = part /\ got' = got
      /\ want' = want
  BY DEF NextCall, WriteCopy, WriteFlush, CopyIn, readerVars
<1>2. ReaderOK' /\ GotOK'
  <2>1. got = <<>> /\ ReaderOK
    BY <1>t DEF BioInv, ReaderOK
  <2>2. ReaderOK'
    BY <1>1, <1>t, <2>1 DEF ReaderOK, Reading
  <2>3. GotOK'
    BY <1>1, <1>t, <2>1 DEF BioInv, GotOK
  <2> QED  BY <2>2, <2>3
<1>3. CASE NextCall
  <2>1. chunk' \in Nat /\ rest' \in Nat
    <3>1. chunk + 1 \in 1 .. Calls
      BY <1>3, <1>t, CallSizes DEF NextCall, BioType
    <3> QED  BY <1>3, <1>t, <3>1, CallSizes DEF NextCall, BioType
  <2>2. BioType' /\ WriterOK'
    BY <1>1, <1>3, <1>t, <1>w, <2>1 DEF NextCall, BioType, ElemsOK, WriterOK
  <2> QED  BY <1>2, <2>2 DEF BioInv
<1>4. ASSUME NEW o \in Nat, NEW m \in Nat, NEW n \in Nat, sent = o + m, n <= rest,
             CopyIn(Span(o, m), n), file_offset' = o, file' = Span(0, o)
      PROVE  BioInv'
  <2>1. /\ buffer' = Span(o, m + n) /\ buffer_pos' = m + n
        /\ sent' = o + (m + n) /\ rest' \in Nat
    BY <1>4, <1>t, CopySpans DEF BioType
  <2>2. chunk' = chunk
    BY <1>4 DEF CopyIn
  <2>3. BioType' /\ WriterOK'
    BY <1>1, <1>4, <1>t, <2>1, <2>2 DEF BioType, ElemsOK, WriterOK
  <2> QED  BY <1>2, <2>3 DEF BioInv
<1>5. CASE WriteCopy
  <2>1. PICK n : n = Lesser(rest, buffer_size - buffer_pos)
    OBVIOUS
  <2>2. n \in Nat /\ n <= rest
    BY <1>5, <1>t, <2>1 DEF WriteCopy, BioType, Lesser
  <2>3. CopyIn(Span(file_offset, buffer_pos), n) /\ file' = file /\ file_offset' = file_offset
    BY <1>5, <1>w, <2>1 DEF WriteCopy
  <2> QED  BY <1>4, <1>t, <1>w, <2>2, <2>3 DEF BioType
<1>6. CASE WriteFlush
  <2>1. PICK w \in Written :
            /\ file' = OnDisk(w) /\ file_offset' = file_offset + w
            /\ CopyIn(Kept(w), Lesser(rest, buffer_size))
    BY <1>6 DEF WriteFlush
  <2>2. PICK n : n = Lesser(rest, buffer_size)
    OBVIOUS
  <2>3. n \in Nat /\ n <= rest
    BY <1>t, <2>2 DEF BioType, Lesser
  <2>4. /\ w \in Nat /\ w <= buffer_pos /\ OnDisk(w) = Span(0, file_offset + w)
        /\ Kept(w) = Span(file_offset + w, buffer_pos - w)
    BY <1>t, FlushSpans
  <2>5. /\ file_offset + w \in Nat /\ buffer_pos - w \in Nat
        /\ sent = (file_offset + w) + (buffer_pos - w)
    BY <1>t, <1>w, <2>4 DEF BioType
  <2> QED  BY <1>4, <2>1, <2>2, <2>3, <2>4, <2>5
<1> QED  BY <1>3, <1>5, <1>6

LEMMA FinalInv ==
    ASSUME BioInv, FinalFlush
    PROVE  BioInv'
<1>t. BioType /\ stage = "save" /\ rbuf = <<>> /\ rpos = 0 /\ roffset = 0 /\ part = <<>>
      /\ got = <<>>
  BY DEF BioInv, FinalFlush, ReaderOK
<1>1. /\ stage' = "count" /\ elems' = elems /\ buffer_size' = buffer_size /\ want' = COUNT
      /\ chunk' = chunk /\ rest' = rest
      /\ rbuf' = <<>> /\ rpos' = 0 /\ roffset' = 0 /\ part' = <<>> /\ got' = <<>>
  BY <1>t DEF FinalFlush
<1>2. PICK w \in Written :
          file' = OnDisk(w) /\ file_offset' = file_offset + w /\ buffer_pos' = buffer_pos - w
  BY DEF FinalFlush
<1>3. w \in Nat /\ w <= buffer_pos /\ OnDisk(w) = Span(0, file_offset + w)
  BY <1>t, FlushSpans
<1>4. BioType' /\ WriterOK'
  BY <1>1, <1>2, <1>3, <1>t DEF BioType, ElemsOK, WriterOK
<1>5. Cur' = 1 /\ CallStart(1)' = 0 /\ CallSize(1)' = COUNT
  <2>1. Cur' = 1
    BY <1>1 DEF Cur
  <2>2. CallStart(1)' = CallStart(1)
    BY <1>1 DEF CallStart, CallSize, Calls
  <2>3. CallStart(1) = 0
    BY <1>t, StartIsSum DEF BioType
  <2> QED  BY <2>1, <2>2, <2>3 DEF CallSize
<1>6. ReaderOK'
  <2>1. Span(0, 0) = <<>> /\ Len(<<>>) = 0
    BY SpanEmpty
  <2>2. file_offset' \in Nat /\ COUNT \in Nat
    BY <1>4, BufferAssumption DEF BioType
  <2>3. part' = Span(CallStart(Cur)', Len(part)')
    BY <1>1, <1>5, <2>1 DEF Cur
  <2> QED  BY <1>1, <1>5, <2>1, <2>2, <2>3 DEF ReaderOK, Reading
<1>7. GotOK'
  BY <1>1, <1>t DEF GotOK, BioType, ElemsOK
<1> QED  BY <1>4, <1>6, <1>7 DEF BioInv

-----------------------------------------------------------------------------
(* Load                                                                    *)

LEMMA StreamKept ==
    ASSUME elems' = elems
    PROVE  /\ Calls' = Calls
           /\ \A c : CallSize(c)' = CallSize(c) /\ CallStart(c)' = CallStart(c)
           /\ \A c : BytesOf(c)' = BytesOf(c)
<1>1. Calls' = Calls /\ \A c : CallSize(c)' = CallSize(c)
  BY DEF Calls, CallSize
<1>2. \A c : CallStart(c)' = CallStart(c)
  BY DEF CallStart, Calls, CallSize
<1>3. \A c : BytesOf(c)' = BytesOf(c)
  BY <1>1, <1>2 DEF BytesOf
<1> QED  BY <1>1, <1>2, <1>3

\* The state of a load in the terms of the code: what its call is, and where.
LEMMA ReadFacts ==
    ASSUME BioInv, Reading
    PROVE  /\ Cur \in 1 .. Calls /\ CallStart(Cur) \in Nat /\ CallSize(Cur) \in Nat \ {0}
           /\ Cur + 1 \in 1 .. Calls + 1
           /\ CallStart(Cur + 1) = CallStart(Cur) + CallSize(Cur)
           /\ stage \in {"count", "size", "body"} /\ ElemsOK
           /\ Len(elems) \in Nat /\ Len(got) \in Nat /\ Calls = 1 + 2 * Len(elems)
<1>1. /\ stage \in {"count", "size", "body"} /\ ElemsOK /\ Len(elems) \in Nat
      /\ Len(got) \in Nat /\ Calls = 1 + 2 * Len(elems)
      /\ stage = "count" => Len(got) = 0
      /\ stage \in {"size", "body"} => Len(got) < Len(elems)
  BY DEF Reading, BioInv, BioType, ElemsOK, GotOK, ReaderOK, Calls
<1>2. Cur \in 1 .. Calls
  BY <1>1 DEF Cur
<1>3. Cur + 1 \in 1 .. Calls + 1 /\ Cur \in 1 .. Calls + 1
  BY <1>1, <1>2
<1> QED  BY <1>1, <1>2, <1>3, StartsGrow, StartIsSum, CallSizes

LEMMA ReadCopyInv ==
    ASSUME BioInv, ReadCopy
    PROVE  BioInv'
<1>f. /\ Cur \in 1 .. Calls /\ CallStart(Cur) \in Nat /\ CallSize(Cur) \in Nat \ {0}
      /\ stage \in {"count", "size", "body"}
  BY ReadFacts DEF ReadCopy
<1>r. /\ Reading /\ roffset \in Nat /\ roffset <= file_offset /\ rpos \in Nat
      /\ Len(rbuf) \in Nat /\ Len(rbuf) <= roffset
      /\ rbuf = Span(roffset - Len(rbuf), Len(rbuf))
      /\ want = CallSize(Cur) /\ Len(part) \in Nat
      /\ part = Span(CallStart(Cur), Len(part))
      /\ CallStart(Cur) + Len(part) = (roffset - Len(rbuf)) + rpos
      /\ Len(part) < want /\ rpos < Len(rbuf)
  BY DEF ReadCopy, BioInv, ReaderOK
<1>n. PICK n : n = Lesser(want - Len(part), Len(rbuf) - rpos)
  OBVIOUS
<1>1. /\ part' = part \o SubSeq(rbuf, rpos + 1, rpos + n) /\ rpos' = rpos + n
      /\ elems' = elems /\ buffer_size' = buffer_size /\ file' = file /\ stage' = stage
      /\ buffer' = buffer /\ buffer_pos' = buffer_pos /\ file_offset' = file_offset
      /\ chunk' = chunk /\ rest' = rest /\ sent' = sent
      /\ rbuf' = rbuf /\ roffset' = roffset /\ want' = want /\ got' = got /\ failed' = failed
  BY <1>n DEF ReadCopy, writerVars
<1>m. PICK m, p : m = Len(rbuf) /\ p = Len(part)
  OBVIOUS
<1>2. n \in Nat /\ p + n <= want /\ rpos + n <= m /\ m \in Nat /\ p \in Nat
  <2>1. /\ want \in Nat /\ p < want /\ rpos < m /\ rpos \in Nat /\ m \in Nat /\ p \in Nat
        /\ n = IF want - p < m - rpos THEN want - p ELSE m - rpos
    BY <1>f, <1>r, <1>n, <1>m DEF Lesser
  <2> QED  BY <2>1
<1>b. PICK b : b = roffset - Len(rbuf)
  OBVIOUS
<1>B. b \in Nat
  BY <1>b, <1>r
<1>3. SubSeq(rbuf, rpos + 1, rpos + n) = Span(b + rpos, n)
  <2>1. PICK l, h, d : l = rpos + 1 /\ h = rpos + n /\ d = b + rpos
    OBVIOUS
  <2>2. Cuts(b, m, l, h, d, n)
    BY <1>B, <1>r, <1>2, <2>1 DEF Cuts
  <2>3. SubSeq(Span(b, m), l, h) = Span(d, n)
    BY <2>2, SpanSub
  <2> QED  BY <1>b, <1>m, <1>r, <2>1, <2>3
<1>c. PICK c : c = CallStart(Cur) /\ c \in Nat
  BY <1>f
<1>4. part' = Span(c, p + n) /\ Len(part)' = p + n
  <2>1. Span(c, p) \o Span(c + p, n) = Span(c, p + n)
    BY <1>2, <1>c, SpanCat
  <2>2. c + p = b + rpos
    BY <1>b, <1>c, <1>m, <1>r
  <2>3. part' = Span(c, p + n)
    BY <1>1, <1>3, <1>c, <1>m, <1>r, <2>1, <2>2
  <2>4. PICK q : q = p + n
    OBVIOUS
  <2>5. q \in Nat
    BY <1>2, <2>4
  <2>6. Len(Span(c, q)) = q
    BY <1>c, <2>5, SpanSeq
  <2> QED  BY <2>3, <2>4, <2>6
<1>5. Cur' = Cur /\ CallStart(Cur)' = CallStart(Cur) /\ CallSize(Cur)' = CallSize(Cur)
      /\ Reading' /\ Complete' = Complete
  <2>1. Cur' = Cur /\ Reading'
    BY <1>1, <1>r DEF Cur, Reading
  <2>2. CallStart(Cur)' = CallStart(Cur) /\ CallSize(Cur)' = CallSize(Cur)
    BY <1>1 DEF Cur, CallStart, CallSize, Calls
  <2>3. Complete' = Complete
    BY <1>1, StreamKept DEF Complete
  <2> QED  BY <2>1, <2>2, <2>3
<1>6. BioType' /\ WriterOK'
  BY <1>1 DEF BioInv, BioType, ElemsOK, WriterOK
<1>7. ReaderOK'
  <2>1. c + (p + n) = (roffset - m) + (rpos + n) /\ p + n \in Nat /\ rpos + n \in Nat
    <3>1. /\ c + p = b + rpos /\ b = roffset - m /\ rpos \in Nat /\ roffset \in Nat
          /\ c \in Nat
      BY <1>b, <1>c, <1>m, <1>r
    <3> QED  BY <1>2, <1>B, <3>1
  <2>2. part' = Span(CallStart(Cur)', Len(part)')
    BY <1>4, <1>5, <1>c
  <2>3. stage' # "save" /\ (stage' = "count" => got' = <<>>)
        /\ (stage' \in {"size", "body"} => Len(got') < Len(elems'))
    BY <1>1, <1>f, <1>r DEF BioInv, ReaderOK
  <2> QED  BY <1>1, <1>2, <1>4, <1>5, <1>c, <1>m, <1>r, <2>1, <2>2, <2>3 DEF ReaderOK
<1>8. GotOK'
  BY <1>1, <1>5, <1>f, StreamKept DEF BioInv, GotOK
<1> QED  BY <1>6, <1>7, <1>8 DEF BioInv

LEMMA RefillInv ==
    ASSUME BioInv, Refill
    PROVE  BioInv'
<1>f. CallStart(Cur) \in Nat /\ stage \in {"count", "size", "body"}
  BY ReadFacts DEF Refill
<1>r. /\ Reading /\ roffset \in Nat /\ roffset <= file_offset
      /\ want = CallSize(Cur) /\ Len(part) \in Nat /\ Len(part) <= want
      /\ part = Span(CallStart(Cur), Len(part))
      /\ CallStart(Cur) + Len(part) = (roffset - Len(rbuf)) + rpos
      /\ Len(rbuf) \in Nat /\ rpos = Len(rbuf)
  BY DEF Refill, BioInv, ReaderOK
<1>w. file_offset \in Nat /\ file = Span(0, file_offset) /\ buffer_size \in Nat
  BY DEF BioInv, BioType, WriterOK
<1>l. Len(file) = file_offset
  BY <1>w, SpanSeq
<1>1. PICK n \in 1 .. Lesser(buffer_size, Len(file) - roffset) :
          rbuf' = SubSeq(file, roffset + 1, roffset + n) /\ roffset' = roffset + n
  BY DEF Refill
<1>2. n \in Nat /\ roffset + n <= file_offset
  BY <1>1, <1>l, <1>r, <1>w DEF Lesser
<1>3. /\ rpos' = 0 /\ elems' = elems /\ buffer_size' = buffer_size /\ file' = file /\ stage' = stage
      /\ buffer' = buffer /\ buffer_pos' = buffer_pos /\ file_offset' = file_offset
      /\ chunk' = chunk /\ rest' = rest /\ sent' = sent
      /\ part' = part /\ want' = want /\ got' = got /\ failed' = failed
  BY DEF Refill, writerVars
<1>4. rbuf' = Span(roffset, n) /\ Len(rbuf') = n
  <2>1. PICK l, h : l = roffset + 1 /\ h = roffset + n
    OBVIOUS
  <2>2. Cuts(0, file_offset, l, h, roffset, n)
    BY <1>r, <1>2, <1>w, <2>1 DEF Cuts
  <2>3. SubSeq(Span(0, file_offset), l, h) = Span(roffset, n)
    BY <2>2, SpanSub
  <2>4. rbuf' = Span(roffset, n)
    BY <1>1, <1>w, <2>1, <2>3
  <2> QED  BY <1>2, <1>r, <2>4, SpanSeq
<1>5. Cur' = Cur /\ CallStart(Cur)' = CallStart(Cur) /\ CallSize(Cur)' = CallSize(Cur)
      /\ Reading' /\ Complete' = Complete
  <2>1. Cur' = Cur /\ Reading'
    BY <1>3, <1>r DEF Cur, Reading
  <2>2. CallStart(Cur)' = CallStart(Cur) /\ CallSize(Cur)' = CallSize(Cur)
    BY <1>3 DEF Cur, CallStart, CallSize, Calls
  <2>3. Complete' = Complete
    BY <1>3, StreamKept DEF Complete
  <2> QED  BY <2>1, <2>2, <2>3
<1>6. BioType' /\ WriterOK'
  BY <1>3 DEF BioInv, BioType, ElemsOK, WriterOK
<1>7. ReaderOK'
  <2>1. /\ roffset' - Len(rbuf') = roffset /\ roffset' \in Nat /\ Len(rbuf') <= roffset'
        /\ roffset' <= file_offset' /\ rpos' <= Len(rbuf') /\ rpos' \in Nat /\ Len(rbuf') \in Nat
        /\ CallStart(Cur) + Len(part) = roffset
    BY <1>1, <1>2, <1>3, <1>4, <1>f, <1>r
  <2>2. rbuf' = Span(roffset' - Len(rbuf'), Len(rbuf'))
    BY <1>4, <2>1
  <2>3. CallStart(Cur)' + Len(part') = (roffset' - Len(rbuf')) + rpos'
    BY <1>3, <1>5, <1>r, <2>1
  <2>4. stage' # "save" /\ (stage' = "count" => got' = <<>>)
        /\ (stage' \in {"size", "body"} => Len(got') < Len(elems'))
    BY <1>3, <1>f, <1>r DEF BioInv, ReaderOK
  <2> QED  BY <1>3, <1>5, <1>r, <2>1, <2>2, <2>3, <2>4 DEF ReaderOK
<1>8. GotOK'
  BY <1>3, <1>5, <1>f, StreamKept DEF BioInv, GotOK
<1> QED  BY <1>6, <1>7, <1>8 DEF BioInv

\* Which elements are complete, from where the file ends.
LEMMA CompleteUpTo ==
    ASSUME BioInv, NEW g, g \in Nat, g <= Len(elems),
           g > 0 => CallStart(2 * g + 2) <= file_offset,
           g < Len(elems) => file_offset < CallStart(2 * g + 4)
    PROVE  Complete = 1 .. g
<1>1. ElemsOK /\ file_offset \in Nat /\ Len(elems) \in Nat /\ Calls = 1 + 2 * Len(elems)
  BY DEF BioInv, BioType, ElemsOK, Calls
<1>2. Len(file) = file_offset
  <2>1. file = Span(0, file_offset)
    BY DEF BioInv, WriterOK
  <2> QED  BY <1>1, <2>1, SpanSeq
<1>3. /\ \A c \in 1 .. Calls + 1 : CallStart(c) \in Nat
      /\ \A c, d \in 1 .. Calls + 1 : c < d => CallStart(c) < CallStart(d)
  BY <1>1, StartsGrow
<1>4. ASSUME NEW n \in 1 .. Len(elems) PROVE CallStart(2 * n + 2) <= file_offset <=> n <= g
  <2>1. 2 * n + 2 \in 1 .. Calls + 1 /\ n \in Nat
    BY <1>1
  <2>a. PICK a : a = CallStart(2 * n + 2) /\ a \in Nat
    BY <1>3, <2>1
  <2>2. CASE n <= g
    <3>1. 2 * g + 2 \in 1 .. Calls + 1 /\ CallStart(2 * g + 2) <= file_offset
      BY <1>1, <2>1, <2>2
    <3>2. n = g \/ 2 * n + 2 < 2 * g + 2
      BY <2>1, <2>2
    <3>3. CallStart(2 * n + 2) <= CallStart(2 * g + 2) /\ CallStart(2 * g + 2) \in Nat
      BY <1>3, <2>1, <3>1, <3>2
    <3>4. PICK b : b = CallStart(2 * g + 2)
      OBVIOUS
    <3>5. a <= b /\ b <= file_offset /\ b \in Nat
      BY <2>a, <3>1, <3>3, <3>4
    <3>6. a <= file_offset
      BY <1>1, <2>a, <3>5
    <3> QED  BY <2>2, <2>a, <3>6
  <2>3. CASE g < n
    <3>1. 2 * g + 4 \in 1 .. Calls + 1 /\ file_offset < CallStart(2 * g + 4)
      BY <1>1, <2>1, <2>3
    <3>2. 2 * n + 2 = 2 * g + 4 \/ 2 * g + 4 < 2 * n + 2
      BY <2>1, <2>3
    <3>3. CallStart(2 * g + 4) <= CallStart(2 * n + 2) /\ CallStart(2 * g + 4) \in Nat
      BY <1>3, <2>1, <3>1, <3>2
    <3>4. PICK b : b = CallStart(2 * g + 4)
      OBVIOUS
    <3>5. b <= a /\ file_offset < b /\ b \in Nat
      BY <2>a, <3>1, <3>3, <3>4
    <3>6. ~(a <= file_offset) /\ ~(n <= g)
      BY <1>1, <2>1, <2>3, <2>a, <3>5
    <3> QED  BY <2>a, <3>6
  <2> QED  BY <2>1, <2>2, <2>3
<1> QED  BY <1>1, <1>2, <1>4 DEF Complete

\* The calls of an element: its size, then its bytes.
LEMMA ElementCalls ==
    ASSUME ElemsOK, NEW n \in 1 .. Len(elems)
    PROVE  /\ 2 * n \in 1 .. Calls /\ CallSize(2 * n) = HDR
           /\ CallSize(2 * n + 1) = elems[n]
           /\ SizeIn(BytesOf(2 * n)) = elems[n]
<1>1. Len(elems) \in Nat /\ n \in Nat /\ Calls = 1 + 2 * Len(elems) /\ HDR \in Nat \ {0}
  BY BufferAssumption DEF ElemsOK, Calls
<1>2. 2 * n \in 1 .. Calls /\ 2 * n # 1 /\ (2 * n) % 2 = 0 /\ (2 * n) \div 2 = n
  BY <1>1
<1>3. CallSize(2 * n) = HDR
  BY <1>2 DEF CallSize
<1>4. CallSize(2 * n + 1) = elems[n]
  <2>1. 2 * n + 1 # 1 /\ (2 * n + 1) % 2 # 0 /\ (2 * n + 1) \div 2 = n
    BY <1>1
  <2> QED  BY <2>1 DEF CallSize
<1> DEFINE H == {d \in 1 .. Calls : d % 2 = 0 /\ BytesOf(d) = BytesOf(2 * n)}
<1>5. ASSUME NEW d \in H PROVE d = 2 * n
  <2>1. d \in 1 .. Calls /\ d % 2 = 0 /\ BytesOf(d) = BytesOf(2 * n) /\ d # 1
    BY <1>5
  <2>2. CallSize(d) = HDR
    BY <2>1 DEF CallSize
  <2>3. d \in 1 .. Calls + 1 /\ 2 * n \in 1 .. Calls + 1
    BY <1>1, <1>2, <2>1
  <2>4. CallStart(d) \in Nat /\ CallStart(2 * n) \in Nat
    BY <2>3, StartsGrow
  <2>5. Span(CallStart(d), HDR) = Span(CallStart(2 * n), HDR)
    BY <1>3, <2>1, <2>2 DEF BytesOf
  <2>6. CallStart(d) = CallStart(2 * n)
    BY <1>1, <2>4, <2>5, SpanStart
  <2>7. ~(d < 2 * n) /\ ~(2 * n < d)
    BY <2>3, <2>4, <2>6, StartsGrow
  <2> QED  BY <1>1, <2>3, <2>7
<1>6. 2 * n \in H
  BY <1>2
<1>7. SizeIn(BytesOf(2 * n)) = IF H = {} THEN 0 ELSE elems[(CHOOSE d \in H : TRUE) \div 2]
  BY DEF SizeIn
<1> HIDE DEF H
<1>8. (CHOOSE d \in H : TRUE) = 2 * n
  BY <1>5, <1>6
<1>9. SizeIn(BytesOf(2 * n)) = elems[n]
  BY <1>2, <1>6, <1>7, <1>8
<1> QED  BY <1>2, <1>3, <1>4, <1>9

LEMMA RefillFailInv ==
    ASSUME BioInv, RefillFail
    PROVE  BioInv'
<1>f. /\ Cur \in 1 .. Calls /\ CallStart(Cur) \in Nat /\ CallSize(Cur) \in Nat \ {0}
      /\ Cur + 1 \in 1 .. Calls + 1
      /\ CallStart(Cur + 1) = CallStart(Cur) + CallSize(Cur)
      /\ stage \in {"count", "size", "body"} /\ ElemsOK
      /\ Len(elems) \in Nat /\ Len(got) \in Nat /\ Calls = 1 + 2 * Len(elems)
  BY ReadFacts DEF RefillFail
<1>r. /\ Reading /\ roffset \in Nat /\ roffset <= file_offset
      /\ want = CallSize(Cur) /\ Len(part) \in Nat /\ Len(part) < want
      /\ CallStart(Cur) + Len(part) = (roffset - Len(rbuf)) + rpos
      /\ Len(rbuf) \in Nat /\ rpos = Len(rbuf) /\ Len(got) <= Len(elems)
      /\ stage = "count" => got = <<>>
      /\ stage \in {"size", "body"} => Len(got) < Len(elems)
  BY DEF RefillFail, BioInv, ReaderOK, GotOK
<1>w. file_offset \in Nat /\ file = Span(0, file_offset)
  BY DEF BioInv, BioType, WriterOK
<1>l. Len(file) = file_offset
  BY <1>w, SpanSeq
<1>1. /\ stage' = "end" /\ elems' = elems /\ buffer_size' = buffer_size /\ file' = file
      /\ buffer' = buffer /\ buffer_pos' = buffer_pos /\ file_offset' = file_offset
      /\ chunk' = chunk /\ rest' = rest /\ sent' = sent /\ got' = got
      /\ failed' = (roffset < Len(file))
  BY DEF RefillFail, ReadFail, writerVars, readerVars
<1>g. PICK g : g = Len(got)
  OBVIOUS
<1>2. CallStart(Cur) + Len(part) = roffset
  BY <1>r, <1>f
<1>3. ASSUME ~failed' PROVE Complete = 1 .. g
  <2>0. ~(roffset < Len(file))
    BY <1>1, <1>3, Zenon
  <2>1. roffset = file_offset
    BY <1>l, <1>r, <1>w, <2>0
  <2>c. PICK a, e : a = CallStart(Cur) /\ e = CallStart(Cur + 1)
    OBVIOUS
  <2>s. /\ \A c \in 1 .. Calls + 1 : CallStart(c) \in Nat
        /\ \A c, d \in 1 .. Calls + 1 : c < d => CallStart(c) < CallStart(d)
    BY <1>f, StartsGrow
  <2>2. a \in Nat /\ e \in Nat /\ a <= file_offset /\ file_offset < e
    <3>1. PICK p, q : p = Len(part) /\ q = CallSize(Cur)
      OBVIOUS
    <3>2. a + p = roffset /\ e = a + q /\ p < q /\ a \in Nat /\ p \in Nat /\ q \in Nat
      BY <1>2, <1>f, <1>r, <2>c, <3>1
    <3> QED  BY <1>r, <2>1, <3>2
  <2>g. /\ g \in Nat /\ g <= Len(elems)
        /\ \/ g = 0 /\ Cur = 1
           \/ g < Len(elems) /\ (Cur = 2 * g + 2 \/ Cur = 2 * g + 3)
    <3>1. CASE stage = "count"
      BY <1>f, <1>g, <1>r, <3>1 DEF Cur
    <3>2. CASE stage = "size"
      BY <1>f, <1>g, <1>r, <3>2 DEF Cur
    <3>3. CASE stage = "body"
      BY <1>f, <1>g, <1>r, <3>3 DEF Cur
    <3> QED  BY <1>f, <3>1, <3>2, <3>3
  <2>3. g > 0 => CallStart(2 * g + 2) <= file_offset
    <3>1. CASE g = 0
      BY <3>1
    <3>2. CASE g # 0
      <4>1. g < Len(elems) /\ (Cur = 2 * g + 2 \/ Cur = 2 * g + 3)
        BY <2>g, <3>2
      <4>2. 2 * g + 2 \in 1 .. Calls + 1 /\ Cur \in 1 .. Calls + 1
        BY <1>f, <2>g, <4>1
      <4>3. CallStart(2 * g + 2) <= a /\ CallStart(2 * g + 2) \in Nat
        BY <2>c, <2>g, <2>s, <4>1, <4>2
      <4> QED  BY <1>w, <2>2, <4>3
    <3> QED  BY <3>1, <3>2
  <2>4. g < Len(elems) => file_offset < CallStart(2 * g + 4)
    <3>1. ASSUME g < Len(elems) PROVE file_offset < CallStart(2 * g + 4)
      <4>1. Cur + 1 <= 2 * g + 4 /\ 2 * g + 4 \in 1 .. Calls + 1 /\ Cur + 1 \in 1 .. Calls + 1
        <5>1. PICK n : n = Len(elems) /\ n \in Nat /\ Calls = 1 + 2 * n /\ g < n
          BY <1>f, <3>1
        <5>2. 2 * g + 4 \in 1 .. Calls + 1
          BY <2>g, <5>1
        <5>3. Cur + 1 <= 2 * g + 4
          BY <2>g
        <5> QED  BY <1>f, <5>2, <5>3
      <4>2. e <= CallStart(2 * g + 4) /\ CallStart(2 * g + 4) \in Nat
        BY <2>2, <2>c, <2>s, <4>1
      <4> QED  BY <1>w, <2>2, <4>2
    <3> QED  BY <3>1
  <2>5. g \in Nat /\ g <= Len(elems)
    BY <2>g
  <2> QED  BY <2>3, <2>4, <2>5, CompleteUpTo
<1>4. BioType' /\ WriterOK' /\ ReaderOK'
  BY <1>1 DEF BioInv, BioType, ElemsOK, WriterOK, ReaderOK, Reading
<1>5. Complete' = Complete
  BY <1>1, StreamKept DEF Complete
<1>6. GotOK'
  BY <1>1, <1>3, <1>5, <1>g, StreamKept DEF BioInv, GotOK
<1> QED  BY <1>4, <1>6 DEF BioInv

LEMMA ReadDoneInv ==
    ASSUME BioInv, ReadDone
    PROVE  BioInv'
<1>f. /\ Cur \in 1 .. Calls /\ CallStart(Cur) \in Nat /\ CallSize(Cur) \in Nat \ {0}
      /\ Cur + 1 \in 1 .. Calls + 1
      /\ CallStart(Cur + 1) = CallStart(Cur) + CallSize(Cur)
      /\ stage \in {"count", "size", "body"} /\ ElemsOK
      /\ Len(elems) \in Nat /\ Len(got) \in Nat /\ Calls = 1 + 2 * Len(elems)
  BY ReadFacts DEF ReadDone
<1>r. /\ Reading /\ roffset \in Nat /\ roffset <= file_offset /\ rpos \in Nat
      /\ Len(rbuf) \in Nat /\ Len(rbuf) <= roffset /\ rpos <= Len(rbuf)
      /\ rbuf = Span(roffset - Len(rbuf), Len(rbuf))
      /\ want = CallSize(Cur) /\ Len(part) = want
      /\ part = Span(CallStart(Cur), Len(part))
      /\ CallStart(Cur) + Len(part) = (roffset - Len(rbuf)) + rpos
      /\ stage = "count" => got = <<>>
      /\ stage \in {"size", "body"} => Len(got) < Len(elems)
  BY DEF ReadDone, BioInv, ReaderOK
<1>k. /\ got \in Seq(Seq(Int)) /\ \A n \in 1 .. Len(got) : got[n] = BytesOf(2 * n + 1)
      /\ file_offset \in Nat /\ Len(got) <= Len(elems)
  BY DEF BioInv, GotOK, BioType
<1>1. /\ elems' = elems /\ buffer_size' = buffer_size /\ file' = file
      /\ buffer' = buffer /\ buffer_pos' = buffer_pos /\ file_offset' = file_offset
      /\ chunk' = chunk /\ rest' = rest /\ sent' = sent
      /\ rbuf' = rbuf /\ rpos' = rpos /\ roffset' = roffset /\ part' = <<>>
      /\ got' = (IF stage = "body" THEN Append(got, part) ELSE got)
      /\ \/ stage = "size" /\ stage' = "body" /\ want' = SizeIn(part)
         \/ stage # "size" /\ Len(got') < Len(elems) /\ stage' = "size" /\ want' = HDR
         \/ stage # "size" /\ Len(got') = Len(elems) /\ stage' = "end"
  BY DEF ReadDone, writerVars
<1>2. part = BytesOf(Cur) /\ part \in Seq(Int)
  <2>1. part = BytesOf(Cur)
    BY <1>r DEF BytesOf
  <2>2. PICK c, z : c = CallStart(Cur) /\ z = CallSize(Cur)
    OBVIOUS
  <2>3. Span(c, z) \in Seq(Int)
    BY <1>f, <2>2, SpanSeq
  <2> QED  BY <2>1, <2>2, <2>3 DEF BytesOf
<1>3. CallStart(Cur + 1) = (roffset - Len(rbuf)) + rpos /\ CallStart(Cur + 1) <= file_offset
      /\ CallStart(Cur + 1) \in Nat
  <2>1. PICK e, m : e = CallStart(Cur + 1) /\ m = Len(rbuf)
    OBVIOUS
  <2>2. e = (roffset - m) + rpos /\ m \in Nat /\ m <= roffset /\ rpos <= m
    BY <1>f, <1>r, <2>1
  <2>3. roffset \in Nat /\ rpos \in Nat /\ file_offset \in Nat /\ roffset <= file_offset
    BY <1>k, <1>r
  <2>4. e <= file_offset /\ e \in Nat
    BY <2>2, <2>3
  <2> QED  BY <2>1, <2>2, <2>4
<1>g. PICK g : g = Len(got')
  OBVIOUS
<1>4. /\ got' \in Seq(Seq(Int)) /\ g \in Nat /\ g <= Len(elems)
      /\ \A n \in 1 .. g : got'[n] = BytesOf(2 * n + 1)
      /\ stage = "body" => g = Len(got) + 1 /\ Cur = 2 * g + 1
      /\ stage = "size" => g = Len(got) /\ Cur = 2 * g + 2 /\ g < Len(elems)
      /\ stage = "count" => g = 0 /\ Cur = 1
  <2>1. CASE stage = "body"
    <3>1. got' = Append(got, part) /\ Len(got) < Len(elems)
      BY <1>1, <1>r, <2>1
    <3>2. /\ got' \in Seq(Seq(Int)) /\ Len(got') = Len(got) + 1
          /\ \A n \in 1 .. Len(got) : got'[n] = got[n]
          /\ got'[Len(got) + 1] = part
      BY <1>2, <1>k, <3>1, AppendProperties
    <3>3. Cur = 2 * Len(got) + 3
      BY <2>1 DEF Cur
    <3>q. PICK q, l : q = Len(got) /\ l = Len(elems)
      OBVIOUS
    <3>a. q \in Nat /\ l \in Nat /\ q < l /\ g = q + 1 /\ Cur = 2 * q + 3
      BY <1>f, <1>g, <3>1, <3>2, <3>3, <3>q
    <3>b. 2 * q + 3 = 2 * g + 1 /\ g \in Nat /\ g <= l
      BY <3>a
    <3>4. g = Len(got) + 1 /\ Cur = 2 * g + 1 /\ g \in Nat /\ g <= Len(elems)
      BY <3>a, <3>b, <3>q
    <3>5. ASSUME NEW n \in 1 .. g PROVE got'[n] = BytesOf(2 * n + 1)
      <4>1. CASE n = g
        BY <1>2, <3>2, <3>4, <4>1
      <4>2. CASE n # g
        <5>0. n \in 1 .. q
          BY <3>a, <4>2
        <5>1. n \in 1 .. Len(got)
          BY <3>q, <5>0
        <5> QED  BY <1>k, <3>2, <5>1
      <4> QED  BY <4>1, <4>2
    <3> QED  BY <2>1, <3>2, <3>4, <3>5
  <2>2. CASE stage # "body"
    <3>1. got' = got /\ g = Len(got)
      BY <1>1, <1>g, <2>2
    <3> QED  BY <1>f, <1>k, <1>r, <2>2, <3>1 DEF Cur
  <2> QED  BY <2>1, <2>2
<1>5. BioType' /\ WriterOK'
  BY <1>1, <1>f DEF BioInv, BioType, ElemsOK, WriterOK
<1>6. CASE stage' = "end"
  <2>1. g = Len(elems)
    BY <1>1, <1>6, <1>g
  <2>2. g > 0 => CallStart(2 * g + 2) <= file_offset
    <3>1. ASSUME g > 0 PROVE Cur + 1 = 2 * g + 2
      BY <1>1, <1>4, <1>6, <1>f, <3>1
    <3> QED  BY <1>3, <3>1
  <2>a. g \in Nat /\ g <= Len(elems) /\ ~(g < Len(elems))
    BY <1>4, <1>f, <2>1
  <2>3. Complete = 1 .. g
    BY <2>2, <2>a, CompleteUpTo
  <2>4. Complete' = Complete
    BY <1>1, StreamKept DEF Complete
  <2>5. GotOK'
    BY <1>1, <1>4, <1>g, <2>3, <2>4, StreamKept DEF GotOK
  <2>6. ReaderOK'
    BY <1>6 DEF ReaderOK, Reading
  <2> QED  BY <1>5, <2>5, <2>6 DEF BioInv
<1>7. CASE stage' # "end"
  <2>1. /\ stage' \in {"size", "body"} /\ g < Len(elems)
        /\ IF stage' = "size" THEN Cur + 1 = 2 * g + 2 ELSE Cur + 1 = 2 * g + 3
    <3>1. CASE stage = "size"
      <4>1. stage' = "body" /\ g < Len(elems) /\ Cur = 2 * g + 2 /\ g \in Nat
        BY <1>1, <1>4, <3>1
      <4> QED  BY <4>1
    <3>2. CASE stage # "size"
      <4>1. stage' = "size" /\ g < Len(elems) /\ g \in Nat
        BY <1>1, <1>4, <1>7, <1>g, <3>2
      <4>2. Cur = 2 * g + 1
        BY <1>4, <1>f, <3>2
      <4> QED  BY <4>1, <4>2
    <3> QED  BY <3>1, <3>2
  <2>2. Cur' = Cur + 1
    BY <1>g, <2>1 DEF Cur
  <2>3. want' = CallSize(Cur + 1)
    <3>n. PICK n : n = g + 1
      OBVIOUS
    <3>1. n \in 1 .. Len(elems) /\ 2 * g + 2 = 2 * n /\ 2 * g + 3 = 2 * n + 1
      BY <1>4, <1>f, <2>1, <3>n
    <3>2. CallSize(2 * n) = HDR /\ CallSize(2 * n + 1) = elems[n] /\ SizeIn(BytesOf(2 * n)) = elems[n]
      BY <1>f, <3>1, ElementCalls
    <3>3. CASE stage' = "size"
      BY <1>1, <2>1, <3>1, <3>2, <3>3
    <3>4. CASE stage' = "body"
      <4>1. stage = "size" /\ want' = SizeIn(part) /\ Cur = 2 * n
        BY <1>1, <1>4, <3>1, <3>4
      <4> QED  BY <1>2, <2>1, <3>1, <3>2, <3>4, <4>1
    <3> QED  BY <2>1, <3>3, <3>4
  <2>4. PICK d : d = Cur + 1
    OBVIOUS
  <2>5. CallStart(Cur)' = CallStart(d) /\ CallSize(Cur)' = CallSize(d)
    <3>1. CallStart(d)' = CallStart(d) /\ CallSize(d)' = CallSize(d)
      BY <1>1, StreamKept
    <3>2. CallStart(Cur)' = CallStart(d)' /\ CallSize(Cur)' = CallSize(d)'
      BY <2>2, <2>4 DEF CallStart, CallSize, Calls
    <3> QED  BY <3>1, <3>2
  <2>6. Len(part') = 0 /\ part' = Span(CallStart(Cur)', Len(part'))
    <3>1. Len(part') = 0 /\ CallStart(d) \in Nat
      BY <1>1, <1>3, <2>4
    <3>2. Span(CallStart(d), 0) = <<>>
      BY <3>1, SpanEmpty
    <3> QED  BY <1>1, <2>5, <3>1, <3>2
  <2>7. want' \in Nat /\ want' = CallSize(Cur)'
    <3>1. d \in 1 .. Calls
      BY <1>4, <1>f, <2>1, <2>4
    <3> QED  BY <1>f, <2>3, <2>4, <2>5, <3>1, CallSizes
  <2>8. CallStart(Cur)' + Len(part') = (roffset' - Len(rbuf')) + rpos'
    BY <1>1, <1>3, <2>4, <2>5, <2>6
  <2>9. ReaderOK'
    BY <1>1, <1>g, <1>r, <2>1, <2>6, <2>7, <2>8 DEF ReaderOK, Reading
  <2>10. GotOK'
    BY <1>1, <1>4, <1>7, <1>g, StreamKept DEF GotOK
  <2> QED  BY <1>5, <2>9, <2>10 DEF BioInv
<1> QED  BY <1>6, <1>7

-----------------------------------------------------------------------------
(* The theorems                                                            *)

LEMMA BioAlways == BioSpec => []BioInv
<1>1. BioInv /\ [BioNext]_bioVars => BioInv'
  <2> SUFFICES ASSUME BioInv, [BioNext]_bioVars PROVE BioInv'
    OBVIOUS
  <2>1. CASE UNCHANGED bioVars
    <3>1. /\ elems' = elems /\ buffer_size' = buffer_size /\ file' = file /\ stage' = stage
          /\ buffer' = buffer /\ buffer_pos' = buffer_pos /\ file_offset' = file_offset
          /\ chunk' = chunk /\ rest' = rest /\ sent' = sent /\ rbuf' = rbuf /\ rpos' = rpos
          /\ roffset' = roffset /\ part' = part /\ want' = want /\ got' = got /\ failed' = failed
      BY <2>1 DEF bioVars, writerVars, readerVars
    <3>2. Cur' = Cur /\ CallStart(Cur)' = CallStart(Cur) /\ CallSize(Cur)' = CallSize(Cur)
      BY <3>1 DEF Cur, CallStart, CallSize, Calls
    <3>3. BioType' /\ WriterOK' /\ ReaderOK'
      BY <3>1, <3>2 DEF BioInv, BioType, ElemsOK, WriterOK, ReaderOK, Reading
    <3>4. GotOK'
      BY <3>1, StreamKept DEF BioInv, GotOK, Complete
    <3> QED  BY <3>3, <3>4 DEF BioInv
  <2> QED
    BY <2>1, SaveInv, FinalInv, ReadCopyInv, RefillInv, RefillFailInv, ReadDoneInv
    DEF BioNext, BioStep, Finished
<1> QED  BY BioInitInv, <1>1, PTL DEF BioSpec

\* Whatever the buffer size and the elements, and whichever pwrite falls short, the
\* table file is a prefix of the stream (flush_write_buffer and buffered_write,
\* persistence.c:45-94).
THEOREM FilesArePrefixes == BioSpec => []FileIsPrefix
<1>1. BioInv => FileIsPrefix
  <2> SUFFICES ASSUME BioInv PROVE FileIsPrefix
    OBVIOUS
  <2>1. file = Span(0, file_offset) /\ file_offset \in Nat
    BY DEF BioInv, BioType, WriterOK
  <2>2. Len(file) = file_offset
    BY <2>1, SpanSeq
  <2> QED  BY <2>1, <2>2 DEF FileIsPrefix
<1> QED  BY BioAlways, <1>1, PTL

\* A load brings back, as they were saved and in order, exactly the elements that lie
\* complete in the file, unless a pread failed before its end (buffered_read and the
\* load loop, persistence.c:96-115, 158-172, 287-299).
THEOREM LoadsWhatIsComplete == BioSpec => []LoadsCompleteElements
<1>1. BioInv => LoadsCompleteElements
  <2> SUFFICES ASSUME BioInv PROVE LoadsCompleteElements
    OBVIOUS
  <2>1. DOMAIN got = 1 .. Len(got)
    BY DEF BioInv, GotOK
  <2> QED  BY <2>1 DEF BioInv, GotOK, LoadsCompleteElements
<1> QED  BY BioAlways, <1>1, PTL
=============================================================================
