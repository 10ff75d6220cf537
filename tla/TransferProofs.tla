----------------------------- MODULE TransferProofs ----------------------------
(***************************************************************************)
(* Theorems about the writer (Multipart) in the uploads of Transfer, for any   *)
(* part size, any files and any way to cut them.                              *)
(***************************************************************************)
EXTENDS Transfer, TLAPS

\* The link is only written when the upload is complete, with everything that was
\* taken; from the shutdown on nothing is left in the buffer.
WriterInv ==
    /\ TypeOK
    /\ BytesInOrder
    /\ PartSizes
    /\ mode # "active" => buffer.from = buffer.to
    /\ object # Old => user \in {"ok", "failed"} /\ Contiguous(object, taken)

-------------------------------------------------------------------------------
(* Arithmetic.                                                             *)

\* One part more is one part size more.
LEMMA NextMultiple == ASSUME NEW i \in Int, NEW c \in Int PROVE i * c = (i - 1) * c + c
  OBVIOUS

\* Multiples of a natural number are natural numbers.
LEMMA Multiples == ASSUME NEW i \in Nat, NEW c \in Nat PROVE i * c \in Nat
  OBVIOUS

\* The full chunks of what is left of a write, and what they leave.
LEMMA Division ==
    ASSUME NEW a \in Nat, NEW c \in Nat \ {0}
    PROVE /\ a \div c \in Nat
          /\ (a \div c) * c <= a
          /\ a < (a \div c) * c + c
  OBVIOUS

-------------------------------------------------------------------------------
(* The writer.                                                             *)

\* A new writer, whatever was before.
LEMMA FreshWriter == NewWriter => WriterInv'
  <1> SUFFICES ASSUME NewWriter PROVE WriterInv'
    OBVIOUS
  <1>1. TypeOK'
    BY MultipartAssumption DEF NewWriter, TypeOK, Piece
  <1>2. BytesInOrder' /\ PartSizes'
    BY DEF NewWriter, BytesInOrder, Contiguous, PartSizes
  <1> QED
    BY <1>1, <1>2 DEF NewWriter, WriterInv

\* The pieces that one write sends.
LEMMA WritePieces ==
    ASSUME TypeOK, NEW k \in Nat
    PROVE /\ TopUp(k) \in Nat /\ TopUp(k) <= k /\ TopUp(k) <= Cap - (buffer.to - buffer.from)
          /\ Chunks(k) \in Nat
          /\ \A i \in 1 .. Chunks(k) : Sent(Chunk(k, i)) \in Part
          /\ \A i \in 1 .. Chunks(k) : Chunk(k, i).to - Chunk(k, i).from = Cap
          /\ \A i \in 2 .. Chunks(k) : Chunk(k, i).from = Chunk(k, i - 1).to
          /\ Chunks(k) > 0 => /\ Chunk(k, 1).from = taken + TopUp(k)
                              /\ Chunk(k, Chunks(k)).to = Rest(k).from
          /\ Chunks(k) = 0 => Rest(k).from = taken + TopUp(k)
          /\ Rest(k) \in Piece /\ Rest(k).to = taken + k
          /\ Rest(k).to - Rest(k).from \in 0 .. (Cap - 1)
  <1> DEFINE t == TopUp(k)
             q == Chunks(k)
  <1>1. t \in Nat /\ t <= k /\ t <= Cap - (buffer.to - buffer.from)
    BY MultipartAssumption DEF TypeOK, Piece, TopUp, Minimum
  <1>2. q \in Nat /\ q * Cap <= k - t /\ k - t < q * Cap + Cap
    <2>1. k - t \in Nat
      BY <1>1
    <2> QED
      BY <2>1, Division, MultipartAssumption DEF Chunks
  <1>3. \A i \in Nat : i * Cap \in Nat
    BY Multiples, MultipartAssumption
  <1>4. \A i \in 1 .. q : i * Cap = (i - 1) * Cap + Cap
    BY <1>2, NextMultiple, MultipartAssumption
  <1>5. \A i \in 1 .. q : (i - 1) * Cap \in Nat
    BY <1>2, <1>3
  <1>6. (1 - 1) * Cap = 0 /\ 0 * Cap = 0
    BY MultipartAssumption
  <1>7. taken \in Nat /\ Cap \in Nat
    BY MultipartAssumption DEF TypeOK
  <1> HIDE DEF t, q
  <1>8. \A i \in 1 .. q : Chunk(k, i) = [from |-> taken + t + (i - 1) * Cap, to |-> taken + t + i * Cap]
    BY DEF Chunk, t
  <1>9. Rest(k) = [from |-> taken + t + q * Cap, to |-> taken + k]
    BY DEF Rest, t, q
  <1>10. ASSUME NEW i \in 1 .. q
         PROVE /\ Sent(Chunk(k, i)) \in Part
               /\ Chunk(k, i).to - Chunk(k, i).from = Cap
    <2>1. i * Cap \in Nat /\ (i - 1) * Cap \in Nat /\ i * Cap = (i - 1) * Cap + Cap
      BY <1>2, <1>3, <1>4, <1>5
    <2> QED
      BY <1>1, <1>7, <1>8, <2>1 DEF Sent, Part
  <1>11. ASSUME NEW i \in 2 .. q PROVE Chunk(k, i).from = Chunk(k, i - 1).to
    <2>1. i \in 1 .. q /\ i - 1 \in 1 .. q
      BY <1>2
    <2> QED
      BY <1>8, <2>1
  <1>12. q > 0 => /\ Chunk(k, 1).from = taken + t
                  /\ Chunk(k, q).to = Rest(k).from
    <2>1. q > 0 => 1 \in 1 .. q /\ q \in 1 .. q
      BY <1>2
    <2> QED
      BY <1>1, <1>6, <1>7, <1>8, <1>9, <2>1
  <1>13. q = 0 => Rest(k).from = taken + t
    BY <1>1, <1>6, <1>7, <1>9
  <1>14. /\ Rest(k) \in Piece /\ Rest(k).to = taken + k
         /\ Rest(k).to - Rest(k).from \in 0 .. (Cap - 1)
    <2>1. q * Cap \in Nat
      BY <1>2, <1>3
    <2> QED
      BY <1>1, <1>2, <1>7, <1>9, <2>1 DEF Piece
  <1> QED
    BY <1>1, <1>2, <1>10, <1>11, <1>12, <1>13, <1>14 DEF t, q

\* One piece more.
LEMMA Extend ==
    ASSUME NEW S, NEW ps \in Seq(S), NEW p \in S, NEW end
    PROVE Contiguous(Append(ps, p), end) <=> Contiguous(ps, p.from) /\ p.to = end
  <1> DEFINE all == Append(ps, p)
             n == Len(ps)
             A(i) == all[i].from = IF i = 1 THEN 0 ELSE all[i - 1].to
             B(i) == ps[i].from = IF i = 1 THEN 0 ELSE ps[i - 1].to
             last == p.from = IF n = 0 THEN 0 ELSE ps[n].to
  <1>1. /\ n \in Nat /\ Len(all) = n + 1 /\ all # <<>> /\ DOMAIN all = 1 .. (n + 1)
        /\ DOMAIN ps = 1 .. n /\ all[n + 1] = p /\ \A i \in 1 .. n : all[i] = ps[i]
        /\ ps = <<>> <=> n = 0
    OBVIOUS
  <1> HIDE DEF all, n
  <1>2. Contiguous(all, end) <=> p.to = end /\ \A i \in 1 .. (n + 1) : A(i)
    BY <1>1 DEF Contiguous
  <1>3. Contiguous(ps, p.from) <=> last /\ \A i \in 1 .. n : B(i)
    BY <1>1 DEF Contiguous, n
  <1>4. \A i \in 1 .. n : A(i) <=> B(i)
    <2> SUFFICES ASSUME NEW i \in 1 .. n
                 PROVE all[i] = ps[i] /\ (i # 1 => all[i - 1] = ps[i - 1])
      OBVIOUS
    <2>1. i # 1 => i - 1 \in 1 .. n
      BY <1>1
    <2> QED
      BY <1>1, <2>1
  <1>5. A(n + 1) <=> last
    <2>1. n # 0 => n \in 1 .. n /\ all[n] = ps[n]
      BY <1>1
    <2> QED
      BY <1>1, <2>1
  <1>6. \A i \in 1 .. (n + 1) : i \in 1 .. n \/ i = n + 1
    BY <1>1
  <1> HIDE DEF A, B, last
  <1>7. n + 1 \in 1 .. (n + 1) /\ 1 .. n \subseteq 1 .. (n + 1)
    BY <1>1
  <1> QED
    BY <1>2, <1>3, <1>4, <1>5, <1>6, <1>7 DEF all

\* A chain of pieces more.
LEMMA ExtendMany ==
    ASSUME NEW S, NEW ps \in Seq(S), NEW cs \in Seq(S), NEW mid, NEW end, Contiguous(ps, mid),
           IF cs = <<>> THEN mid = end ELSE cs[1].from = mid /\ cs[Len(cs)].to = end,
           \A i \in 2 .. Len(cs) : cs[i].from = cs[i - 1].to
    PROVE Contiguous(ps \o cs, end)
  <1> DEFINE all == ps \o cs
             n == Len(ps)
             m == Len(cs)
  <1>1. /\ n \in Nat /\ m \in Nat /\ Len(all) = n + m /\ DOMAIN all = 1 .. (n + m)
        /\ DOMAIN ps = 1 .. n
        /\ \A i \in 1 .. n : all[i] = ps[i]
        /\ \A i \in 1 .. m : all[n + i] = cs[i]
        /\ ps = <<>> <=> n = 0
        /\ cs = <<>> <=> m = 0
        /\ all = <<>> <=> n + m = 0
    OBVIOUS
  <1>2. /\ \A i \in 1 .. n : ps[i].from = IF i = 1 THEN 0 ELSE ps[i - 1].to
        /\ mid = IF n = 0 THEN 0 ELSE ps[n].to
    BY <1>1 DEF Contiguous
  <1> HIDE DEF all, n
  <1>3. ASSUME NEW i \in 1 .. n PROVE all[i].from = IF i = 1 THEN 0 ELSE all[i - 1].to
    <2>1. i # 1 => i - 1 \in 1 .. n
      BY <1>1
    <2> QED
      BY <1>1, <1>2, <2>1
  <1>4. ASSUME m # 0 PROVE all[n + 1].from = IF n + 1 = 1 THEN 0 ELSE all[n + 1 - 1].to
    <2>1. 1 \in 1 .. m /\ all[n + 1] = cs[1] /\ cs[1].from = mid
      BY <1>1, <1>4
    <2>2. n # 0 => n \in 1 .. n /\ all[n] = ps[n]
      BY <1>1
    <2> QED
      BY <1>1, <1>2, <2>1, <2>2
  <1>5. ASSUME NEW i \in 2 .. m PROVE all[n + i].from = all[n + i - 1].to
    <2>1. i \in 1 .. m /\ i - 1 \in 1 .. m /\ n + (i - 1) = n + i - 1
      BY <1>1
    <2>2. all[n + i] = cs[i] /\ all[n + i - 1] = cs[i - 1]
      BY <1>1, <2>1
    <2> QED
      BY <2>2
  <1>6. ASSUME NEW j \in 1 .. (n + m) PROVE all[j].from = IF j = 1 THEN 0 ELSE all[j - 1].to
    <2>1. CASE j \in 1 .. n
      BY <1>3, <2>1
    <2>2. CASE j = n + 1
      BY <1>1, <1>4, <2>2
    <2>3. CASE j \notin 1 .. n /\ j # n + 1
      <3>1. j - n \in 2 .. m /\ n + (j - n) = j /\ n + (j - n) - 1 = j - 1 /\ j # 1
        BY <1>1, <2>3
      <3>2. all[n + (j - n)].from = all[n + (j - n) - 1].to
        BY <1>5, <3>1
      <3> QED
        BY <3>1, <3>2
    <2> QED
      BY <2>1, <2>2, <2>3
  <1>7. end = IF all = <<>> THEN 0 ELSE all[Len(all)].to
    <2>1. CASE m = 0
      BY <1>1, <1>2, <2>1
    <2>2. CASE m # 0
      <3>1. m \in 1 .. m /\ all[n + m] = cs[m] /\ cs[m].to = end
        BY <1>1, <2>2
      <3> QED
        BY <1>1, <2>2, <3>1
    <2> QED
      BY <2>1, <2>2
  <1> QED
    BY <1>1, <1>6, <1>7 DEF Contiguous, all

\* poll_write loses no byte and sends full parts only.
LEMMA WriteKeeps == ASSUME WriterInv, NEW k \in Nat, Write(k) PROVE WriterInv'
  <1> DEFINE full == [buffer EXCEPT !.to = @ + TopUp(k)]
             chunks == [i \in 1 .. Chunks(k) |-> Sent(Chunk(k, i))]
             S == Part \union Piece
  <1>1. /\ mode = "active" /\ user = "writing" /\ object = Old
        /\ mode' = mode /\ user' = user /\ object' = object /\ taken' = taken + k
    BY DEF Write, WriterInv
  <1>2. /\ buffer \in Piece /\ buffer.to - buffer.from \in 0 .. (Cap - 1) /\ taken \in Nat
        /\ parts \in Seq(Part) /\ Cap \in Nat \ {0}
    BY MultipartAssumption DEF WriterInv, TypeOK
  <1>3. Contiguous(parts, buffer.from) /\ buffer.to = taken
    <2>1. parts \in Seq(S) /\ buffer \in S
      BY <1>2
    <2> HIDE DEF S
    <2> QED
      BY <2>1, Extend DEF WriterInv, BytesInOrder
  <1>4. \A i \in DOMAIN parts : parts[i].to - parts[i].from = Cap
    BY <1>1 DEF WriterInv, PartSizes
  <1>5. full = [from |-> buffer.from, to |-> taken + TopUp(k)]
    BY <1>2, <1>3 DEF Piece
  <1>6. /\ TopUp(k) \in Nat /\ TopUp(k) <= k /\ TopUp(k) <= Cap - (buffer.to - buffer.from)
        /\ TopUp(k) < Cap - (buffer.to - buffer.from) => TopUp(k) = k
    BY <1>2 DEF TopUp, Minimum, Piece
  <1>7. CASE full.to - full.from # Cap
    <2>1. buffer' = full /\ parts' = parts
      BY <1>7 DEF Write
    <2> HIDE DEF full
    <2>2. full \in Piece /\ full.to - full.from \in 0 .. (Cap - 1) /\ full.to = taken'
          /\ full.from = buffer.from
      <3>1. full.from = buffer.from /\ full.to = taken + TopUp(k)
        BY <1>5
      <3>2. buffer.from \in Nat /\ buffer.to \in Nat
        BY <1>2 DEF Piece
      <3>3. TopUp(k) < Cap - (buffer.to - buffer.from)
        BY <1>2, <1>3, <1>6, <1>7, <3>1, <3>2
      <3>4. full.to = taken' /\ full.to - full.from \in 0 .. (Cap - 1)
        BY <1>1, <1>2, <1>3, <1>6, <3>1, <3>2, <3>3
      <3>5. full \in Piece
        BY <1>2, <1>5, <1>6, <3>2 DEF Piece
      <3> QED
        BY <3>1, <3>4, <3>5
    <2>3. TypeOK'
      BY <1>1, <1>2, <2>1, <2>2 DEF TypeOK, WriterInv
    <2>4. BytesInOrder'
      <3>1. parts \in Seq(S) /\ full \in S
        BY <1>2, <2>2
      <3> HIDE DEF S
      <3> QED
        BY <1>3, <2>1, <2>2, <3>1, Extend DEF BytesInOrder, Contiguous
    <2>5. PartSizes'
      BY <1>4, <2>1 DEF PartSizes
    <2> QED
      BY <1>1, <2>3, <2>4, <2>5 DEF WriterInv
  <1>8. CASE full.to - full.from = Cap
    <2> DEFINE q == Chunks(k)
               sent == Append(parts, Sent(full))
    <2>1. buffer' = Rest(k) /\ parts' = sent \o chunks
      BY <1>8 DEF Write
    <2>2. /\ q \in Nat
          /\ \A i \in 1 .. q : Sent(Chunk(k, i)) \in Part /\ Chunk(k, i).to - Chunk(k, i).from = Cap
          /\ \A i \in 2 .. q : Chunk(k, i).from = Chunk(k, i - 1).to
          /\ q > 0 => Chunk(k, 1).from = taken + TopUp(k) /\ Chunk(k, q).to = Rest(k).from
          /\ q = 0 => Rest(k).from = taken + TopUp(k)
          /\ Rest(k) \in Piece /\ Rest(k).to = taken + k
          /\ Rest(k).to - Rest(k).from \in 0 .. (Cap - 1)
      BY WritePieces DEF WriterInv
    <2>3. \A i \in 1 .. q : Sent(Chunk(k, i)).from = Chunk(k, i).from
                           /\ Sent(Chunk(k, i)).to = Chunk(k, i).to
      BY DEF Sent
    <2>4. chunks \in Seq(Part) /\ Len(chunks) = q
          /\ \A i \in 1 .. q : chunks[i] = Sent(Chunk(k, i))
      BY <2>2
    <2>5. /\ Sent(full) \in Part /\ Sent(full).from = buffer.from /\ Sent(full).to = taken + TopUp(k)
          /\ Sent(full).to - Sent(full).from = Cap
      <3> HIDE DEF full
      <3>1. full.from = buffer.from /\ full.to = taken + TopUp(k)
        BY <1>5
      <3>2. buffer.from \in Nat /\ taken + TopUp(k) \in Nat
        BY <1>2, <1>6 DEF Piece
      <3> QED
        BY <1>8, <3>1, <3>2 DEF Sent, Part
    <2> HIDE DEF full, chunks, q
    <2>6. sent \in Seq(Part) /\ Contiguous(sent, taken + TopUp(k))
      BY <1>2, <1>3, <2>5, Extend
    <2>7. Contiguous(sent \o chunks, Rest(k).from)
      <3> DEFINE mid == taken + TopUp(k)
                 end == Rest(k).from
      <3>1. IF chunks = <<>> THEN mid = end ELSE chunks[1].from = mid /\ chunks[Len(chunks)].to = end
        <4>1. q = 0 <=> chunks = <<>>
          BY <2>4
        <4>2. q # 0 => 1 \in 1 .. q /\ q \in 1 .. q /\ q > 0
          BY <2>2
        <4> QED
          BY <2>2, <2>3, <2>4, <4>1, <4>2
      <3>2. \A i \in 2 .. Len(chunks) : chunks[i].from = chunks[i - 1].to
        <4> SUFFICES ASSUME NEW i \in 2 .. q PROVE chunks[i].from = chunks[i - 1].to
          BY <2>4
        <4>1. i \in 1 .. q /\ i - 1 \in 1 .. q
          BY <2>2
        <4> QED
          BY <2>2, <2>3, <2>4, <4>1
      <3> HIDE DEF mid, end
      <3>3. Contiguous(sent, mid)
        BY <2>6 DEF mid
      <3>4. Contiguous(sent \o chunks, end)
        BY <2>4, <2>6, <3>1, <3>2, <3>3, ExtendMany
      <3> QED
        BY <3>4 DEF end
    <2>8. parts' \in Seq(Part)
      BY <2>1, <2>4, <2>6
    <2>9. BytesInOrder'
      <3>1. parts' \in Seq(S) /\ buffer' \in S /\ buffer'.to = taken'
        BY <1>1, <2>1, <2>2, <2>8
      <3>2. Contiguous(parts', buffer'.from)
        BY <2>1, <2>7
      <3> HIDE DEF S
      <3>3. Contiguous(Append(parts', buffer'), taken')
        BY <3>1, <3>2, Extend
      <3> QED
        BY <3>3 DEF BytesInOrder, Contiguous
    <2>10. TypeOK'
      BY <1>1, <1>2, <2>1, <2>2, <2>8 DEF TypeOK, WriterInv
    <2>11. PartSizes'
      <3> SUFFICES ASSUME NEW j \in DOMAIN parts' PROVE parts'[j].to - parts'[j].from = Cap
        BY DEF PartSizes
      <3> DEFINE n == Len(parts)
      <3>1. n \in Nat /\ Len(sent) = n + 1 /\ sent[n + 1] = Sent(full)
            /\ \A i \in 1 .. n : sent[i] = parts[i]
        BY <1>2, <2>5
      <3> HIDE DEF sent, n
      <3>2. j \in 1 .. (n + 1 + q) /\ parts'[j] = IF j <= n + 1 THEN sent[j] ELSE chunks[j - (n + 1)]
        BY <2>1, <2>4, <2>6, <3>1
      <3>3. CASE j \in 1 .. n
        BY <1>2, <1>4, <3>1, <3>2, <3>3 DEF n
      <3>4. CASE j = n + 1
        BY <2>5, <3>1, <3>2, <3>4
      <3>5. CASE j > n + 1
        <4>1. j - (n + 1) \in 1 .. q
          BY <2>2, <3>1, <3>2, <3>5
        <4> QED
          BY <2>2, <2>3, <2>4, <3>1, <3>2, <3>5, <4>1
      <3> QED
        BY <3>1, <3>2, <3>3, <3>4, <3>5
    <2> QED
      BY <1>1, <2>9, <2>10, <2>11 DEF WriterInv
  <1> QED
    BY <1>7, <1>8

\* The parts that a shutdown sends: the rest, if there is one.
LEMMA FinishKeeps == ASSUME WriterInv, Finish PROVE WriterInv'
  <1>1. /\ mode = "active" /\ mode' = "completing" /\ user = "closing" /\ object = Old
        /\ user' = user /\ object' = object /\ taken' = taken
        /\ buffer' = [from |-> taken, to |-> taken] /\ parts' = parts \o LastPart
    BY DEF Finish, WriterInv
  <1>2. /\ buffer \in Piece /\ buffer.to - buffer.from \in 0 .. (Cap - 1) /\ taken \in Nat
        /\ parts \in Seq(Part) /\ Cap \in Nat \ {0}
    BY MultipartAssumption DEF WriterInv, TypeOK
  <1>3. Contiguous(parts, buffer.from) /\ buffer.to = taken
    <2> DEFINE S == Part \union Piece
    <2>1. parts \in Seq(S) /\ buffer \in S
      BY <1>2
    <2> HIDE DEF S
    <2> QED
      BY <2>1, Extend DEF WriterInv, BytesInOrder
  <1>4. \A i \in DOMAIN parts : parts[i].to - parts[i].from = Cap
    BY <1>1 DEF WriterInv, PartSizes
  <1>5. parts' \in Seq(Part) /\ Contiguous(parts', taken) /\ PartSizes'
    <2>1. CASE buffer.to > buffer.from
      <3>1. Sent(buffer) \in Part /\ Sent(buffer).from = buffer.from /\ Sent(buffer).to = taken
        BY <1>2, <1>3 DEF Sent, Part, Piece
      <3>2. parts' = Append(parts, Sent(buffer))
        BY <1>1, <1>2, <2>1, <3>1 DEF LastPart
      <3>3. Contiguous(parts', taken)
        BY <1>2, <1>3, <3>1, <3>2, Extend
      <3>4. buffer.from \in Nat /\ Sent(buffer).to - Sent(buffer).from \in 1 .. (Cap - 1)
        BY <1>2, <1>3, <2>1, <3>1 DEF Piece
      <3>5. PartSizes'
        <4> SUFFICES ASSUME NEW i \in DOMAIN parts'
                     PROVE LET size == parts'[i].to - parts'[i].from
                           IN size = Cap \/ (i = Len(parts') /\ size \in 1 .. (Cap - 1))
          BY <1>1 DEF PartSizes
        <4>1. CASE i = Len(parts) + 1
          BY <1>2, <3>1, <3>2, <3>4, <4>1
        <4>2. CASE i \in DOMAIN parts
          BY <1>2, <1>4, <3>1, <3>2, <4>2
        <4> QED
          BY <1>2, <3>1, <3>2, <4>1, <4>2
      <3> QED
        BY <1>2, <3>1, <3>2, <3>3, <3>5
    <2>2. CASE ~(buffer.to > buffer.from)
      <3>1. parts' = parts
        BY <1>1, <1>2, <2>2 DEF LastPart
      <3>2. buffer.from = taken
        BY <1>2, <1>3, <2>2 DEF Piece
      <3> QED
        BY <1>2, <1>3, <1>4, <3>1, <3>2 DEF PartSizes
    <2> QED
      BY <2>1, <2>2
  <1>6. BytesInOrder'
    <2> DEFINE S == Part \union Piece
    <2>1. parts' \in Seq(S) /\ buffer' \in S /\ buffer'.to = taken' /\ buffer'.from = taken
      BY <1>1, <1>2, <1>5 DEF Piece
    <2> HIDE DEF S
    <2>2. Contiguous(Append(parts', buffer'), taken')
      BY <1>5, <2>1, Extend
    <2> QED
      BY <2>2 DEF BytesInOrder, Contiguous
  <1>7. TypeOK'
    BY <1>1, <1>2, <1>5 DEF TypeOK, Piece, WriterInv
  <1> QED
    BY <1>1, <1>5, <1>6, <1>7 DEF WriterInv

\* When the writer is closing, the parts hold everything.
LEMMA PartsHoldAll == ASSUME WriterInv, mode # "active" PROVE Contiguous(parts, taken)
  <1> DEFINE S == Part \union Piece
  <1>1. parts \in Seq(S) /\ buffer \in S /\ buffer.from = buffer.to
    BY DEF WriterInv, TypeOK
  <1> HIDE DEF S
  <1> QED
    BY <1>1, Extend DEF WriterInv, BytesInOrder

\* An answer of the store changes nothing that a part holds.
LEMMA PartEndsKeeps == ASSUME WriterInv, NEW i \in DOMAIN parts, PartEnds(i) PROVE WriterInv'
  <1>1. PICK s \in {"stored", "error"} : parts' = [parts EXCEPT ![i].state = s]
    BY DEF PartEnds
  <1>2. UNCHANGED <<mode, taken, buffer, object, user>> /\ user \notin {"ok", "failed"}
    BY DEF PartEnds
  <1>3. parts \in Seq(Part) /\ buffer \in Piece
    BY DEF WriterInv, TypeOK
  <1>4. /\ parts' \in Seq(Part) /\ Len(parts') = Len(parts) /\ DOMAIN parts' = DOMAIN parts
        /\ \A j \in DOMAIN parts : parts'[j].from = parts[j].from /\ parts'[j].to = parts[j].to
    <2> DEFINE new == [parts[i] EXCEPT !.state = s]
    <2>1. parts[i] \in Part
      BY <1>3
    <2>2. new \in Part /\ new.from = parts[i].from /\ new.to = parts[i].to
      BY <2>1 DEF Part
    <2>3. parts' = [parts EXCEPT ![i] = new]
      BY <1>1
    <2> HIDE DEF new
    <2> QED
      BY <1>3, <2>2, <2>3
  <1>5. Contiguous(parts, buffer.from) /\ buffer.to = taken
    <2> DEFINE S == Part \union Piece
    <2>1. parts \in Seq(S) /\ buffer \in S
      BY <1>3
    <2> HIDE DEF S
    <2> QED
      BY <2>1, Extend DEF WriterInv, BytesInOrder
  <1>6. Contiguous(parts', buffer'.from)
    <2>1. \A j \in DOMAIN parts : j # 1 => j - 1 \in DOMAIN parts
      BY <1>3
    <2>2. parts # <<>> => Len(parts) \in DOMAIN parts
      BY <1>3
    <2>3. parts = <<>> <=> parts' = <<>>
      BY <1>3, <1>4
    <2> QED
      BY <1>2, <1>4, <1>5, <2>1, <2>2, <2>3 DEF Contiguous
  <1>7. BytesInOrder'
    <2> DEFINE S == Part \union Piece
    <2>1. parts' \in Seq(S) /\ buffer' \in S /\ buffer'.to = taken'
      BY <1>2, <1>3, <1>4, <1>5
    <2> HIDE DEF S
    <2>2. Contiguous(Append(parts', buffer'), taken')
      BY <1>6, <2>1, Extend
    <2> QED
      BY <2>2 DEF BytesInOrder, Contiguous
  <1>8. PartSizes'
    BY <1>2, <1>4 DEF WriterInv, PartSizes
  <1>9. TypeOK'
    BY <1>2, <1>4 DEF WriterInv, TypeOK
  <1> QED
    BY <1>2, <1>7, <1>8, <1>9 DEF WriterInv

\* The steps of the writer that send nothing.
LEMMA QuietKeeps ==
    ASSUME WriterInv,
           PartFailed \/ StartFlush \/ Flushed \/ StartShutdown \/ Complete \/ CompleteFails \/ Dropped
    PROVE WriterInv'
  <1>1. UNCHANGED <<taken, buffer, parts>>
    BY DEF PartFailed, StartFlush, Flushed, StartShutdown, Complete, CompleteFails, Dropped
  <1>2. mode' \in {"active", "completing", "done"} /\ (mode' = "active" <=> mode = "active")
    BY DEF PartFailed, StartFlush, Flushed, StartShutdown, Complete, CompleteFails, Dropped,
           WriterInv, TypeOK
  <1>3. object' \in {object, parts} /\ (object' # object => Contiguous(parts, taken))
    BY PartsHoldAll
    DEF PartFailed, StartFlush, Flushed, StartShutdown, Complete, CompleteFails, Failure, Dropped
  <1>4. /\ user' \in {"writing", "flushing", "closing", "ok", "failed"}
        /\ user \notin {"ok", "failed"}
        /\ object' # object => user' \in {"ok", "failed"}
    BY DEF PartFailed, StartFlush, Flushed, StartShutdown, Complete, CompleteFails, Dropped
  <1>5. TypeOK'
    BY <1>1, <1>2, <1>3, <1>4 DEF WriterInv, TypeOK
  <1>6. BytesInOrder' /\ PartSizes'
    BY <1>1, <1>2 DEF WriterInv, BytesInOrder, PartSizes, Contiguous
  <1>7. object' # Old => user' \in {"ok", "failed"} /\ Contiguous(object', taken')
    BY <1>1, <1>3, <1>4 DEF WriterInv
  <1> QED
    BY <1>1, <1>2, <1>5, <1>6, <1>7 DEF WriterInv

\* WriterInv is inductive.
LEMMA WriterStep == ASSUME WriterInv, Next PROVE WriterInv'
  <1>1. \A k \in 0 .. MaxBytes : k \in Nat
    BY MultipartAssumption
  <1> QED
    BY <1>1, WriteKeeps, FinishKeeps, PartEndsKeeps, QuietKeeps DEF Next, Progress

-------------------------------------------------------------------------------
(* The uploads.                                                            *)

\* Outside of the copying of a file the writer has ended, or is a new one.
WriterPlace ==
    server \notin {"copy", "shut"} =>
        \/ user \in {"ok", "failed"}
        \/ user = "writing" /\ mode = "active" /\ taken = 0 /\ parts = <<>> /\ object = Old

\* The chunks that arrive have a size.
WireInv == wire \in Seq(Piecemeal) /\ read \in Nat

\* No handler is at work before the request is sent.
ClientPlace == client \in {"sign", "post", "apply", "form"} => server = "off"

UploadInv == WriterInv /\ WriterPlace /\ WireInv /\ ClientPlace

\* It holds in the beginning.
LEMMA UploadInit == TransferInit => UploadInv
  <1> SUFFICES ASSUME TransferInit PROVE UploadInv
    OBVIOUS
  <1>1. TypeOK
    BY MultipartAssumption DEF TransferInit, Init, TypeOK, Piece
  <1>2. BytesInOrder /\ PartSizes
    BY DEF TransferInit, Init, BytesInOrder, Contiguous, PartSizes
  <1> QED
    BY <1>1, <1>2 DEF TransferInit, Init, WriterInv, WriterPlace, WireInv, ClientPlace, UploadInv

\* Satm puts well-formed pieces on the wire, and the server takes the first.
LEMMA WireStep == ASSUME WireInv, [TransferNext]_tvars PROVE WireInv'
  <1> USE DEF WireInv
  <1>1. ASSUME NEW piece \in Piecemeal, Put(piece), read' \in Nat PROVE WireInv'
    BY <1>1 DEF Put
  <1>2. CASE StartFile \/ EndOfFile \/ CloseForm
    <2>1. \A what \in {"file", "end", "close"} : [is |-> what] \in Piecemeal
      BY DEF Piecemeal
    <2> QED
      BY <1>1, <1>2, <2>1 DEF StartFile, EndOfFile, CloseForm
  <1>3. ASSUME NEW n \in Reads, ReadChunk(n) PROVE WireInv'
    <2>1. n \in Nat /\ [is |-> "data", n |-> n, bad |-> FALSE] \in Piecemeal
      BY TransferAssumption DEF Piecemeal
    <2> QED
      BY <1>1, <1>3, <2>1 DEF ReadChunk
  <1>4. CASE SendDigest
    <2>1. [is |-> "digest", n |-> read] \in Piecemeal
      BY DEF Piecemeal
    <2> QED
      BY <1>1, <1>4, <2>1 DEF SendDigest
  <1>5. ASSUME NEW i \in 1 .. Window, Spoil(i) PROVE WireInv'
    <2> DEFINE new == [wire[i] EXCEPT !.bad = TRUE]
    <2>1. wire[i] \in Piecemeal /\ wire[i].is = "data"
      BY <1>5 DEF Spoil
    <2>2. wire[i] \in [is : {"data"}, n : Nat, bad : BOOLEAN]
      BY <2>1 DEF Piecemeal
    <2>3. new \in Piecemeal
      BY <2>2 DEF Piecemeal
    <2>4. wire' = [wire EXCEPT ![i] = new] /\ read' = read /\ i \in DOMAIN wire
      BY <1>5 DEF Spoil, clientVars
    <2> HIDE DEF new
    <2> QED
      BY <2>3, <2>4
  <1>6. CASE wire # <<>> /\ wire' = Tail(wire) /\ read' = read
    BY <1>6
  <1>7. CASE wire' \in {wire, <<>>} /\ read' \in {read, 0}
    <2>1. <<>> \in Seq(Piecemeal) /\ 0 \in Nat
      OBVIOUS
    <2> QED
      BY <1>7, <2>1
  <1>8. CASE OpenWriter \/ CopyChunk \/ EndOfField \/ CheckCsum \/ EndOfForm
    BY <1>6, <1>8 DEF OpenWriter, CopyChunk, EndOfField, CheckCsum, EndOfForm, Arrives, clientVars
  <1>9. CASE \/ PostHeaders \/ SignHeaders \/ ApplySignature \/ SendRequest \/ Answer
             \/ ChangeKey \/ SigningFails \/ Break \/ Retry
    BY <1>7, <1>9 DEF PostHeaders, SignHeaders, ApplySignature, SendRequest, Answer, HandlerEnds,
       Exit, ChangeKey, SigningFails, Break, Retry, clientVars
  <1>10. CASE \/ (\E n \in {1, left} : TempTakes(n)) \/ Shutdown \/ CloseTemp \/ Indexed
              \/ StoreFailed \/ SourceFailed \/ Unheard \/ ServerFails \/ StoreStep
    BY <1>7, <1>10 DEF TempTakes, Shutdown, CloseTemp, Indexed, StoreFailed, SourceFailed, GiveUp,
       Unheard, HandlerEnds, ServerFails, StoreStep, clientVars
  <1>11. CASE UNCHANGED tvars
    BY <1>7, <1>11 DEF tvars, clientVars
  <1> QED
    BY <1>2, <1>3, <1>4, <1>5, <1>8, <1>9, <1>10, <1>11 DEF TransferNext, ClientStep, ServerStep

\* What an upload does to its writer: it uses it while it copies, and replaces it
\* when it is done with it.
LEMMA WriterMoves ==
    ASSUME UploadInv, [TransferNext]_tvars
    PROVE /\ \/ NewWriter /\ server \notin {"copy", "shut"}
             \/ Next
             \/ UNCHANGED vars
          /\ WriterPlace'
  <1>1. CASE Answer \/ Unheard \/ OpenWriter
    <2>1. NewWriter /\ server \notin {"copy", "shut"}
      BY <1>1 DEF Answer, Unheard, OpenWriter, HandlerEnds
    <2>2. WriterPlace'
      BY <2>1 DEF NewWriter, WriterPlace
    <2> QED
      BY <2>1, <2>2
  <1>2. CASE CopyChunk
    <2>1. wire \in Seq(Piecemeal) /\ wire # <<>> /\ Head(wire).is = "data"
      BY <1>2 DEF CopyChunk, Arrives, UploadInv, WireInv
    <2>2. Head(wire) \in Piecemeal
      BY <2>1
    <2>3. Head(wire).n \in Nat
      BY <2>1, <2>2 DEF Piecemeal
    <2>4. Write(Head(wire).n) /\ server' = "copy"
      BY <1>2 DEF CopyChunk
    <2>5. Head(wire).n \in 0 .. MaxBytes
      BY <2>3, <2>4, MultipartAssumption DEF Write, UploadInv, WriterInv, TypeOK
    <2> QED
      BY <2>4, <2>5 DEF Next, WriterPlace
  <1>3. CASE EndOfField \/ Shutdown
    BY <1>3 DEF EndOfField, Shutdown, serverVars, Next, WriterPlace
  <1>4. CASE StoreStep
    <2>1. Next /\ server' = server
      BY <1>4 DEF StoreStep, serverVars, Next
    <2>2. CASE server \in {"copy", "shut"}
      BY <2>1, <2>2 DEF WriterPlace
    <2>3. CASE server \notin {"copy", "shut"} /\ user \in {"ok", "failed"}
      BY <1>4, <2>3 DEF StoreStep, Progress, PartEnds, PartFailed, Flushed, Finish, Complete, CompleteFails
    <2>4. CASE user = "writing" /\ mode = "active" /\ parts = <<>>
      BY <1>4, <2>4 DEF StoreStep, Progress, PartEnds, PartFailed, Flushed, Finish, Complete,
         CompleteFails, SomeError
    <2> QED
      BY <2>2, <2>3, <2>4 DEF UploadInv, WriterPlace
  <1>5. CASE SourceFailed \/ ServerFails
    <2>1. GiveUp
      BY <1>5 DEF SourceFailed, ServerFails
    <2>2. CASE server \in {"copy", "shut"} /\ user \notin {"ok", "failed"}
      BY <2>1, <2>2 DEF GiveUp, Dropped, Next, WriterPlace
    <2>3. CASE ~(server \in {"copy", "shut"} /\ user \notin {"ok", "failed"})
      BY <2>1, <2>3 DEF GiveUp, WriterPlace, UploadInv, vars
    <2> QED
      BY <2>2, <2>3
  <1>6. CASE UNCHANGED vars /\ (\/ server' \in {"copy", "shut"} \/ user \in {"ok", "failed"}
                                \/ server \notin {"copy", "shut"})
    BY <1>6 DEF UploadInv, WriterPlace, vars
  <1>7. CASE SendRequest
    BY <1>6, <1>7 DEF SendRequest, UploadInv, ClientPlace
  <1>9. CASE \/ PostHeaders \/ SignHeaders \/ ApplySignature \/ StartFile
             \/ (\E n \in Reads : ReadChunk(n)) \/ EndOfFile \/ SendDigest \/ CloseForm
             \/ ChangeKey \/ SigningFails \/ Break \/ Retry \/ (\E i \in 1 .. Window : Spoil(i))
             \/ UNCHANGED tvars
    <2>1. UNCHANGED vars /\ server' = server
      BY <1>9 DEF PostHeaders, SignHeaders, ApplySignature, StartFile, ReadChunk, EndOfFile,
         SendDigest, CloseForm, ChangeKey, SigningFails, Break, Retry, Spoil, serverVars, tvars
    <2> QED
      BY <2>1 DEF UploadInv, WriterPlace, vars
  <1>8. CASE \/ (\E n \in {1, left} : TempTakes(n)) \/ CloseTemp \/ CheckCsum \/ EndOfForm
             \/ Indexed \/ StoreFailed
    BY <1>6, <1>8 DEF TempTakes, CloseTemp, ShutDown, CheckCsum, EndOfForm, Indexed, StoreFailed
  <1> QED
    BY <1>1, <1>2, <1>3, <1>4, <1>5, <1>7, <1>8, <1>9 DEF TransferNext, ClientStep, ServerStep

\* Signing and serving are apart.
LEMMA ClientStays == ASSUME ClientPlace, [TransferNext]_tvars PROVE ClientPlace'
  <1> USE DEF ClientPlace
  <1>1. CASE ClientStep
    BY <1>1 DEF ClientStep, PostHeaders, SignHeaders, ApplySignature, SendRequest, StartFile, ReadChunk,
       EndOfFile, SendDigest, CloseForm, Answer, Exit, HandlerEnds, serverVars
  <1>2. CASE ServerStep \/ ServerFails
    <2>1. client' = client
      BY <1>2 DEF ServerStep, OpenWriter, CopyChunk, TempTakes, EndOfField, Shutdown, CloseTemp, CheckCsum,
         EndOfForm, Indexed, StoreFailed, SourceFailed, Unheard, ServerFails, GiveUp, clientVars
    <2>2. server # "off"
      BY <1>2 DEF ServerStep, OpenWriter, CopyChunk, TempTakes, EndOfField, Shutdown, CloseTemp, CheckCsum,
         EndOfForm, Indexed, StoreFailed, SourceFailed, Unheard, ServerFails
    <2> QED
      BY <2>1, <2>2
  <1>3. CASE StoreStep \/ ChangeKey \/ SigningFails \/ Break \/ Retry \/ (\E i \in 1 .. Window : Spoil(i))
    BY <1>3 DEF StoreStep, ChangeKey, SigningFails, Break, Retry, Spoil, Exit, Sending, clientVars, serverVars
  <1> QED
    BY <1>1, <1>2, <1>3 DEF TransferNext, tvars, clientVars, serverVars

\* UploadInv is inductive.
LEMMA UploadStep == UploadInv /\ [TransferNext]_tvars => UploadInv'
  <1> SUFFICES ASSUME UploadInv, [TransferNext]_tvars PROVE UploadInv'
    OBVIOUS
  <1>1. WriterInv'
    <2>1. CASE NewWriter
      BY <2>1, FreshWriter
    <2>2. CASE Next
      BY <2>2, WriterStep DEF UploadInv
    <2>3. CASE UNCHANGED vars
      BY <2>3 DEF UploadInv, WriterInv, TypeOK, BytesInOrder, PartSizes, Contiguous, vars
    <2> QED
      BY <2>1, <2>2, <2>3, WriterMoves
  <1> QED
    BY <1>1, WireStep, WriterMoves, ClientStays DEF UploadInv

\* And so it holds throughout.
LEMMA UploadInvariant == TransferSpec => []UploadInv
  BY UploadInit, UploadStep, PTL DEF TransferSpec

\* However a file is cut into chunks, reads and parts, and whatever fails: the parts
\* and the buffer hold every byte once and in order.
THEOREM BytesKeepOrder == TransferSpec => []BytesInOrder
  <1>1. UploadInv => BytesInOrder
    BY DEF UploadInv, WriterInv
  <1> QED
    BY <1>1, UploadInvariant, PTL

\* All parts but the last have the store's part size.
THEOREM PartsHaveTheirSize == TransferSpec => []PartSizes
  <1>1. UploadInv => PartSizes
    BY DEF UploadInv, WriterInv
  <1> QED
    BY <1>1, UploadInvariant, PTL

-------------------------------------------------------------------------------
(* What the link shows.                                                    *)

\* One step of an upload is one of AtomicPut.
LEMMA PutStep ==
    ASSUME UploadInv, [TransferNext]_tvars
    PROVE [P!Accept \/ P!Succeed \/ P!GiveUp \/ P!Reopen]_(P!putVars)
  <1> USE DEF P!putVars, Told
  <1>1. /\ taken \in Nat
        /\ object # Old => user \in {"ok", "failed"}
        /\ Content = IF object = Old THEN Old ELSE taken
    BY DEF UploadInv, WriterInv, TypeOK, Content
  <1>2. parts \in Seq(Part) /\ parts # Old
    BY OldAssumption DEF UploadInv, WriterInv, TypeOK
  <1>3. CASE UNCHANGED vars
    BY <1>3 DEF vars, Content, Contiguous
  <1>4. CASE NewWriter /\ server \notin {"copy", "shut"}
    <2>1. taken' = 0 /\ Told' = "open" /\ Content' = Old
      BY <1>4 DEF NewWriter, Content
    <2>2. CASE user \in {"ok", "failed"}
      BY <2>1, <2>2 DEF P!Reopen
    <2>3. CASE user = "writing" /\ taken = 0 /\ object = Old
      BY <1>1, <2>1, <2>3
    <2> QED
      BY <1>4, <2>2, <2>3 DEF UploadInv, WriterPlace
  <1>5. ASSUME NEW k \in 0 .. MaxBytes, Write(k)
        PROVE P!Accept \/ UNCHANGED P!putVars
    <2>1. object = Old /\ object' = object /\ user' = user /\ user = "writing" /\ taken' = taken + k
      BY <1>1, <1>5 DEF Write
    <2>2. Content = Old /\ Content' = Old
      BY <1>1, <2>1 DEF Content
    <2>3. k \in Nat /\ (k = 0 \/ taken' > taken)
      BY <1>1, <2>1, MultipartAssumption
    <2> QED
      BY <1>1, <2>1, <2>2, <2>3 DEF P!Accept
  <1>6. CASE Complete
    <2>1. /\ user = "closing" /\ user' = "ok" /\ taken' = taken
          /\ object' = parts /\ Contiguous(parts, taken)
      BY <1>6, PartsHoldAll DEF Complete, UploadInv
    <2>2. Content' = taken
      BY <1>2, <2>1 DEF Content, Contiguous
    <2> QED
      BY <2>1, <2>2 DEF P!Succeed
  <1>7. CASE CompleteFails
    <2>1. /\ user = "closing" /\ user' = "failed" /\ taken' = taken /\ object = Old
          /\ object' \in {object, parts} /\ Contiguous(parts, taken)
      BY <1>1, <1>7, PartsHoldAll DEF CompleteFails, Failure, UploadInv
    <2>2. Content' \in {Content, taken}
      BY <1>1, <1>2, <2>1 DEF Content, Contiguous
    <2> QED
      BY <2>1, <2>2 DEF P!GiveUp
  <1>8. CASE PartFailed \/ Dropped
    <2>1. /\ user \notin {"ok", "failed"} /\ user' = "failed" /\ UNCHANGED <<taken, object>>
      BY <1>8 DEF PartFailed, Dropped
    <2>2. Content' = Content
      BY <2>1 DEF Content, Contiguous
    <2> QED
      BY <2>1, <2>2 DEF P!GiveUp
  <1>9. CASE StartFlush \/ Flushed \/ StartShutdown \/ Finish \/ \E i \in DOMAIN parts : PartEnds(i)
    <2>1. /\ Told' = Told /\ UNCHANGED <<taken, object>>
      BY <1>9 DEF StartFlush, Flushed, StartShutdown, Finish, PartEnds
    <2>2. Content' = Content
      BY <2>1 DEF Content, Contiguous
    <2> QED
      BY <2>1, <2>2
  <1>10. CASE Next
    BY <1>5, <1>6, <1>7, <1>8, <1>9, <1>10 DEF Next, Progress
  <1> QED
    BY <1>3, <1>4, <1>10, WriterMoves

\* Readers of the store see the file that was there before or the whole new one, and
\* the new one if its writer was told so, through all files and all attempts.
THEOREM UploadsArePuts == TransferSpec => ImplementsPut
  <1>1. TransferInit => P!PutInit
    BY DEF TransferInit, Init, P!PutInit, Told, Content
  <1>2. UploadInv /\ [TransferNext]_tvars
            => [P!Accept \/ P!Succeed \/ P!GiveUp \/ P!Reopen]_(P!putVars)
    BY PutStep
  <1> QED
    BY <1>1, <1>2, UploadInvariant, PTL DEF TransferSpec, ImplementsPut, P!PutSpec

-------------------------------------------------------------------------------
(* Signatures.                                                             *)

\* The local rpms before the one satm is at are signed with the key the server took;
\* when the form is sent, all are.
KeyInv ==
    /\ at \in 1 .. Files
    /\ DOMAIN sig = 1 .. Files
    /\ client \in {"sign", "post", "failed"} => at = 1
    /\ client = "apply" => \A i \in 1 .. (at - 1) : sig[i] = mgr
    /\ client \in {"form", "head", "send", "digest", "close", "wait", "ok"} /\ mgr # None =>
           \A i \in 1 .. Files : sig[i] = mgr

\* KeyInv is inductive: only signing touches what it says.
LEMMA KeyStep == KeyInv /\ [TransferNext]_tvars => KeyInv'
  <1> SUFFICES ASSUME KeyInv, [TransferNext]_tvars PROVE KeyInv'
    OBVIOUS
  <1> USE TransferAssumption DEF KeyInv
  <1>1. CASE ApplySignature
    BY <1>1 DEF ApplySignature, Signature
  <1>2. CASE SignHeaders
    BY <1>2 DEF SignHeaders
  <1>3. CASE PostHeaders \/ SendRequest \/ Retry
    BY <1>3 DEF PostHeaders, SendRequest, Retry
  <1>6. CASE StartFile \/ (\E n \in Reads : ReadChunk(n)) \/ EndOfFile \/ SendDigest \/ CloseForm
    <2>1. /\ UNCHANGED <<mgr, sig>>
          /\ {client, client'} \subseteq {"head", "send", "digest", "close", "wait"}
      BY <1>6 DEF StartFile, ReadChunk, EndOfFile, SendDigest, CloseForm
    <2>2. CASE SendDigest /\ at < Files
      <3>1. at' = at + 1
        BY <2>2 DEF SendDigest
      <3> QED
        BY <2>1, <2>2, <3>1
    <2>3. CASE SendDigest /\ ~(at < Files)
      <3>1. at' = at
        BY <2>3 DEF SendDigest
      <3> QED
        BY <2>1, <3>1
    <2>4. CASE StartFile \/ EndOfFile \/ CloseForm
      BY <2>1, <2>4 DEF StartFile, EndOfFile, CloseForm
    <2>5. CASE \E n \in Reads : ReadChunk(n)
      BY <2>1, <2>5 DEF ReadChunk
    <2> QED
      BY <1>6, <2>2, <2>3, <2>4, <2>5
  <1>4. CASE Answer \/ SigningFails \/ Break
    BY <1>4 DEF Answer, SigningFails, Break, Exit, Sending
  <1>5. CASE ServerStep \/ ServerFails \/ StoreStep \/ ChangeKey \/ (\E i \in 1 .. Window : Spoil(i))
             \/ UNCHANGED tvars
    <2>1. UNCHANGED <<at, sig, client, mgr>>
      BY <1>5 DEF ServerStep, OpenWriter, CopyChunk, TempTakes, EndOfField, Shutdown, CloseTemp, CheckCsum,
         EndOfForm, Indexed, StoreFailed, SourceFailed, Unheard, ServerFails, GiveUp, StoreStep, ChangeKey,
         Spoil, clientVars, tvars
    <2> QED
      BY <2>1
  <1> QED
    BY <1>1, <1>2, <1>3, <1>4, <1>5, <1>6 DEF TransferNext, ClientStep

\* The rpms of an acknowledged upload carry the signatures of one key, however often
\* the repository's key changes and however many attempts it takes.
THEOREM OneKeySigns == TransferSpec => []SignedByOneKey
  <1>1. TransferInit => KeyInv
    BY TransferAssumption DEF TransferInit, KeyInv
  <1>2. KeyInv => SignedByOneKey
    BY DEF KeyInv, SignedByOneKey
  <1> QED
    BY <1>1, <1>2, KeyStep, PTL DEF TransferSpec
-------------------------------------------------------------------------------
(* What is on the way.                                                     *)

\* Where one can be in the body of a request: before a file (or the end), in one, or
\* before its checksum; after so many whole files and so many bytes of this one.
Point == [at : {"next", "data", "digest", "end"}, done : 0 .. Files, n : Nat]
At(where, done, n) == [at |-> where, done |-> done, n |-> n]

\* A piece of the body leads from p to q.
Leads(p, piece, q) ==
    \/ piece.is = "file" /\ p.at = "next" /\ p.done < Files /\ q = At("data", p.done, 0)
    \/ piece.is = "data" /\ p.at = "data" /\ p.done < Files /\ q = At("data", p.done, p.n + piece.n)
    \/ piece.is = "end" /\ p.at = "data" /\ p.done < Files /\ q = At("digest", p.done, p.n)
    \/ piece.is = "digest" /\ p.at = "digest" /\ p.done < Files /\ piece.n = p.n
         /\ q = At("next", p.done + 1, 0)
    \/ piece.is = "close" /\ p.at = "next" /\ p.done = Files /\ q = At("end", Files, 0)

\* The points that pieces lead through, one after the other.
Trail(r, pieces) ==
    /\ r \in Seq(Point) /\ Len(r) = Len(pieces) + 1
    /\ \A i \in 1 .. Len(pieces) : Leads(r[i], pieces[i], r[i + 1])

\* One piece more at the end.
LEMMA TrailGrows ==
    ASSUME NEW pieces \in Seq(Piecemeal), NEW piece \in Piecemeal, NEW r, NEW q \in Point,
           Trail(r, pieces), Leads(r[Len(r)], piece, q)
    PROVE /\ Trail(Append(r, q), Append(pieces, piece))
          /\ Append(r, q)[1] = r[1]
          /\ Append(r, q)[Len(Append(r, q))] = q
  <1> DEFINE s == Append(r, q)
             w == Append(pieces, piece)
             n == Len(pieces)
  <1>1. /\ n \in Nat /\ r \in Seq(Point) /\ Len(r) = n + 1
        /\ \A i \in 1 .. n : Leads(r[i], pieces[i], r[i + 1])
    BY DEF Trail
  <1>2. /\ s \in Seq(Point) /\ Len(s) = n + 2 /\ s[n + 2] = q
        /\ \A i \in 1 .. (n + 1) : s[i] = r[i]
    BY <1>1
  <1>3. /\ w \in Seq(Piecemeal) /\ Len(w) = n + 1 /\ w[n + 1] = piece
        /\ \A i \in 1 .. n : w[i] = pieces[i]
    BY <1>1
  <1> HIDE DEF s, w, n
  <1>4. ASSUME NEW i \in 1 .. (n + 1) PROVE Leads(s[i], w[i], s[i + 1])
    <2>1. CASE i \in 1 .. n
      <3>1. i \in 1 .. (n + 1) /\ i + 1 \in 1 .. (n + 1)
        BY <1>1, <2>1
      <3>2. s[i] = r[i] /\ s[i + 1] = r[i + 1] /\ w[i] = pieces[i]
        BY <1>2, <1>3, <2>1, <3>1
      <3> QED
        BY <1>1, <2>1, <3>2
    <2>2. CASE i = n + 1
      <3>1. s[n + 1] = r[n + 1] /\ n + 1 + 1 = n + 2 /\ n + 1 = Len(r)
        BY <1>1, <1>2
      <3>2. Leads(s[n + 1], w[n + 1], s[n + 2])
        BY <1>2, <1>3, <3>1
      <3> QED
        BY <2>2, <3>1, <3>2
    <2> QED
      BY <1>1, <2>1, <2>2
  <1>5. Trail(s, w)
    BY <1>1, <1>2, <1>3, <1>4 DEF Trail
  <1>6. s[1] = r[1] /\ s[Len(s)] = q
    BY <1>1, <1>2
  <1> QED
    BY <1>5, <1>6 DEF s, w

\* One piece less at the beginning.
LEMMA TrailPasses ==
    ASSUME NEW pieces \in Seq(Piecemeal), pieces # <<>>, NEW r, Trail(r, pieces)
    PROVE /\ Leads(r[1], Head(pieces), r[2])
          /\ Trail(Tail(r), Tail(pieces))
          /\ Tail(r)[1] = r[2]
          /\ Tail(r)[Len(Tail(r))] = r[Len(r)]
          /\ r[1] \in Point /\ r[2] \in Point
  <1> DEFINE s == Tail(r)
             w == Tail(pieces)
             n == Len(pieces)
  <1>1. /\ n \in Nat /\ n >= 1 /\ r \in Seq(Point) /\ Len(r) = n + 1
        /\ \A i \in 1 .. n : Leads(r[i], pieces[i], r[i + 1])
        /\ Head(pieces) = pieces[1]
    BY DEF Trail
  <1>2. /\ s \in Seq(Point) /\ Len(s) = n
        /\ \A i \in 1 .. n : s[i] = r[i + 1]
    BY <1>1
  <1>3. /\ w \in Seq(Piecemeal) /\ Len(w) = n - 1
        /\ \A i \in 1 .. (n - 1) : w[i] = pieces[i + 1]
    BY <1>1
  <1>4. r[1] \in Point /\ r[2] \in Point
    BY <1>1
  <1> HIDE DEF s, w, n
  <1>5. ASSUME NEW i \in 1 .. (n - 1) PROVE Leads(s[i], w[i], s[i + 1])
    <2>1. i \in 1 .. n /\ i + 1 \in 1 .. n
      BY <1>1
    <2>2. s[i] = r[i + 1] /\ s[i + 1] = r[i + 1 + 1] /\ w[i] = pieces[i + 1]
      BY <1>2, <1>3, <2>1
    <2> QED
      BY <1>1, <2>1, <2>2
  <1>6. Len(s) = Len(w) + 1
    BY <1>1, <1>2, <1>3
  <1>7. Trail(s, w)
    BY <1>2, <1>3, <1>5, <1>6 DEF Trail
  <1>8. Leads(r[1], Head(pieces), r[2])
    <2>1. 1 \in 1 .. n /\ 1 + 1 = 2
      BY <1>1
    <2> QED
      BY <1>1, <2>1
  <1>9. s[1] = r[2] /\ s[Len(s)] = r[Len(r)]
    <2>1. 1 \in 1 .. n /\ n \in 1 .. n /\ 1 + 1 = 2
      BY <1>1
    <2> QED
      BY <1>1, <1>2, <2>1
  <1> QED
    BY <1>4, <1>7, <1>8, <1>9 DEF s, w

\* A changed byte does not change where its chunk leads to.
LEMMA TrailKeeps ==
    ASSUME NEW pieces, NEW other, NEW r, Trail(r, pieces), Len(other) = Len(pieces),
           \A j \in 1 .. Len(pieces) : /\ other[j].is = pieces[j].is
                                       /\ other[j].is \in {"data", "digest"} => other[j].n = pieces[j].n
    PROVE Trail(r, other)
  <1>1. ASSUME NEW j \in 1 .. Len(pieces) PROVE Leads(r[j], other[j], r[j + 1])
    <2>1. Leads(r[j], pieces[j], r[j + 1])
      BY DEF Trail
    <2> QED
      BY <2>1 DEF Leads
  <1> QED
    BY <1>1 DEF Trail

\* Where the handler is, by what it has taken, ...
ServerAt(p) ==
    /\ server = "next" => p = At("next", Len(received), 0)
    /\ server = "copy" => p = At("data", Len(received), taken)
    /\ server \in {"shut", "check"} => p = At("digest", Len(received), taken)
    /\ server \in {"index", "ok"} => p = At("end", Files, 0)

\* ... and where satm is, by what it has sent.
ClientAt(p) ==
    /\ client = "head" => p = At("next", at - 1, 0)
    /\ client = "send" => p = At("data", at - 1, read)
    /\ client = "digest" => p = At("digest", at - 1, read)
    /\ client = "close" => p = At("next", Files, 0)
    /\ client = "wait" => p = At("end", Files, 0)

\* While the handler reads the body, what is on the way leads from where it is to
\* where satm is; if satm is gone, just anywhere.
Serving == server \in {"next", "copy", "shut", "check", "index", "ok"}
WayInv == Serving => \E r : Trail(r, wire) /\ ServerAt(r[1]) /\ ClientAt(r[Len(r)])

\* What satm keeps.
SenderInv ==
    /\ client \in {"sign", "post", "apply", "form", "head", "send", "digest", "close", "wait",
                   "ok", "failed"}
    /\ key \in Keys \union {None} /\ mgr \in Keys \union {None}
    /\ sig \in [1 .. Files -> Keys \union {None}]
    /\ up \in BOOLEAN /\ Len(wire) <= Window
    /\ client \in {"sign", "post", "form", "failed"} => at = 1
    /\ client \in {"sign", "post", "apply", "form", "head", "failed"} => read = 0
    /\ client \in {"close", "wait"} => at = Files
    /\ client \in {"sign", "post", "apply", "form"} => received = <<>>
    /\ client = "ok" => server = "off" /\ Len(received) = Files
    /\ client # "failed" => up
    /\ Sending => server # "off"
    /\ server = "off" => wire = <<>>

\* What the handler keeps: the hash has seen what the temporary file has taken, which
\* is what the store has taken but for the rest of the current chunk.
Intact(c) == c.published = c.sent /\ c.temp = c.sent /\ ~c.spoilt
ReceiverInv ==
    /\ server \in {"off", "next", "copy", "shut", "check", "index", "ok", "refused", "error"}
    /\ left \in Nat /\ mochi \in [size : Nat, hash : Nat] /\ spoilt \in BOOLEAN
    /\ mochi.hash = mochi.size
    /\ server = "copy" => taken = mochi.size + left
    /\ server \in {"shut", "check"} => taken = mochi.size
    /\ server = "check" => user = "ok"
    /\ user = "ok" => object # Old
    /\ received \in Seq(Copy) /\ Len(received) <= Files
    /\ \A i \in DOMAIN received : Intact(received[i])
    /\ server = "refused" => spoilt
    /\ server \in {"index", "ok"} => Len(received) = Files

BodyInv == UploadInv /\ KeyInv /\ SenderInv /\ ReceiverInv /\ WayInv

\* It holds in the beginning.
LEMMA BodyInit == TransferInit => BodyInv
  <1> SUFFICES ASSUME TransferInit PROVE BodyInv
    OBVIOUS
  <1>1. UploadInv
    BY UploadInit
  <1>2. KeyInv
    BY TransferAssumption DEF TransferInit, KeyInv
  <1>3. SenderInv
    BY TransferAssumption DEF TransferInit, SenderInv, Sending
  <1>4. ReceiverInv
    <2>1. [size |-> 0, hash |-> 0] \in [size : Nat, hash : Nat] /\ [size |-> 0, hash |-> 0].hash = 0
          /\ [size |-> 0, hash |-> 0].size = 0
      OBVIOUS
    <2>2. mochi \in [size : Nat, hash : Nat] /\ mochi.hash = mochi.size
      BY <2>1 DEF TransferInit
    <2>3. <<>> \in Seq(Copy) /\ Len(<<>>) = 0 /\ \A i \in DOMAIN <<>> : FALSE
      OBVIOUS
    <2>4. /\ received \in Seq(Copy) /\ Len(received) <= Files
          /\ \A i \in DOMAIN received : Intact(received[i])
      BY <2>3, TransferAssumption DEF TransferInit
    <2> QED
      BY <2>2, <2>4 DEF TransferInit, Init, ReceiverInv
  <1>5. WayInv
    BY DEF TransferInit, WayInv, Serving
  <1> QED
    BY <1>1, <1>2, <1>3, <1>4, <1>5 DEF BodyInv

\* A writer that ended well has written the link.
LEMMA OkIsShown ==
    ASSUME UploadInv, user = "ok" => object # Old, [TransferNext]_tvars
    PROVE user' = "ok" => object' # Old
  <1>1. CASE NewWriter
    BY <1>1 DEF NewWriter
  <1>2. CASE Next
    <2>1. CASE Complete
      <3>1. parts # Old /\ object' = parts
        BY <2>1, OldAssumption DEF Complete, UploadInv, WriterInv, TypeOK
      <3> QED
        BY <3>1
    <2>2. CASE ~Complete
      BY <1>2, <2>2 DEF Next, Progress, PartEnds, PartFailed, Flushed, Finish, CompleteFails,
         StartFlush, StartShutdown, Dropped, Write
    <2> QED
      BY <2>1, <2>2
  <1>3. CASE UNCHANGED vars
    BY <1>3 DEF vars
  <1> QED
    BY <1>1, <1>2, <1>3, WriterMoves

\* The first piece on the way leads on from where the handler is.
LEMMA FirstPiece ==
    ASSUME UploadInv, WayInv, Serving, wire # <<>>
    PROVE /\ Head(wire) \in Piecemeal
          /\ \E p, q \in Point : ServerAt(p) /\ Leads(p, Head(wire), q)
  <1>1. wire \in Seq(Piecemeal)
    BY DEF UploadInv, WireInv
  <1>2. Head(wire) \in Piecemeal
    BY <1>1
  <1>3. PICK r : Trail(r, wire) /\ ServerAt(r[1])
    BY DEF WayInv
  <1>4. Leads(r[1], Head(wire), r[2]) /\ r[1] \in Point /\ r[2] \in Point
    BY <1>1, <1>3, TrailPasses
  <1> QED
    BY <1>2, <1>3, <1>4

\* A checksum that arrives is that of the bytes that were taken: the handler is in the
\* same file as it was sent for, and has all of it.
LEMMA DigestIsOfTaken ==
    ASSUME UploadInv, WayInv, server = "check", Arrives("digest")
    PROVE Head(wire).n = taken /\ taken \in Nat /\ Len(received) < Files
  <1>1. Serving /\ wire # <<>> /\ Head(wire).is = "digest"
    BY DEF Serving, Arrives
  <1>2. PICK p, q \in Point : ServerAt(p) /\ Leads(p, Head(wire), q)
    BY <1>1, FirstPiece
  <1>3. p = At("digest", Len(received), taken)
    BY <1>2 DEF ServerAt
  <1>4. p.done < Files /\ Head(wire).n = p.n
    BY <1>1, <1>2 DEF Leads
  <1>5. p.done = Len(received) /\ p.n = taken
    BY <1>3 DEF At
  <1>6. taken \in Nat
    BY DEF UploadInv, WriterInv, TypeOK
  <1> QED
    BY <1>4, <1>5, <1>6

\* The form ends when every file has been received.
LEMMA CloseIsLast ==
    ASSUME UploadInv, WayInv, server = "next", Arrives("close")
    PROVE Len(received) = Files
  <1>1. Serving /\ wire # <<>> /\ Head(wire).is = "close"
    BY DEF Serving, Arrives
  <1>2. PICK p, q \in Point : ServerAt(p) /\ Leads(p, Head(wire), q)
    BY <1>1, FirstPiece
  <1>3. p = At("next", Len(received), 0)
    BY <1>2 DEF ServerAt
  <1>4. p.done = Files
    BY <1>1, <1>2 DEF Leads
  <1>5. p.done = Len(received)
    BY <1>3 DEF At
  <1> QED
    BY <1>4, <1>5

\* The handler's books stay right.
LEMMA ReceiverStep == ASSUME BodyInv, [TransferNext]_tvars PROVE ReceiverInv'
  <1> DEFINE Zero == [size |-> 0, hash |-> 0]
             Good(cs) == cs \in Seq(Copy) /\ Len(cs) <= Files /\ \A i \in DOMAIN cs : Intact(cs[i])
  <1>0. /\ left \in Nat /\ mochi.size \in Nat /\ mochi.hash = mochi.size
        /\ mochi \in [size : Nat, hash : Nat] /\ spoilt \in BOOLEAN /\ taken \in Nat
        /\ Good(received)
        /\ server \in {"off", "next", "copy", "shut", "check", "index", "ok", "refused", "error"}
        /\ server = "copy" => taken = mochi.size + left
        /\ server \in {"shut", "check"} => taken = mochi.size
        /\ server = "check" => user = "ok"
        /\ server = "refused" => spoilt
        /\ server \in {"index", "ok"} => Len(received) = Files
    BY DEF BodyInv, ReceiverInv, UploadInv, WriterInv, TypeOK
  <1>1. user' = "ok" => object' # Old
    BY OkIsShown DEF BodyInv, ReceiverInv
  <1>2. Zero \in [size : Nat, hash : Nat] /\ Zero.hash = Zero.size /\ Zero.size = 0 /\ 0 \in Nat
    OBVIOUS
  <1>3. Good(<<>>)
    <2>1. <<>> \in Seq(Copy) /\ Len(<<>>) = 0 /\ \A i \in DOMAIN <<>> : FALSE
      OBVIOUS
    <2> QED
      BY <2>1, TransferAssumption
  <1> HIDE DEF Zero, Good
  <1>4. ReceiverInv' <=>
            /\ left' \in Nat /\ mochi' \in [size : Nat, hash : Nat] /\ mochi'.hash = mochi'.size
            /\ spoilt' \in BOOLEAN /\ Good(received')
            /\ server' \in {"off", "next", "copy", "shut", "check", "index", "ok", "refused", "error"}
            /\ server' = "copy" => taken' = mochi'.size + left'
            /\ server' \in {"shut", "check"} => taken' = mochi'.size
            /\ server' = "check" => user' = "ok"
            /\ server' = "refused" => spoilt'
            /\ server' \in {"index", "ok"} => Len(received') = Files
    BY <1>1 DEF ReceiverInv, Good, Intact
  <1>5. CASE UNCHANGED vars /\ UNCHANGED serverVars
    BY <1>0, <1>4, <1>5 DEF vars, serverVars
  <1>6. CASE \/ PostHeaders \/ SignHeaders \/ ApplySignature \/ StartFile
             \/ (\E n \in Reads : ReadChunk(n)) \/ EndOfFile \/ SendDigest \/ CloseForm
             \/ ChangeKey \/ SigningFails \/ Break \/ (\E i \in 1 .. Window : Spoil(i))
             \/ UNCHANGED tvars
    BY <1>5, <1>6 DEF PostHeaders, SignHeaders, ApplySignature, StartFile, ReadChunk, EndOfFile,
       SendDigest, CloseForm, ChangeKey, SigningFails, Break, Spoil, tvars
  <1>7. CASE SendRequest
    BY <1>0, <1>4, <1>7 DEF SendRequest, vars
  <1>8. CASE Retry
    <2>1. server = "off" /\ server' = "off" /\ received' = <<>> /\ UNCHANGED <<left, mochi, spoilt>>
      BY <1>8 DEF Retry
    <2> QED
      BY <1>0, <1>3, <1>4, <2>1
  <1>9. CASE Answer \/ Unheard
    <2>1. /\ server' = "off" /\ left' = 0 /\ mochi' = Zero /\ spoilt' = FALSE
          /\ received' \in {received, <<>>}
      BY <1>9 DEF Answer, Unheard, HandlerEnds, Zero
    <2> QED
      BY <1>0, <1>2, <1>3, <1>4, <2>1
  <1>10. CASE OpenWriter
    <2>1. /\ server' = "copy" /\ left' = 0 /\ mochi' = Zero /\ spoilt' = FALSE /\ taken' = 0
          /\ received' = received
      BY <1>10 DEF OpenWriter, NewWriter, Zero
    <2>2. mochi' \in [size : Nat, hash : Nat] /\ mochi'.hash = mochi'.size /\ left' \in Nat
      BY <1>2, <2>1
    <2>3. mochi'.size = 0
      BY <1>2, <2>1
    <2>4. taken' = mochi'.size + left'
      BY <2>1, <2>3
    <2> QED
      BY <1>0, <1>4, <2>1, <2>2, <2>4
  <1>11. CASE CopyChunk
    <2>1. wire \in Seq(Piecemeal) /\ wire # <<>> /\ Head(wire).is = "data"
      BY <1>11 DEF CopyChunk, Arrives, BodyInv, UploadInv, WireInv
    <2>2. Head(wire) \in Piecemeal
      BY <2>1
    <2>3. Head(wire).n \in Nat /\ Head(wire).bad \in BOOLEAN
      BY <2>1, <2>2 DEF Piecemeal
    <2>4. /\ server = "copy" /\ server' = "copy" /\ left = 0 /\ left' = Head(wire).n
          /\ mochi' = mochi /\ received' = received /\ spoilt' = (spoilt \/ Head(wire).bad)
          /\ taken' = taken + Head(wire).n
      BY <1>11 DEF CopyChunk, Write
    <2>5. spoilt' \in BOOLEAN
      BY <1>0, <2>3, <2>4
    <2>6. taken' = mochi'.size + left'
      BY <1>0, <2>3, <2>4
    <2> QED
      BY <1>0, <1>4, <2>3, <2>4, <2>5, <2>6
  <1>12. ASSUME NEW n \in {1, left}, TempTakes(n) PROVE ReceiverInv'
    <2>1. /\ server = "copy" /\ server' = "copy" /\ n \in 1 .. left /\ left' = left - n
          /\ mochi' = [size |-> mochi.size + n, hash |-> mochi.hash + n]
          /\ UNCHANGED <<spoilt, received, taken>>
      BY <1>12 DEF TempTakes, Hashed, vars
    <2>2. /\ mochi' \in [size : Nat, hash : Nat] /\ mochi'.size = mochi.size + n
          /\ mochi'.hash = mochi'.size
      BY <1>0, <2>1
    <2>3. left' \in Nat /\ taken' = mochi'.size + left'
      BY <1>0, <2>1, <2>2
    <2> QED
      BY <1>0, <1>4, <2>1, <2>2, <2>3
  <1>13. CASE EndOfField
    <2>1. /\ server = "copy" /\ server' = "shut" /\ left = 0 /\ taken' = taken
          /\ UNCHANGED <<left, mochi, spoilt, received>>
      BY <1>13 DEF EndOfField, StartFlush, vars
    <2>2. taken' = mochi'.size
      BY <1>0, <2>1
    <2> QED
      BY <1>0, <1>4, <2>1, <2>2
  <1>14. CASE Shutdown
    <2>1. server = "shut" /\ taken' = taken /\ UNCHANGED serverVars
      BY <1>14 DEF Shutdown, StartShutdown
    <2> QED
      BY <1>0, <1>4, <2>1 DEF serverVars
  <1>15. CASE CloseTemp
    <2>1. /\ server = "shut" /\ server' = "check" /\ user = "ok" /\ UNCHANGED <<taken, user>>
          /\ UNCHANGED <<left, mochi, spoilt, received>>
      BY <1>15 DEF CloseTemp, ShutDown, vars
    <2> QED
      BY <1>0, <1>4, <2>1
  <1>16. CASE CheckCsum
    <2>1. /\ server = "check" /\ Arrives("digest") /\ UNCHANGED <<left, mochi, spoilt>>
      BY <1>16 DEF CheckCsum
    <2>2. Head(wire).n = taken /\ Len(received) < Files
      BY <2>1, DigestIsOfTaken DEF BodyInv
    <2>3. SameHash <=> ~spoilt
      BY <1>0, <2>1, <2>2 DEF SameHash
    <2>4. CASE SameHash
      <3> DEFINE c == [sent |-> Head(wire).n, published |-> Content, temp |-> mochi.size,
                       spoilt |-> spoilt]
      <3>1. received' = Append(received, c) /\ server' = "next"
        BY <1>16, <2>4 DEF CheckCsum
      <3>2. Content = taken
        BY <1>0, <2>1 DEF Content, BodyInv, ReceiverInv, UploadInv, WriterInv
      <3>3. c.sent = taken /\ c.published = taken /\ c.temp = taken /\ c.spoilt = FALSE
        BY <1>0, <2>1, <2>2, <2>3, <2>4, <3>2
      <3>4. c \in Copy
        BY <1>0, <2>1, <2>2, <3>2 DEF Copy
      <3>5. Intact(c)
        BY <3>3 DEF Intact
      <3> HIDE DEF c
      <3>6. Good(received')
        <4>1. received \in Seq(Copy) /\ \A i \in DOMAIN received : Intact(received[i])
          BY <1>0 DEF Good
        <4>2. /\ received' \in Seq(Copy) /\ Len(received') = Len(received) + 1
              /\ received'[Len(received) + 1] = c
              /\ \A i \in DOMAIN received : received'[i] = received[i]
          BY <3>1, <3>4, <4>1
        <4>3. \A i \in DOMAIN received' : i = Len(received) + 1 \/ i \in DOMAIN received
          BY <4>1, <4>2
        <4>4. Len(received') <= Files
          BY <2>2, <4>1, <4>2, TransferAssumption
        <4>5. \A i \in DOMAIN received' : Intact(received'[i])
          BY <3>5, <4>1, <4>2, <4>3
        <4> QED
          BY <4>2, <4>4, <4>5 DEF Good
      <3> QED
        BY <1>0, <1>4, <2>1, <3>1, <3>6
    <2>5. CASE ~SameHash
      <3>1. received' = received /\ server' = "refused" /\ spoilt
        BY <1>0, <1>16, <2>3, <2>5 DEF CheckCsum
      <3> QED
        BY <1>0, <1>4, <2>1, <3>1
    <2> QED
      BY <2>4, <2>5
  <1>17. CASE EndOfForm
    <2>1. /\ server = "next" /\ Arrives("close") /\ server' = "index"
          /\ UNCHANGED <<left, mochi, spoilt, received>>
      BY <1>17 DEF EndOfForm
    <2>2. Len(received) = Files
      BY <2>1, CloseIsLast DEF BodyInv
    <2> QED
      BY <1>0, <1>4, <2>1, <2>2
  <1>18. CASE Indexed
    <2>1. server = "index" /\ server' = "ok" /\ UNCHANGED <<left, mochi, spoilt, received>>
      BY <1>18 DEF Indexed
    <2> QED
      BY <1>0, <1>4, <2>1
  <1>19. CASE StoreFailed \/ SourceFailed \/ ServerFails
    <2>1. server' = "error" /\ UNCHANGED <<left, mochi, spoilt, received>>
      BY <1>19 DEF StoreFailed, SourceFailed, ServerFails, GiveUp
    <2> QED
      BY <1>0, <1>4, <2>1
  <1>20. CASE StoreStep
    <2>1. UNCHANGED serverVars /\ taken' = taken /\ (user = "ok" => user' = "ok")
      BY <1>20 DEF StoreStep, Progress, PartEnds, PartFailed, Flushed, Finish, Complete, CompleteFails
    <2> QED
      BY <1>0, <1>4, <2>1 DEF serverVars
  <1> QED
    BY <1>6, <1>7, <1>8, <1>9, <1>10, <1>11, <1>12, <1>13, <1>14, <1>15, <1>16, <1>17, <1>18, <1>19,
       <1>20 DEF TransferNext, ClientStep, ServerStep

\* What satm keeps stays right.
LEMMA SenderStep == ASSUME BodyInv, [TransferNext]_tvars PROVE SenderInv'
  <1> DEFINE Keyed == Keys \union {None}
             Stages == {"sign", "post", "apply", "form", "head", "send", "digest", "close", "wait",
                        "ok", "failed"}
             Ready == {"sign", "post", "apply", "form"}
  <1>0. /\ SenderInv /\ KeyInv /\ ClientPlace /\ wire \in Seq(Piecemeal) /\ read \in Nat
        /\ Files \in Nat \ {0} /\ Window \in Nat
        /\ server = "ok" => Len(received) = Files
    BY TransferAssumption DEF BodyInv, UploadInv, WireInv, ReceiverInv
  <1>1. ASSUME NEW piece, Put(piece) PROVE Len(wire') <= Window
    <2>1. wire' = Append(wire, piece) /\ Len(wire) < Window
      BY <1>1 DEF Put
    <2>2. Len(wire') = Len(wire) + 1
      BY <1>0, <2>1
    <2> QED
      BY <1>0, <2>1, <2>2
  <1>2. CASE StartFile \/ (\E n \in Reads : ReadChunk(n)) \/ EndOfFile \/ SendDigest \/ CloseForm
    <2>1. /\ UNCHANGED <<key, mgr, sig, up, server, received>>
          /\ client \in {"head", "send", "digest", "close"}
          /\ client' \in {"head", "send", "digest", "close", "wait"}
      BY <1>2 DEF StartFile, ReadChunk, EndOfFile, SendDigest, CloseForm, serverVars
    <2>2. Len(wire') <= Window
      BY <1>1, <1>2 DEF StartFile, ReadChunk, EndOfFile, SendDigest, CloseForm
    <2>3. server # "off"
      BY <1>0, <2>1 DEF SenderInv, Sending
    <2>4. client' = "head" => read' = 0
      BY <1>2, <2>1 DEF StartFile, ReadChunk, EndOfFile, SendDigest, CloseForm
    <2>5. client' \in {"close", "wait"} => at' = Files
      <3>1. CASE SendDigest
        BY <1>0, <3>1 DEF SendDigest, KeyInv
      <3>2. CASE ~SendDigest
        BY <1>0, <1>2, <3>2 DEF StartFile, ReadChunk, EndOfFile, CloseForm, SenderInv
      <3> QED
        BY <3>1, <3>2
    <2> QED
      BY <1>0, <2>1, <2>2, <2>3, <2>4, <2>5 DEF SenderInv, Sending
  <1>3. CASE PostHeaders \/ SignHeaders \/ ApplySignature \/ SigningFails \/ ChangeKey
    <2>1. client \in Ready /\ server = "off" /\ received = <<>> /\ wire = <<>> /\ read = 0
      BY <1>0, <1>3 DEF PostHeaders, SignHeaders, ApplySignature, SigningFails, ChangeKey, ClientPlace,
         SenderInv
    <2>2. server' = server /\ received' = received /\ wire' = wire /\ up' = up /\ read' = 0
      BY <1>3, <2>1 DEF PostHeaders, SignHeaders, ApplySignature, SigningFails, ChangeKey, Exit,
         serverVars, clientVars
    <2>3. client' \in Ready \union {"failed"}
      BY <1>0, <1>3, <2>1 DEF PostHeaders, SignHeaders, ApplySignature, SigningFails, ChangeKey, Exit,
         clientVars
    <2>4. client' \in {"sign", "post", "form", "failed"} => at' = 1
      BY <1>0, <1>3 DEF PostHeaders, SignHeaders, ApplySignature, SigningFails, ChangeKey, Exit,
         clientVars, SenderInv
    <2>5. key' \in Keyed /\ mgr' \in Keyed
      BY <1>0, <1>3 DEF PostHeaders, SignHeaders, ApplySignature, SigningFails, ChangeKey, Exit,
         clientVars, SenderInv
    <2>6. sig' \in [1 .. Files -> Keyed]
      <3>1. sig' = sig \/ sig' = [sig EXCEPT ![at] = mgr]
        BY <1>3 DEF PostHeaders, SignHeaders, ApplySignature, SigningFails, ChangeKey, Exit, clientVars,
           Signature
      <3> QED
        BY <1>0, <3>1 DEF SenderInv
    <2> QED
      BY <1>0, <2>1, <2>2, <2>3, <2>4, <2>5, <2>6 DEF SenderInv, Sending
  <1>4. CASE SendRequest
    <2>1. client = "form" /\ client' = "head" /\ server' = "next"
          /\ UNCHANGED <<key, mgr, sig, at, read, wire, up, received>>
      BY <1>4 DEF SendRequest
    <2> QED
      BY <1>0, <2>1 DEF SenderInv, Sending
  <1>5. CASE Answer
    <2>1. /\ client' \in {"ok", "failed"} /\ at' = 1 /\ read' = 0 /\ mgr' \in {mgr, None}
          /\ server' = "off" /\ wire' = <<>> /\ UNCHANGED <<key, sig, up>>
          /\ client' = "ok" => server = "ok" /\ received' = received
          /\ up
      BY <1>5 DEF Answer, Exit, HandlerEnds
    <2>2. Len(wire') <= Window
      BY <1>0, <2>1
    <2> QED
      BY <1>0, <2>1, <2>2 DEF SenderInv, Sending
  <1>6. CASE Break
    <2>1. /\ client' = "failed" /\ at' = 1 /\ read' = 0 /\ mgr' \in {mgr, None} /\ up' = FALSE
          /\ UNCHANGED <<key, sig, wire, server, received>>
      BY <1>6 DEF Break, Exit, serverVars
    <2> QED
      BY <1>0, <2>1 DEF SenderInv, Sending
  <1>7. CASE Retry
    <2>1. /\ client = "failed" /\ client' = "sign" /\ up' = TRUE /\ received' = <<>>
          /\ server = "off" /\ UNCHANGED <<key, mgr, sig, at, read, wire, server>>
      BY <1>7 DEF Retry
    <2> QED
      BY <1>0, <2>1 DEF SenderInv, Sending
  <1>8. ASSUME NEW i \in 1 .. Window, Spoil(i) PROVE SenderInv'
    <2>1. /\ UNCHANGED <<key, mgr, sig, client, at, read, up, server, received>>
          /\ i \in DOMAIN wire /\ wire' = [wire EXCEPT ![i].bad = TRUE]
      BY <1>8 DEF Spoil, clientVars, serverVars
    <2>2. Len(wire') = Len(wire) /\ (wire # <<>>)
      BY <1>0, <2>1
    <2> QED
      BY <1>0, <2>1, <2>2 DEF SenderInv, Sending
  <1>9. CASE ServerStep \/ ServerFails \/ StoreStep \/ UNCHANGED tvars
    <2>1. UNCHANGED <<key, mgr, sig, client, at, read, up>>
      BY <1>9 DEF ServerStep, OpenWriter, CopyChunk, TempTakes, EndOfField, Shutdown, CloseTemp, CheckCsum,
         EndOfForm, Indexed, StoreFailed, SourceFailed, Unheard, ServerFails, GiveUp, StoreStep,
         clientVars, tvars
    <2>2. CASE UNCHANGED <<wire, server, received>>
      BY <1>0, <2>1, <2>2 DEF SenderInv, Sending
    <2>3. CASE /\ server \notin {"off", "ok"} /\ server' # "off"
               /\ wire' = wire \/ (wire # <<>> /\ wire' = Tail(wire))
      <3>1. Len(wire') <= Window
        BY <1>0, <2>3 DEF SenderInv
      <3>2. client \notin {"sign", "post", "apply", "form", "ok"}
        BY <1>0, <2>3 DEF ClientPlace, SenderInv
      <3> QED
        BY <1>0, <2>1, <2>3, <3>1, <3>2 DEF SenderInv, Sending
    <2>4. CASE Unheard
      <3>1. ~up /\ server # "off" /\ server' = "off" /\ wire' = <<>> /\ received' \in {received, <<>>}
        BY <2>4 DEF Unheard, HandlerEnds
      <3>2. ~Sending
        BY <1>0, <3>1 DEF SenderInv, Sending
      <3> QED
        BY <1>0, <2>1, <3>1, <3>2 DEF SenderInv, Sending, ClientPlace
    <2>5. CASE OpenWriter \/ CopyChunk \/ EndOfField \/ CheckCsum \/ EndOfForm
      BY <2>3, <2>5 DEF OpenWriter, CopyChunk, EndOfField, CheckCsum, EndOfForm, Arrives
    <2>6. CASE \/ (\E n \in {1, left} : TempTakes(n)) \/ Shutdown \/ CloseTemp \/ Indexed
               \/ StoreFailed \/ SourceFailed \/ ServerFails
      BY <2>3, <2>6 DEF TempTakes, Shutdown, CloseTemp, Indexed, StoreFailed, SourceFailed, ServerFails,
         GiveUp, serverVars
    <2>7. CASE StoreStep \/ UNCHANGED tvars
      BY <2>2, <2>7 DEF StoreStep, tvars, serverVars
    <2> QED
      BY <1>9, <2>4, <2>5, <2>6, <2>7 DEF ServerStep
  <1> QED
    BY <1>2, <1>3, <1>4, <1>5, <1>6, <1>7, <1>8, <1>9 DEF TransferNext, ClientStep

\* Two points are the same if their parts are.
LEMMA PointParts ==
    ASSUME NEW w, NEW d, NEW n
    PROVE At(w, d, n).at = w /\ At(w, d, n).done = d /\ At(w, d, n).n = n
  BY DEF At

\* satm sends what leads on from where it is.
LEMMA SendLeads ==
    ASSUME KeyInv, SenderInv, read \in Nat, NEW p \in Point, ClientAt(p),
           NEW piece \in Piecemeal,
           \/ StartFile /\ piece = [is |-> "file"]
           \/ \E n \in Reads : ReadChunk(n) /\ piece = [is |-> "data", n |-> n, bad |-> FALSE]
           \/ EndOfFile /\ piece = [is |-> "end"]
           \/ SendDigest /\ piece = [is |-> "digest", n |-> read]
           \/ CloseForm /\ piece = [is |-> "close"]
    PROVE \E q \in Point : Leads(p, piece, q) /\ ClientAt(q)'
  <1>0. at \in 1 .. Files /\ Files \in Nat \ {0} /\ at - 1 \in 0 .. Files /\ at - 1 < Files
    BY TransferAssumption DEF KeyInv
  <1>1. \A w \in {"next", "data", "digest", "end"}, d \in 0 .. Files, n \in Nat : At(w, d, n) \in Point
    BY DEF At, Point
  <1>2. CASE StartFile /\ piece = [is |-> "file"]
    <2>0. PICK q \in Point : q = At("data", at - 1, 0)
      BY <1>0, <1>1
    <2>1. p = At("next", at - 1, 0) /\ client' = "send" /\ at' = at /\ read' = 0
      BY <1>2 DEF StartFile, ClientAt, SenderInv
    <2>2. p.at = "next" /\ p.done = at - 1 /\ piece.is = "file"
      BY <1>2, <2>1, PointParts
    <2>3. Leads(p, piece, q)
      BY <1>0, <2>0, <2>2 DEF Leads
    <2>4. ClientAt(q)'
      BY <2>0, <2>1 DEF ClientAt
    <2> QED
      BY <2>3, <2>4
  <1>3. ASSUME NEW n \in Reads, ReadChunk(n), piece = [is |-> "data", n |-> n, bad |-> FALSE]
        PROVE \E q \in Point : Leads(p, piece, q) /\ ClientAt(q)'
    <2>0. PICK q \in Point : q = At("data", at - 1, read + n)
      <3>1. read + n \in Nat
        BY TransferAssumption
      <3> QED
        BY <1>0, <1>1, <3>1
    <2>1. /\ p = At("data", at - 1, read) /\ client' = "send" /\ at' = at /\ read' = read + n
          /\ n \in Nat
      BY <1>3, TransferAssumption DEF ReadChunk, ClientAt
    <2>2. p.at = "data" /\ p.done = at - 1 /\ p.n = read /\ piece.is = "data" /\ piece.n = n
      BY <1>3, <2>1, PointParts
    <2>3. Leads(p, piece, q)
      BY <1>0, <2>0, <2>2 DEF Leads
    <2>4. ClientAt(q)'
      BY <2>0, <2>1 DEF ClientAt
    <2> QED
      BY <2>3, <2>4
  <1>4. CASE EndOfFile /\ piece = [is |-> "end"]
    <2>0. PICK q \in Point : q = At("digest", at - 1, read)
      BY <1>0, <1>1
    <2>1. p = At("data", at - 1, read) /\ client' = "digest" /\ at' = at /\ read' = read
      BY <1>4 DEF EndOfFile, ClientAt
    <2>2. p.at = "data" /\ p.done = at - 1 /\ p.n = read /\ piece.is = "end"
      BY <1>4, <2>1, PointParts
    <2>3. Leads(p, piece, q)
      BY <1>0, <2>0, <2>2 DEF Leads
    <2>4. ClientAt(q)'
      BY <2>0, <2>1 DEF ClientAt
    <2> QED
      BY <2>3, <2>4
  <1>5. CASE SendDigest /\ piece = [is |-> "digest", n |-> read]
    <2>0. PICK q \in Point : q = At("next", at, 0)
      BY <1>0, <1>1
    <2>1. p = At("digest", at - 1, read) /\ client = "digest"
      BY <1>5 DEF SendDigest, ClientAt
    <2>2. /\ p.at = "digest" /\ p.done = at - 1 /\ p.n = read /\ piece.is = "digest" /\ piece.n = read
          /\ at - 1 + 1 = at
      BY <1>0, <1>5, <2>1, PointParts
    <2>3. Leads(p, piece, q)
      BY <1>0, <2>0, <2>2 DEF Leads
    <2>4. ClientAt(q)'
      <3>1. CASE at < Files
        <4>1. client' = "head" /\ at' = at + 1 /\ read' = 0
          BY <1>5, <3>1 DEF SendDigest
        <4>2. at' - 1 = at
          BY <1>0, <4>1
        <4> QED
          BY <2>0, <4>1, <4>2 DEF ClientAt
      <3>2. CASE ~(at < Files)
        <4>1. client' = "close" /\ at = Files
          BY <1>0, <1>5, <3>2 DEF SendDigest
        <4> QED
          BY <2>0, <4>1 DEF ClientAt
      <3> QED
        BY <3>1, <3>2
    <2> QED
      BY <2>3, <2>4
  <1>6. CASE CloseForm /\ piece = [is |-> "close"]
    <2>0. PICK q \in Point : q = At("end", Files, 0)
      BY <1>0, <1>1
    <2>1. p = At("next", Files, 0) /\ client' = "wait"
      BY <1>6 DEF CloseForm, ClientAt
    <2>2. p.at = "next" /\ p.done = Files /\ piece.is = "close"
      BY <1>6, <2>1, PointParts
    <2>3. Leads(p, piece, q)
      BY <1>0, <2>0, <2>2 DEF Leads
    <2>4. ClientAt(q)'
      BY <2>0, <2>1 DEF ClientAt
    <2> QED
      BY <2>3, <2>4
  <1> QED
    BY <1>2, <1>3, <1>4, <1>5, <1>6

\* The handler goes where the piece it takes leads.
LEMMA TakeLeads ==
    ASSUME ReceiverInv, taken \in Nat, NEW p \in Point, NEW q \in Point, NEW piece,
           ServerAt(p), Leads(p, piece, q), piece = Head(wire),
           OpenWriter \/ CopyChunk \/ EndOfField \/ CheckCsum \/ EndOfForm,
           Serving'
    PROVE ServerAt(q)'
  <1>0. Len(received) \in Nat
    BY DEF ReceiverInv
  <1>1. CASE OpenWriter
    <2>1. /\ server = "next" /\ piece.is = "file" /\ server' = "copy" /\ taken' = 0
          /\ received' = received
      BY <1>1 DEF OpenWriter, Arrives, NewWriter
    <2>2. q = At("data", p.done, 0) /\ p = At("next", Len(received), 0)
      BY <2>1 DEF Leads, ServerAt
    <2> QED
      BY <2>1, <2>2, PointParts DEF ServerAt
  <1>2. CASE CopyChunk
    <2>1. /\ server = "copy" /\ piece.is = "data" /\ server' = "copy" /\ taken' = taken + piece.n
          /\ received' = received
      BY <1>2 DEF CopyChunk, Arrives, Write
    <2>2. q = At("data", p.done, p.n + piece.n) /\ p = At("data", Len(received), taken)
      BY <2>1 DEF Leads, ServerAt
    <2> QED
      BY <2>1, <2>2, PointParts DEF ServerAt
  <1>3. CASE EndOfField
    <2>1. /\ server = "copy" /\ piece.is = "end" /\ server' = "shut" /\ taken' = taken
          /\ received' = received
      BY <1>3 DEF EndOfField, Arrives, StartFlush, vars
    <2>2. q = At("digest", p.done, p.n) /\ p = At("data", Len(received), taken)
      BY <2>1 DEF Leads, ServerAt
    <2> QED
      BY <2>1, <2>2, PointParts DEF ServerAt
  <1>4. CASE CheckCsum
    <2>1. server = "check" /\ piece.is = "digest"
      BY <1>4 DEF CheckCsum, Arrives
    <2>2. server' = "next" /\ Len(received') = Len(received) + 1
      <3>1. SameHash
        BY <1>4 DEF CheckCsum, Serving
      <3>2. server' = "next" /\ \E c : received' = Append(received, c)
        BY <1>4, <3>1 DEF CheckCsum
      <3> QED
        BY <3>2 DEF ReceiverInv
    <2>3. q = At("next", p.done + 1, 0) /\ p = At("digest", Len(received), taken)
      BY <2>1 DEF Leads, ServerAt
    <2> QED
      BY <2>2, <2>3, PointParts DEF ServerAt
  <1>5. CASE EndOfForm
    <2>1. server = "next" /\ piece.is = "close" /\ server' = "index"
      BY <1>5 DEF EndOfForm, Arrives
    <2>2. q = At("end", Files, 0)
      BY <2>1 DEF Leads
    <2> QED
      BY <2>1, <2>2 DEF ServerAt
  <1> QED
    BY <1>1, <1>2, <1>3, <1>4, <1>5

\* What is on the way stays a way.
LEMMA WayStep == ASSUME BodyInv, [TransferNext]_tvars PROVE WayInv'
  <1> SUFFICES ASSUME Serving' PROVE (\E r : Trail(r, wire) /\ ServerAt(r[1]) /\ ClientAt(r[Len(r)]))'
    BY DEF WayInv
  <1>0. /\ wire \in Seq(Piecemeal) /\ read \in Nat /\ taken \in Nat /\ ClientPlace
        /\ KeyInv /\ SenderInv /\ ReceiverInv
    BY DEF BodyInv, UploadInv, WireInv, WriterInv, TypeOK
  <1>1. Serving => \E r : Trail(r, wire) /\ ServerAt(r[1]) /\ ClientAt(r[Len(r)])
    BY DEF BodyInv, WayInv
  <1>2. ASSUME Serving, wire' = wire, \A p : ServerAt(p) => ServerAt(p)', \A p : ClientAt(p) => ClientAt(p)'
        PROVE (\E r : Trail(r, wire) /\ ServerAt(r[1]) /\ ClientAt(r[Len(r)]))'
    <2>1. PICK r : Trail(r, wire) /\ ServerAt(r[1]) /\ ClientAt(r[Len(r)])
      BY <1>1, <1>2
    <2>2. Trail(r, wire') /\ ServerAt(r[1])' /\ ClientAt(r[Len(r)])'
      BY <1>2, <2>1
    <2> QED
      BY <2>2
  <1>3. ASSUME NEW piece \in Piecemeal, Put(piece), server' = server, taken' = taken, received' = received,
               \/ StartFile /\ piece = [is |-> "file"]
               \/ \E n \in Reads : ReadChunk(n) /\ piece = [is |-> "data", n |-> n, bad |-> FALSE]
               \/ EndOfFile /\ piece = [is |-> "end"]
               \/ SendDigest /\ piece = [is |-> "digest", n |-> read]
               \/ CloseForm /\ piece = [is |-> "close"]
        PROVE (\E r : Trail(r, wire) /\ ServerAt(r[1]) /\ ClientAt(r[Len(r)]))'
    <2>1. Serving
      BY <1>3 DEF Serving
    <2>2. PICK r : Trail(r, wire) /\ ServerAt(r[1]) /\ ClientAt(r[Len(r)])
      BY <1>1, <2>1
    <2>3. r[Len(r)] \in Point /\ Len(r) >= 1
      <3>1. r \in Seq(Point) /\ Len(r) = Len(wire) + 1
        BY <2>2 DEF Trail
      <3>2. Len(wire) \in Nat
        BY <1>0
      <3> QED
        BY <3>1, <3>2
    <2>4. PICK q \in Point : Leads(r[Len(r)], piece, q) /\ ClientAt(q)'
      BY <1>0, <1>3, <2>2, <2>3, SendLeads
    <2>5. wire' = Append(wire, piece)
      BY <1>3 DEF Put
    <2> DEFINE s == Append(r, q)
    <2>6. Trail(s, wire') /\ s[1] = r[1] /\ s[Len(s)] = q
      <3>1. Trail(r, wire) /\ Leads(r[Len(r)], piece, q) /\ wire \in Seq(Piecemeal)
        BY <1>0, <2>2, <2>4
      <3>2. /\ Trail(Append(r, q), Append(wire, piece))
            /\ Append(r, q)[1] = r[1]
            /\ Append(r, q)[Len(Append(r, q))] = q
        BY <3>1, TrailGrows
      <3> QED
        BY <2>5, <3>2
    <2>7. ServerAt(r[1])'
      BY <1>3, <2>2 DEF ServerAt
    <2> HIDE DEF s
    <2>8. PICK z : z = s
      OBVIOUS
    <2>9. Trail(z, wire') /\ ServerAt(z[1])' /\ ClientAt(z[Len(z)])'
      BY <2>4, <2>6, <2>7, <2>8
    <2> QED
      BY <2>9
  <1>4. CASE StartFile
    <2>1. [is |-> "file"] \in Piecemeal
      BY DEF Piecemeal
    <2> QED
      BY <1>3, <1>4, <2>1 DEF StartFile, serverVars, vars
  <1>5. ASSUME NEW n \in Reads, ReadChunk(n)
        PROVE (\E r : Trail(r, wire) /\ ServerAt(r[1]) /\ ClientAt(r[Len(r)]))'
    <2>1. [is |-> "data", n |-> n, bad |-> FALSE] \in Piecemeal
      BY TransferAssumption DEF Piecemeal
    <2> QED
      BY <1>3, <1>5, <2>1 DEF ReadChunk, serverVars, vars
  <1>6. CASE EndOfFile
    <2>1. [is |-> "end"] \in Piecemeal
      BY DEF Piecemeal
    <2> QED
      BY <1>3, <1>6, <2>1 DEF EndOfFile, serverVars, vars
  <1>7. CASE SendDigest
    <2>1. [is |-> "digest", n |-> read] \in Piecemeal
      BY <1>0 DEF Piecemeal
    <2> QED
      BY <1>3, <1>7, <2>1 DEF SendDigest, serverVars, vars
  <1>8. CASE CloseForm
    <2>1. [is |-> "close"] \in Piecemeal
      BY DEF Piecemeal
    <2> QED
      BY <1>3, <1>8, <2>1 DEF CloseForm, serverVars, vars
  <1>9. CASE OpenWriter \/ CopyChunk \/ EndOfField \/ CheckCsum \/ EndOfForm
    <2>1. Serving /\ wire # <<>> /\ wire' = Tail(wire) /\ UNCHANGED <<client, at, read>>
      BY <1>9 DEF Serving, OpenWriter, CopyChunk, EndOfField, CheckCsum, EndOfForm, Arrives, clientVars
    <2>2. PICK r : Trail(r, wire) /\ ServerAt(r[1]) /\ ClientAt(r[Len(r)])
      BY <1>1, <2>1
    <2> DEFINE s == Tail(r)
    <2>3. /\ Leads(r[1], Head(wire), r[2]) /\ Trail(s, wire') /\ s[1] = r[2]
          /\ s[Len(s)] = r[Len(r)] /\ r[1] \in Point /\ r[2] \in Point
      BY <1>0, <2>1, <2>2, TrailPasses
    <2>4. ServerAt(r[2])'
      BY <1>0, <1>9, <2>2, <2>3, TakeLeads
    <2>5. ClientAt(r[Len(r)])'
      BY <2>1, <2>2 DEF ClientAt
    <2> HIDE DEF s
    <2>6. PICK z : z = s
      OBVIOUS
    <2>7. Trail(z, wire') /\ ServerAt(z[1])' /\ ClientAt(z[Len(z)])'
      BY <2>3, <2>4, <2>5, <2>6
    <2> QED
      BY <2>7
  <1>10. ASSUME NEW i \in 1 .. Window, Spoil(i)
         PROVE (\E r : Trail(r, wire) /\ ServerAt(r[1]) /\ ClientAt(r[Len(r)]))'
    <2> DEFINE new == [wire[i] EXCEPT !.bad = TRUE]
    <2>1. /\ i \in DOMAIN wire /\ wire[i].is = "data" /\ wire' = [wire EXCEPT ![i] = new]
          /\ UNCHANGED <<client, at, read, server, taken, received>>
      BY <1>10 DEF Spoil, clientVars, serverVars, vars
    <2>2. wire[i] \in [is : {"data"}, n : Nat, bad : BOOLEAN]
      <3>1. wire[i] \in Piecemeal
        BY <1>0, <2>1
      <3> QED
        BY <2>1, <3>1 DEF Piecemeal
    <2>3. new.is = wire[i].is /\ new.n = wire[i].n
      BY <2>2
    <2> HIDE DEF new
    <2>4. /\ Len(wire') = Len(wire)
          /\ \A j \in 1 .. Len(wire) : wire'[j] = IF j = i THEN new ELSE wire[j]
      BY <1>0, <2>1
    <2>5. \A j \in 1 .. Len(wire) : wire'[j].is = wire[j].is /\ wire'[j].n = wire[j].n
      BY <2>3, <2>4
    <2>6. Serving
      BY <2>1 DEF Serving
    <2>7. PICK r : Trail(r, wire) /\ ServerAt(r[1]) /\ ClientAt(r[Len(r)])
      BY <1>1, <2>6
    <2>8. Trail(r, wire')
      BY <2>4, <2>5, <2>7, TrailKeeps
    <2>9. ServerAt(r[1])' /\ ClientAt(r[Len(r)])'
      BY <2>1, <2>7 DEF ServerAt, ClientAt
    <2> QED
      BY <2>8, <2>9
  <1>11. CASE SendRequest
    <2>1. /\ client' = "head" /\ server' = "next" /\ wire' = wire /\ wire = <<>> /\ received' = received
          /\ received = <<>> /\ at' = 1 /\ at = 1
      BY <1>0, <1>11 DEF SendRequest, ClientPlace, SenderInv
    <2>2. PICK p : p = At("next", 0, 0)
      OBVIOUS
    <2>3. p \in Point
      BY <2>2, TransferAssumption DEF Point, At
    <2>4. PICK r : r = <<p>>
      OBVIOUS
    <2>5. r \in Seq(Point) /\ Len(r) = 1 /\ r[1] = p
      BY <2>3, <2>4
    <2>6. Trail(r, wire')
      BY <2>1, <2>5 DEF Trail
    <2>7. ServerAt(p)'
      BY <2>1, <2>2 DEF ServerAt
    <2>8. ClientAt(p)'
      BY <2>1, <2>2 DEF ClientAt
    <2> QED
      BY <2>5, <2>6, <2>7, <2>8
  <1>12. CASE Answer \/ Unheard
    BY <1>12 DEF Answer, Unheard, HandlerEnds, Serving
  <1>13. CASE StoreFailed \/ SourceFailed \/ ServerFails
    BY <1>13 DEF StoreFailed, SourceFailed, ServerFails, GiveUp, Serving
  <1>14. CASE PostHeaders \/ SignHeaders \/ ApplySignature \/ SigningFails \/ Retry
    <2>1. server = "off" /\ server' = server
      BY <1>0, <1>14 DEF PostHeaders, SignHeaders, ApplySignature, SigningFails, Retry, ClientPlace,
         serverVars
    <2> QED
      BY <2>1 DEF Serving
  <1>15. CASE ChangeKey \/ Break \/ UNCHANGED tvars
    <2>1. /\ UNCHANGED <<server, received, taken, wire>>
          /\ UNCHANGED <<client, at, read>> \/ client' = "failed"
      BY <1>15 DEF ChangeKey, Break, Exit, tvars, vars, clientVars, serverVars
    <2> QED
      BY <1>2, <2>1 DEF Serving, ServerAt, ClientAt
  <1>16. CASE (\E n \in {1, left} : TempTakes(n)) \/ Shutdown \/ CloseTemp \/ Indexed \/ StoreStep
    <2>1. UNCHANGED <<client, at, read, wire, received>>
      BY <1>16 DEF TempTakes, Shutdown, CloseTemp, Indexed, StoreStep, clientVars, serverVars
    <2>2. taken' = taken
      BY <1>16 DEF TempTakes, Shutdown, StartShutdown, CloseTemp, Indexed, StoreStep, Progress, PartEnds,
         PartFailed, Flushed, Finish, Complete, CompleteFails, vars
    <2>3. \/ server' = server
          \/ server = "shut" /\ server' = "check"
          \/ server = "index" /\ server' = "ok"
      BY <1>16 DEF TempTakes, Shutdown, CloseTemp, Indexed, StoreStep, serverVars
    <2> QED
      BY <1>2, <2>1, <2>2, <2>3 DEF Serving, ServerAt, ClientAt
  <1> QED
    BY <1>4, <1>5, <1>6, <1>7, <1>8, <1>9, <1>10, <1>11, <1>12, <1>13, <1>14, <1>15, <1>16
    DEF TransferNext, ClientStep, ServerStep

\* BodyInv is inductive, ...
LEMMA BodyStep == BodyInv /\ [TransferNext]_tvars => BodyInv'
  <1> SUFFICES ASSUME BodyInv, [TransferNext]_tvars PROVE BodyInv'
    OBVIOUS
  <1>1. UploadInv' /\ KeyInv'
    BY UploadStep, KeyStep DEF BodyInv
  <1> QED
    BY <1>1, SenderStep, ReceiverStep, WayStep DEF BodyInv

\* ... and so it holds throughout.
LEMMA BodyInvariant == TransferSpec => []BodyInv
  BY BodyInit, BodyStep, PTL DEF TransferSpec

\* Every variable of an upload has its type, the request is no longer than its bound,
\* and the writer has ended, or is new, whenever no file is copied.
THEOREM UploadTyping == TransferSpec => []Typing
  <1>1. BodyInv => Typing
    <2> SUFFICES ASSUME BodyInv PROVE Typing
      OBVIOUS
    <2>1. TypeOK /\ wire \in Seq(Piecemeal) /\ read \in Nat /\ at \in 1 .. Files
      BY DEF BodyInv, UploadInv, WriterInv, WireInv, KeyInv
    <2>2. server \in {"copy", "shut"} \/ user \in {"writing", "ok", "failed"}
      BY DEF BodyInv, UploadInv, WriterPlace
    <2> QED
      BY <2>1, <2>2 DEF BodyInv, SenderInv, ReceiverInv, Typing
  <1> QED
    BY <1>1, BodyInvariant, PTL

\* If satm reports success, the store shows and the server indexed, for every rpm, the
\* bytes that satm read, unchanged and in full: through every way to cut files into
\* reads, chunks, writes and parts, every failure, and any number of attempts.
THEOREM SuccessIsIntact == TransferSpec => []AcknowledgedIsIntact
  <1>1. BodyInv => AcknowledgedIsIntact
    BY DEF BodyInv, SenderInv, ReceiverInv, Intact, AcknowledgedIsIntact
  <1> QED
    BY <1>1, BodyInvariant, PTL

\* A checksum that does not match means that a byte was changed on the way.
THEOREM RefusalsHaveCause == TransferSpec => []RefusedForCause
  <1>1. BodyInv => RefusedForCause
    BY DEF BodyInv, ReceiverInv, RefusedForCause
  <1> QED
    BY <1>1, BodyInvariant, PTL


===============================================================================
