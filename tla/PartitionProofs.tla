--------------------------- MODULE PartitionProofs ---------------------------
(***************************************************************************)
(* What is cut up is cut up exactly: for every size and every unit.        *)
(***************************************************************************)
EXTENDS Partition, TLAPS

-----------------------------------------------------------------------------
\* Division with remainder.
LEMMA Euclid ==
  ASSUME NEW a \in Nat, NEW b \in Nat \ {0}
  PROVE  /\ a \div b \in Nat /\ a % b \in 0..(b - 1)
         /\ a = b * (a \div b) + (a % b)
OBVIOUS

LEMMA Times ==
  ASSUME NEW c \in Nat, NEW a \in Nat, NEW b \in Nat, a < b
  PROVE  c * a + c <= c * b /\ c * a \in Nat /\ c * b \in Nat
<1>1. c * (a + 1) = c * a + c
  OBVIOUS
<1>2. PICK d \in Nat : b = a + 1 + d
  <2>1. b - (a + 1) \in Nat /\ b = a + 1 + (b - (a + 1))
    OBVIOUS
  <2> QED BY <2>1
<1>3. c * b = c * (a + 1) + c * d /\ c * d \in Nat
  BY <1>2
<1> QED BY <1>1, <1>3

\* Where piece n + 1 begins: not behind the end of the whole.
LEMMA Offsets ==
  ASSUME NEW size \in Nat, NEW unit \in Nat \ {0}
  PROVE  /\ NumPieces(size, unit) \in Nat
         /\ \A n \in 1..NumPieces(size, unit) : offset(n, unit) \in Nat /\ offset(n, unit) < size
         /\ \A n \in 1..NumPieces(size, unit) :
              n < NumPieces(size, unit) => offset(n, unit) + unit <= size
         /\ size <= unit * NumPieces(size, unit)
<1> DEFINE q == size \div unit
           r == size % unit
           k == NumPieces(size, unit)
<1>1. q \in Nat /\ r \in 0..(unit - 1) /\ size = unit * q + r
  BY Euclid
<1>2. k = q + (IF r = 0 THEN 0 ELSE 1)
  BY DEF NumPieces
<1> HIDE DEF q, r, k
<1>3. k \in Nat /\ unit * q \in Nat
  BY <1>1, <1>2
<1>4. ASSUME NEW n \in 1..k
      PROVE  /\ offset(n, unit) = unit * (n - 1) /\ unit * (n - 1) \in Nat
             /\ offset(n, unit) < size
             /\ n < k => offset(n, unit) + unit <= size
  <2>1. n - 1 \in Nat /\ n - 1 <= q
    BY <1>1, <1>2, <1>3
  <2>2. offset(n, unit) = unit * (n - 1) /\ unit * (n - 1) \in Nat
    BY <2>1 DEF offset
  <2>3. CASE n - 1 < q
    <3>1. unit * (n - 1) + unit <= unit * q
      BY <1>1, <2>1, <2>3, Times
    <3> QED BY <1>1, <1>3, <2>2, <3>1
  <2>4. CASE n - 1 = q
    <3>1. k = q + 1 /\ r > 0 /\ ~(n < k)
      BY <1>1, <1>2, <1>3, <2>1, <2>4
    <3> QED BY <1>1, <1>3, <2>2, <2>4, <3>1
  <2> QED BY <1>1, <2>1, <2>3, <2>4
<1>5. size <= unit * k
  <2>1. CASE r = 0
    BY <1>1, <1>2, <1>3, <2>1
  <2>2. CASE r # 0
    <3>1. unit * q + unit <= unit * k
      BY <1>1, <1>2, <2>2, Times
    <3> QED BY <1>1, <1>3, <2>2, <3>1
  <2> QED BY <2>1, <2>2
<1> QED BY <1>3, <1>4, <1>5 DEF k

-----------------------------------------------------------------------------
\* No piece is empty or too long, none reaches over the end, and only the last may
\* be short (file_compressor, start_upload, download_segment_task).
THEOREM PiecesFit ==
  ASSUME NEW size \in Nat, NEW unit \in Nat \ {0}, NEW n \in 1..NumPieces(size, unit)
  PROVE  /\ length(n, size, unit) \in 1..unit
         /\ offset(n, unit) + length(n, size, unit) <= size
         /\ n < NumPieces(size, unit) => length(n, size, unit) = unit
<1>1. /\ offset(n, unit) \in Nat /\ offset(n, unit) < size
      /\ n < NumPieces(size, unit) => offset(n, unit) + unit <= size
  BY Offsets
<1> QED BY <1>1 DEF length, AtMost

\* No byte is sent, read or written twice: two pieces have none in common.
THEOREM PiecesAreApart ==
  ASSUME NEW size \in Nat, NEW unit \in Nat \ {0},
         NEW m \in 1..NumPieces(size, unit), NEW n \in 1..NumPieces(size, unit), m # n
  PROVE  Piece(m, size, unit) \cap Piece(n, size, unit) = {}
<1>1. ASSUME NEW i \in 1..NumPieces(size, unit), NEW j \in 1..NumPieces(size, unit), i < j
      PROVE  Piece(i, size, unit) \cap Piece(j, size, unit) = {}
  <2>1. NumPieces(size, unit) \in Nat /\ offset(i, unit) \in Nat /\ offset(j, unit) \in Nat
    BY Offsets
  <2>2. offset(i, unit) + unit <= offset(j, unit)
    <3>1. unit * (i - 1) + unit <= unit * (j - 1)
      BY <1>1, <2>1, Times
    <3> QED BY <3>1 DEF offset
  <2>3. length(i, size, unit) \in 1..unit /\ length(j, size, unit) \in 1..unit
    BY PiecesFit
  <2> QED BY <2>1, <2>2, <2>3 DEF Piece
<1>2. NumPieces(size, unit) \in Nat
  BY Offsets
<1> QED BY <1>1, <1>2

\* No byte is forgotten: each is in a piece, the one its offset tells.
THEOREM PiecesCover ==
  ASSUME NEW size \in Nat, NEW unit \in Nat \ {0}, NEW x \in 0..(size - 1)
  PROVE  \E n \in 1..NumPieces(size, unit) : x \in Piece(n, size, unit)
<1> DEFINE q == x \div unit
           k == NumPieces(size, unit)
<1>1. q \in Nat /\ x % unit \in 0..(unit - 1) /\ x = unit * q + (x % unit)
  <2>1. x \in Nat
    OBVIOUS
  <2> QED BY <2>1, Euclid
<1>2. k \in Nat /\ size <= unit * k
  BY Offsets
<1> HIDE DEF q, k
<1>3. q < k
  <2> SUFFICES ASSUME k <= q PROVE FALSE
    BY <1>1, <1>2
  <2>1. unit * k <= unit * q
    <3>1. CASE k = q
      BY <1>2, <3>1
    <3>2. CASE k < q
      BY <1>1, <1>2, <3>2, Times
    <3> QED BY <1>1, <1>2, <3>1, <3>2
  <2>2. unit * q \in Nat /\ unit * k \in Nat
    BY <1>1, <1>2
  <2> QED BY <1>1, <1>2, <2>1, <2>2
<1>4. q + 1 \in 1..k
  BY <1>1, <1>2, <1>3
<1>5. offset(q + 1, unit) = unit * q
  BY <1>1 DEF offset
<1>6. unit * q \in Nat
  BY <1>1
<1>7. x \in Piece(q + 1, size, unit)
  BY <1>1, <1>5, <1>6 DEF Piece, length, AtMost
<1> QED BY <1>4, <1>7 DEF k

-----------------------------------------------------------------------------
\* A pump asks for at least one segment and for at most half of them, so that two
\* pumps never wait for each other's; with a single segment in flight it would ask
\* for none, and the loop of start_upload would not get on.
THEOREM PumpsAreSmall ==
  ASSUME NEW number \in Nat, NEW io_capability \in Nat \ {0}, NEW max_in_flight \in Nat \ {0}
  PROVE  LET n == num_per_pump(number, io_capability, max_in_flight) IN
         /\ max_in_flight > 1 => n \in 1..(max_in_flight \div 2)
         /\ max_in_flight = 1 => n = 0
<1>1. number \div io_capability \in Nat
  BY Euclid
<1>2. max_in_flight \div 2 \in Nat /\ (max_in_flight > 1 => max_in_flight \div 2 >= 1)
  OBVIOUS
<1>3. max_in_flight = 1 => max_in_flight \div 2 = 0
  OBVIOUS
<1> QED BY <1>1, <1>2, <1>3 DEF num_per_pump, AtMost

\* The size of a block is the quotient of that of the file and of the number of
\* blocks asked for, and not less than the least worth compressing
\* (file_compressor::operator()).
LEMMA BlockSize ==
  ASSUME NEW file_sz \in Nat, NEW minimal \in Nat \ {0}, NEW cpu_capability \in Nat \ {0},
         file_sz > minimal
  PROVE  LET e == AtMost(file_sz \div minimal, cpu_capability)
             size == block_sz(file_sz, minimal, cpu_capability)
         IN  /\ e \in Nat \ {0} /\ e <= cpu_capability
             /\ size \in Nat /\ size >= minimal
             /\ file_sz % e \in 0..(e - 1) /\ file_sz = e * size + (file_sz % e)
<1> DEFINE e == AtMost(file_sz \div minimal, cpu_capability)
           size == file_sz \div e
<1>1. /\ file_sz \div minimal \in Nat
      /\ file_sz % minimal \in 0..(minimal - 1)
      /\ file_sz = minimal * (file_sz \div minimal) + (file_sz % minimal)
  BY Euclid
<1>2. file_sz \div minimal # 0
  BY <1>1
<1>3. e \in Nat \ {0} /\ e <= file_sz \div minimal /\ e <= cpu_capability
  BY <1>1, <1>2 DEF AtMost
<1>4. minimal * e <= file_sz /\ minimal * e \in Nat
  <2>1. minimal * e <= minimal * (file_sz \div minimal)
    <3>1. CASE e = file_sz \div minimal
      BY <1>1, <3>1
    <3>2. CASE e < file_sz \div minimal
      BY <1>1, <1>3, <3>2, Times
    <3> QED BY <1>1, <1>3, <3>1, <3>2
  <2>2. minimal * e \in Nat /\ minimal * (file_sz \div minimal) \in Nat
    BY <1>1, <1>3
  <2> QED BY <1>1, <2>1, <2>2
<1> HIDE DEF e
<1>5. /\ size \in Nat /\ file_sz % e \in 0..(e - 1)
      /\ file_sz = e * size + (file_sz % e)
  BY <1>3, Euclid
<1> HIDE DEF size
<1>6. size >= minimal
  <2> SUFFICES ASSUME size < minimal PROVE FALSE
    BY <1>5
  <2>1. e * size + e <= e * minimal /\ e * size \in Nat /\ e * minimal \in Nat
    BY <1>3, <1>5, Times
  <2>2. e * minimal = minimal * e
    BY <1>3
  <2>3. e * size + e <= file_sz
    <3>1. e * size + e <= minimal * e
      BY <2>1, <2>2
    <3>2. e * size + e \in Nat
      BY <1>3, <2>1
    <3> QED BY <1>4, <3>1, <3>2
  <2>4. PICK rest \in 0..(e - 1) : file_sz = e * size + rest
    BY <1>5
  <2> QED BY <1>3, <2>1, <2>3, <2>4
<1> QED BY <1>3, <1>5, <1>6 DEF block_sz, size, e

\* No block but the last is smaller than the least worth compressing, and there is at
\* most one more than processors are meant for.  The last takes the remainder of the
\* division and can be a single byte (file_compressor::operator()).
THEOREM BlocksAreFew ==
  ASSUME NEW file_sz \in Nat, NEW minimal \in Nat \ {0}, NEW cpu_capability \in Nat \ {0},
         file_sz > minimal
  PROVE  LET size == block_sz(file_sz, minimal, cpu_capability)
             num_blocks == NumPieces(file_sz, size)
         IN  /\ \A b \in 1..(num_blocks - 1) : length(b, file_sz, size) >= minimal
             /\ cpu_capability <= minimal => num_blocks <= cpu_capability + 1
<1> DEFINE e == AtMost(file_sz \div minimal, cpu_capability)
           size == block_sz(file_sz, minimal, cpu_capability)
<1>1. /\ e \in Nat \ {0} /\ e <= cpu_capability
      /\ size \in Nat /\ size >= minimal
      /\ file_sz % e \in 0..(e - 1) /\ file_sz = e * size + (file_sz % e)
  BY BlockSize
<1> HIDE DEF e, size
<1>2. ASSUME cpu_capability <= minimal PROVE NumPieces(file_sz, size) <= e + 1
  <2> DEFINE k == NumPieces(file_sz, size)
  <2>1. size \in Nat \ {0}
    BY <1>1
  <2>2. k \in Nat /\ \A n \in 1..k : offset(n, size) < file_sz
    BY <2>1, Offsets
  <2> HIDE DEF k
  <2> SUFFICES ASSUME k > e + 1 PROVE FALSE
    BY <1>1, <2>2 DEF k
  <2>3. e + 2 \in 1..k
    BY <1>1, <2>2
  <2>4. offset(e + 2, size) = e * size + size
    <3>1. (e + 2) - 1 = e + 1 /\ size * (e + 1) = size * e + size /\ size * e = e * size
      BY <1>1
    <3> QED BY <3>1 DEF offset
  <2>5. e * size \in Nat
    BY <1>1
  <2> QED BY <1>1, <1>2, <2>2, <2>3, <2>4, <2>5
<1>3. cpu_capability <= minimal => NumPieces(file_sz, size) <= cpu_capability + 1
  <2>1. size \in Nat \ {0}
    BY <1>1
  <2>2. NumPieces(file_sz, size) \in Nat
    BY <2>1, Offsets
  <2> QED BY <1>1, <1>2, <2>2
<1>4. ASSUME NEW b \in 1..(NumPieces(file_sz, size) - 1)
      PROVE  length(b, file_sz, size) >= minimal
  <2>1. size \in Nat \ {0}
    BY <1>1
  <2>2. NumPieces(file_sz, size) \in Nat
    BY <2>1, Offsets
  <2>3. b \in 1..NumPieces(file_sz, size) /\ b < NumPieces(file_sz, size)
    BY <2>2
  <2>4. length(b, file_sz, size) = size
    BY <2>1, <2>3, PiecesFit
  <2> QED BY <1>1, <2>4
<1> QED BY <1>3, <1>4 DEF size
=============================================================================
