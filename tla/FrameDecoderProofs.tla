------------------------- MODULE FrameDecoderProofs -------------------------
(***************************************************************************)
(* For every sequence of bytes, every buffer size and every 16-bit         *)
(* checksum: the decoder keeps the bounds of its buffer, a message that is *)
(* encoded and decoded is the same message, and a frame that begins while  *)
(* the decoder searches and is not damaged is found.                       *)
(***************************************************************************)
EXTENDS FrameLink, WellFoundedInduction, SequenceTheorems, TLAPS

-----------------------------------------------------------------------------
(* Induction over the natural numbers, from the fact that < is well-founded. *)

LEMMA LeastNumber ==
  ASSUME NEW T, T \subseteq Nat, T # {}
  PROVE  \E x \in T : \A y \in T : x <= y
<1> DEFINE R == {p \in Nat \X Nat : p[1] < p[2]}
<1>1. IsWellFoundedOn(R, Nat)
  BY NatLessThanWellFounded DEF OpToRel
<1>2. \A y, x \in Nat : y < x => <<y, x>> \in R
  OBVIOUS
<1> HIDE DEF R
<1>3. PICK x \in T : \A y \in T : <<y, x>> \notin R
  BY <1>1, WFMin
<1>4. ASSUME NEW y \in T PROVE x <= y
  <2>1. x \in Nat /\ y \in Nat /\ ~(y < x)
    BY <1>2, <1>3
  <2> QED BY <2>1
<1> QED BY <1>3, <1>4

LEMMA SetInduction ==
  ASSUME NEW S, 0 \in S, \A n \in Nat : n \in S => n + 1 \in S
  PROVE  \A n \in Nat : n \in S
<1> SUFFICES ASSUME NEW z \in Nat, z \notin S PROVE FALSE
  OBVIOUS
<1> DEFINE T == {n \in Nat : n \notin S}
<1>1. T \subseteq Nat /\ z \in T
  OBVIOUS
<1>2. \A n \in Nat : n \in T <=> n \notin S
  OBVIOUS
<1> HIDE DEF T
<1>3. PICK x \in T : \A y \in T : x <= y
  BY <1>1, LeastNumber
<1>4. x \in Nat /\ x # 0 /\ x \notin S
  BY <1>1, <1>2, <1>3
<1>5. x - 1 \in Nat /\ ~(x <= x - 1) /\ (x - 1) + 1 = x
  BY <1>4
<1>6. x - 1 \in S
  BY <1>2, <1>3, <1>5
<1> QED BY <1>4, <1>5, <1>6

-----------------------------------------------------------------------------
(* The checksum, byte by byte. *)

\* A set of checksums.
Closed(Crcs) ==
  /\ CrcInitial \in Crcs
  /\ \A crc \in Crcs, byte \in Byte : CrcUpdate(crc, byte) \in Crcs

\* The checksums of the beginnings of bytes.
RunningCrc(bytes) ==
  LET crc[n \in 0 .. Len(bytes)] ==
        IF n = 0 THEN CrcInitial ELSE CrcUpdate(crc[n - 1], bytes[n])
  IN crc

IsRunning(f, bytes, k) ==
  f = [n \in 0 .. k |-> IF n = 0 THEN CrcInitial ELSE CrcUpdate(f[n - 1], bytes[n])]

LEMMA RunningThere ==
  ASSUME NEW bytes
  PROVE  \A k \in Nat : \E f : IsRunning(f, bytes, k)
<1> DEFINE S == {k \in Nat : \E f : IsRunning(f, bytes, k)}
<1>1. 0 \in S
  <2> DEFINE f == [n \in 0 .. 0 |-> CrcInitial]
  <2>1. IsRunning(f, bytes, 0)
    BY DEF IsRunning
  <2> QED BY <2>1
<1>2. ASSUME NEW k \in Nat, k \in S PROVE k + 1 \in S
  <2>1. PICK f : IsRunning(f, bytes, k)
    BY <1>2
  <2> DEFINE g == [n \in 0 .. k + 1 |-> IF n = k + 1 THEN CrcUpdate(f[k], bytes[k + 1])
                                                     ELSE f[n]]
  <2>2. ASSUME NEW n \in 0 .. k + 1
        PROVE  g[n] = IF n = 0 THEN CrcInitial ELSE CrcUpdate(g[n - 1], bytes[n])
    <3>1. CASE n = k + 1
      <4>1. n # 0 /\ n - 1 = k /\ k \in 0 .. k + 1 /\ k # k + 1
        BY <3>1
      <4> QED BY <3>1, <4>1
    <3>2. CASE n \in 0 .. k
      <4>1. f[n] = IF n = 0 THEN CrcInitial ELSE CrcUpdate(f[n - 1], bytes[n])
        BY <2>1, <3>2 DEF IsRunning
      <4>2. n # k + 1 /\ (n # 0 => n - 1 \in 0 .. k + 1 /\ n - 1 # k + 1)
        BY <3>2
      <4> QED BY <4>1, <4>2
    <3> QED BY <3>1, <3>2
  <2>3. IsRunning(g, bytes, k + 1)
    BY <2>2 DEF IsRunning
  <2> QED BY <2>3
<1> HIDE DEF S
<1>3. \A k \in Nat : k \in S
  BY <1>1, <1>2, SetInduction
<1> QED BY <1>3 DEF S

LEMMA RunningCrcIs ==
  ASSUME NEW bytes, Len(bytes) \in Nat
  PROVE  IsRunning(RunningCrc(bytes), bytes, Len(bytes))
<1>1. \E f : IsRunning(f, bytes, Len(bytes))
  BY RunningThere
<1> QED BY <1>1 DEF IsRunning, RunningCrc

LEMMA CrcIs == ASSUME NEW bytes PROVE Crc(bytes) = RunningCrc(bytes)[Len(bytes)]
 BY DEF Crc, RunningCrc

LEMMA CrcSteps ==
  ASSUME NEW bytes \in Seq(Byte)
  PROVE  LET crc == RunningCrc(bytes)
         IN /\ crc[0] = CrcInitial
            /\ \A n \in 1 .. Len(bytes) : crc[n] = CrcUpdate(crc[n - 1], bytes[n])
            /\ Crc(bytes) = crc[Len(bytes)]
<1> DEFINE crc == RunningCrc(bytes)
<1>1. Len(bytes) \in Nat
  OBVIOUS
<1>2. IsRunning(crc, bytes, Len(bytes))
  BY <1>1, RunningCrcIs
<1>3. Crc(bytes) = crc[Len(bytes)]
  BY CrcIs
<1> HIDE DEF crc
<1>4. ASSUME NEW n \in 0 .. Len(bytes)
      PROVE  crc[n] = IF n = 0 THEN CrcInitial ELSE CrcUpdate(crc[n - 1], bytes[n])
  BY <1>2 DEF IsRunning
<1>5. 0 \in 0 .. Len(bytes) /\ \A n \in 1 .. Len(bytes) : n \in 0 .. Len(bytes) /\ n # 0
  BY <1>1
<1>6. /\ crc[0] = CrcInitial
      /\ \A n \in 1 .. Len(bytes) : crc[n] = CrcUpdate(crc[n - 1], bytes[n])
  BY <1>4, <1>5
<1> QED BY <1>3, <1>6 DEF crc

LEMMA CrcIsWord ==
  ASSUME Closed(Word16), NEW bytes \in Seq(Byte)
  PROVE  Crc(bytes) \in Word16
<1> DEFINE crc == RunningCrc(bytes)
           S == {n \in Nat : n <= Len(bytes) => crc[n] \in Word16}
<1>1. /\ crc[0] = CrcInitial
      /\ \A n \in 1 .. Len(bytes) : crc[n] = CrcUpdate(crc[n - 1], bytes[n])
      /\ Crc(bytes) = crc[Len(bytes)]
  BY CrcSteps
<1> HIDE DEF crc
<1>2. 0 \in S
  BY <1>1 DEF Closed
<1>3. ASSUME NEW n \in Nat, n \in S PROVE n + 1 \in S
  <2>1. SUFFICES ASSUME n + 1 <= Len(bytes) PROVE crc[n + 1] \in Word16
    OBVIOUS
  <2>2. n <= Len(bytes) /\ n + 1 \in 1 .. Len(bytes) /\ (n + 1) - 1 = n
    BY <2>1
  <2>3. bytes[n + 1] \in Byte
    BY <2>2
  <2>4. crc[n + 1] = CrcUpdate(crc[n], bytes[n + 1])
    BY <1>1, <2>2
  <2>5. crc[n] \in Word16
    BY <1>3, <2>2
  <2> QED BY <2>3, <2>4, <2>5 DEF Closed
<1> HIDE DEF S
<1>4. \A n \in Nat : n \in S
  BY <1>2, <1>3, SetInduction
<1>5. Len(bytes) \in Nat
  OBVIOUS
<1>6. Len(bytes) \in S
  BY <1>4, <1>5
<1> QED BY <1>1, <1>5, <1>6 DEF S

-----------------------------------------------------------------------------
(* What the encoder builds and what decoding it gives. *)

LEMMA WordOfBytes ==
  ASSUME NEW n \in Word16
  PROVE  /\ n \div 256 \in Byte /\ n % 256 \in Byte
         /\ Word(n \div 256, 0) + (n % 256) = n /\ Word(n \div 256, n % 256) = n
  BY DEF Word16, Byte, Word

LEMMA SmallerWord ==
  ASSUME NEW n \in Word16, NEW k \in Nat, k <= n
  PROVE  k \in Word16
<1>1. k \div 256 \in Nat /\ n \div 256 \in Nat /\ k \div 256 <= n \div 256
  BY DEF Word16
<1> QED BY <1>1 DEF Word16, Byte

LEMMA BigEndianIs ==
  ASSUME NEW n \in Word16
  PROVE  /\ BigEndian(n) \in Seq(Byte) /\ Len(BigEndian(n)) = 2
         /\ BigEndian(n)[1] = n \div 256 /\ BigEndian(n)[2] = n % 256
  BY WordOfBytes DEF BigEndian

LEMMA Joined ==
  ASSUME NEW a \in Seq(Byte), NEW x \in Seq(Byte)
  PROVE  /\ a \o x \in Seq(Byte) /\ Len(a \o x) = Len(a) + Len(x)
         /\ \A i \in 1 .. Len(a) : (a \o x)[i] = a[i]
         /\ \A i \in 1 .. Len(x) : (a \o x)[Len(a) + i] = x[i]
  OBVIOUS

LEMMA NumberAppended ==
  ASSUME NEW a \in Seq(Byte), NEW n \in Word16
  PROVE  LET c == a \o BigEndian(n)
         IN /\ c \in Seq(Byte) /\ Len(c) = Len(a) + 2
            /\ \A i \in 1 .. Len(a) : c[i] = a[i]
            /\ c[Len(a) + 1] = n \div 256 /\ c[Len(a) + 2] = (n % 256)
<1> DEFINE x == BigEndian(n)
           c == a \o x
<1>1. /\ x \in Seq(Byte) /\ Len(x) = 2
      /\ x[1] = n \div 256 /\ x[2] = n % 256
  BY BigEndianIs
<1>2. x \in Seq(Byte) /\ c = a \o x
  BY <1>1
<1> HIDE DEF x, c
<1>3. /\ c \in Seq(Byte) /\ Len(c) = Len(a) + Len(x)
      /\ \A i \in 1 .. Len(a) : c[i] = a[i]
      /\ \A i \in 1 .. Len(x) : c[Len(a) + i] = x[i]
  BY <1>2, Joined
<1>4. 1 \in 1 .. Len(x) /\ 2 \in 1 .. Len(x)
  BY <1>1
<1>5. /\ c \in Seq(Byte) /\ Len(c) = Len(a) + 2
      /\ \A i \in 1 .. Len(a) : c[i] = a[i]
      /\ c[Len(a) + 1] = n \div 256 /\ c[Len(a) + 2] = (n % 256)
  BY <1>1, <1>3, <1>4
<1> QED BY <1>5 DEF c, x

LEMMA CoveredIs ==
  ASSUME NEW t \in Byte, NEW s \in Word16, NEW p \in Seq(Byte), Len(p) \in Word16
  PROVE  LET c == Covered(t, s, p)
         IN /\ c \in Seq(Byte) /\ Len(c) = 6 + Len(p)
            /\ c[1] = Version /\ c[2] = t
            /\ c[3] = s \div 256 /\ c[4] = (s % 256)
            /\ c[5] = Len(p) \div 256 /\ c[6] = (Len(p) % 256)
            /\ \A j \in 1 .. Len(p) : c[6 + j] = p[j]
<1> DEFINE a == <<Version, t>>
           b == a \o BigEndian(s)
           e == b \o BigEndian(Len(p))
           c == Covered(t, s, p)
<1>1. a \in Seq(Byte) /\ Len(a) = 2 /\ a[1] = Version /\ a[2] = t
  BY DEF Version, Byte
<1>2. c = e \o p
  BY DEF Covered
<1> HIDE DEF a, c
<1>3. /\ b \in Seq(Byte) /\ Len(b) = Len(a) + 2 /\ \A i \in 1 .. Len(a) : b[i] = a[i]
      /\ b[Len(a) + 1] = s \div 256 /\ b[Len(a) + 2] = s % 256
  BY <1>1, NumberAppended
<1>4. /\ b \in Seq(Byte) /\ Len(b) = 4 /\ b[1] = Version /\ b[2] = t
      /\ b[3] = s \div 256 /\ b[4] = s % 256
  BY <1>1, <1>3
<1> HIDE DEF b
<1>9. b \in Seq(Byte)
  BY <1>3
<1>5. /\ e \in Seq(Byte) /\ Len(e) = Len(b) + 2 /\ \A i \in 1 .. Len(b) : e[i] = b[i]
      /\ e[Len(b) + 1] = Len(p) \div 256 /\ e[Len(b) + 2] = Len(p) % 256
  BY <1>9, NumberAppended
<1> HIDE DEF e
<1>6. /\ e \in Seq(Byte) /\ Len(e) = 6 /\ e[1] = Version /\ e[2] = t
      /\ e[3] = s \div 256 /\ e[4] = s % 256
      /\ e[5] = Len(p) \div 256 /\ e[6] = Len(p) % 256
  BY <1>4, <1>5
<1>10. e \in Seq(Byte)
  BY <1>6
<1>7. /\ c \in Seq(Byte) /\ Len(c) = Len(e) + Len(p)
      /\ \A i \in 1 .. Len(e) : c[i] = e[i]
      /\ \A i \in 1 .. Len(p) : c[Len(e) + i] = p[i]
  BY <1>2, <1>10, Joined
<1>8. /\ c \in Seq(Byte) /\ Len(c) = 6 + Len(p)
      /\ c[1] = Version /\ c[2] = t
      /\ c[3] = s \div 256 /\ c[4] = (s % 256)
      /\ c[5] = Len(p) \div 256 /\ c[6] = (Len(p) % 256)
      /\ \A j \in 1 .. Len(p) : c[6 + j] = p[j]
  BY <1>6, <1>7
<1> QED BY <1>8 DEF c

LEMMA Coded == 
  /\ TypeCode["COMMAND"] = 1 /\ TypeCode["RESPONSE"] = 2 /\ TypeCode["ACK"] = 3
  /\ TypeCode.COMMAND = 1 /\ TypeCode.RESPONSE = 2 /\ TypeCode.ACK = 3
  /\ StatusCode["ACCEPTED"] = 0 /\ StatusCode["IN_PROGRESS"] = 1
  /\ StatusCode["OUT_OF_ORDER"] = 2
  BY DEF TypeCode, StatusCode

LEMMA FrameLayout ==
  ASSUME Closed(Word16), NEW t \in Byte, NEW s \in Word16, NEW p \in Seq(Byte),
         Len(p) \in Word16
  PROVE  LET f == EncodeFrame(t, s, p)
             c == Covered(t, s, p)
         IN /\ f \in Seq(Byte) /\ Len(f) = 10 + Len(p)
            /\ f[1] = Magic0 /\ f[2] = Magic1
            /\ \A i \in 1 .. 6 + Len(p) : f[i + 2] = c[i]
            /\ f[9 + Len(p)] = Crc(c) \div 256 /\ f[10 + Len(p)] = (Crc(c) % 256)
<1> DEFINE c == Covered(t, s, p)
           a == <<Magic0, Magic1>>
           b == a \o c
           f == b \o BigEndian(Crc(c))
<1>1. a \in Seq(Byte) /\ Len(a) = 2 /\ a[1] = Magic0 /\ a[2] = Magic1
  BY DEF Magic0, Magic1, Byte
<1>2. c \in Seq(Byte) /\ Len(c) = 6 + Len(p) /\ Len(p) \in Nat
  <2>1. c \in Seq(Byte) /\ Len(c) = 6 + Len(p)
    BY CoveredIs
  <2>2. Len(p) \in Nat
    OBVIOUS
  <2> QED BY <2>1, <2>2
<1>3. EncodeFrame(t, s, p) = f
  BY DEF EncodeFrame
<1> HIDE DEF c, a
<1>4. Crc(c) \in Word16
  BY <1>2, CrcIsWord
<1>5. /\ b \in Seq(Byte) /\ Len(b) = Len(a) + Len(c)
      /\ \A i \in 1 .. Len(a) : b[i] = a[i]
      /\ \A i \in 1 .. Len(c) : b[Len(a) + i] = c[i]
  BY <1>1, <1>2, Joined
<1> HIDE DEF b
<1>11. b \in Seq(Byte)
  BY <1>5
<1>6. /\ f \in Seq(Byte) /\ Len(f) = Len(b) + 2
      /\ \A i \in 1 .. Len(b) : f[i] = b[i]
      /\ f[Len(b) + 1] = Crc(c) \div 256 /\ f[Len(b) + 2] = (Crc(c) % 256)
  BY <1>4, <1>11, NumberAppended
<1> HIDE DEF f
<1>7. Len(b) = 8 + Len(p)
  BY <1>1, <1>2, <1>5
<1>8. ASSUME NEW i \in 1 .. 6 + Len(p) PROVE f[i + 2] = c[i]
  <2>1. i + 2 \in 1 .. Len(b) /\ i + 2 = Len(a) + i /\ i \in 1 .. Len(c)
    BY <1>1, <1>2, <1>7
  <2> QED BY <1>5, <1>6, <2>1
<1>9. f[1] = Magic0 /\ f[2] = Magic1
  <2>1. 1 \in 1 .. Len(b) /\ 2 \in 1 .. Len(b) /\ 1 \in 1 .. Len(a) /\ 2 \in 1 .. Len(a)
    BY <1>1, <1>2, <1>7
  <2> QED BY <1>1, <1>5, <1>6, <2>1
<1>10. Len(f) = 10 + Len(p) /\ Len(b) + 1 = 9 + Len(p) /\ Len(b) + 2 = 10 + Len(p)
  BY <1>2, <1>6, <1>7
<1> QED BY <1>3, <1>6, <1>8, <1>9, <1>10 DEF c

LEMMA Sizes == MaxPayload \in Word16 /\ MaxPayload \in Nat /\ \A q \in Seqs : q \in Word16
<1>1. MaxPayload \in Word16 /\ Seqs \subseteq Word16
  BY CodecAssumption DEF CodecAssumption
<1> QED BY <1>1 DEF Word16

LEMMA AckEncoded ==
  ASSUME NEW st \in AckStatus, NEW n \in Word16
  PROVE  LET p == <<StatusCode[st]>> \o IF st = "OUT_OF_ORDER" THEN BigEndian(n) ELSE <<>>
         IN /\ p \in Seq(Byte) /\ p[1] = StatusCode[st]
            /\ Len(p) = IF st = "OUT_OF_ORDER" THEN 3 ELSE 1
            /\ st = "OUT_OF_ORDER" => Word(p[2], p[3]) = n
<1> DEFINE a == <<StatusCode[st]>>
           x == a \o BigEndian(n)
<1>1. StatusCode[st] \in Byte
  BY Coded DEF AckStatus, Byte
<1>2. a \in Seq(Byte) /\ Len(a) = 1 /\ a[1] = StatusCode[st] /\ a \o <<>> = a
  BY <1>1
<1> HIDE DEF a
<1>8. a \in Seq(Byte)
  BY <1>2
<1>3. /\ x \in Seq(Byte) /\ Len(x) = Len(a) + 2
      /\ \A i \in 1 .. Len(a) : x[i] = a[i]
      /\ x[Len(a) + 1] = n \div 256 /\ x[Len(a) + 2] = (n % 256)
  BY <1>8, NumberAppended
<1> HIDE DEF x
<1>4. /\ x \in Seq(Byte) /\ Len(x) = 3 /\ x[1] = StatusCode[st]
      /\ x[2] = n \div 256 /\ x[3] = (n % 256)
  BY <1>2, <1>3
<1>5. Word(x[2], x[3]) = n
  <2> HIDE DEF x
  <2>1. Word(n \div 256, n % 256) = n
    BY WordOfBytes
  <2> QED BY <1>4, <2>1
<1>6. CASE st = "OUT_OF_ORDER"
  BY <1>4, <1>5, <1>6 DEF x, a
<1>7. CASE st # "OUT_OF_ORDER"
  BY <1>2, <1>7 DEF a
<1> QED BY <1>6, <1>7

LEMMA AckDecoded ==
  ASSUME NEW f, NEW st \in AckStatus, NEW n \in Word16,
         f.payload \in Seq(Byte), f.payload[1] = StatusCode[st],
         Len(f.payload) = IF st = "OUT_OF_ORDER" THEN 3 ELSE 1,
         st = "OUT_OF_ORDER" => Word(f.payload[2], f.payload[3]) = n
  PROVE  DecodeAck(f) = AckFrame(f.sequence, st, n)
<1> DEFINE statuses == {s \in AckStatus :
                          f.payload # <<>> /\ StatusCode[s] = f.payload[1]}
<1>1. f.payload # <<>>
  OBVIOUS
<1>2. \A q \in AckStatus : StatusCode[q] = f.payload[1] <=> q = st
  BY Coded DEF AckStatus
<1>3. statuses = {st}
  BY <1>1, <1>2
<1>4. (CHOOSE s \in statuses : TRUE) = st
  BY <1>3
<1>5. CASE st = "OUT_OF_ORDER"
  <2>1. DecodeAck(f) = AckFrame(f.sequence, st, Word(f.payload[2], f.payload[3]))
    BY <1>3, <1>4, <1>5 DEF DecodeAck
  <2> QED BY <1>5, <2>1
<1>6. CASE st # "OUT_OF_ORDER"
  <2>1. DecodeAck(f) = AckFrame(f.sequence, st, 0)
    BY <1>3, <1>4, <1>6 DEF DecodeAck
  <2> QED BY <1>6, <2>1 DEF AckFrame
<1> QED BY <1>5, <1>6

LEMMA MessageEncoded ==
  ASSUME NEW m \in WireMessages, Encodable(m)
  PROVE  LET p == PayloadOf(m)
             f == [type |-> TypeCode[m.type], sequence |-> m.sequence, payload |-> p]
         IN /\ TypeCode[m.type] \in Byte /\ m.sequence \in Word16
            /\ p \in Seq(Byte) /\ Len(p) <= MaxPayload /\ Len(p) \in Word16
            /\ Decode(f) = m
<1> DEFINE p == PayloadOf(m)
           f == [type |-> TypeCode[m.type], sequence |-> m.sequence, payload |-> p]
<1>1. Len(p) <= MaxPayload
  BY DEF Encodable
<1>2. f.type = TypeCode[m.type] /\ f.sequence = m.sequence /\ f.payload = p
  OBVIOUS
<1> HIDE DEF f
<1> DEFINE Good == /\ TypeCode[m.type] \in 1 .. 3 /\ m.sequence \in Seqs
                   /\ p \in Seq(Byte) /\ Decode(f) = m
<1>3. ASSUME m \in [type : {"COMMAND"}, sequence : Seqs, payload : Seq(Byte)]
      PROVE  Good
  <2>1. /\ m = CommandFrame(m.sequence, m.payload) /\ m.type = "COMMAND"
        /\ m.sequence \in Seqs /\ m.payload \in Seq(Byte)
    BY <1>3 DEF CommandFrame
  <2>2. p = m.payload
    BY <2>1 DEF PayloadOf
  <2> HIDE DEF p
  <2>3. Decode(f) = CommandFrame(f.sequence, f.payload)
    BY <1>2, <2>1, Coded DEF Decode
  <2> QED BY <1>2, <2>1, <2>2, <2>3, Coded
<1>4. ASSUME m \in [type : {"RESPONSE"}, sequence : Seqs, result : Seq(Byte) \ {<<>>}]
      PROVE  Good
  <2>1. /\ m = ResponseFrame(m.sequence, m.result) /\ m.type = "RESPONSE"
        /\ m.sequence \in Seqs /\ m.result \in Seq(Byte) /\ m.result # <<>>
    BY <1>4 DEF ResponseFrame
  <2>2. p = m.result
    BY <2>1 DEF PayloadOf
  <2> HIDE DEF p
  <2>3. Len(f.payload) \in 1 .. MaxPayload
    BY <1>1, <1>2, <2>1, <2>2, Sizes
  <2>4. f.type = 2
    BY <1>2, <2>1, Coded
  <2>5. Decode(f) = ResponseFrame(f.sequence, f.payload)
    BY <2>3, <2>4, Coded DEF Decode, DecodeResponse
  <2> QED BY <1>2, <2>1, <2>2, <2>4, <2>5
<1>5. ASSUME m \in {x \in AckFrames : x.status # "OUT_OF_ORDER" => x.expected = 0}
      PROVE  Good
  <2>1. /\ m.type = "ACK" /\ m.sequence \in Seqs /\ m.status \in AckStatus
        /\ m.expected \in Seqs
        /\ m = AckFrame(m.sequence, m.status, m.expected)
    BY <1>5 DEF AckFrame, AckFrames
  <2>2. p = <<StatusCode[m.status]>> \o
            IF m.status = "OUT_OF_ORDER" THEN BigEndian(m.expected) ELSE <<>>
    BY <2>1 DEF PayloadOf
  <2>3. m.expected \in Word16
    BY <2>1, Sizes
  <2> HIDE DEF p
  <2>4. /\ p \in Seq(Byte) /\ p[1] = StatusCode[m.status]
        /\ Len(p) = IF m.status = "OUT_OF_ORDER" THEN 3 ELSE 1
        /\ m.status = "OUT_OF_ORDER" => Word(p[2], p[3]) = m.expected
    BY <2>1, <2>2, <2>3, AckEncoded
  <2>5. DecodeAck(f) = AckFrame(f.sequence, m.status, m.expected)
    BY <1>2, <2>1, <2>3, <2>4, AckDecoded
  <2>6. f.type = 3
    BY <1>2, <2>1, Coded
  <2>7. Decode(f) = DecodeAck(f)
    BY <2>6, Coded DEF Decode
  <2> QED BY <1>2, <2>1, <2>4, <2>5, <2>6, <2>7
<1>6. Good
  BY <1>3, <1>4, <1>5 DEF WireMessages
<1>7. /\ TypeCode[m.type] \in Byte /\ m.sequence \in Word16
      /\ p \in Seq(Byte) /\ Decode(f) = m
  BY <1>6, Sizes DEF Byte
<1>8. Len(p) \in Nat
  BY <1>7
<1> HIDE DEF p, Good
<1>9. Len(p) \in Word16
  BY <1>1, <1>8, Sizes, SmallerWord
<1> QED BY <1>1, <1>7, <1>9 DEF f, p

LEMMA FrameIsBytes ==
  ASSUME Closed(Word16), NEW m \in WireMessages, Encodable(m)
  PROVE  Encode(m) \in Seq(Byte)
<1>1. /\ TypeCode[m.type] \in Byte /\ m.sequence \in Word16
      /\ PayloadOf(m) \in Seq(Byte) /\ Len(PayloadOf(m)) \in Word16
  BY MessageEncoded
<1>2. EncodeFrame(TypeCode[m.type], m.sequence, PayloadOf(m)) \in Seq(Byte)
  BY <1>1, FrameLayout
<1> QED BY <1>2 DEF Encode

-----------------------------------------------------------------------------
(* The bounds of the decoder's buffer. *)

States == SearchStates \cup HeaderStates \cup {"READ_PAYLOAD"} \cup CrcStates

\* The ProtocolFrameDecoder structures.
Decoders(Crcs) ==
  [state : States, type : Nat, sequence : Nat, payload_length : Nat,
   payload : Seq(Byte), received_crc : Nat, calculated_crc : Crcs]

Sound(Crcs, d) == d \in Decoders(Crcs) /\ Consistent(d)


USE DEF States, SearchStates, HeaderStates, CrcStates

LEMMA BytesAreNumbers ==
  ASSUME NEW byte \in Byte
  PROVE  byte \in Nat /\ Word(byte, 0) \in Nat
  BY DEF Byte, Word

LEMMA RestartSound ==
  ASSUME NEW Crcs, Closed(Crcs), NEW d \in Decoders(Crcs),
         NEW s \in {"WAIT_MAGIC_0", "WAIT_MAGIC_1", "READ_VERSION"}
  PROVE  Sound(Crcs, Restart(d, s))
<1>1. <<>> \in Seq(Byte)
  OBVIOUS
<1> QED BY <1>1 DEF Restart, Sound, Decoders, Consistent, Closed

LEMMA ResetSearchSound ==
  ASSUME NEW Crcs, Closed(Crcs), NEW d \in Decoders(Crcs), NEW byte
  PROVE  Sound(Crcs, ResetSearch(d, byte))
  BY RestartSound DEF ResetSearch

LEMMA FindMagicSound ==
  ASSUME NEW Crcs, Closed(Crcs), NEW d, Sound(Crcs, d), d.state \in SearchStates,
         NEW byte \in Byte
  PROVE  Sound(Crcs, FindMagic(d, byte))
<1>1. Sound(Crcs, BeginFrame(d))
  <2>1. Sound(Crcs, Restart(d, "READ_VERSION")) /\ Restart(d, "READ_VERSION").payload = <<>>
        /\ Restart(d, "READ_VERSION").state = "READ_VERSION"
    <3>1. d \in Decoders(Crcs)
      BY DEF Sound
    <3>2. Sound(Crcs, Restart(d, "READ_VERSION"))
      BY <3>1, RestartSound
    <3>3. /\ Restart(d, "READ_VERSION").payload = <<>>
          /\ Restart(d, "READ_VERSION").state = "READ_VERSION"
      BY <3>1 DEF Restart, Decoders
    <3> QED BY <3>2, <3>3
  <2> QED BY <2>1 DEF BeginFrame, Sound, Decoders, Consistent
<1>2. /\ Sound(Crcs, [d EXCEPT !.state = "WAIT_MAGIC_1"])
      /\ Sound(Crcs, [d EXCEPT !.state = "WAIT_MAGIC_0"])
  BY DEF Sound, Decoders, Consistent
<1> QED BY <1>1, <1>2 DEF FindMagic

LEMMA AfterLengthSound ==
  ASSUME NEW Crcs, Closed(Crcs), NEW d \in Decoders(Crcs), d.payload = <<>>, NEW byte
  PROVE  Sound(Crcs, AfterLength(d, byte))
<1>0. MaxPayload \in Nat /\ d.payload_length \in Nat /\ Len(<<>>) = 0
  BY Sizes DEF Decoders
<1>1. CASE d.payload_length > MaxPayload
  BY <1>0, <1>1, ResetSearchSound DEF AfterLength
<1>2. CASE d.payload_length = 0
  <2>1. AfterLength(d, byte) = [d EXCEPT !.state = "READ_CRC_HIGH"]
    BY <1>0, <1>2 DEF AfterLength
  <2> QED BY <1>0, <1>2, <2>1 DEF Sound, Decoders, Consistent
<1>3. CASE 0 < d.payload_length /\ d.payload_length <= MaxPayload
  <2>1. AfterLength(d, byte) = [d EXCEPT !.payload = <<>>, !.state = "READ_PAYLOAD"]
    BY <1>0, <1>3 DEF AfterLength
  <2> QED BY <1>0, <1>3, <2>1 DEF Sound, Decoders, Consistent
<1> QED BY <1>0, <1>1, <1>2, <1>3

LEMMA ReadHeaderSound ==
  ASSUME NEW Crcs, Closed(Crcs), NEW d, Sound(Crcs, d), d.state \in HeaderStates,
         NEW byte \in Byte
  PROVE  Sound(Crcs, ReadHeader(d, byte))
<1> DEFINE r == [d EXCEPT !.calculated_crc = CrcUpdate(@, byte)]
<1>1. d \in Decoders(Crcs) /\ r \in Decoders(Crcs) /\ r.payload = <<>>
  BY DEF Sound, Decoders, Consistent, Closed
<1>2. byte \in Nat /\ Word(byte, 0) \in Nat
  BY BytesAreNumbers
<1> HIDE DEF r
<1>4. CASE d.state = "READ_VERSION"
  <2>1. Sound(Crcs, [r EXCEPT !.state = "READ_TYPE"])
    BY <1>1 DEF Decoders, Sound, Consistent
  <2>2. Sound(Crcs, ResetSearch(d, byte))
    BY <1>1, ResetSearchSound
  <2> QED BY <1>4, <2>1, <2>2 DEF ReadHeader, r
<1>5. CASE d.state = "READ_TYPE"
  <2>1. Sound(Crcs, [r EXCEPT !.type = byte, !.state = "READ_SEQUENCE_HIGH"])
    BY <1>1, <1>2 DEF Decoders, Sound, Consistent
  <2> QED BY <1>5, <2>1 DEF ReadHeader, r
<1>6. CASE d.state = "READ_SEQUENCE_HIGH"
  <2>1. Sound(Crcs, [r EXCEPT !.sequence = Word(byte, 0),
                              !.state = "READ_SEQUENCE_LOW"])
    BY <1>1, <1>2 DEF Decoders, Sound, Consistent
  <2> QED BY <1>6, <2>1 DEF ReadHeader, r
<1>7. CASE d.state = "READ_SEQUENCE_LOW"
  <2> DEFINE n == r.sequence + byte
  <2>0. n \in Nat
    BY <1>1, <1>2 DEF Decoders
  <2> HIDE DEF n
  <2>1. Sound(Crcs, [r EXCEPT !.sequence = n, !.state = "READ_LENGTH_HIGH"])
    BY <1>1, <2>0 DEF Decoders, Sound, Consistent
  <2> QED BY <1>7, <2>1 DEF ReadHeader, r, n
<1>8. CASE d.state = "READ_LENGTH_HIGH"
  <2>1. Sound(Crcs, [r EXCEPT !.payload_length = Word(byte, 0),
                              !.state = "READ_LENGTH_LOW"])
    BY <1>1, <1>2 DEF Decoders, Sound, Consistent
  <2> QED BY <1>8, <2>1 DEF ReadHeader, r
<1>9. CASE d.state = "READ_LENGTH_LOW"
  <2> DEFINE n == r.payload_length + byte
             e == [r EXCEPT !.payload_length = n]
  <2>0. n \in Nat
    BY <1>1, <1>2 DEF Decoders
  <2> HIDE DEF n
  <2>1. e \in Decoders(Crcs) /\ e.payload = <<>>
    BY <1>1, <2>0 DEF Decoders
  <2> HIDE DEF e
  <2>2. Sound(Crcs, AfterLength(e, byte))
    BY <2>1, AfterLengthSound
  <2> QED BY <1>9, <2>2 DEF ReadHeader, r, e, n
<1> QED BY <1>4, <1>5, <1>6, <1>7, <1>8, <1>9

LEMMA ReadPayloadSound ==
  ASSUME NEW Crcs, Closed(Crcs), NEW d, Sound(Crcs, d), d.state = "READ_PAYLOAD",
         NEW byte \in Byte
  PROVE  Sound(Crcs, ReadPayload(d, byte))
<1> DEFINE p == Append(d.payload, byte)
           s == IF Len(d.payload) + 1 >= d.payload_length
                THEN "READ_CRC_HIGH" ELSE "READ_PAYLOAD"
<1>1. /\ d \in Decoders(Crcs)
      /\ d.payload \in Seq(Byte) /\ d.payload_length \in Nat
      /\ Len(d.payload) < d.payload_length /\ d.payload_length <= MaxPayload
      /\ MaxPayload \in Nat
  BY Sizes DEF Sound, Consistent, Decoders
<1>2. p \in Seq(Byte) /\ Len(p) = Len(d.payload) + 1 /\ Len(d.payload) \in Nat
  BY <1>1
<1>3. ReadPayload(d, byte) =
        [d EXCEPT !.payload = p, !.calculated_crc = CrcUpdate(@, byte), !.state = s]
  BY DEF ReadPayload
<1>4. s \in {"READ_CRC_HIGH", "READ_PAYLOAD"}
      /\ (s = "READ_CRC_HIGH" => Len(p) = d.payload_length)
      /\ (s = "READ_PAYLOAD" => Len(p) < d.payload_length)
  BY <1>1, <1>2
<1> DEFINE crc == CrcUpdate(d.calculated_crc, byte)
<1>5. crc \in Crcs
  BY <1>1 DEF Closed, Decoders
<1> HIDE DEF p, s, crc
<1> DEFINE e == [d EXCEPT !.payload = p, !.calculated_crc = crc, !.state = s]
<1>6. e \in Decoders(Crcs) /\ e.payload = p /\ e.state = s
      /\ e.payload_length = d.payload_length
  BY <1>1, <1>2, <1>4, <1>5 DEF Decoders
<1> HIDE DEF e
<1>7. Consistent(e)
  BY <1>1, <1>2, <1>4, <1>6 DEF Consistent
<1>8. ReadPayload(d, byte) = e
  BY <1>3 DEF e, crc
<1> QED BY <1>6, <1>7, <1>8 DEF Sound

LEMMA ReadCrcSound ==
  ASSUME NEW Crcs, Closed(Crcs), NEW d, Sound(Crcs, d), d.state \in CrcStates,
         NEW byte \in Byte
  PROVE  Sound(Crcs, ReadCrc(d, byte))
<1>1. d \in Decoders(Crcs)
  BY DEF Sound
<1>2. CASE d.state = "READ_CRC_HIGH"
  <2>1. ReadCrc(d, byte) =
          [d EXCEPT !.received_crc = Word(byte, 0), !.state = "READ_CRC_LOW"]
    BY <1>2 DEF ReadCrc
  <2> QED BY <1>2, <2>1, BytesAreNumbers DEF Sound, Decoders, Consistent
<1>3. CASE d.state = "READ_CRC_LOW"
  <2>1. Sound(Crcs, DecoderReset(d)) /\ Sound(Crcs, ResetSearch(d, byte))
    BY <1>1, RestartSound, ResetSearchSound DEF DecoderReset
  <2> QED BY <1>3, <2>1 DEF ReadCrc
<1> QED BY <1>2, <1>3

\* init leaves a consistent decoder.
THEOREM StartSound ==
  ASSUME NEW Crcs, Closed(Crcs)
  PROVE  Sound(Crcs, DecoderStart)
<1>1. <<>> \in Seq(Byte)
  OBVIOUS
<1> QED BY <1>1 DEF Closed, DecoderStart, Sound, Decoders, Consistent

\* feed_byte never stores outside the payload buffer: whatever byte comes in
\* whatever state, the decoder stays consistent.
THEOREM FeedByteSound ==
  ASSUME NEW Crcs, Closed(Crcs), NEW d, Sound(Crcs, d), NEW byte \in Byte
  PROVE  Sound(Crcs, FeedByte(d, byte))
<1>1. d.state \in States
  BY DEF Sound, Consistent
<1>2. CASE d.state \in SearchStates
  BY <1>2, FindMagicSound DEF FeedByte
<1>3. CASE d.state \in HeaderStates
  BY <1>3, ReadHeaderSound DEF FeedByte
<1>4. CASE d.state = "READ_PAYLOAD"
  BY <1>4, ReadPayloadSound DEF FeedByte
<1>5. CASE d.state \in CrcStates
  BY <1>5, ReadCrcSound DEF FeedByte
<1> QED BY <1>1, <1>2, <1>3, <1>4, <1>5

\* A frame the decoder returns has the payload length its header announced,
\* and one that fits the buffer.
THEOREM ReturnedFrameFits ==
  ASSUME NEW Crcs, NEW d, Sound(Crcs, d), NEW byte \in Byte, FrameReady(d, byte)
  PROVE  /\ Len(FrameOf(d).payload) = d.payload_length
         /\ Len(FrameOf(d).payload) <= MaxPayload
  BY DEF FrameReady, FrameOf, Sound, Consistent

-----------------------------------------------------------------------------
(* The decoder on its way through a frame. *)

\* The checksum of a message after the first n bytes it covers.
Sum(t, s, p, n) == RunningCrc(Covered(t, s, p))[n]

\* Where the decoder is after k bytes of the frame of a message with type t,
\* sequence s and payload p: in the magic, in the header, in the payload, or
\* before the last byte.
InMagic(k, d) ==
  \/ k = 0 /\ d.state \in SearchStates
  \/ k = 1 /\ d.state = "WAIT_MAGIC_1"

InHeader(t, s, p, k, d) ==
  /\ k \in 2 .. 7
  /\ k = 2 => d.state = "READ_VERSION"
  /\ k = 3 => d.state = "READ_TYPE"
  /\ k = 4 => d.state = "READ_SEQUENCE_HIGH"
  /\ k = 5 => d.state = "READ_SEQUENCE_LOW" /\ d.sequence = Word(s \div 256, 0)
  /\ k = 6 => d.state = "READ_LENGTH_HIGH"
  /\ k = 7 => d.state = "READ_LENGTH_LOW" /\ d.payload_length = Word(Len(p) \div 256, 0)
  /\ k >= 4 => d.type = t
  /\ k >= 6 => d.sequence = s
  /\ d.calculated_crc = Sum(t, s, p, k - 2)

Known(t, s, p, d) == d.type = t /\ d.sequence = s /\ d.payload_length = Len(p)

InPayload(t, s, p, k, d) ==
  /\ k \in 8 .. 8 + Len(p)
  /\ d.state = IF k < 8 + Len(p) THEN "READ_PAYLOAD" ELSE "READ_CRC_HIGH"
  /\ Known(t, s, p, d)
  /\ Len(d.payload) = k - 8 /\ \A i \in 1 .. k - 8 : d.payload[i] = p[i]
  /\ d.calculated_crc = Sum(t, s, p, k - 2)

BeforeLast(t, s, p, k, d) ==
  /\ k = 9 + Len(p)
  /\ d.state = "READ_CRC_LOW"
  /\ Known(t, s, p, d) /\ d.payload = p
  /\ d.calculated_crc = Sum(t, s, p, 6 + Len(p))
  /\ d.received_crc = Word(d.calculated_crc \div 256, 0)

At(t, s, p, k, d) ==
  \/ InMagic(k, d)
  \/ InHeader(t, s, p, k, d)
  \/ InPayload(t, s, p, k, d)
  \/ BeforeLast(t, s, p, k, d)

AtMessage(m, k, d) == At(TypeCode[m.type], m.sequence, PayloadOf(m), k, d)

\* The parts of a message that fit a frame.
Parts(t, s, p) ==
  /\ t \in Byte /\ s \in Word16 /\ p \in Seq(Byte)
  /\ Len(p) \in Word16 /\ Len(p) <= MaxPayload

LEMMA SumSteps ==
  ASSUME NEW t, NEW s, NEW p, Parts(t, s, p)
  PROVE  /\ Sum(t, s, p, 0) = CrcInitial
         /\ \A n \in 1 .. 6 + Len(p) :
              Sum(t, s, p, n) = CrcUpdate(Sum(t, s, p, n - 1), Covered(t, s, p)[n])
         /\ Crc(Covered(t, s, p)) = Sum(t, s, p, 6 + Len(p))
<1> DEFINE c == Covered(t, s, p)
           crc == RunningCrc(c)
<1>1. c \in Seq(Byte) /\ Len(c) = 6 + Len(p)
  BY CoveredIs DEF Parts
<1> HIDE DEF c
<1>2. /\ crc[0] = CrcInitial
      /\ \A n \in 1 .. Len(c) : crc[n] = CrcUpdate(crc[n - 1], c[n])
      /\ Crc(c) = crc[Len(c)]
  BY <1>1, CrcSteps
<1> HIDE DEF crc
<1>3. \A n : Sum(t, s, p, n) = crc[n]
  BY DEF Sum, crc, c
<1> QED BY <1>1, <1>2, <1>3 DEF c

LEMMA MagicFollowed ==
  ASSUME NEW t, NEW s, NEW p, Parts(t, s, p), NEW d \in Decoders(Word16),
         NEW k, InMagic(k, d)
  PROVE  At(t, s, p, k + 1, FeedByte(d, IF k = 0 THEN Magic0 ELSE Magic1))
<1>1. CASE k = 0
  <2>1. CASE d.state = "WAIT_MAGIC_0"
    <3>1. FeedByte(d, Magic0) = [d EXCEPT !.state = "WAIT_MAGIC_1"]
      BY <2>1 DEF FeedByte, FindMagic
    <3>2. InMagic(1, FeedByte(d, Magic0))
      BY <3>1 DEF InMagic, Decoders
    <3> QED BY <1>1, <3>2 DEF At
  <2>2. CASE d.state = "WAIT_MAGIC_1"
    <3>1. FeedByte(d, Magic0) = d
      BY <2>2 DEF FeedByte, FindMagic, Magic0, Magic1
    <3>2. InMagic(1, FeedByte(d, Magic0))
      BY <2>2, <3>1 DEF InMagic
    <3> QED BY <1>1, <3>2 DEF At
  <2> QED BY <1>1, <2>1, <2>2 DEF InMagic
<1>2. CASE k = 1
  <2> DEFINE e == FeedByte(d, Magic1)
  <2>1. e = BeginFrame(d)
    BY <1>2 DEF FeedByte, FindMagic, InMagic, Magic0, Magic1
  <2>2. e.state = "READ_VERSION" /\ e.calculated_crc = CrcInitial
    BY <2>1 DEF BeginFrame, Restart, Decoders
  <2> HIDE DEF e
  <2>3. InHeader(t, s, p, 2, e)
    BY <2>2, SumSteps DEF InHeader
  <2> QED BY <1>2, <2>3 DEF At, e
<1> QED BY <1>1, <1>2 DEF InMagic

LEMMA HeaderFollowed ==
  ASSUME NEW t, NEW s, NEW p, Parts(t, s, p), NEW d, Sound(Word16, d),
         NEW k, InHeader(t, s, p, k, d)
  PROVE  At(t, s, p, k + 1, FeedByte(d, Covered(t, s, p)[k - 1]))
<1> DEFINE c == Covered(t, s, p)
           e == FeedByte(d, c[k - 1])
           r == [d EXCEPT !.calculated_crc = CrcUpdate(@, c[k - 1])]
<1>1. /\ c[1] = Version /\ c[2] = t
      /\ c[3] = s \div 256 /\ c[4] = (s % 256)
      /\ c[5] = Len(p) \div 256 /\ c[6] = (Len(p) % 256)
  BY CoveredIs DEF Parts
<1>2. d \in Decoders(Word16)
  BY DEF Sound
<1>3. k \in 2 .. 7 /\ Len(p) \in Nat
  BY DEF InHeader, Parts
<1>4. Sum(t, s, p, k - 1) = CrcUpdate(Sum(t, s, p, k - 2), c[k - 1])
  <2>1. k - 1 \in 1 .. 6 + Len(p) /\ (k - 1) - 1 = k - 2
    BY <1>3
  <2>2. \A n \in 1 .. 6 + Len(p) :
          Sum(t, s, p, n) = CrcUpdate(Sum(t, s, p, n - 1), c[n])
    BY SumSteps
  <2> QED BY <2>1, <2>2
<1> HIDE DEF c
<1>5. r \in [state : States, type : Nat, sequence : Nat, payload_length : Nat,
             payload : Seq(Byte), received_crc : Nat,
             calculated_crc : {Sum(t, s, p, k - 1)}]
  BY <1>2, <1>4 DEF Decoders, InHeader
<1>6. /\ r.type = d.type /\ r.sequence = d.sequence /\ r.payload_length = d.payload_length
      /\ r.payload = d.payload /\ r.calculated_crc = Sum(t, s, p, k - 1)
  BY <1>2, <1>5 DEF Decoders
<1>7. d.state \in HeaderStates
  BY <1>3 DEF InHeader
<1>8. e = ReadHeader(d, c[k - 1])
  BY <1>7 DEF FeedByte
<1>9. SUFFICES At(t, s, p, k + 1, e)
  BY DEF c
<1> HIDE DEF e
<1>11. CASE k = 2
  <2>1. e = [r EXCEPT !.state = "READ_TYPE"]
    BY <1>1, <1>8, <1>11 DEF ReadHeader, InHeader
  <2> HIDE DEF r
  <2>2. InHeader(t, s, p, 3, e)
    BY <1>5, <1>6, <1>11, <2>1 DEF InHeader
  <2> QED BY <1>11, <2>2 DEF At
<1>12. CASE k = 3
  <2>3. k - 1 = 2 /\ d.state = "READ_TYPE"
    BY <1>12 DEF InHeader
  <2>4. c[k - 1] = t
    BY <1>1, <2>3
  <2>1. e = [r EXCEPT !.type = t, !.state = "READ_SEQUENCE_HIGH"]
    BY <1>8, <2>3, <2>4 DEF ReadHeader
  <2> HIDE DEF r
  <2>2. InHeader(t, s, p, 4, e)
    BY <1>5, <1>6, <1>12, <2>1 DEF InHeader
  <2> QED BY <1>12, <2>2 DEF At
<1>13. CASE k = 4
  <2>3. k - 1 = 3 /\ d.state = "READ_SEQUENCE_HIGH"
    BY <1>13 DEF InHeader
  <2>4. c[k - 1] = s \div 256
    BY <1>1, <2>3
  <2>1. e = [r EXCEPT !.sequence = Word(s \div 256, 0), !.state = "READ_SEQUENCE_LOW"]
    BY <1>8, <2>3, <2>4 DEF ReadHeader
  <2> HIDE DEF r
  <2>2. InHeader(t, s, p, 5, e)
    BY <1>5, <1>6, <1>13, <2>1 DEF InHeader
  <2> QED BY <1>13, <2>2 DEF At
<1>14. CASE k = 5
  <2>1. e = [r EXCEPT !.sequence = @ + c[4], !.state = "READ_LENGTH_HIGH"]
    BY <1>8, <1>14 DEF ReadHeader, InHeader
  <2>3. r.sequence + c[4] = s
    <3>1. Word(s \div 256, 0) + (s % 256) = s
      BY WordOfBytes DEF Parts
    <3> QED BY <1>1, <1>6, <1>14, <3>1 DEF InHeader
  <2> HIDE DEF r
  <2>4. e = [r EXCEPT !.sequence = s, !.state = "READ_LENGTH_HIGH"]
    BY <2>1, <2>3
  <2>2. InHeader(t, s, p, 6, e)
    BY <1>5, <1>6, <1>14, <2>4 DEF InHeader
  <2> QED BY <1>14, <2>2 DEF At
<1>15. CASE k = 6
  <2>3. k - 1 = 5 /\ d.state = "READ_LENGTH_HIGH"
    BY <1>15 DEF InHeader
  <2>4. c[k - 1] = Len(p) \div 256
    BY <1>1, <2>3
  <2>1. e = [r EXCEPT !.payload_length = Word(Len(p) \div 256, 0),
                      !.state = "READ_LENGTH_LOW"]
    BY <1>8, <2>3, <2>4 DEF ReadHeader
  <2> HIDE DEF r
  <2>2. InHeader(t, s, p, 7, e)
    BY <1>5, <1>6, <1>15, <2>1 DEF InHeader
  <2> QED BY <1>15, <2>2 DEF At
<1>16. CASE k = 7
  <2>1. e = AfterLength([r EXCEPT !.payload_length = @ + c[6]], c[6])
    BY <1>8, <1>16 DEF ReadHeader, InHeader
  <2>2. r.payload_length + c[6] = Len(p)
    <3>1. Word(Len(p) \div 256, 0) + (Len(p) % 256) = Len(p)
      BY WordOfBytes DEF Parts
    <3> QED BY <1>1, <1>6, <1>16, <3>1 DEF InHeader
  <2> DEFINE q == [r EXCEPT !.payload_length = Len(p)]
  <2>3. e = AfterLength(q, c[6])
    BY <2>1, <2>2
  <2>4. d.payload = <<>> /\ r.type = t /\ r.sequence = s
    BY <1>6, <1>7, <1>16 DEF Sound, Consistent, InHeader
  <2> HIDE DEF r
  <2>5. /\ q \in [state : States, type : Nat, sequence : Nat, payload_length : Nat,
                  payload : Seq(Byte), received_crc : Nat,
                  calculated_crc : {Sum(t, s, p, 6)}]
        /\ q.payload_length = Len(p) /\ q.type = t /\ q.sequence = s /\ q.payload = <<>>
        /\ q.calculated_crc = Sum(t, s, p, 6)
    BY <1>3, <1>5, <1>6, <1>16, <2>4
  <2> HIDE DEF q
  <2>6. ~(Len(p) > MaxPayload) /\ Len(<<>>) = 0
    BY <1>3, Sizes DEF Parts
  <2>7. ASSUME Len(p) = 0 PROVE InPayload(t, s, p, 8, e)
    <3>1. e = [q EXCEPT !.state = "READ_CRC_HIGH"]
      BY <2>3, <2>5, <2>6, <2>7 DEF AfterLength
    <3>2. /\ e.state = "READ_CRC_HIGH" /\ e.payload = <<>> /\ Known(t, s, p, e)
          /\ e.calculated_crc = Sum(t, s, p, 6)
      BY <2>5, <3>1 DEF Known
    <3> QED BY <2>6, <2>7, <3>2 DEF InPayload
  <2>8. ASSUME Len(p) # 0 PROVE InPayload(t, s, p, 8, e)
    <3>1. e = [q EXCEPT !.payload = <<>>, !.state = "READ_PAYLOAD"]
      BY <2>3, <2>5, <2>6, <2>8 DEF AfterLength
    <3>2. /\ e.state = "READ_PAYLOAD" /\ e.payload = <<>> /\ Known(t, s, p, e)
          /\ e.calculated_crc = Sum(t, s, p, 6)
      BY <2>5, <3>1 DEF Known
    <3> QED BY <1>3, <2>6, <2>8, <3>2 DEF InPayload
  <2>9. InPayload(t, s, p, 8, e)
    BY <2>7, <2>8
  <2> QED BY <1>16, <2>9 DEF At
<1> QED BY <1>3, <1>11, <1>12, <1>13, <1>14, <1>15, <1>16

LEMMA PayloadFollowed ==
  ASSUME NEW t, NEW s, NEW p, Parts(t, s, p), NEW d, Sound(Word16, d),
         NEW k, InPayload(t, s, p, k, d), k < 8 + Len(p)
  PROVE  At(t, s, p, k + 1, FeedByte(d, Covered(t, s, p)[k - 1]))
<1> DEFINE c == Covered(t, s, p)
           n == Len(p)
           byte == c[k - 1]
           q == Append(d.payload, byte)
           e == FeedByte(d, byte)
           crc == CrcUpdate(d.calculated_crc, byte)
           st == IF Len(d.payload) + 1 >= n THEN "READ_CRC_HIGH" ELSE "READ_PAYLOAD"
<1>1. n \in Nat /\ k \in 8 .. 7 + n /\ d.payload \in Seq(Byte) /\ Len(d.payload) = k - 8
  <2>1. n \in Nat
    BY DEF Parts
  <2> QED BY <2>1 DEF InPayload, Sound, Consistent
<1>2. d \in Decoders(Word16) /\ d.state = "READ_PAYLOAD" /\ d.payload_length = n
  BY <1>1 DEF Sound, InPayload, Known
<1>3. /\ c \in Seq(Byte) /\ Len(c) = 6 + n
      /\ \A j \in 1 .. n : c[6 + j] = p[j]
  BY CoveredIs DEF Parts
<1>4. k - 7 \in 1 .. n /\ k - 1 \in 1 .. 6 + n
      /\ 6 + (k - 7) = k - 1 /\ (k - 1) - 1 = k - 2 /\ (k + 1) - 2 = k - 1
  BY <1>1
<1>5. Sum(t, s, p, k - 1) = crc
  <2>1. \A i \in 1 .. 6 + n : Sum(t, s, p, i) = CrcUpdate(Sum(t, s, p, i - 1), c[i])
    BY SumSteps
  <2> QED BY <1>4, <2>1 DEF InPayload
<1> HIDE DEF c, n
<1>6. byte = p[k - 7] /\ byte \in Byte
  BY <1>3, <1>4
<1> HIDE DEF byte
<1>7. /\ Len(q) = k - 7 /\ q \in Seq(Byte)
      /\ \A i \in 1 .. k - 7 : q[i] = p[i]
  <2>1. /\ Len(q) = Len(d.payload) + 1 /\ q \in Seq(Byte)
        /\ \A i \in 1 .. Len(d.payload) : q[i] = d.payload[i]
        /\ q[Len(d.payload) + 1] = byte
    BY <1>1, <1>6
  <2> HIDE DEF q
  <2>2. \A i \in 1 .. k - 8 : d.payload[i] = p[i]
    BY DEF InPayload
  <2>3. \A i \in 1 .. k - 7 : i \in 1 .. k - 8 \/ i = k - 7
    BY <1>1
  <2>4. Len(d.payload) + 1 = k - 7
    BY <1>1
  <2> QED BY <1>1, <1>6, <2>1, <2>2, <2>3, <2>4
<1>8. st = IF k + 1 < 8 + n THEN "READ_PAYLOAD" ELSE "READ_CRC_HIGH"
  BY <1>1
<1>9. e = [d EXCEPT !.payload = q, !.calculated_crc = crc, !.state = st]
  BY <1>2 DEF FeedByte, ReadPayload
<1> HIDE DEF q, crc, st, e
<1>10. /\ e.payload = q /\ e.calculated_crc = crc /\ e.state = st
       /\ e.type = d.type /\ e.sequence = d.sequence /\ e.payload_length = d.payload_length
  BY <1>2, <1>9 DEF Decoders
<1>11. Known(t, s, p, e)
  BY <1>10 DEF InPayload, Known
<1>12. k + 1 \in 8 .. 8 + n /\ (k + 1) - 8 = k - 7
  BY <1>1
<1>13. InPayload(t, s, p, k + 1, e)
  BY <1>4, <1>5, <1>7, <1>8, <1>10, <1>11, <1>12 DEF InPayload, n
<1> QED BY <1>13 DEF At, e, byte, c

LEMMA CrcHighFollowed ==
  ASSUME Closed(Word16), NEW t, NEW s, NEW p, Parts(t, s, p), NEW d, Sound(Word16, d),
         InPayload(t, s, p, 8 + Len(p), d)
  PROVE  At(t, s, p, 9 + Len(p), FeedByte(d, Crc(Covered(t, s, p)) \div 256))
<1> DEFINE sum == Crc(Covered(t, s, p))
           high == sum \div 256
           e == FeedByte(d, high)
<1>1. Len(p) \in Nat
  BY DEF Parts
<1>2. sum = Sum(t, s, p, 6 + Len(p))
  BY SumSteps
<1> HIDE DEF sum
<1>3. /\ d \in Decoders(Word16) /\ d.state = "READ_CRC_HIGH" /\ Known(t, s, p, d)
      /\ Len(d.payload) = Len(p) /\ \A i \in 1 .. Len(p) : d.payload[i] = p[i]
      /\ d.calculated_crc = sum /\ d.payload \in Seq(Byte)
  <2>1. (8 + Len(p)) - 8 = Len(p) /\ (8 + Len(p)) - 2 = 6 + Len(p)
        /\ ~(8 + Len(p) < 8 + Len(p))
    BY <1>1
  <2> QED BY <1>2, <2>1 DEF InPayload, Sound, Consistent
<1>4. d.payload = p
  <2>1. p \in Seq(Byte)
    BY DEF Parts
  <2> QED BY <1>3, <2>1
<1>5. e = [d EXCEPT !.received_crc = Word(high, 0), !.state = "READ_CRC_LOW"]
  BY <1>3 DEF FeedByte, ReadCrc
<1> HIDE DEF e
<1>6. /\ e.state = "READ_CRC_LOW" /\ e.received_crc = Word(high, 0)
      /\ e.calculated_crc = sum /\ e.payload = p
      /\ e.type = d.type /\ e.sequence = d.sequence /\ e.payload_length = d.payload_length
  BY <1>3, <1>4, <1>5 DEF Decoders
<1>7. Known(t, s, p, e)
  BY <1>3, <1>6 DEF Known
<1>8. BeforeLast(t, s, p, 9 + Len(p), e)
  BY <1>2, <1>6, <1>7 DEF BeforeLast
<1> QED BY <1>8 DEF At, e, sum

LEMMA LastByteCompletes ==
  ASSUME Closed(Word16), NEW t, NEW s, NEW p, Parts(t, s, p), NEW d,
         NEW k, BeforeLast(t, s, p, k, d)
  PROVE  /\ FrameReady(d, Crc(Covered(t, s, p)) % 256)
         /\ FrameOf(d) = [type |-> t, sequence |-> s, payload |-> p]
<1> DEFINE sum == Crc(Covered(t, s, p))
<1>1. sum = Sum(t, s, p, 6 + Len(p))
  BY SumSteps
<1>2. sum \in Word16
  <2>1. Covered(t, s, p) \in Seq(Byte)
    BY CoveredIs DEF Parts
  <2> QED BY <2>1, CrcIsWord
<1> HIDE DEF sum
<1>3. d.received_crc + (sum % 256) = d.calculated_crc
  <2>1. d.received_crc = Word(sum \div 256, 0) /\ d.calculated_crc = sum
    BY <1>1 DEF BeforeLast
  <2> QED BY <1>2, <2>1, WordOfBytes
<1>4. FrameReady(d, sum % 256)
  BY <1>3 DEF FrameReady, CrcMatches, BeforeLast
<1>5. FrameOf(d) = [type |-> t, sequence |-> s, payload |-> p]
  BY DEF FrameOf, BeforeLast, Known
<1> QED BY <1>4, <1>5 DEF sum

\* A decoder that is at a place of a frame and gets its next byte is at the
\* next place; at the last byte it returns the message.
LEMMA FrameFollowed ==
  ASSUME Closed(Word16), NEW m \in WireMessages, Encodable(m), NEW d, Sound(Word16, d),
         NEW k \in Nat, k < Len(Encode(m)), AtMessage(m, k, d)
  PROVE  /\ k + 1 < Len(Encode(m)) => AtMessage(m, k + 1, FeedByte(d, Encode(m)[k + 1]))
         /\ k + 1 = Len(Encode(m)) => /\ FrameReady(d, Encode(m)[k + 1])
                                      /\ Decode(FrameOf(d)) = m
<1> DEFINE t == TypeCode[m.type]
           s == m.sequence
           p == PayloadOf(m)
           n == Len(p)
           f == EncodeFrame(t, s, p)
           c == Covered(t, s, p)
<1>1. Parts(t, s, p) /\ Decode([type |-> t, sequence |-> s, payload |-> p]) = m
  BY MessageEncoded DEF Parts
<1>2. Encode(m) = f
  BY DEF Encode
<1>3. At(t, s, p, k, d)
  BY DEF AtMessage
<1> SUFFICES /\ k + 1 < Len(f) => At(t, s, p, k + 1, FeedByte(d, f[k + 1]))
             /\ k + 1 = Len(f) => /\ FrameReady(d, f[k + 1])
                                  /\ Decode(FrameOf(d)) = m
  BY <1>2 DEF AtMessage
<1> HIDE DEF t, s, p
<1>4. /\ f \in Seq(Byte) /\ Len(f) = 10 + n
      /\ f[1] = Magic0 /\ f[2] = Magic1
      /\ \A i \in 1 .. 6 + n : f[i + 2] = c[i]
      /\ f[9 + n] = Crc(c) \div 256 /\ f[10 + n] = (Crc(c) % 256)
  BY <1>1, FrameLayout DEF Parts
<1>5. n \in Nat
  BY <1>1 DEF Parts
<1> HIDE DEF f, c, n
<1>6. CASE InMagic(k, d)
  <2>1. f[k + 1] = IF k = 0 THEN Magic0 ELSE Magic1
    BY <1>4, <1>6 DEF InMagic
  <2>2. At(t, s, p, k + 1, FeedByte(d, f[k + 1]))
    BY <1>1, <1>6, <2>1, MagicFollowed DEF Sound
  <2>3. k + 1 # Len(f)
    BY <1>4, <1>5, <1>6 DEF InMagic
  <2> QED BY <2>2, <2>3
<1>7. CASE InHeader(t, s, p, k, d)
  <2>1. k - 1 \in 1 .. 6 + n /\ (k - 1) + 2 = k + 1 /\ k + 1 # 10 + n
    BY <1>5, <1>7 DEF InHeader
  <2>2. f[k + 1] = c[k - 1]
    BY <1>4, <2>1
  <2>3. At(t, s, p, k + 1, FeedByte(d, c[k - 1]))
    BY <1>1, <1>7, HeaderFollowed DEF c
  <2> QED BY <1>4, <2>1, <2>2, <2>3
<1>8. CASE InPayload(t, s, p, k, d)
  <2>1. k \in 8 .. 8 + n
    BY <1>8 DEF InPayload, n
  <2>2. CASE k < 8 + n
    <3>1. k - 1 \in 1 .. 6 + n /\ (k - 1) + 2 = k + 1 /\ k + 1 # 10 + n
      BY <1>5, <2>1, <2>2
    <3>2. f[k + 1] = c[k - 1]
      BY <1>4, <3>1
    <3>3. At(t, s, p, k + 1, FeedByte(d, c[k - 1]))
      BY <1>1, <1>8, <2>2, PayloadFollowed DEF c, n
    <3> QED BY <1>4, <3>1, <3>2, <3>3
  <2>3. CASE k = 8 + n
    <3>1. k + 1 = 9 + n /\ 9 + n # 10 + n
      BY <1>5, <2>3
    <3>2. At(t, s, p, 9 + n, FeedByte(d, Crc(c) \div 256))
      BY <1>1, <1>8, <2>3, CrcHighFollowed DEF c, n
    <3> QED BY <1>4, <3>1, <3>2
  <2> QED BY <1>5, <2>1, <2>2, <2>3
<1>9. CASE BeforeLast(t, s, p, k, d)
  <2>1. k + 1 = 10 + n
    BY <1>5, <1>9 DEF BeforeLast, n
  <2>2. /\ FrameReady(d, Crc(c) % 256)
        /\ FrameOf(d) = [type |-> t, sequence |-> s, payload |-> p]
    BY <1>1, <1>9, LastByteCompletes DEF c
  <2> QED BY <1>1, <1>4, <1>5, <2>1, <2>2
<1> QED BY <1>3, <1>6, <1>7, <1>8, <1>9 DEF At

-----------------------------------------------------------------------------
(* The line. *)

\* What the decoder gets is bytes: what is left of a frame, or noise.
LineInv == Sound(Word16, decoder) /\ wire \in Seq(Byte)

LEMMA ReceiveSound ==
  ASSUME Closed(Word16), Sound(Word16, decoder), NEW byte \in Byte, Receive(byte)
  PROVE  Sound(Word16, decoder)'
<1>1. Sound(Word16, FeedByte(decoder, byte))
  BY FeedByteSound
<1> QED BY <1>1 DEF Receive, Sound, Decoders, Consistent

LEMMA LineStep ==
  ASSUME Closed(Word16), LineInv, [Next]_vars
  PROVE  LineInv'
<1> USE DEF LineInv
<1>1. wire # <<>> => Head(wire) \in Byte /\ Tail(wire) \in Seq(Byte)
  OBVIOUS
<1>2. ASSUME NEW m \in Messages, SendFrame(m) PROVE LineInv'
  <2>1. m \in WireMessages /\ Encodable(m)
    BY <1>2, FrameLinkAssumption DEF SendFrame, FrameLinkAssumption
  <2>2. Encode(m) \in Seq(Byte)
    BY <2>1, FrameIsBytes
  <2>3. wire' \in Seq(Byte) /\ decoder' = decoder
    BY <1>2, <2>2 DEF SendFrame, FrameBytes
  <2> QED BY <2>3 DEF Sound, Decoders, Consistent
<1>3. CASE DeliverByte
  BY <1>1, <1>3, ReceiveSound DEF DeliverByte
<1>4. ASSUME NEW byte \in Noise, AlterByte(byte) PROVE LineInv'
  BY <1>1, <1>4, ReceiveSound, FrameLinkAssumption DEF AlterByte
<1>5. ASSUME NEW byte \in Noise, InventByte(byte) PROVE LineInv'
  BY <1>5, ReceiveSound, FrameLinkAssumption DEF InventByte
<1>6. CASE LoseByte
  BY <1>1, <1>6 DEF LoseByte, Sound, Decoders, Consistent
<1>7. CASE ResetDecoder
  <2>1. Sound(Word16, DecoderReset(decoder))
    BY RestartSound DEF DecoderReset, Sound
  <2> QED BY <1>7, <2>1 DEF ResetDecoder, Sound, Decoders, Consistent
<1>8. CASE UNCHANGED vars
  BY <1>8 DEF vars, Sound, Decoders, Consistent
<1> QED BY <1>2, <1>3, <1>4, <1>5, <1>6, <1>7, <1>8 DEF Next

\* Whatever the line alters, loses and invents and whenever the decoder is
\* reset, the payload stays inside its buffer and a frame being checked has the
\* length it announced.
THEOREM LineKeepsPayloadInBounds ==
  ASSUME Closed(Word16)
  PROVE  Spec => []PayloadInBounds
<1>1. Init => LineInv
  <2>1. Sound(Word16, DecoderStart)
    BY StartSound
  <2> QED BY <2>1 DEF Init, LineInv, Sound, Decoders, Consistent
<1>2. LineInv /\ [Next]_vars => LineInv'
  BY LineStep
<1>3. LineInv => PayloadInBounds
  BY DEF LineInv, Sound, PayloadInBounds
<1> QED BY <1>1, <1>2, <1>3, PTL DEF Spec

\* How much of the frame of sending is through.
Through == Len(Encode(sending)) - Len(wire)

\* While the frame on the wire is undamaged, what is left of it is its end and
\* the decoder is where the bytes before it lead.
CleanInv ==
  clean =>
    /\ sending \in Messages /\ Encodable(sending)
    /\ Through \in Nat
    /\ \A i \in 1 .. Len(wire) : wire[i] = Encode(sending)[Through + i]
    /\ wire = <<>> => returned = sending
    /\ wire # <<>> => AtMessage(sending, Through, decoder)

LEMMA CleanSend ==
  ASSUME Closed(Word16), LineInv, NEW m \in Messages, SendFrame(m)
  PROVE  CleanInv'
<1> SUFFICES ASSUME decoder.state \in SearchStates PROVE CleanInv'
  BY DEF SendFrame, CleanInv
<1> DEFINE f == Encode(m)
<1>1. m \in WireMessages /\ Encodable(m)
  BY FrameLinkAssumption DEF SendFrame, FrameLinkAssumption
<1>2. f \in Seq(Byte) /\ f # <<>>
  <2>1. Parts(TypeCode[m.type], m.sequence, PayloadOf(m))
    BY <1>1, MessageEncoded DEF Parts
  <2>2. f \in Seq(Byte) /\ Len(f) = 10 + Len(PayloadOf(m))
    BY <2>1, FrameLayout DEF Encode, Parts
  <2>3. Len(PayloadOf(m)) \in Nat
    BY <2>1 DEF Parts
  <2> QED BY <2>2, <2>3
<1>3. sending' = m /\ wire' = f /\ decoder' = decoder
  BY DEF SendFrame, FrameBytes
<1>4. Through' = Len(f) - Len(f)
  BY <1>3 DEF Through
<1> HIDE DEF f
<1>5. Through' = 0
  BY <1>2, <1>4
<1>6. AtMessage(m, 0, decoder)
  BY DEF AtMessage, At, InMagic
<1>7. \A i \in 1 .. Len(f) : f[i] = f[0 + i]
  BY <1>2
<1> QED BY <1>1, <1>2, <1>3, <1>5, <1>6, <1>7 DEF CleanInv, f

LEMMA CleanDeliver ==
  ASSUME Closed(Word16), LineInv, CleanInv, DeliverByte
  PROVE  CleanInv'
<1> SUFFICES ASSUME clean PROVE CleanInv'
  BY DEF DeliverByte, CleanInv
<1> DEFINE m == sending
           f == Encode(m)
           k == Through
           byte == Head(wire)
<1>1. /\ m \in Messages /\ Encodable(m) /\ k \in Nat
      /\ \A i \in 1 .. Len(wire) : wire[i] = f[k + i]
      /\ AtMessage(m, k, decoder) /\ wire # <<>>
  BY DEF CleanInv, DeliverByte
<1>2. m \in WireMessages /\ f \in Seq(Byte)
  BY <1>1, FrameIsBytes, FrameLinkAssumption DEF FrameLinkAssumption
<1>3. /\ wire \in Seq(Byte) /\ Sound(Word16, decoder)
      /\ sending' = m /\ clean' = clean /\ wire' = Tail(wire)
      /\ decoder' = FeedByte(decoder, byte)
      /\ returned' = IF FrameReady(decoder, byte) THEN Decode(FrameOf(decoder))
                                                  ELSE Nothing
  BY DEF DeliverByte, Receive, LineInv
<1>4. k = Len(f) - Len(wire) /\ Through' = Len(f) - Len(wire')
  BY <1>3 DEF Through
<1> HIDE DEF m, f, k
<1>5. /\ Len(wire) \in Nat \ {0} /\ Len(wire') = Len(wire) - 1
      /\ wire[1] = byte /\ \A i \in 1 .. Len(wire') : wire'[i] = wire[i + 1]
  BY <1>1, <1>3
<1>6. byte = f[k + 1]
  <2>1. 1 \in 1 .. Len(wire)
    BY <1>5
  <2> QED BY <1>1, <1>5, <2>1
<1> HIDE DEF byte
<1>7. Len(f) \in Nat
  BY <1>2
<1>8. Through' = k + 1 /\ k + 1 \in Nat /\ k < Len(f)
      /\ (k + 1 = Len(f) <=> Len(wire') = 0) /\ (k + 1 < Len(f) <=> Len(wire') # 0)
  <2> DEFINE n == Len(f)
             v == Len(wire)
             u == Len(wire')
  <2>1. n \in Nat /\ v \in Nat \ {0} /\ u = v - 1 /\ k \in Nat /\ k = n - v
        /\ Through' = n - u
    BY <1>1, <1>4, <1>5, <1>7
  <2> HIDE DEF n, v, u
  <2>2. Through' = k + 1 /\ k + 1 \in Nat /\ k < n
        /\ (k + 1 = n <=> u = 0) /\ (k + 1 < n <=> u # 0)
    BY <2>1
  <2> QED BY <2>2 DEF n, u
<1>9. \A i \in 1 .. Len(wire') : wire'[i] = f[(k + 1) + i]
  <2> SUFFICES ASSUME NEW i \in 1 .. Len(wire') PROVE wire'[i] = f[(k + 1) + i]
    OBVIOUS
  <2>1. i + 1 \in 1 .. Len(wire) /\ k + (i + 1) = (k + 1) + i
    BY <1>1, <1>5
  <2> QED BY <1>1, <1>5, <2>1
<1>10. wire' = <<>> <=> Len(wire') = 0
  <2>1. wire' \in Seq(Byte)
    BY <1>1, <1>3
  <2> QED BY <2>1
<1>11. /\ k + 1 < Len(f) => AtMessage(m, k + 1, FeedByte(decoder, byte))
       /\ k + 1 = Len(f) => FrameReady(decoder, byte) /\ Decode(FrameOf(decoder)) = m
  BY <1>1, <1>2, <1>3, <1>6, <1>8, FrameFollowed DEF f
<1>12. wire' = <<>> => returned' = m
  BY <1>3, <1>8, <1>10, <1>11
<1>13. wire' # <<>> => AtMessage(m, k + 1, decoder')
  BY <1>3, <1>8, <1>10, <1>11
<1>14. /\ sending' \in Messages /\ Encodable(sending') /\ Through' \in Nat
       /\ \A i \in 1 .. Len(wire') : wire'[i] = Encode(sending')[Through' + i]
       /\ wire' = <<>> => returned' = sending'
       /\ wire' # <<>> => AtMessage(sending', Through', decoder')
  BY <1>1, <1>3, <1>8, <1>9, <1>12, <1>13 DEF f
<1> QED BY <1>14 DEF CleanInv

LEMMA CleanStep ==
  ASSUME Closed(Word16), LineInv, CleanInv, [Next]_vars
  PROVE  CleanInv'
<1>1. ASSUME NEW m \in Messages, SendFrame(m) PROVE CleanInv'
  BY <1>1, CleanSend
<1>2. CASE DeliverByte
  BY <1>2, CleanDeliver
<1>3. ASSUME NEW byte \in Noise, AlterByte(byte) \/ InventByte(byte) PROVE CleanInv'
  BY <1>3 DEF AlterByte, InventByte, Damages, CleanInv
<1>4. CASE LoseByte \/ ResetDecoder
  BY <1>4 DEF LoseByte, ResetDecoder, Damages, CleanInv
<1>5. CASE UNCHANGED vars
  BY <1>5 DEF vars, CleanInv, Through
<1> QED BY <1>1, <1>2, <1>3, <1>4, <1>5 DEF Next

\* A frame that begins while the decoder searches and is not damaged is returned
\* with its last byte, as the message it was encoded from: whatever was on the
\* line before, for every message, payload and 16-bit checksum.
THEOREM CleanFramesAreFound ==
  ASSUME Closed(Word16)
  PROVE  Spec => []CleanFrameFound
<1>1. Init => LineInv /\ CleanInv
  <2>1. Sound(Word16, DecoderStart)
    BY StartSound
  <2> QED BY <2>1 DEF Init, LineInv, Sound, Decoders, Consistent, CleanInv
<1>2. LineInv /\ CleanInv /\ [Next]_vars => (LineInv /\ CleanInv)'
  BY LineStep, CleanStep
<1>3. CleanInv => CleanFrameFound
  BY DEF CleanInv, CleanFrameFound
<1> QED BY <1>1, <1>2, <1>3, PTL DEF Spec

=============================================================================
