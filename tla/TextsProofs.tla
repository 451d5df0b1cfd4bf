---------------------------- MODULE TextsProofs ----------------------------
(***************************************************************************)
(* What the conversions of a text compute, and what MatchPattern finds in  *)
(* it, for texts of any length.                                            *)
(*                                                                         *)
(* The conversions between UTF-8 and UTF-16 and between bytes and integers *)
(* undo each other.  A text is converted from its first character on, and  *)
(* the conversion is a recursive function that goes from the end of the    *)
(* text to its start.  So a claim is proved of every place of a text       *)
(* backwards: what is read at a place depends on what stands behind it     *)
(* only (SuffixRead), and where a character may begin, on nothing behind   *)
(* that (PrefixRead).                                                      *)
(*                                                                         *)
(* MatchPattern finds what a pattern means.  Its searches are loops, which *)
(* come closer to their end with each round (LoopExists).  What it finds   *)
(* is meant, since a search only begins at places that its wildcards lead  *)
(* to (Sane); and what is meant is found, since a search that is not yet   *)
(* behind the match's place comes to it (KeepsUp).                         *)
(***************************************************************************)
EXTENDS StringsProofs

-----------------------------------------------------------------------------
(* Characters and code units *)

Encodings == {8, 16}
Byte == {unit \in Nat : unit <= 255}
Unit16 == {unit \in Nat : unit <= 65535}
Units(bits) == IF bits = 8 THEN Byte ELSE Unit16
CodePoints == {c \in Nat : c < 55296 \/ (57344 <= c /\ c <= 1114111)}

LEMMA BitsAre ==
  ASSUME NEW n \in 0 .. 7
  PROVE  /\ Unicode!Bit(48, n) <=> n \in 4 .. 5
         /\ Unicode!Bit(32, n) <=> n = 5
         /\ Unicode!Bit(16, n) <=> n = 4
         /\ Unicode!Bit(30, n) <=> n \in 1 .. 4
         /\ Unicode!Bit(15, n) <=> n \in 0 .. 3
         /\ ~Unicode!Bit(0, n)
  <1>0. /\ ~Unicode!Bit(48, 0) /\ ~Unicode!Bit(32, 0) /\ ~Unicode!Bit(16, 0)
        /\ ~Unicode!Bit(30, 0) /\ Unicode!Bit(15, 0) /\ ~Unicode!Bit(0, 0)
    BY DEF Unicode!Bit
  <1>1. /\ ~Unicode!Bit(48, 1) /\ ~Unicode!Bit(32, 1) /\ ~Unicode!Bit(16, 1)
        /\ Unicode!Bit(30, 1) /\ Unicode!Bit(15, 1) /\ ~Unicode!Bit(0, 1)
    BY DEF Unicode!Bit
  <1>2. /\ ~Unicode!Bit(48, 2) /\ ~Unicode!Bit(32, 2) /\ ~Unicode!Bit(16, 2)
        /\ Unicode!Bit(30, 2) /\ Unicode!Bit(15, 2) /\ ~Unicode!Bit(0, 2)
    BY DEF Unicode!Bit
  <1>3. /\ ~Unicode!Bit(48, 3) /\ ~Unicode!Bit(32, 3) /\ ~Unicode!Bit(16, 3)
        /\ Unicode!Bit(30, 3) /\ Unicode!Bit(15, 3) /\ ~Unicode!Bit(0, 3)
    BY DEF Unicode!Bit
  <1>4. /\ Unicode!Bit(48, 4) /\ ~Unicode!Bit(32, 4) /\ Unicode!Bit(16, 4)
        /\ Unicode!Bit(30, 4) /\ ~Unicode!Bit(15, 4) /\ ~Unicode!Bit(0, 4)
    BY DEF Unicode!Bit
  <1>5. /\ Unicode!Bit(48, 5) /\ Unicode!Bit(32, 5) /\ ~Unicode!Bit(16, 5)
        /\ ~Unicode!Bit(30, 5) /\ ~Unicode!Bit(15, 5) /\ ~Unicode!Bit(0, 5)
    BY DEF Unicode!Bit
  <1>6. /\ ~Unicode!Bit(48, 6) /\ ~Unicode!Bit(32, 6) /\ ~Unicode!Bit(16, 6)
        /\ ~Unicode!Bit(30, 6) /\ ~Unicode!Bit(15, 6) /\ ~Unicode!Bit(0, 6)
    BY DEF Unicode!Bit
  <1>7. /\ ~Unicode!Bit(48, 7) /\ ~Unicode!Bit(32, 7) /\ ~Unicode!Bit(16, 7)
        /\ ~Unicode!Bit(30, 7) /\ ~Unicode!Bit(15, 7) /\ ~Unicode!Bit(0, 7)
    BY DEF Unicode!Bit
  <1> QED
    BY <1>0, <1>1, <1>2, <1>3, <1>4, <1>5, <1>6, <1>7

LEMMA IsTrail8Is ==
  ASSUME NEW byte \in Byte
  PROVE  Unicode!IsTrail8(byte) <=> 128 <= byte /\ byte <= 191
  BY DEF Byte, Unicode!IsTrail8, Unicode!High

(* The bytes that may follow a lead: no overlong form, no surrogate and    *)
(* nothing behind the last plane.                                          *)
LEMMA FirstTrailIs ==
  ASSUME NEW c \in Nat, 194 <= c, c <= 244, NEW byte \in Byte
  PROVE  Unicode!FirstTrail(c, byte) <=>
           /\ 128 <= byte /\ byte <= 191
           /\ c = 224 => byte >= 160
           /\ c = 237 => byte <= 159
           /\ c = 240 => byte >= 144
           /\ c = 244 => byte <= 143
  <1>0. byte \in Nat /\ byte <= 255
    BY DEF Byte
  <1>1. CASE c <= 223
    <2>1. c \in 194 .. 223 /\ ~(c \in 224 .. 239) /\ ~(c \in 240 .. 244)
      BY <1>1
    <2>2. Unicode!FirstTrail(c, byte) <=> Unicode!IsTrail8(byte)
      BY <2>1, Zenon DEF Unicode!FirstTrail
    <2> QED
      BY <1>1, <2>2, IsTrail8Is
  <1>2. CASE 224 <= c /\ c <= 239
    <2> DEFINE l == c - 224
               n == byte \div 32
    <2>1. Unicode!Low(c, 4) = l /\ l \in 0 .. 15
      BY <1>2 DEF Unicode!Low
    <2>2. Unicode!High(byte, 5) = n /\ n \in 0 .. 7
      BY <1>0 DEF Unicode!High
    <2>3. Unicode!LEAD3_T1_BITS[l] = IF l = 0 THEN 32 ELSE IF l = 13 THEN 16 ELSE 48
      BY <2>1 DEF Unicode!LEAD3_T1_BITS
    <2>4. Unicode!FirstTrail(c, byte) <=> Unicode!Bit(Unicode!LEAD3_T1_BITS[l], n)
      <3> HIDE DEF l, n
      <3>1. ~(c \in 194 .. 223) /\ c \in 224 .. 239 /\ ~(c \in 240 .. 244)
        BY <1>2
      <3> QED
        BY <2>1, <2>2, <3>1, Zenon DEF Unicode!FirstTrail
    <2>5. CASE l = 0
      <3>1. Unicode!FirstTrail(c, byte) <=> n = 5
        <4> HIDE DEF n, l
        <4> QED BY <2>2, <2>3, <2>4, <2>5, BitsAre
      <3> QED
        BY <1>0, <2>5, <3>1
    <2>6. CASE l = 13
      <3>1. Unicode!FirstTrail(c, byte) <=> n = 4
        <4> HIDE DEF n, l
        <4> QED BY <2>2, <2>3, <2>4, <2>6, BitsAre
      <3> QED
        BY <1>0, <2>6, <3>1
    <2>7. CASE l # 0 /\ l # 13
      <3>1. Unicode!FirstTrail(c, byte) <=> n \in 4 .. 5
        <4> HIDE DEF n, l
        <4> QED BY <2>2, <2>3, <2>4, <2>7, BitsAre
      <3> QED
        BY <1>0, <1>2, <2>7, <3>1
    <2> QED
      BY <2>5, <2>6, <2>7
  <1>3. CASE 240 <= c
    <2> DEFINE n == c - 240
               l == byte \div 16
    <2>1. Unicode!Low(c, 3) = n /\ n \in 0 .. 7 /\ n \in 0 .. 4
      BY <1>3 DEF Unicode!Low
    <2>2. Unicode!High(byte, 4) = l /\ l \in 0 .. 15
      BY <1>0 DEF Unicode!High
    <2>3. Unicode!LEAD4_T1_BITS[l] = IF l = 8 THEN 30 ELSE IF l \in 9 .. 11 THEN 15 ELSE 0
      <3> HIDE DEF l
      <3> QED BY <2>2 DEF Unicode!LEAD4_T1_BITS
    <2>4. Unicode!FirstTrail(c, byte) <=> Unicode!Bit(Unicode!LEAD4_T1_BITS[l], n)
      <3> HIDE DEF l, n
      <3>1. ~(c \in 194 .. 223) /\ ~(c \in 224 .. 239) /\ c \in 240 .. 244
        BY <1>3
      <3> QED
        BY <2>1, <2>2, <3>1, Zenon DEF Unicode!FirstTrail
    <2>5. CASE l = 8
      <3>1. Unicode!FirstTrail(c, byte) <=> n \in 1 .. 4
        <4> HIDE DEF n, l
        <4> QED BY <2>1, <2>3, <2>4, <2>5, BitsAre
      <3> QED
        BY <1>0, <1>3, <2>5, <3>1
    <2>6. CASE l \in 9 .. 11
      <3>1. Unicode!FirstTrail(c, byte) <=> n \in 0 .. 3
        <4> HIDE DEF n, l
        <4>1. l # 8
          BY <2>6
        <4> QED BY <2>1, <2>3, <2>4, <2>6, <4>1, BitsAre
      <3> QED
        BY <1>0, <1>3, <2>6, <3>1
    <2>7. CASE l # 8 /\ ~(l \in 9 .. 11)
      <3>1. ~Unicode!FirstTrail(c, byte)
        <4> HIDE DEF n, l
        <4> QED BY <2>1, <2>3, <2>4, <2>7, BitsAre
      <3> QED
        BY <1>0, <2>7, <3>1
    <2> QED
      BY <2>5, <2>6, <2>7
  <1> QED
    BY <1>1, <1>2, <1>3

LEMMA ElementOf ==
  ASSUME NEW S, NEW t \in Seq(S), NEW i \in 1 .. Len(t)
  PROVE  t[i] \in S /\ i \in Nat
  OBVIOUS

Suffix(t, i) == SubSeq(t, i, Len(t))

(* Whether the k-th byte behind the lead at i is one that may follow. *)
Follows(t, i, k) ==
  /\ i + k <= Len(t)
  /\ IF k = 1 THEN Unicode!FirstTrail(t[i], t[i + 1]) ELSE Unicode!IsTrail8(t[i + k])

Followed(t, i, n) ==
  /\ n \in 0 .. Unicode!Trails(t[i])
  /\ \A k \in 1 .. n : Follows(t, i, k)
  /\ n < Unicode!Trails(t[i]) => ~Follows(t, i, n + 1)

LEMMA GoodTrailsAre ==
  ASSUME NEW t \in Seq(Byte), NEW i \in 1 .. Len(t)
  PROVE  /\ Followed(t, i, Unicode!GoodTrails(t, i))
         /\ \A n : Followed(t, i, n) => n = Unicode!GoodTrails(t, i)
  <1> DEFINE trails == Unicode!Trails(t[i])
             Good(n) == \A k \in 1 .. n : Follows(t, i, k)
             Is(n) == Good(n) /\ (n < trails => ~Good(n + 1))
  <1>1. trails \in 0 .. 3
    BY DEF Unicode!Trails
  <1>2. \A n : n \in 0 .. trails /\ Is(n) <=> Followed(t, i, n)
    <2> HIDE DEF trails
    <2>1. ASSUME NEW n \in 0 .. trails
          PROVE  Good(n) => (~Good(n + 1) <=> ~Follows(t, i, n + 1))
      <3>1. 1 .. n + 1 = 1 .. n \cup {n + 1}
        BY <1>1
      <3> QED
        BY <3>1
    <2> QED
      BY <2>1 DEF Followed, trails
  <1>3. Unicode!GoodTrails(t, i) = CHOOSE n \in 0 .. trails : Is(n)
    BY Zenon DEF Unicode!GoodTrails, Follows
  <1>4. \E n \in 0 .. trails : Is(n)
    <2> DEFINE Missing == {n \in 1 .. trails : ~Follows(t, i, n)}
    <2>1. CASE Missing = {}
      <3>1. trails \in 0 .. trails /\ ~(trails < trails)
        BY <1>1
      <3>2. Good(trails)
        BY <2>1
      <3> HIDE DEF trails, Good
      <3> QED BY <3>1, <3>2
    <2>2. CASE Missing # {}
      <3>1. Missing \subseteq Nat
        BY <1>1
      <3>2. PICK n \in Missing : \A m \in Missing : n <= m
        BY <2>2, <3>1, LeastNumber
      <3> HIDE DEF trails
      <3>3. n \in 1 .. trails /\ n - 1 \in 0 .. trails /\ (n - 1) + 1 = n
        BY <1>1, <3>2
      <3>4. ASSUME NEW k \in 1 .. n - 1
            PROVE  Follows(t, i, k)
        <4>1. k \in 1 .. trails /\ ~(n <= k)
          BY <1>1, <3>3
        <4> QED
          BY <3>2, <4>1
      <3>5. n \in 1 .. n /\ ~Follows(t, i, n)
        BY <1>1, <3>2, <3>3
      <3>6. Good(n - 1) /\ ~Good(n)
        BY <3>4, <3>5
      <3> HIDE DEF Good
      <3>7. Is(n - 1)
        BY <3>3, <3>6
      <3> HIDE DEF Is
      <3> QED
        BY <3>3, <3>7
    <2> QED
      BY <2>1, <2>2
  <1>5. \A n, m : Followed(t, i, n) /\ Followed(t, i, m) => n = m
    <2> TAKE n, m
    <2> HAVE Followed(t, i, n) /\ Followed(t, i, m)
    <2> HIDE DEF Good
    <2>1. n \in 0 .. trails /\ m \in 0 .. trails
      BY DEF Followed
    <2>2. n < m => n < trails /\ n + 1 \in 1 .. m
      BY <1>1, <2>1
    <2>3. m < n => m < trails /\ m + 1 \in 1 .. n
      BY <1>1, <2>1
    <2>4. ~(n < m) /\ ~(m < n)
      BY <2>2, <2>3 DEF Followed
    <2> QED
      BY <1>1, <2>1, <2>4
  <1>6. Followed(t, i, Unicode!GoodTrails(t, i))
    <2> HIDE DEF Is, trails
    <2> QED BY <1>2, <1>3, <1>4
  <1> QED
    BY <1>5, <1>6

LEMMA TrailsAre ==
  ASSUME NEW c \in Byte
  PROVE  /\ Unicode!Trails(c) \in 0 .. 3
         /\ Unicode!Trails(c) = 1 <=> 194 <= c /\ c <= 223
         /\ Unicode!Trails(c) = 2 <=> 224 <= c /\ c <= 239
         /\ Unicode!Trails(c) = 3 <=> 240 <= c /\ c <= 244
  BY DEF Byte, Unicode!Trails

LEMMA SameAssembled ==
  ASSUME NEW s, NEW i \in Nat, NEW t, NEW j \in Nat, s[i] \in Byte, s[i] = t[j],
         Unicode!Trails(s[i]) > 0,
         \A k \in 1 .. Unicode!Trails(s[i]) : s[i + k] = t[j + k]
  PROVE  Unicode!Assembled(t, j) = Unicode!Assembled(s, i)
  <1> DEFINE lead == s[i]
             trails == Unicode!Trails(lead)
  <1>1. lead \in Byte
    OBVIOUS
  <1>2. /\ trails \in 1 .. 3
        /\ trails = 1 <=> 194 <= lead /\ lead <= 223
        /\ trails = 2 <=> 224 <= lead /\ lead <= 239
        /\ trails = 3 <=> 240 <= lead /\ lead <= 244
    <2> HIDE DEF lead
    <2>1. trails > 0
      BY DEF lead
    <2> QED BY <1>1, <2>1, TrailsAre
  <1>3. \A k \in 1 .. trails : s[i + k] = t[j + k]
    OBVIOUS
  <1>0. lead \in Nat
    BY <1>1 DEF Byte
  <1>4. t[j] = lead /\ s[i] = lead
    OBVIOUS
  <1> HIDE DEF lead, trails
  <1>5. CASE trails = 1
    <2>1. s[i + 1] = t[j + 1] /\ lead < 224
      BY <1>0, <1>2, <1>3, <1>5
    <2>2. Unicode!Assembled(s, i) = 64 * Unicode!Low(lead, 5) + Unicode!Low(s[i + 1], 6)
      BY <1>4, <2>1, Zenon DEF Unicode!Assembled
    <2>3. Unicode!Assembled(t, j) = 64 * Unicode!Low(lead, 5) + Unicode!Low(t[j + 1], 6)
      BY <1>4, <2>1, Zenon DEF Unicode!Assembled
    <2> QED
      BY <2>1, <2>2, <2>3
  <1>6. CASE trails = 2
    <2>1. s[i + 1] = t[j + 1] /\ s[i + 2] = t[j + 2] /\ ~(lead < 224) /\ lead < 240
      BY <1>0, <1>2, <1>3, <1>6
    <2>2. Unicode!Assembled(s, i) = 2^12 * Unicode!Low(lead, 4) + 64 * Unicode!Low(s[i + 1], 6)
                                    + Unicode!Low(s[i + 2], 6)
      BY <1>4, <2>1 DEF Unicode!Assembled
    <2>3. Unicode!Assembled(t, j) = 2^12 * Unicode!Low(lead, 4) + 64 * Unicode!Low(t[j + 1], 6)
                                    + Unicode!Low(t[j + 2], 6)
      BY <1>4, <2>1 DEF Unicode!Assembled
    <2> QED
      BY <2>1, <2>2, <2>3
  <1>7. CASE trails = 3
    <2>1. /\ s[i + 1] = t[j + 1] /\ s[i + 2] = t[j + 2] /\ s[i + 3] = t[j + 3]
          /\ ~(lead < 224) /\ ~(lead < 240)
      BY <1>0, <1>2, <1>3, <1>7
    <2>2. Unicode!Assembled(s, i) =
            2^18 * Unicode!Low(lead, 3) + 2^12 * Unicode!Low(s[i + 1], 6)
            + 64 * Unicode!Low(s[i + 2], 6) + Unicode!Low(s[i + 3], 6)
      BY <1>4, <2>1 DEF Unicode!Assembled
    <2>3. Unicode!Assembled(t, j) =
            2^18 * Unicode!Low(lead, 3) + 2^12 * Unicode!Low(t[j + 1], 6)
            + 64 * Unicode!Low(t[j + 2], 6) + Unicode!Low(t[j + 3], 6)
      BY <1>4, <2>1 DEF Unicode!Assembled
    <2> QED
      BY <2>1, <2>2, <2>3
  <1> QED
    BY <1>2, <1>5, <1>6, <1>7

(* Read from a place in another text where the same bytes stand. *)
LEMMA SameRead8 ==
  ASSUME NEW s \in Seq(Byte), NEW i \in 1 .. Len(s), NEW t \in Seq(Byte), NEW j \in 1 .. Len(t),
         s[i] = t[j],
         \A k \in 1 .. Unicode!GoodTrails(s, i) : j + k <= Len(t) /\ s[i + k] = t[j + k],
         \A k \in 1 .. 3 : Follows(t, j, k) => Follows(s, i, k)
  PROVE  /\ Unicode!Next8(t, j).code_point = Unicode!Next8(s, i).code_point
         /\ Unicode!Next8(t, j).next = Unicode!Next8(s, i).next - i + j
         /\ Unicode!Next8(s, i).next \in i + 1 .. Len(s) + 1
  <1> DEFINE g == Unicode!GoodTrails(s, i)
             trails == Unicode!Trails(s[i])
  <1>0. trails \in 0 .. 3
    BY DEF Unicode!Trails
  <1>1. Followed(s, i, g)
    BY GoodTrailsAre
  <1>2. g \in 0 .. trails /\ i + g <= Len(s)
    <2>1. g \in 0 .. trails /\ (g \in 1 .. g => i + g <= Len(s))
      BY <1>1 DEF Followed, Follows
    <2> HIDE DEF g, trails
    <2> QED BY <1>0, <2>1
  <1>3. Followed(t, j, g)
    <2>1. ASSUME NEW k \in 1 .. g
          PROVE  Follows(t, j, k)
      <3>1. Follows(s, i, k)
        BY <1>1 DEF Followed
      <3>2. j + k <= Len(t) /\ s[i + k] = t[j + k]
        OBVIOUS
      <3> QED
        BY <3>1, <3>2 DEF Follows
    <2>2. ASSUME g < trails
          PROVE  ~Follows(t, j, g + 1)
      <3>1. g + 1 \in 1 .. 3
        <4> HIDE DEF g, trails
        <4> QED BY <1>0, <1>2, <2>2
      <3>2. ~Follows(s, i, g + 1)
        BY <1>1, <2>2 DEF Followed
      <3> QED
        BY <3>1, <3>2
    <2> QED
      BY <1>2, <2>1, <2>2 DEF Followed
  <1>4. Unicode!GoodTrails(t, j) = g
    <2> HIDE DEF g
    <2> QED BY <1>3, GoodTrailsAre
  <1>5. /\ Unicode!Next8(t, j).next = j + 1 + g
        /\ Unicode!Next8(s, i).next = i + 1 + g
    BY <1>4 DEF Unicode!Next8
  <1>6. Unicode!Next8(t, j).code_point = Unicode!Next8(s, i).code_point
    <2>1. ASSUME trails > 0, g = trails
          PROVE  Unicode!Assembled(t, j) = Unicode!Assembled(s, i)
      <3>1. \A k \in 1 .. Unicode!Trails(s[i]) : s[i + k] = t[j + k]
        BY <2>1, Zenon
      <3>2. Unicode!Trails(s[i]) > 0 /\ s[i] = t[j]
        BY <2>1
      <3>3. s[i] \in Byte /\ i \in Nat /\ j \in Nat
        BY ElementOf, Zenon
      <3> QED
        BY <3>1, <3>2, <3>3, SameAssembled, ZenonT(60)
    <2>2. Unicode!GoodTrails(s, i) = g /\ Unicode!Trails(s[i]) = trails /\ Unicode!Trails(t[j]) = trails
      OBVIOUS
    <2> HIDE DEF g, trails
    <2>3. CASE trails > 0 /\ g = trails
      BY <1>4, <2>1, <2>2, <2>3, Zenon DEF Unicode!Next8
    <2>4. CASE ~(trails > 0 /\ g = trails)
      BY <1>4, <2>2, <2>4, Zenon DEF Unicode!Next8
    <2> QED
      BY <2>3, <2>4
  <1> HIDE DEF g
  <1> QED
    BY <1>0, <1>2, <1>5, <1>6

(* The character c stands at i. *)
Stands(bits, t, i, c) ==
  /\ i + Len(Unicode!WriteUnicodeCharacter(bits, c)) - 1 <= Len(t)
  /\ \A k \in 1 .. Len(Unicode!WriteUnicodeCharacter(bits, c)) :
       t[i + k - 1] = Unicode!WriteUnicodeCharacter(bits, c)[k]

(* The bytes of a character, with their bits set out. *)
LEMMA Written8Is ==
  ASSUME NEW c \in CodePoints
  PROVE  /\ c <= 127 => Unicode!Written8(c) = <<c>>
         /\ (127 < c /\ c <= 2047) => Unicode!Written8(c) = <<192 + c \div 64, 128 + (c % 64)>>
         /\ (2047 < c /\ c <= 65535) =>
              Unicode!Written8(c) = <<224 + c \div 4096, 128 + ((c \div 64) % 64), 128 + (c % 64)>>
         /\ 65535 < c =>
              Unicode!Written8(c) = <<240 + c \div 262144, 128 + ((c \div 4096) % 64),
                                      128 + ((c \div 64) % 64), 128 + (c % 64)>>
  <1>1. c \in Int /\ c \div 1 = c
    BY DEF CodePoints
  <1>2. CASE c <= 127
    BY <1>1, <1>2 DEF Unicode!Written8
  <1>3. CASE (127 < c /\ c <= 2047)
    BY <1>1, <1>3 DEF Unicode!Written8, Unicode!High, Unicode!Low
  <1>4. CASE (2047 < c /\ c <= 65535)
    BY <1>1, <1>4 DEF Unicode!Written8, Unicode!High, Unicode!Low
  <1>5. CASE 65535 < c
    BY <1>1, <1>5 DEF Unicode!Written8, Unicode!High, Unicode!Low
  <1> QED
    BY <1>1, <1>2, <1>3, <1>4, <1>5

LEMMA Stands8Is ==
  ASSUME NEW t, Len(t) \in Nat, NEW i \in Nat, NEW c \in CodePoints
  PROVE  Stands(8, t, i, c) <=>
           \/ c <= 127 /\ i <= Len(t) /\ t[i] = c
           \/ /\ (127 < c /\ c <= 2047) /\ i + 1 <= Len(t)
              /\ t[i] = 192 + c \div 64 /\ t[i + 1] = 128 + (c % 64)
           \/ /\ (2047 < c /\ c <= 65535) /\ i + 2 <= Len(t)
              /\ t[i] = 224 + c \div 4096 /\ t[i + 1] = 128 + ((c \div 64) % 64)
              /\ t[i + 2] = 128 + (c % 64)
           \/ /\ 65535 < c /\ i + 3 <= Len(t)
              /\ t[i] = 240 + c \div 262144 /\ t[i + 1] = 128 + ((c \div 4096) % 64)
              /\ t[i + 2] = 128 + ((c \div 64) % 64) /\ t[i + 3] = 128 + (c % 64)
  <1> DEFINE w == Unicode!Written8(c)
  <1>1. Stands(8, t, i, c) <=> /\ i + Len(w) - 1 <= Len(t)
                               /\ \A k \in 1 .. Len(w) : t[i + k - 1] = w[k]
    BY DEF Stands, Unicode!WriteUnicodeCharacter
  <1>2. c \in Int
    BY DEF CodePoints
  <1>3. /\ i + 1 - 1 = i /\ i + 2 - 1 = i + 1 /\ i + 3 - 1 = i + 2 /\ i + 4 - 1 = i + 3
    OBVIOUS
  <1> DEFINE a == c \div 64
             b == c \div 4096
             d == c \div 262144
             e == c % 64
             f == (c \div 64) % 64
             g == (c \div 4096) % 64
  <1>4. CASE c <= 127
    <2>1. w = <<c>>
      BY <1>4, Written8Is
    <2> HIDE DEF w
    <2>2. Len(w) = 1 /\ w[1] = c
      BY <2>1
    <2>3. 1 .. 1 = {1}
      OBVIOUS
    <2>4. Stands(8, t, i, c) <=> i <= Len(t) /\ t[i] = c
      BY <1>1, <1>3, <2>2, <2>3
    <2> QED
      BY <1>2, <1>4, <2>4
  <1>5. CASE (127 < c /\ c <= 2047)
    <2>1. w = <<192 + a, 128 + e>>
      BY <1>5, Written8Is
    <2> HIDE DEF w, a, e
    <2>2. Len(w) = 2 /\ w[1] = 192 + a /\ w[2] = 128 + e
      BY <2>1
    <2>3. 1 .. 2 = {1, 2}
      OBVIOUS
    <2>4. Stands(8, t, i, c) <=> i + 1 <= Len(t) /\ t[i] = 192 + a /\ t[i + 1] = 128 + e
      BY <1>1, <1>3, <2>2, <2>3
    <2>5. ~(c <= 127) /\ ~(2047 < c /\ c <= 65535) /\ ~(65535 < c)
      BY <1>2, <1>5
    <2> QED
      BY <1>5, <2>4, <2>5 DEF a, e
  <1>6. CASE (2047 < c /\ c <= 65535)
    <2>1. w = <<224 + b, 128 + f, 128 + e>>
      BY <1>6, Written8Is
    <2> HIDE DEF w, b, f, e
    <2>2. Len(w) = 3 /\ w[1] = 224 + b /\ w[2] = 128 + f /\ w[3] = 128 + e
      BY <2>1
    <2>3. 1 .. 3 = {1, 2, 3}
      OBVIOUS
    <2>4. Stands(8, t, i, c) <=>
            i + 2 <= Len(t) /\ t[i] = 224 + b /\ t[i + 1] = 128 + f /\ t[i + 2] = 128 + e
      BY <1>1, <1>3, <2>2, <2>3
    <2>5. ~(c <= 127) /\ ~(127 < c /\ c <= 2047) /\ ~(65535 < c)
      BY <1>2, <1>6
    <2> QED
      BY <1>6, <2>4, <2>5 DEF b, f, e
  <1>7. CASE 65535 < c
    <2>1. w = <<240 + d, 128 + g, 128 + f, 128 + e>>
      BY <1>7, Written8Is
    <2> HIDE DEF w, d, g, f, e
    <2>2. Len(w) = 4 /\ w[1] = 240 + d /\ w[2] = 128 + g /\ w[3] = 128 + f /\ w[4] = 128 + e
      BY <2>1
    <2>3. 1 .. 4 = {1, 2, 3, 4}
      OBVIOUS
    <2>4. Stands(8, t, i, c) <=>
            /\ i + 3 <= Len(t) /\ t[i] = 240 + d /\ t[i + 1] = 128 + g
            /\ t[i + 2] = 128 + f /\ t[i + 3] = 128 + e
      BY <1>1, <1>3, <2>2, <2>3
    <2>5. ~(c <= 127) /\ ~(127 < c /\ c <= 2047) /\ ~(2047 < c /\ c <= 65535)
      BY <1>2, <1>7
    <2> QED
      BY <1>7, <2>4, <2>5 DEF d, g, f, e
  <1>8. c <= 127 \/ (127 < c /\ c <= 2047) \/ (2047 < c /\ c <= 65535) \/ 65535 < c
    BY DEF CodePoints
  <1> QED
    BY <1>4, <1>5, <1>6, <1>7, <1>8

LEMMA TwoBytesStand ==
  ASSUME NEW t, Len(t) \in Nat, NEW i \in Nat, NEW c \in CodePoints, 127 < c, c <= 2047,
         i + 1 <= Len(t), t[i] = 192 + c \div 64, t[i + 1] = 128 + (c % 64)
  PROVE  Stands(8, t, i, c)
  BY Stands8Is, SMTT(60)

LEMMA ThreeBytesStand ==
  ASSUME NEW t, Len(t) \in Nat, NEW i \in Nat, NEW c \in CodePoints, 2047 < c, c <= 65535,
         i + 2 <= Len(t), t[i] = 224 + c \div 4096, t[i + 1] = 128 + ((c \div 64) % 64),
         t[i + 2] = 128 + (c % 64)
  PROVE  Stands(8, t, i, c)
  BY Stands8Is, SMTT(60)

LEMMA FourBytesStand ==
  ASSUME NEW t, Len(t) \in Nat, NEW i \in Nat, NEW c \in CodePoints, 65535 < c,
         i + 3 <= Len(t), t[i] = 240 + c \div 262144, t[i + 1] = 128 + ((c \div 4096) % 64),
         t[i + 2] = 128 + ((c \div 64) % 64), t[i + 3] = 128 + (c % 64)
  PROVE  Stands(8, t, i, c)
  BY Stands8Is, SMTT(60)

LEMMA ValidAre ==
  ASSUME NEW c \in Int
  PROVE  Unicode!IsValidCodepoint(c) <=> c \in CodePoints
  BY DEF Unicode!IsValidCodepoint, CodePoints

(* The lead and the trail bytes of a character, as numbers. *)

LEMMA SixBits ==
  ASSUME NEW u \in Nat, 128 <= u, u <= 191
  PROVE  Unicode!Low(u, 6) = u - 128 /\ u \in Byte /\ Unicode!IsTrail8(u)
  <1>1. u \in Byte
    BY DEF Byte
  <1>2. Unicode!Low(u, 6) = u - 128
    BY DEF Unicode!Low
  <1> QED
    BY <1>1, <1>2, IsTrail8Is

LEMMA TwoBytes ==
  ASSUME NEW lead \in Nat, 194 <= lead, lead <= 223,
         NEW u \in Nat, 128 <= u, u <= 191
  PROVE  /\ Unicode!FirstTrail(lead, u) /\ Unicode!Trails(lead) = 1
         /\ Unicode!Low(lead, 5) = lead - 192
  <1>1. /\ 194 <= lead /\ lead <= 244 /\ lead # 224 /\ lead # 237 /\ lead # 240 /\ lead # 244
        /\ lead \in Byte /\ u \in Byte
    BY DEF Byte
  <1>2. Unicode!FirstTrail(lead, u)
    BY <1>1, FirstTrailIs
  <1>3. Unicode!Trails(lead) = 1
    BY <1>1, TrailsAre
  <1>4. Unicode!Low(lead, 5) = lead - 192
    BY DEF Unicode!Low
  <1> QED
    BY <1>2, <1>3, <1>4

LEMMA ThreeBytes ==
  ASSUME NEW lead \in Nat, 224 <= lead, lead <= 239,
         NEW u \in Nat, 128 <= u, u <= 191
  PROVE  /\ Unicode!FirstTrail(lead, u) <=> (lead = 224 => u >= 160) /\ (lead = 237 => u <= 159)
         /\ Unicode!Trails(lead) = 2
         /\ Unicode!Low(lead, 4) = lead - 224
  <1>1. /\ 194 <= lead /\ lead <= 244 /\ lead # 240 /\ lead # 244
        /\ lead \in Byte /\ u \in Byte
    BY DEF Byte
  <1>2. Unicode!FirstTrail(lead, u) <=> (lead = 224 => u >= 160) /\ (lead = 237 => u <= 159)
    <2>1. 128 <= u /\ u <= 191
      OBVIOUS
    <2>2. Unicode!FirstTrail(lead, u) <=>
            /\ 128 <= u /\ u <= 191
            /\ lead = 224 => u >= 160
            /\ lead = 237 => u <= 159
            /\ lead = 240 => u >= 144
            /\ lead = 244 => u <= 143
      BY <1>1, FirstTrailIs
    <2> QED
      BY <1>1, <2>1, <2>2, Zenon
  <1>3. Unicode!Trails(lead) = 2
    BY <1>1, TrailsAre
  <1>4. Unicode!Low(lead, 4) = lead - 224
    BY DEF Unicode!Low
  <1> QED
    BY <1>2, <1>3, <1>4

LEMMA FourBytes ==
  ASSUME NEW lead \in Nat, 240 <= lead, lead <= 244,
         NEW u \in Nat, 128 <= u, u <= 191
  PROVE  /\ Unicode!FirstTrail(lead, u) <=> (lead = 240 => u >= 144) /\ (lead = 244 => u <= 143)
         /\ Unicode!Trails(lead) = 3
         /\ Unicode!Low(lead, 3) = lead - 240
  <1>1. /\ 194 <= lead /\ lead <= 244 /\ lead # 224 /\ lead # 237
        /\ lead \in Byte /\ u \in Byte
    BY DEF Byte
  <1>2. Unicode!FirstTrail(lead, u) <=> (lead = 240 => u >= 144) /\ (lead = 244 => u <= 143)
    BY <1>1, FirstTrailIs
  <1>3. Unicode!Trails(lead) = 3
    BY <1>1, TrailsAre
  <1>4. Unicode!Low(lead, 3) = lead - 240
    BY DEF Unicode!Low
  <1> QED
    BY <1>2, <1>3, <1>4

OfBits(a, b, d, e) == 262144 * a + 4096 * b + 64 * d + e

(* The sixes of bits of a number. *)
IsBits(c, a, b, d, e) ==
  /\ a \in Nat /\ b \in Nat /\ d \in Nat /\ e \in Nat /\ b <= 63 /\ d <= 63 /\ e <= 63
  /\ a = c \div 262144 /\ b = (c \div 4096) % 64 /\ d = (c \div 64) % 64 /\ e = c % 64
  /\ c \div 64 = 4096 * a + 64 * b + d /\ c \div 4096 = 64 * a + b
  /\ c = 262144 * a + 4096 * b + 64 * d + e

LEMMA BitsOf ==
  ASSUME NEW c \in Nat
  PROVE  \E a, b, d, e : IsBits(c, a, b, d, e)
  <1> DEFINE a == c \div 262144
             b == (c \div 4096) % 64
             d == (c \div 64) % 64
             e == c % 64
  <1>1. a \in Nat /\ b \in Nat /\ d \in Nat /\ e \in Nat /\ b <= 63 /\ d <= 63 /\ e <= 63
    OBVIOUS
  <1>2. c \div 4096 = 64 * a + b
    OBVIOUS
  <1>3. c \div 64 = 64 * (c \div 4096) + d
    OBVIOUS
  <1>4. c = 64 * (c \div 64) + e
    OBVIOUS
  <1>5. a = c \div 262144 /\ b = (c \div 4096) % 64 /\ d = (c \div 64) % 64 /\ e = c % 64
    OBVIOUS
  <1> HIDE DEF a, b, d, e
  <1>6. c \div 64 = 4096 * a + 64 * b + d
    BY <1>1, <1>2, <1>3
  <1>7. c = 262144 * a + 4096 * b + 64 * d + e
    BY <1>1, <1>4, <1>6
  <1>8. IsBits(c, a, b, d, e)
    BY <1>1, <1>2, <1>5, <1>6, <1>7 DEF IsBits
  <1> QED
    BY <1>8

LEMMA BitsFrom ==
  ASSUME NEW a \in Nat, NEW b \in Nat, NEW d \in Nat, NEW e \in Nat, b <= 63, d <= 63, e <= 63, NEW c,
         c = OfBits(a, b, d, e)
  PROVE  c \in Nat /\ IsBits(c, a, b, d, e)
  <1>1. c \in Nat /\ c \div 64 = 4096 * a + 64 * b + d /\ c % 64 = e
    BY DEF OfBits
  <1>2. c \div 4096 = 64 * a + b
    BY DEF OfBits
  <1>3. c \div 262144 = a
    BY DEF OfBits
  <1>4. (4096 * a + 64 * b + d) % 64 = d
    OBVIOUS
  <1>5. (64 * a + b) % 64 = b
    OBVIOUS
  <1> QED
    BY <1>1, <1>2, <1>3, <1>4, <1>5 DEF IsBits, OfBits

(* What was written is read. *)
LEMMA ReadBy8 ==
  ASSUME NEW t \in Seq(Byte), NEW i \in 1 .. Len(t), NEW n, Followed(t, i, n),
         n = Unicode!Trails(t[i]), n > 0, ~(t[i] < 128)
  PROVE  /\ Unicode!Next8(t, i).code_point = Unicode!Assembled(t, i)
         /\ Unicode!Next8(t, i).next = i + 1 + n
  <1>1. Unicode!GoodTrails(t, i) = n
    BY GoodTrailsAre
  <1> QED
    BY <1>1, Zenon DEF Unicode!Next8

LEMMA WrittenIsRead8 ==
  ASSUME NEW t \in Seq(Byte), NEW i \in 1 .. Len(t), NEW c \in CodePoints, Stands(8, t, i, c)
  PROVE  /\ Unicode!Next8(t, i).code_point = c
         /\ Unicode!Next8(t, i).next = i + Len(Unicode!Written8(c))
  <1> DEFINE w == Unicode!Written8(c)
             n == Len(w) - 1
             lead == t[i]
             read == Unicode!Next8(t, i)
  <1>0. /\ c \in Nat /\ c <= 1114111 /\ (c < 55296 \/ 57344 <= c)
        /\ Len(t) \in Nat /\ i \in Nat /\ i <= Len(t)
    <2>1. Len(t) \in Nat /\ i \in Nat /\ i <= Len(t)
      OBVIOUS
    <2>2. c \in Nat /\ c <= 1114111 /\ (c < 55296 \/ 57344 <= c)
      BY DEF CodePoints
    <2> QED
      BY <2>1, <2>2
  <1>1. PICK a, b, d, e : IsBits(c, a, b, d, e)
    BY <1>0, BitsOf
  <1>2. CASE c <= 127
    <2>1. lead = c /\ Len(w) = 1
      BY <1>0, <1>2, Stands8Is, Written8Is
    <2>2. Unicode!Trails(lead) = 0 /\ lead < 128
      BY <1>0, <1>2, <2>1 DEF Unicode!Trails
    <2> HIDE DEF lead
    <2>3. Followed(t, i, 0)
      BY <2>2 DEF Followed, lead
    <2>4. Unicode!GoodTrails(t, i) = 0
      BY <2>3, GoodTrailsAre
    <2> QED
      BY <1>0, <2>1, <2>2, <2>4 DEF Unicode!Next8, lead
  <1>3. CASE 127 < c /\ c <= 2047
    <2> DEFINE u == t[i + 1]
    <2>1. /\ lead = 192 + c \div 64 /\ u = 128 + (c % 64) /\ i + 1 <= Len(t)
          /\ Len(w) = 2
      BY <1>0, <1>3, Stands8Is, Written8Is
    <2> HIDE DEF u, lead, w
    <2>2. a = 0 /\ b = 0 /\ d \in 2 .. 31
      BY <1>0, <1>1, <1>3 DEF IsBits
    <2>3. /\ lead = 192 + d /\ u = 128 + e /\ 194 <= lead /\ lead <= 223 /\ 128 <= u /\ u <= 191
          /\ lead \in Nat /\ u \in Nat
          /\ c = 64 * d + e /\ d \in Nat /\ e \in Nat
      BY <1>1, <2>1, <2>2 DEF IsBits
    <2>4. /\ Unicode!FirstTrail(lead, u) /\ Unicode!Trails(lead) = 1
          /\ Unicode!Low(lead, 5) = d /\ Unicode!Low(u, 6) = e
      <3>1. Unicode!Low(lead, 5) = lead - 192 /\ Unicode!Low(u, 6) = u - 128
        BY <2>3, TwoBytes, SixBits
      <3>2. Unicode!FirstTrail(lead, u) /\ Unicode!Trails(lead) = 1
        BY <2>3, TwoBytes
      <3> QED
        BY <2>3, <3>1, <3>2
    <2>5. Unicode!Assembled(t, i) = c /\ ~(lead < 128)
      <3>1. lead < 224 /\ ~(lead < 128)
        BY <2>3
      <3>2. Unicode!Assembled(t, i) = 64 * Unicode!Low(lead, 5) + Unicode!Low(u, 6)
        BY <3>1, ZenonT(60) DEF Unicode!Assembled, lead, u
      <3> QED
        BY <2>3, <2>4, <3>1, <3>2
    <2>6. Followed(t, i, 1)
      <3>1. Follows(t, i, 1)
        BY <2>1, <2>4 DEF Follows, lead, u
      <3>2. 1 .. 1 = {1} /\ 1 \in 0 .. 1
        OBVIOUS
      <3> QED
        BY <2>4, <3>1, <3>2 DEF Followed, lead
    <2>7. read.code_point = c /\ read.next = i + 1 + 1
      BY <2>4, <2>5, <2>6, ReadBy8 DEF lead
    <2>8. i + 1 + 1 = i + 2
      BY <1>0
    <2> QED
      BY <2>1, <2>7, <2>8 DEF w
  <1>4. CASE 2047 < c /\ c <= 65535
    <2> DEFINE u == t[i + 1]
               v == t[i + 2]
    <2>1. /\ lead = 224 + c \div 4096 /\ u = 128 + ((c \div 64) % 64)
          /\ v = 128 + (c % 64) /\ i + 2 <= Len(t)
          /\ Len(w) = 3
      BY <1>0, <1>4, Stands8Is, Written8Is
    <2> HIDE DEF u, v, lead, w
    <2>2. a = 0 /\ b \in 0 .. 15 /\ (b = 0 => d >= 32) /\ (b = 13 => d <= 31)
      BY <1>0, <1>1, <1>4 DEF IsBits
    <2>3. /\ lead = 224 + b /\ u = 128 + d /\ v = 128 + e
          /\ 224 <= lead /\ lead <= 239 /\ 128 <= u /\ u <= 191 /\ 128 <= v /\ v <= 191
          /\ lead \in Nat /\ u \in Nat /\ v \in Nat
          /\ c = 4096 * b + 64 * d + e /\ b \in Nat /\ d \in Nat /\ e \in Nat
      BY <1>1, <2>1, <2>2 DEF IsBits
    <2>4. /\ Unicode!FirstTrail(lead, u) /\ Unicode!Trails(lead) = 2 /\ Unicode!IsTrail8(v)
          /\ Unicode!Low(lead, 4) = b /\ Unicode!Low(u, 6) = d /\ Unicode!Low(v, 6) = e
      <3>1. Unicode!Low(lead, 4) = lead - 224 /\ Unicode!Low(u, 6) = u - 128 /\ Unicode!Low(v, 6) = v - 128
        BY <2>3, ThreeBytes, SixBits
      <3>2. (lead = 224 => u >= 160) /\ (lead = 237 => u <= 159)
        BY <2>2, <2>3
      <3>3. Unicode!FirstTrail(lead, u) /\ Unicode!Trails(lead) = 2 /\ Unicode!IsTrail8(v)
        BY <2>3, <3>2, ThreeBytes, SixBits, SMTT(60)
      <3> QED
        BY <2>3, <3>1, <3>3
    <2>5. Unicode!Assembled(t, i) = c /\ ~(lead < 128)
      <3>1. ~(lead < 224) /\ lead < 240 /\ ~(lead < 128)
        BY <2>3
      <3>2. Unicode!Assembled(t, i) = 2^12 * Unicode!Low(lead, 4) + 64 * Unicode!Low(u, 6)
                                      + Unicode!Low(v, 6)
        BY <3>1 DEF Unicode!Assembled, lead, u, v
      <3>3. Unicode!Assembled(t, i) = 4096 * b + 64 * d + e
        BY <2>4, <3>2
      <3> QED
        BY <2>3, <3>1, <3>3
    <2>6. Followed(t, i, 2)
      <3>0. i + 1 <= Len(t)
        BY <1>0, <2>1
      <3>1. Follows(t, i, 1)
        BY <2>4, <3>0 DEF Follows, lead, u
      <3>2. Follows(t, i, 2)
        BY <2>1, <2>4 DEF Follows, v
      <3>3. 1 .. 2 = {1, 2} /\ 2 \in 0 .. 2
        OBVIOUS
      <3> QED
        BY <2>4, <3>1, <3>2, <3>3 DEF Followed, lead
    <2>7. read.code_point = c /\ read.next = i + 1 + 2
      BY <2>4, <2>5, <2>6, ReadBy8 DEF lead
    <2>8. i + 1 + 2 = i + 3
      BY <1>0
    <2> QED
      BY <2>1, <2>7, <2>8 DEF w
  <1>5. CASE 65535 < c
    <2> DEFINE u == t[i + 1]
               v == t[i + 2]
               x == t[i + 3]
    <2>1. /\ lead = 240 + c \div 262144 /\ u = 128 + ((c \div 4096) % 64)
          /\ v = 128 + ((c \div 64) % 64) /\ x = 128 + (c % 64) /\ i + 3 <= Len(t)
          /\ Len(w) = 4
      BY <1>0, <1>5, Stands8Is, Written8Is
    <2> HIDE DEF u, v, x, lead, w
    <2>2. a \in 0 .. 4 /\ (a = 0 => b >= 16) /\ (a = 4 => b <= 15)
      BY <1>0, <1>1, <1>5 DEF IsBits
    <2>3. /\ lead = 240 + a /\ u = 128 + b /\ v = 128 + d /\ x = 128 + e
          /\ 240 <= lead /\ lead <= 244 /\ 128 <= u /\ u <= 191 /\ 128 <= v /\ v <= 191 /\ 128 <= x /\ x <= 191
          /\ lead \in Nat /\ u \in Nat /\ v \in Nat /\ x \in Nat
          /\ c = 262144 * a + 4096 * b + 64 * d + e /\ a \in Nat /\ b \in Nat /\ d \in Nat /\ e \in Nat
      BY <1>1, <2>1, <2>2 DEF IsBits
    <2>4. /\ Unicode!FirstTrail(lead, u) /\ Unicode!Trails(lead) = 3
          /\ Unicode!IsTrail8(v) /\ Unicode!IsTrail8(x)
          /\ Unicode!Low(lead, 3) = a /\ Unicode!Low(u, 6) = b
          /\ Unicode!Low(v, 6) = d /\ Unicode!Low(x, 6) = e
      <3>0. Unicode!Low(lead, 3) = lead - 240
        BY <2>3, FourBytes
      <3>1. /\ Unicode!Low(u, 6) = u - 128
            /\ Unicode!Low(v, 6) = v - 128 /\ Unicode!Low(x, 6) = x - 128
        BY <2>3, SixBits
      <3>2. (lead = 240 => u >= 144) /\ (lead = 244 => u <= 143)
        BY <2>2, <2>3
      <3>3. /\ Unicode!FirstTrail(lead, u) /\ Unicode!Trails(lead) = 3
            /\ Unicode!IsTrail8(v) /\ Unicode!IsTrail8(x)
        BY <2>3, <3>2, FourBytes, SixBits
      <3> QED
        BY <2>3, <3>0, <3>1, <3>3
    <2>5. Unicode!Assembled(t, i) = c /\ ~(lead < 128)
      <3>1. ~(lead < 224) /\ ~(lead < 240) /\ ~(lead < 128)
        BY <2>3
      <3>2. Unicode!Assembled(t, i) = 2^18 * Unicode!Low(lead, 3) + 2^12 * Unicode!Low(u, 6)
                                      + 64 * Unicode!Low(v, 6) + Unicode!Low(x, 6)
        <4>0. lead = t[i]
          BY DEF lead
        <4>1. ~(t[i] < 224) /\ ~(t[i] < 240)
          BY <3>1, <4>0
        <4>2. Unicode!Assembled(t, i) = 2^18 * Unicode!Low(t[i], 3) + 2^12 * Unicode!Low(t[i + 1], 6)
                                        + 64 * Unicode!Low(t[i + 2], 6) + Unicode!Low(t[i + 3], 6)
          BY <4>1 DEF Unicode!Assembled
        <4> QED
          BY <4>2, Zenon DEF lead, u, v, x
      <3>3. Unicode!Assembled(t, i) = 262144 * a + 4096 * b + 64 * d + e
        BY <2>4, <3>2
      <3> QED
        BY <2>3, <3>1, <3>3
    <2>6. Followed(t, i, 3)
      <3>0. i + 1 <= Len(t) /\ i + 2 <= Len(t)
        BY <1>0, <2>1
      <3>1. Follows(t, i, 1)
        BY <2>4, <3>0 DEF Follows, lead, u
      <3>2. Follows(t, i, 2) /\ Follows(t, i, 3)
        BY <2>1, <2>4, <3>0 DEF Follows, v, x
      <3>3. 1 .. 3 = {1, 2, 3} /\ 3 \in 0 .. 3
        OBVIOUS
      <3> QED
        BY <2>4, <3>1, <3>2, <3>3 DEF Followed, lead
    <2>7. read.code_point = c /\ read.next = i + 1 + 3
      BY <2>4, <2>5, <2>6, ReadBy8 DEF lead
    <2>8. i + 1 + 3 = i + 4
      BY <1>0
    <2> QED
      BY <2>1, <2>7, <2>8 DEF w
  <1> QED
    BY <1>0, <1>2, <1>3, <1>4, <1>5

(* What is read was written. *)
LEMMA ReadIsWritten8 ==
  ASSUME NEW t \in Seq(Byte), NEW i \in 1 .. Len(t),
         Unicode!IsValidCodepoint(Unicode!Next8(t, i).code_point)
  PROVE  /\ Unicode!Next8(t, i).code_point \in CodePoints
         /\ Stands(8, t, i, Unicode!Next8(t, i).code_point)
  <1> DEFINE lead == t[i]
             trails == Unicode!Trails(lead)
             g == Unicode!GoodTrails(t, i)
             c == Unicode!Next8(t, i).code_point
  <1>0. lead \in Byte /\ i \in Nat /\ Len(t) \in Nat /\ i <= Len(t)
    <2>1. lead \in Byte
      BY ElementOf
    <2>2. i \in Nat /\ Len(t) \in Nat /\ i <= Len(t)
      OBVIOUS
    <2> QED
      BY <2>1, <2>2
  <1>1. lead \in Nat /\ lead <= 255
    BY <1>0 DEF Byte
  <1>2. c = IF lead < 128 THEN lead
            ELSE IF trails > 0 /\ g = trails THEN Unicode!Assembled(t, i) ELSE -1
    BY Zenon DEF Unicode!Next8, Unicode!CBU_SENTINEL
  <1>3. CASE lead < 128
    <2>1. c = lead
      BY <1>2, <1>3
    <2> HIDE DEF c, lead
    <2>2. c \in CodePoints /\ c <= 127
      BY <1>1, <1>3, <2>1 DEF CodePoints
    <2>3. Stands(8, t, i, c)
      BY <1>0, <2>1, <2>2, Stands8Is DEF lead
    <2> QED
      BY <2>2, <2>3 DEF c
  <1>4. CASE ~(lead < 128)
    <2>1. trails > 0 /\ g = trails /\ c = Unicode!Assembled(t, i)
      <3>1. ~Unicode!IsValidCodepoint(-1)
        BY DEF Unicode!IsValidCodepoint
      <3>2. c # -1
        <4>1. Unicode!IsValidCodepoint(c)
          OBVIOUS
        <4> HIDE DEF c
        <4> QED BY <3>1, <4>1
      <3> HIDE DEF c, lead, trails, g
      <3> QED
        BY <1>2, <1>4, <3>2
    <2>2. Unicode!IsValidCodepoint(c)
      OBVIOUS
    <2> HIDE DEF c
    <2>3. /\ trails \in 0 .. 3
          /\ trails = 1 <=> 194 <= lead /\ lead <= 223
          /\ trails = 2 <=> 224 <= lead /\ lead <= 239
          /\ trails = 3 <=> 240 <= lead /\ lead <= 244
      <3> HIDE DEF lead
      <3> QED BY <1>0, TrailsAre
    <2>4. \A k \in 1 .. trails : Follows(t, i, k)
      <3>1. Followed(t, i, g)
        BY GoodTrailsAre
      <3> QED
        BY <2>1, <3>1, Zenon DEF Followed
    <2>5. \A k \in 1 .. trails : i + k <= Len(t) /\ t[i + k] \in Byte
      <3> TAKE k \in 1 .. trails
      <3>1. i + k <= Len(t)
        BY <2>4, Zenon DEF Follows
      <3>2. i + k \in 1 .. Len(t)
        <4> HIDE DEF trails
        <4> QED BY <1>0, <2>3, <3>1
      <3> QED
        BY <3>1, <3>2, ElementOf, Zenon
    <2>6. CASE trails = 1
      <3> DEFINE u == t[i + 1]
                 d == lead - 192
                 e == u - 128
      <3>1. Follows(t, i, 1) /\ i + 1 <= Len(t) /\ u \in Byte
        <4> HIDE DEF trails
        <4> QED BY <2>4, <2>5, <2>6
      <3>2. Unicode!FirstTrail(lead, u)
        BY <3>1, Zenon DEF Follows
      <3>3. Unicode!Assembled(t, i) = 64 * Unicode!Low(lead, 5) + Unicode!Low(u, 6)
        <4>1. lead < 224
          <5> HIDE DEF lead, trails
          <5> QED BY <1>1, <2>3, <2>6
        <4> QED
          BY <4>1, Zenon DEF Unicode!Assembled
      <3> HIDE DEF lead, u, trails
      <3>4. u \in Nat /\ 128 <= u /\ u <= 191 /\ 194 <= lead /\ lead <= 223
        <4>1. 194 <= lead /\ lead <= 244
          BY <1>1, <2>3, <2>6
        <4>2. 128 <= u /\ u <= 191
          BY <1>1, <3>1, <3>2, <4>1, FirstTrailIs
        <4> QED
          BY <2>3, <2>6, <3>1, <4>2 DEF Byte
      <3>5. Unicode!Low(lead, 5) = d /\ Unicode!Low(u, 6) = e
        <4>1. Unicode!Low(lead, 5) = d
          BY <1>1, <3>4, TwoBytes
        <4>2. Unicode!Low(u, 6) = e
          BY <3>4, SixBits
        <4> QED
          BY <4>1, <4>2
      <3>6. d \in Nat /\ 2 <= d /\ d <= 31 /\ e \in Nat /\ e <= 63 /\ lead = 192 + d /\ u = 128 + e
        BY <1>1, <3>4
      <3> HIDE DEF d, e
      <3>7. c = 64 * d + e
        BY <2>1, <3>3, <3>5
      <3>8. c \in Nat /\ 127 < c /\ c <= 2047 /\ c \div 64 = d /\ c % 64 = e
        BY <3>6, <3>7
      <3>9. c \in CodePoints
        BY <3>8 DEF CodePoints
      <3>10. Stands(8, t, i, c)
        <4>1. t[i] = 192 + c \div 64 /\ t[i + 1] = 128 + (c % 64)
          BY <3>6, <3>8, SMTT(60) DEF lead, u
        <4> HIDE DEF c
        <4> QED
          BY <1>0, <3>1, <3>8, <3>9, <4>1, TwoBytesStand, SMTT(60)
      <3> QED
        BY <3>9, <3>10 DEF c
    <2>7. CASE trails = 2
      <3> DEFINE u == t[i + 1]
                 v == t[i + 2]
                 b == lead - 224
                 d == u - 128
                 e == v - 128
      <3>1. /\ Follows(t, i, 1) /\ Follows(t, i, 2) /\ i + 2 <= Len(t)
            /\ u \in Byte /\ v \in Byte
        <4> HIDE DEF trails
        <4> QED BY <2>4, <2>5, <2>7
      <3>2. Unicode!FirstTrail(lead, u) /\ Unicode!IsTrail8(v)
        BY <3>1 DEF Follows
      <3>3. Unicode!Assembled(t, i) = 2^12 * Unicode!Low(lead, 4) + 64 * Unicode!Low(u, 6)
                                      + Unicode!Low(v, 6)
        <4>1. ~(lead < 224) /\ lead < 240
          <5> HIDE DEF lead, trails
          <5> QED BY <1>1, <2>3, <2>7
        <4>2. Unicode!Assembled(t, i) = 2^12 * Unicode!Low(t[i], 4) + 64 * Unicode!Low(t[i + 1], 6)
                                        + Unicode!Low(t[i + 2], 6)
          BY <4>1 DEF Unicode!Assembled
        <4> QED
          BY <4>2, Zenon
      <3> HIDE DEF lead, u, v, trails
      <3>4. /\ u \in Nat /\ 128 <= u /\ u <= 191 /\ v \in Nat /\ 128 <= v /\ v <= 191
            /\ 224 <= lead /\ lead <= 239
        <4>1. 194 <= lead /\ lead <= 244 /\ 224 <= lead /\ lead <= 239
          BY <1>1, <2>3, <2>7
        <4>2. 128 <= u /\ u <= 191
          BY <1>1, <3>1, <3>2, <4>1, FirstTrailIs
        <4>3. 128 <= v /\ v <= 191
          BY <3>1, <3>2, IsTrail8Is
        <4> QED
          BY <3>1, <4>1, <4>2, <4>3 DEF Byte
      <3>5. Unicode!Low(lead, 4) = b /\ Unicode!Low(u, 6) = d /\ Unicode!Low(v, 6) = e
        <4>1. Unicode!Low(lead, 4) = b
          BY <1>1, <3>4, ThreeBytes
        <4>2. Unicode!Low(u, 6) = d
          BY <3>4, SixBits
        <4>3. Unicode!Low(v, 6) = e
          BY <3>4, SixBits
        <4> QED
          BY <4>1, <4>2, <4>3
      <3>6. /\ b \in Nat /\ b <= 15 /\ d \in Nat /\ d <= 63 /\ e \in Nat /\ e <= 63
            /\ lead = 224 + b /\ u = 128 + d /\ v = 128 + e
        BY <1>1, <3>4
      <3>7. (b = 0 => d >= 32) /\ (b = 13 => d <= 31)
        <4>1. (lead = 224 => u >= 160) /\ (lead = 237 => u <= 159)
          BY <1>1, <3>2, <3>4, ThreeBytes
        <4> QED
          BY <3>6, <4>1
      <3> HIDE DEF b, d, e
      <3>0. PICK a \in Nat : a = 0
        OBVIOUS
      <3>8. c = OfBits(a, b, d, e)
        BY <2>1, <3>0, <3>3, <3>5, <3>6 DEF OfBits
      <3>9. c \in Nat /\ IsBits(c, a, b, d, e)
        <4>1. a \in Nat /\ b \in Nat /\ d \in Nat /\ e \in Nat /\ b <= 63 /\ d <= 63 /\ e <= 63
          BY <3>6
        <4> QED
          BY <3>8, <4>1, BitsFrom, Zenon
      <3>10. c \div 4096 = b /\ (c \div 64) % 64 = d /\ c % 64 = e
        BY <3>0, <3>6, <3>9 DEF IsBits
      <3>11. 2047 < c /\ c <= 65535 /\ (c < 55296 \/ 57344 <= c)
        BY <3>0, <3>6, <3>7, <3>8 DEF OfBits
      <3>12. c \in CodePoints
        BY <3>9, <3>11 DEF CodePoints
      <3>13. Stands(8, t, i, c)
        <4>1. /\ t[i] = 224 + c \div 4096 /\ t[i + 1] = 128 + ((c \div 64) % 64)
              /\ t[i + 2] = 128 + (c % 64)
          BY <3>6, <3>10, SMTT(60) DEF lead, u, v
        <4> HIDE DEF c
        <4> QED
          BY <1>0, <3>1, <3>11, <3>12, <4>1, ThreeBytesStand, SMTT(60)
      <3> QED
        BY <3>12, <3>13 DEF c
    <2>8. CASE trails = 3
      <3> DEFINE u == t[i + 1]
                 v == t[i + 2]
                 x == t[i + 3]
                 a == lead - 240
                 b == u - 128
                 d == v - 128
                 e == x - 128
      <3>1. /\ Follows(t, i, 1) /\ Follows(t, i, 2) /\ Follows(t, i, 3) /\ i + 3 <= Len(t)
            /\ u \in Byte /\ v \in Byte /\ x \in Byte
        <4> HIDE DEF trails
        <4> QED BY <2>4, <2>5, <2>8
      <3>2. Unicode!FirstTrail(lead, u) /\ Unicode!IsTrail8(v) /\ Unicode!IsTrail8(x)
        BY <3>1 DEF Follows
      <3>3. Unicode!Assembled(t, i) = 2^18 * Unicode!Low(lead, 3) + 2^12 * Unicode!Low(u, 6)
                                      + 64 * Unicode!Low(v, 6) + Unicode!Low(x, 6)
        <4>1. ~(lead < 224) /\ ~(lead < 240)
          <5> HIDE DEF lead, trails
          <5> QED BY <1>1, <2>3, <2>8
        <4>2. Unicode!Assembled(t, i) = 2^18 * Unicode!Low(t[i], 3) + 2^12 * Unicode!Low(t[i + 1], 6)
                                        + 64 * Unicode!Low(t[i + 2], 6) + Unicode!Low(t[i + 3], 6)
          BY <4>1 DEF Unicode!Assembled
        <4> QED
          BY <4>2, Zenon
      <3> HIDE DEF lead, u, v, x, trails
      <3>4. /\ u \in Nat /\ 128 <= u /\ u <= 191 /\ v \in Nat /\ 128 <= v /\ v <= 191
            /\ x \in Nat /\ 128 <= x /\ x <= 191
            /\ 240 <= lead /\ lead <= 244
        <4>1. 194 <= lead /\ lead <= 244 /\ 240 <= lead
          BY <1>1, <2>3, <2>8
        <4>2. 128 <= u /\ u <= 191
          BY <1>1, <3>1, <3>2, <4>1, FirstTrailIs
        <4>3. 128 <= v /\ v <= 191 /\ 128 <= x /\ x <= 191
          BY <3>1, <3>2, IsTrail8Is
        <4> QED
          BY <3>1, <4>1, <4>2, <4>3 DEF Byte
      <3>5. /\ Unicode!Low(lead, 3) = a /\ Unicode!Low(u, 6) = b
            /\ Unicode!Low(v, 6) = d /\ Unicode!Low(x, 6) = e
        <4>1. Unicode!Low(lead, 3) = a
          BY <1>1, <3>4, FourBytes
        <4>2. Unicode!Low(u, 6) = b
          BY <3>4, SixBits
        <4>3. Unicode!Low(v, 6) = d
          BY <3>4, SixBits
        <4>4. Unicode!Low(x, 6) = e
          BY <3>4, SixBits
        <4> QED
          BY <4>1, <4>2, <4>3, <4>4
      <3>6. /\ a \in Nat /\ a <= 4 /\ b \in Nat /\ b <= 63 /\ d \in Nat /\ d <= 63
            /\ e \in Nat /\ e <= 63
            /\ lead = 240 + a /\ u = 128 + b /\ v = 128 + d /\ x = 128 + e
        BY <1>1, <3>4
      <3>7. (a = 0 => b >= 16) /\ (a = 4 => b <= 15)
        <4>1. (lead = 240 => u >= 144) /\ (lead = 244 => u <= 143)
          BY <1>1, <3>2, <3>4, FourBytes
        <4> QED
          BY <3>6, <4>1, SMTT(60)
      <3> HIDE DEF a, b, d, e
      <3>8. c = OfBits(a, b, d, e)
        BY <2>1, <3>3, <3>5, <3>6, SMTT(60) DEF OfBits
      <3>9. c \in Nat /\ IsBits(c, a, b, d, e)
        BY <3>6, <3>8, BitsFrom
      <3>10. c \div 262144 = a /\ (c \div 4096) % 64 = b /\ (c \div 64) % 64 = d /\ c % 64 = e
        BY <3>9 DEF IsBits
      <3>11. 65535 < c /\ c <= 1114111
        BY <3>6, <3>7, <3>8 DEF OfBits
      <3>12. c \in CodePoints
        BY <3>9, <3>11 DEF CodePoints
      <3>13. Stands(8, t, i, c)
        <4>1. /\ t[i] = 240 + c \div 262144 /\ t[i + 1] = 128 + ((c \div 4096) % 64)
              /\ t[i + 2] = 128 + ((c \div 64) % 64) /\ t[i + 3] = 128 + (c % 64)
          BY <3>6, <3>10, SMTT(60) DEF lead, u, v, x
        <4> HIDE DEF c
        <4> QED
          BY <1>0, <3>1, <3>11, <3>12, <4>1, FourBytesStand, SMTT(60)
      <3> QED
        BY <3>12, <3>13 DEF c
    <2> QED
      <3> HIDE DEF trails
      <3> QED BY <2>1, <2>3, <2>6, <2>7, <2>8
  <1> QED
    BY <1>3, <1>4

LEMMA FollowsTrail ==
  ASSUME NEW t \in Seq(Byte), NEW i \in 1 .. Len(t), NEW k \in Nat \ {0}, Follows(t, i, k)
  PROVE  i + k \in 1 .. Len(t) /\ Unicode!IsTrail8(t[i + k])
  <1>1. i + k \in 1 .. Len(t)
    BY DEF Follows
  <1>2. CASE k = 1
    <2> DEFINE c == t[i]
               byte == t[i + 1]
    <2>1. c \in Byte /\ byte \in Byte
      <3>1. t[i + k] \in Byte /\ t[i] \in Byte
        BY <1>1, ElementOf, Zenon
      <3> QED
        BY <1>2, <3>1
    <2>2. Unicode!FirstTrail(c, byte)
      BY <1>2 DEF Follows
    <2> HIDE DEF c, byte
    <2>3. c \in Nat /\ 194 <= c /\ c <= 244
      <3>1. c \in 194 .. 223 \/ c \in 224 .. 239 \/ c \in 240 .. 244
        BY <2>2, Zenon DEF Unicode!FirstTrail
      <3>2. c \in 194 .. 223 => c \in Nat /\ 194 <= c /\ c <= 244
        OBVIOUS
      <3>3. c \in 224 .. 239 => c \in Nat /\ 194 <= c /\ c <= 244
        OBVIOUS
      <3>4. c \in 240 .. 244 => c \in Nat /\ 194 <= c /\ c <= 244
        OBVIOUS
      <3> QED
        BY <3>1, <3>2, <3>3, <3>4, Zenon
    <2>4. Unicode!IsTrail8(byte)
      BY <2>1, <2>2, <2>3, FirstTrailIs, IsTrail8Is
    <2> QED
      BY <1>1, <1>2, <2>4 DEF byte
  <1>3. CASE k # 1
    BY <1>1, <1>3 DEF Follows
  <1> QED
    BY <1>2, <1>3

-----------------------------------------------------------------------------
(* UTF-16 *)

LEMMA SurrogatesAre ==
  ASSUME NEW unit \in Unit16
  PROVE  /\ Unicode!IsLead16(unit) <=> 55296 <= unit /\ unit <= 56319
         /\ Unicode!IsTrail16(unit) <=> 56320 <= unit /\ unit <= 57343
  BY DEF Unit16, Unicode!IsLead16, Unicode!IsTrail16, Unicode!High

LEMMA Written16Is ==
  ASSUME NEW c \in CodePoints
  PROVE  /\ c <= 65535 => Unicode!Written16(c) = <<c>>
         /\ 65535 < c => Unicode!Written16(c) = <<c \div 1024 + 55232, 56320 + (c % 1024)>>
  BY DEF CodePoints, Unicode!Written16, Unicode!High, Unicode!Low

LEMMA Stands16Is ==
  ASSUME NEW t, Len(t) \in Nat, NEW i \in Nat, NEW c \in CodePoints
  PROVE  Stands(16, t, i, c) <=>
           \/ c <= 65535 /\ i <= Len(t) /\ t[i] = c
           \/ /\ 65535 < c /\ i + 1 <= Len(t)
              /\ t[i] = c \div 1024 + 55232 /\ t[i + 1] = 56320 + (c % 1024)
  <1> DEFINE w == Unicode!Written16(c)
             a == c \div 1024
             e == c % 1024
  <1>1. Stands(16, t, i, c) <=> /\ i + Len(w) - 1 <= Len(t)
                                /\ \A k \in 1 .. Len(w) : t[i + k - 1] = w[k]
    BY DEF Stands, Unicode!WriteUnicodeCharacter
  <1>2. c \in Int
    BY DEF CodePoints
  <1>3. /\ i + 1 - 1 = i /\ i + 2 - 1 = i + 1
    OBVIOUS
  <1>4. CASE c <= 65535
    <2>1. w = <<c>>
      BY <1>4, Written16Is
    <2> HIDE DEF w
    <2>2. Len(w) = 1 /\ w[1] = c
      BY <2>1
    <2>3. 1 .. 1 = {1}
      OBVIOUS
    <2>4. Stands(16, t, i, c) <=> i <= Len(t) /\ t[i] = c
      BY <1>1, <1>3, <2>2, <2>3
    <2> QED
      BY <1>2, <1>4, <2>4
  <1>5. CASE 65535 < c
    <2>1. w = <<a + 55232, 56320 + e>>
      BY <1>5, Written16Is
    <2> HIDE DEF w, a, e
    <2>2. Len(w) = 2 /\ w[1] = a + 55232 /\ w[2] = 56320 + e
      BY <2>1
    <2>3. 1 .. 2 = {1, 2}
      OBVIOUS
    <2>4. Stands(16, t, i, c) <=> i + 1 <= Len(t) /\ t[i] = a + 55232 /\ t[i + 1] = 56320 + e
      BY <1>1, <1>3, <2>2, <2>3
    <2>5. ~(c <= 65535)
      BY <1>2, <1>5
    <2> QED
      BY <1>5, <2>4, <2>5 DEF a, e
  <1> QED
    BY <1>2, <1>4, <1>5

LEMMA WrittenIsRead16 ==
  ASSUME NEW t \in Seq(Unit16), NEW i \in 1 .. Len(t), NEW c \in CodePoints, Stands(16, t, i, c)
  PROVE  /\ Unicode!Next16(t, i).code_point = c
         /\ Unicode!Next16(t, i).next = i + Len(Unicode!Written16(c))
  <1> DEFINE lead == t[i]
             w == Unicode!Written16(c)
             read == Unicode!Next16(t, i)
  <1>0. /\ c \in Nat /\ c <= 1114111 /\ (c < 55296 \/ 57344 <= c)
        /\ Len(t) \in Nat /\ i \in Nat /\ i <= Len(t) /\ lead \in Unit16
    <2>1. Len(t) \in Nat /\ i \in Nat /\ i <= Len(t)
      OBVIOUS
    <2>2. c \in Nat /\ c <= 1114111 /\ (c < 55296 \/ 57344 <= c)
      BY DEF CodePoints
    <2>3. lead \in Unit16
      BY ElementOf
    <2> QED
      BY <2>1, <2>2, <2>3
  <1>1. CASE c <= 65535
    <2>1. lead = c
      BY <1>0, <1>1, Stands16Is
    <2>2. Len(w) = 1
      BY <1>1, Written16Is
    <2>3. ~Unicode!IsLead16(lead) /\ ~Unicode!IsTrail16(lead)
      <3> HIDE DEF lead
      <3> QED BY <1>0, <2>1, SurrogatesAre
    <2>4. ~Unicode!IsSurrogate(lead)
      BY <2>3, Zenon DEF Unicode!IsSurrogate
    <2>5. read.code_point = lead /\ read.next = i + 1
      BY <2>4 DEF Unicode!Next16
    <2> QED
      BY <2>1, <2>2, <2>5
  <1>2. CASE 65535 < c
    <2> DEFINE u == t[i + 1]
               a == c \div 1024
               e == c % 1024
    <2>1. lead = a + 55232 /\ u = 56320 + e /\ i + 1 <= Len(t)
      BY <1>0, <1>2, Stands16Is
    <2>2. Len(w) = 2
      BY <1>2, Written16Is
    <2>3. a \in Nat /\ 64 <= a /\ a <= 1087 /\ e \in Nat /\ e <= 1023 /\ c = 1024 * a + e
      BY <1>0, <1>2
    <2> HIDE DEF lead, u, a, e, w
    <2>4. lead \in Unit16 /\ u \in Unit16
      BY <1>0, <2>1, <2>3 DEF Unit16
    <2>5. Unicode!IsLead16(lead) /\ Unicode!IsTrail16(u)
      BY <2>1, <2>3, <2>4, SurrogatesAre
    <2>6. Unicode!IsSurrogate(lead)
      BY <2>5, Zenon DEF Unicode!IsSurrogate
    <2>7. /\ read.code_point = 2^10 * lead + u - (2^10 * 55296 + 56320 - 65536)
          /\ read.next = i + 2
      <3>1. /\ Unicode!IsSurrogate(t[i]) /\ Unicode!IsLead16(t[i]) /\ i + 1 <= Len(t)
            /\ Unicode!IsTrail16(t[i + 1])
        <4>1. i + 1 <= Len(t)
          BY <2>1
        <4> QED
          BY <2>5, <2>6, <4>1 DEF lead, u
      <3>2. /\ read.code_point = 2^10 * t[i] + t[i + 1] - (2^10 * 55296 + 56320 - 65536)
            /\ read.next = i + 2
        BY <3>1 DEF Unicode!Next16
      <3> QED
        BY <3>2 DEF lead, u
    <2>8. read.code_point = c
      BY <2>1, <2>3, <2>7
    <2> QED
      BY <2>2, <2>7, <2>8 DEF w
  <1> QED
    BY <1>0, <1>1, <1>2

LEMMA ReadIsWritten16 ==
  ASSUME NEW t \in Seq(Unit16), NEW i \in 1 .. Len(t),
         Unicode!IsValidCodepoint(Unicode!Next16(t, i).code_point)
  PROVE  /\ Unicode!Next16(t, i).code_point \in CodePoints
         /\ Stands(16, t, i, Unicode!Next16(t, i).code_point)
  <1> DEFINE lead == t[i]
             c == Unicode!Next16(t, i).code_point
             u == t[i + 1]
             Pair == Unicode!IsLead16(lead) /\ i + 1 <= Len(t) /\ Unicode!IsTrail16(u)
  <1>0. lead \in Unit16 /\ i \in Nat /\ Len(t) \in Nat /\ i <= Len(t)
    <2>1. lead \in Unit16
      BY ElementOf
    <2>2. i \in Nat /\ Len(t) \in Nat /\ i <= Len(t)
      OBVIOUS
    <2> QED
      BY <2>1, <2>2
  <1>1. lead \in Nat /\ lead <= 65535
    BY <1>0 DEF Unit16
  <1>2. Unicode!IsValidCodepoint(c) /\ ~Unicode!IsValidCodepoint(-1)
    BY DEF Unicode!IsValidCodepoint
  <1>3. CASE ~Unicode!IsSurrogate(lead)
    <2>1. c = lead
      BY <1>3 DEF Unicode!Next16
    <2>2. ~Unicode!IsLead16(lead) /\ ~Unicode!IsTrail16(lead)
      BY <1>3, Zenon DEF Unicode!IsSurrogate
    <2> HIDE DEF lead, c
    <2>3. c \in CodePoints /\ c <= 65535
      <3>1. ~(55296 <= lead /\ lead <= 57343)
        BY <1>0, <1>1, <2>2, SurrogatesAre
      <3> QED
        BY <1>1, <2>1, <3>1 DEF CodePoints
    <2>4. Stands(16, t, i, c)
      BY <1>0, <2>1, <2>3, Stands16Is DEF lead
    <2> QED
      BY <2>3, <2>4 DEF c
  <1>4. CASE Unicode!IsSurrogate(lead)
    <2>1. Pair
      <3> SUFFICES ASSUME ~Pair
                   PROVE  FALSE
        OBVIOUS
      <3>1. c = -1
        BY <1>4 DEF Unicode!Next16, Unicode!CBU_SENTINEL
      <3> HIDE DEF c
      <3> QED
        BY <1>2, <3>1
    <2>2. u \in Unit16
      <3>1. i + 1 \in 1 .. Len(t)
        BY <1>0, <2>1
      <3> QED
        BY <3>1, ElementOf
    <2>3. c = 2^10 * lead + u - (2^10 * 55296 + 56320 - 65536)
      BY <1>4, <2>1 DEF Unicode!Next16
    <2>4. i + 1 <= Len(t)
      BY <2>1
    <2> HIDE DEF lead, u, c
    <2>5. 55296 <= lead /\ lead <= 56319 /\ u \in Nat /\ 56320 <= u /\ u <= 57343
      BY <1>0, <2>1, <2>2, SurrogatesAre DEF Unit16
    <2>6. c = 1024 * (lead - 55232) + (u - 56320)
      BY <1>1, <2>3, <2>5
    <2>7. c \in Nat /\ c \div 1024 = lead - 55232 /\ c % 1024 = u - 56320 /\ 65535 < c /\ c <= 1114111
      BY <1>1, <2>5, <2>6
    <2>8. c \in CodePoints
      BY <2>7 DEF CodePoints
    <2>9. lead = c \div 1024 + 55232 /\ u = 56320 + (c % 1024)
      BY <1>1, <2>5, <2>7
    <2>10. Stands(16, t, i, c)
      <3>1. t[i] = c \div 1024 + 55232 /\ t[i + 1] = 56320 + (c % 1024)
        BY <2>9 DEF lead, u
      <3>2. /\ 65535 < c /\ i + 1 <= Len(t)
        BY <2>4, <2>7
      <3> QED
        BY <1>0, <2>8, <3>1, <3>2, Stands16Is
    <2> QED
      BY <2>8, <2>10 DEF c
  <1> QED
    BY <1>3, <1>4

-----------------------------------------------------------------------------
(* Either encoding *)

ReadAt(bits, t, i) == Unicode!ReadUnicodeCharacter(bits, t, i)
Spelled(bits, c) == Unicode!WriteUnicodeCharacter(bits, c)
IsTrail(bits, unit) == IF bits = 8 THEN Unicode!IsTrail8(unit) ELSE Unicode!IsTrail16(unit)

LEMMA WrittenTyped ==
  ASSUME NEW bits \in Encodings, NEW c \in CodePoints
  PROVE  Spelled(bits, c) \in Seq(Units(bits)) /\ Len(Spelled(bits, c)) \in Nat \ {0}
  <1>0. c \in Nat /\ c <= 1114111
    BY DEF CodePoints
  <1>1. CASE bits = 8
    <2> DEFINE w == Unicode!Written8(c)
    <2>0. Spelled(bits, c) = w /\ Units(bits) = Byte
      BY <1>1 DEF Spelled, Unicode!WriteUnicodeCharacter, Units
    <2> DEFINE a == c \div 64
               b == c \div 4096
               d == c \div 262144
               e == c % 64
               f == (c \div 64) % 64
               g == (c \div 4096) % 64
    <2>1. CASE c <= 127
      <3>1. w = <<c>> /\ c \in Byte
        BY <1>0, <2>1, Written8Is DEF Byte
      <3> HIDE DEF w
      <3> QED
        BY <2>0, <3>1
    <2>2. CASE 127 < c /\ c <= 2047
      <3>1. w = <<192 + a, 128 + e>> /\ 192 + a \in Byte /\ 128 + e \in Byte
        BY <1>0, <2>2, Written8Is DEF Byte
      <3> HIDE DEF w, a, e
      <3> QED
        BY <2>0, <3>1
    <2>3. CASE 2047 < c /\ c <= 65535
      <3>1. /\ w = <<224 + b, 128 + f, 128 + e>>
            /\ 224 + b \in Byte /\ 128 + f \in Byte /\ 128 + e \in Byte
        BY <1>0, <2>3, Written8Is DEF Byte
      <3> HIDE DEF w, b, f, e
      <3> QED
        BY <2>0, <3>1
    <2>4. CASE 65535 < c
      <3>1. w = <<240 + d, 128 + g, 128 + f, 128 + e>>
        BY <2>4, Written8Is
      <3>2. d <= 4 /\ d \in Nat /\ g \in Nat /\ f \in Nat /\ e \in Nat /\ g <= 63 /\ f <= 63 /\ e <= 63
        BY <1>0
      <3> HIDE DEF w, d, g, f, e
      <3>3. 240 + d \in Byte /\ 128 + g \in Byte /\ 128 + f \in Byte /\ 128 + e \in Byte
        BY <3>2 DEF Byte
      <3> QED
        BY <2>0, <3>1, <3>3
    <2> QED
      BY <1>0, <2>1, <2>2, <2>3, <2>4
  <1>2. CASE bits = 16
    <2> DEFINE w == Unicode!Written16(c)
               a == c \div 1024
               e == c % 1024
    <2>0. Spelled(bits, c) = w /\ Units(bits) = Unit16
      BY <1>2 DEF Spelled, Unicode!WriteUnicodeCharacter, Units
    <2>1. CASE c <= 65535
      <3>1. w = <<c>> /\ c \in Unit16
        BY <1>0, <2>1, Written16Is DEF Unit16
      <3> HIDE DEF w
      <3> QED
        BY <2>0, <3>1
    <2>2. CASE 65535 < c
      <3>1. w = <<a + 55232, 56320 + e>>
        BY <2>2, Written16Is
      <3>2. a \in Nat /\ a <= 1087 /\ e \in Nat /\ e <= 1023
        BY <1>0
      <3> HIDE DEF w, a, e
      <3>3. a + 55232 \in Unit16 /\ 56320 + e \in Unit16
        BY <3>2 DEF Unit16
      <3> QED
        BY <2>0, <3>1, <3>3
    <2> QED
      BY <1>0, <2>1, <2>2
  <1> QED
    BY <1>1, <1>2 DEF Encodings

LEMMA WrittenIsRead ==
  ASSUME NEW bits \in Encodings, NEW t \in Seq(Units(bits)), NEW i \in 1 .. Len(t),
         NEW c \in CodePoints, Stands(bits, t, i, c)
  PROVE  ReadAt(bits, t, i).code_point = c /\ ReadAt(bits, t, i).next = i + Len(Spelled(bits, c))
  <1>1. CASE bits = 8
    <2>1. t \in Seq(Byte) /\ Stands(8, t, i, c)
      BY <1>1 DEF Units
    <2>2. ReadAt(bits, t, i) = Unicode!Next8(t, i) /\ Spelled(bits, c) = Unicode!Written8(c)
      BY <1>1 DEF ReadAt, Unicode!ReadUnicodeCharacter, Spelled, Unicode!WriteUnicodeCharacter
    <2> QED
      BY <2>1, <2>2, WrittenIsRead8
  <1>2. CASE bits = 16
    <2>1. t \in Seq(Unit16) /\ Stands(16, t, i, c)
      BY <1>2 DEF Units
    <2>2. ReadAt(bits, t, i) = Unicode!Next16(t, i) /\ Spelled(bits, c) = Unicode!Written16(c)
      BY <1>2 DEF ReadAt, Unicode!ReadUnicodeCharacter, Spelled, Unicode!WriteUnicodeCharacter
    <2> QED
      BY <2>1, <2>2, WrittenIsRead16
  <1> QED
    BY <1>1, <1>2 DEF Encodings

LEMMA ReadIsWritten ==
  ASSUME NEW bits \in Encodings, NEW t \in Seq(Units(bits)), NEW i \in 1 .. Len(t),
         Unicode!IsValidCodepoint(ReadAt(bits, t, i).code_point)
  PROVE  ReadAt(bits, t, i).code_point \in CodePoints /\ Stands(bits, t, i, ReadAt(bits, t, i).code_point)
  <1>1. CASE bits = 8
    <2>1. t \in Seq(Byte)
      BY <1>1 DEF Units
    <2>2. ReadAt(bits, t, i) = Unicode!Next8(t, i)
      BY <1>1 DEF ReadAt, Unicode!ReadUnicodeCharacter
    <2> QED
      BY <1>1, <2>1, <2>2, ReadIsWritten8
  <1>2. CASE bits = 16
    <2>1. t \in Seq(Unit16)
      BY <1>2 DEF Units
    <2>2. ReadAt(bits, t, i) = Unicode!Next16(t, i)
      BY <1>2 DEF ReadAt, Unicode!ReadUnicodeCharacter
    <2> QED
      BY <1>2, <2>1, <2>2, ReadIsWritten16
  <1> QED
    BY <1>1, <1>2 DEF Encodings

LEMMA ReadGoesOn ==
  ASSUME NEW bits \in Encodings, NEW t \in Seq(Units(bits)), NEW i \in 1 .. Len(t)
  PROVE  ReadAt(bits, t, i).next \in i + 1 .. Len(t) + 1
  <1>1. CASE bits = 8
    <2>1. t \in Seq(Byte)
      BY <1>1 DEF Units
    <2>2. ReadAt(bits, t, i) = Unicode!Next8(t, i)
      BY <1>1 DEF ReadAt, Unicode!ReadUnicodeCharacter
    <2>3. \A k \in 1 .. Unicode!GoodTrails(t, i) : i + k <= Len(t)
      BY <2>1, GoodTrailsAre DEF Followed, Follows
    <2> QED
      BY <2>1, <2>2, <2>3, SameRead8
  <1>2. CASE bits = 16
    <2>1. ReadAt(bits, t, i) = Unicode!Next16(t, i)
      BY <1>2 DEF ReadAt, Unicode!ReadUnicodeCharacter
    <2> QED
      BY <2>1 DEF Unicode!Next16
  <1> QED
    BY <1>1, <1>2 DEF Encodings

(* What is read depends on the text behind it only. *)
LEMMA SuffixRead ==
  ASSUME NEW bits \in Encodings, NEW s \in Seq(Units(bits)), NEW t \in Seq(Units(bits)), NEW k \in Nat,
         Len(s) = k + Len(t), \A i \in 1 .. Len(t) : s[k + i] = t[i],
         NEW i \in 1 .. Len(t)
  PROVE  /\ ReadAt(bits, s, k + i).code_point = ReadAt(bits, t, i).code_point
         /\ ReadAt(bits, s, k + i).next = ReadAt(bits, t, i).next + k
  <1>0. /\ Len(s) \in Nat /\ Len(t) \in Nat /\ i \in Nat /\ i <= Len(t) /\ k + i \in 1 .. Len(s)
        /\ s[k + i] = t[i]
    OBVIOUS
  <1>1. CASE bits = 8
    <2>1. s \in Seq(Byte) /\ t \in Seq(Byte)
      BY <1>1 DEF Units
    <2>2. /\ ReadAt(bits, s, k + i) = Unicode!Next8(s, k + i)
          /\ ReadAt(bits, t, i) = Unicode!Next8(t, i)
      BY <1>1 DEF ReadAt, Unicode!ReadUnicodeCharacter
    <2>3. \A n \in Nat : i + n <= Len(t) => (k + i) + n <= Len(s) /\ t[i + n] = s[(k + i) + n]
      <3> TAKE n \in Nat
      <3> HAVE i + n <= Len(t)
      <3>1. i + n \in 1 .. Len(t) /\ k + (i + n) = (k + i) + n
        BY <1>0
      <3> QED
        BY <1>0, <3>1, SMTT(60)
    <2>4. Unicode!GoodTrails(t, i) \in 0 .. 3
      <3>1. Unicode!Trails(t[i]) \in 0 .. 3
        <4>1. t[i] \in Byte
          BY <2>1, ElementOf
        <4> QED
          BY <4>1, TrailsAre
      <3>2. Unicode!GoodTrails(t, i) \in 0 .. Unicode!Trails(t[i])
        BY <2>1, GoodTrailsAre DEF Followed
      <3> QED
        BY <3>1, <3>2
    <2>5. \A n \in 1 .. Unicode!GoodTrails(t, i) : (k + i) + n <= Len(s) /\ t[i + n] = s[(k + i) + n]
      <3> TAKE n \in 1 .. Unicode!GoodTrails(t, i)
      <3>1. i + n <= Len(t)
        BY <2>1, GoodTrailsAre DEF Followed, Follows
      <3> QED
        BY <2>3, <2>4, <3>1, SMTT(60)
    <2>6. \A n \in 1 .. 3 : Follows(s, k + i, n) => Follows(t, i, n)
      <3> TAKE n \in 1 .. 3
      <3> HAVE Follows(s, k + i, n)
      <3>1. i + n <= Len(t)
        BY <1>0 DEF Follows
      <3>2. t[i + n] = s[(k + i) + n]
        BY <2>3, <3>1
      <3> QED
        BY <1>0, <3>1, <3>2 DEF Follows
    <2>7. /\ Unicode!Next8(s, k + i).code_point = Unicode!Next8(t, i).code_point
          /\ Unicode!Next8(s, k + i).next = Unicode!Next8(t, i).next - i + (k + i)
      BY <1>0, <2>1, <2>5, <2>6, SameRead8
    <2>8. Unicode!Next8(t, i).next \in i + 1 .. Len(t) + 1
      BY <1>1, <2>2, ReadGoesOn
    <2> QED
      BY <1>0, <2>2, <2>7, <2>8
  <1>2. CASE bits = 16
    <2>2. /\ ReadAt(bits, s, k + i) = Unicode!Next16(s, k + i)
          /\ ReadAt(bits, t, i) = Unicode!Next16(t, i)
      BY <1>2 DEF ReadAt, Unicode!ReadUnicodeCharacter
    <2>3. (k + i) + 1 <= Len(s) <=> i + 1 <= Len(t)
      BY <1>0
    <2>4. i + 1 <= Len(t) => s[(k + i) + 1] = t[i + 1]
      <3> HAVE i + 1 <= Len(t)
      <3>1. i + 1 \in 1 .. Len(t) /\ k + (i + 1) = (k + i) + 1
        BY <1>0
      <3> QED
        BY <3>1
    <2>5. k + i + 1 = (i + 1) + k /\ k + i + 2 = (i + 2) + k
      BY <1>0
    <2>6. /\ Unicode!Next16(s, k + i).code_point = Unicode!Next16(t, i).code_point
          /\ Unicode!Next16(s, k + i).next = Unicode!Next16(t, i).next + k
      <3>1. CASE i + 1 <= Len(t)
        <4> DEFINE lead == t[i]
                   unit == t[i + 1]
                   Pair == Unicode!IsLead16(lead) /\ Unicode!IsTrail16(unit)
        <4>1. s[k + i] = lead /\ s[(k + i) + 1] = unit /\ (k + i) + 1 <= Len(s)
          BY <1>0, <2>3, <2>4, <3>1
        <4>2. CASE ~Unicode!IsSurrogate(lead)
          BY <1>0, <2>5, <4>1, <4>2 DEF Unicode!Next16
        <4>3. CASE Unicode!IsSurrogate(lead) /\ Pair
          BY <1>0, <2>5, <3>1, <4>1, <4>3 DEF Unicode!Next16
        <4>4. CASE Unicode!IsSurrogate(lead) /\ ~Pair
          BY <1>0, <2>5, <3>1, <4>1, <4>4 DEF Unicode!Next16
        <4> QED
          BY <4>2, <4>3, <4>4
      <3>2. CASE ~(i + 1 <= Len(t))
        BY <1>0, <2>3, <2>5, <3>2 DEF Unicode!Next16
      <3> QED
        BY <3>1, <3>2
    <2> QED
      BY <2>2, <2>6
  <1> QED
    BY <1>1, <1>2 DEF Encodings

(* No character goes on over a place where one may begin. *)
LEMMA PrefixRead ==
  ASSUME NEW bits \in Encodings, NEW s \in Seq(Units(bits)), NEW t \in Seq(Units(bits)),
         Len(t) < Len(s), \A i \in 1 .. Len(t) : s[i] = t[i], ~IsTrail(bits, s[Len(t) + 1]),
         NEW i \in 1 .. Len(t)
  PROVE  /\ ReadAt(bits, s, i).code_point = ReadAt(bits, t, i).code_point
         /\ ReadAt(bits, s, i).next = ReadAt(bits, t, i).next
  <1>0. /\ Len(s) \in Nat /\ Len(t) \in Nat /\ i \in Nat /\ i <= Len(t) /\ i \in 1 .. Len(s)
        /\ s[i] = t[i]
    OBVIOUS
  <1>1. CASE bits = 8
    <2>1. s \in Seq(Byte) /\ t \in Seq(Byte)
      BY <1>1 DEF Units
    <2>2. /\ ReadAt(bits, s, i) = Unicode!Next8(s, i)
          /\ ReadAt(bits, t, i) = Unicode!Next8(t, i)
      BY <1>1 DEF ReadAt, Unicode!ReadUnicodeCharacter
    <2>3. Unicode!GoodTrails(s, i) \in 0 .. 3
      <3>1. Unicode!Trails(s[i]) \in 0 .. 3
        <4>1. s[i] \in Byte
          BY <1>0, <2>1, ElementOf
        <4> QED
          BY <4>1, TrailsAre
      <3>2. Unicode!GoodTrails(s, i) \in 0 .. Unicode!Trails(s[i])
        BY <1>0, <2>1, GoodTrailsAre DEF Followed
      <3> QED
        BY <3>1, <3>2
    <2>4. \A n \in 1 .. Unicode!GoodTrails(s, i) : Follows(s, i, n)
      BY <1>0, <2>1, GoodTrailsAre DEF Followed
    <2>5. i + Unicode!GoodTrails(s, i) <= Len(t)
      <3> SUFFICES ASSUME ~(i + Unicode!GoodTrails(s, i) <= Len(t))
                   PROVE  FALSE
        OBVIOUS
      <3> DEFINE n == Len(t) + 1 - i
      <3>1. n \in 1 .. Unicode!GoodTrails(s, i) /\ n \in Nat \ {0} /\ i + n = Len(t) + 1
        BY <1>0, <2>3, SMTT(60)
      <3>2. Follows(s, i, n)
        BY <2>4, <3>1
      <3>3. Unicode!IsTrail8(s[i + n])
        <4> HIDE DEF n
        <4> QED BY <1>0, <2>1, <3>1, <3>2, FollowsTrail
      <3> QED
        BY <1>1, <3>1, <3>3 DEF IsTrail
    <2>6. \A n \in 1 .. Unicode!GoodTrails(s, i) : i + n <= Len(t) /\ s[i + n] = t[i + n]
      <3> TAKE n \in 1 .. Unicode!GoodTrails(s, i)
      <3>1. i + n \in 1 .. Len(t)
        BY <1>0, <2>3, <2>5
      <3> QED
        BY <1>0, <3>1
    <2>7. \A n \in 1 .. 3 : Follows(t, i, n) => Follows(s, i, n)
      <3> TAKE n \in 1 .. 3
      <3> HAVE Follows(t, i, n)
      <3>1. i + n <= Len(t)
        BY DEF Follows
      <3>2. i + n \in 1 .. Len(t) /\ i + n <= Len(s)
        BY <1>0, <3>1
      <3>3. s[i + n] = t[i + n]
        BY <3>2
      <3> QED
        BY <1>0, <3>2, <3>3 DEF Follows
    <2>8. /\ Unicode!Next8(t, i).code_point = Unicode!Next8(s, i).code_point
          /\ Unicode!Next8(t, i).next = Unicode!Next8(s, i).next - i + i
          /\ Unicode!Next8(s, i).next \in i + 1 .. Len(s) + 1
      BY <1>0, <2>1, <2>6, <2>7, SameRead8
    <2> QED
      BY <1>0, <2>2, <2>8
  <1>2. CASE bits = 16
    <2>2. /\ ReadAt(bits, s, i) = Unicode!Next16(s, i)
          /\ ReadAt(bits, t, i) = Unicode!Next16(t, i)
      BY <1>2 DEF ReadAt, Unicode!ReadUnicodeCharacter
    <2>6. Unicode!Next16(s, i) = Unicode!Next16(t, i)
      <3>1. CASE i + 1 <= Len(t)
        <4>1. i + 1 \in 1 .. Len(t) /\ i + 1 <= Len(s)
          BY <1>0, <3>1
        <4>2. s[i + 1] = t[i + 1]
          BY <4>1
        <4> QED
          BY <1>0, <3>1, <4>1, <4>2 DEF Unicode!Next16
      <3>2. CASE ~(i + 1 <= Len(t))
        <4>1. i + 1 = Len(t) + 1
          BY <1>0, <3>2
        <4>2. ~Unicode!IsTrail16(s[i + 1])
          BY <1>2, <4>1 DEF IsTrail
        <4> QED
          BY <1>0, <3>2, <4>2 DEF Unicode!Next16
      <3> QED
        BY <3>1, <3>2
    <2> QED
      BY <2>2, <2>6
  <1> QED
    BY <1>1, <1>2 DEF Encodings

-----------------------------------------------------------------------------
(* Conversions *)

LEMMA Backwards ==
  ASSUME NEW n \in Nat, NEW S,
         \A i \in 1 .. n + 1 : (\A j \in i + 1 .. n + 1 : j \in S) => i \in S
  PROVE  \A i \in 1 .. n + 1 : i \in S
  <1> DEFINE Missing == {d \in Nat : d <= n /\ n + 1 - d \notin S}
  <1>1. SUFFICES ASSUME NEW i \in 1 .. n + 1, i \notin S
                 PROVE  FALSE
    OBVIOUS
  <1>2. Missing # {} /\ Missing \subseteq Nat
    <2>1. n + 1 - i \in Nat /\ n + 1 - i <= n /\ n + 1 - (n + 1 - i) = i
      OBVIOUS
    <2>2. n + 1 - i \in Missing
      BY <1>1, <2>1
    <2> HIDE DEF Missing
    <2>3. Missing \subseteq Nat
      BY DEF Missing
    <2> QED
      BY <2>2, <2>3
  <1>3. PICK d \in Missing : \A e \in Missing : d <= e
    <2> HIDE DEF Missing
    <2> QED BY <1>2, LeastNumber
  <1>4. d \in Nat /\ d <= n /\ n + 1 - d \notin S
    OBVIOUS
  <1> DEFINE k == n + 1 - d
  <1>5. k \in 1 .. n + 1 /\ k \notin S
    BY <1>4
  <1>6. ASSUME NEW j \in k + 1 .. n + 1, j \notin S
        PROVE  FALSE
    <2>1. n + 1 - j \in Nat /\ n + 1 - j <= n /\ n + 1 - (n + 1 - j) = j /\ ~(d <= n + 1 - j)
      BY <1>4
    <2>2. n + 1 - j \in Missing
      BY <1>6, <2>1
    <2> HIDE DEF Missing
    <2> QED BY <1>3, <2>1, <2>2
  <1> HIDE DEF k
  <1> QED
    BY <1>5, <1>6

(* A function that is defined from one of those behind is one. *)
BackRecursion(f, n, last, next, step) ==
  f[n + 1] = last /\ \A i \in 1 .. n : f[i] = step[<<i, f[next[i]]>>]

LEMMA BackRecursionExists ==
  ASSUME NEW n \in Nat, NEW S, NEW last \in S, NEW step \in [(1 .. n) \X S -> S],
         NEW next, \A i \in 1 .. n : next[i] \in i + 1 .. n + 1
  PROVE  \E f \in [1 .. n + 1 -> S] : BackRecursion(f, n, last, next, step)
  <1> DEFINE From(f, k) == f[n + 1] = last /\ \A i \in n + 1 - k .. n : f[i] = step[<<i, f[next[i]]>>]
             P == {k \in Nat : k <= n => \E f \in [1 .. n + 1 -> S] : From(f, k)}
  <1>1. 0 \in P
    <2> DEFINE f == [i \in 1 .. n + 1 |-> last]
    <2>1. f \in [1 .. n + 1 -> S] /\ From(f, 0)
      OBVIOUS
    <2> HIDE DEF f, From
    <2> QED
      BY <2>1
  <1>2. ASSUME NEW k \in Nat, k \in P
        PROVE  k + 1 \in P
    <2>1. SUFFICES ASSUME k + 1 <= n
                   PROVE  \E f \in [1 .. n + 1 -> S] : From(f, k + 1)
      OBVIOUS
    <2>2. PICK f \in [1 .. n + 1 -> S] : From(f, k)
      BY <1>2, <2>1
    <2> DEFINE m == n - k
               value == step[<<m, f[next[m]]>>]
               g == [f EXCEPT ![m] = value]
    <2>3. m \in 1 .. n /\ m \in Nat /\ m = n + 1 - (k + 1) /\ m + 1 = n + 1 - k
      BY <2>1
    <2> HIDE DEF m
    <2>4. value \in S
      BY <2>2, <2>3
    <2> HIDE DEF value
    <2>5. g \in [1 .. n + 1 -> S] /\ g[m] = value /\ \A i \in m + 1 .. n + 1 : g[i] = f[i]
      BY <2>2, <2>3, <2>4
    <2> HIDE DEF g
    <2>6. g[n + 1] = last
      BY <2>2, <2>3, <2>5
    <2>7. ASSUME NEW i \in m .. n
          PROVE  g[i] = step[<<i, g[next[i]]>>]
      <3>1. i \in 1 .. n /\ next[i] \in i + 1 .. n + 1 /\ next[i] \in m + 1 .. n + 1
        BY <2>3
      <3>2. g[next[i]] = f[next[i]]
        BY <2>5, <3>1
      <3>3. CASE i = m
        BY <2>5, <3>2, <3>3 DEF value
      <3>4. CASE i # m
        <4>1. i \in m + 1 .. n + 1 /\ i \in n + 1 - k .. n
          BY <2>3, <3>4
        <4> QED
          BY <2>2, <2>5, <3>2, <4>1
      <3> QED
        BY <3>3, <3>4
    <2>8. From(g, k + 1)
      BY <2>3, <2>6, <2>7
    <2> HIDE DEF From
    <2> QED
      BY <2>5, <2>8
  <1>3. n \in P
    <2> HIDE DEF P
    <2> QED BY <1>1, <1>2, InductiveSet
  <1>4. PICK f \in [1 .. n + 1 -> S] : From(f, n)
    BY <1>3
  <1>5. n + 1 - n = 1
    OBVIOUS
  <1>6. BackRecursion(f, n, last, next, step)
    BY <1>4, <1>5 DEF BackRecursion
  <1> QED
    BY <1>6

Results(bits) == [success : BOOLEAN, output : Seq(Units(bits))]
CharacterAt(bits, t, i) == Unicode!Readable(ReadAt(bits, t, i))
ValidAt(bits, t, i) == Unicode!IsValidCodepoint(ReadAt(bits, t, i).code_point)
OneMore(from, to, t, i, rest) ==
  Unicode!Converted(ReadAt(from, t, i), Spelled(to, CharacterAt(from, t, i)), rest)

LEMMA CharacterTyped ==
  ASSUME NEW bits \in Encodings, NEW t \in Seq(Units(bits)), NEW i \in 1 .. Len(t)
  PROVE  /\ CharacterAt(bits, t, i) \in CodePoints
         /\ ValidAt(bits, t, i) => CharacterAt(bits, t, i) = ReadAt(bits, t, i).code_point
         /\ ~ValidAt(bits, t, i) => CharacterAt(bits, t, i) = Unicode!ReplacementCharacter
  <1>1. Unicode!ReplacementCharacter \in CodePoints
    BY DEF CodePoints, Unicode!ReplacementCharacter
  <1>2. CASE ValidAt(bits, t, i)
    <2>1. CharacterAt(bits, t, i) = ReadAt(bits, t, i).code_point
      BY <1>2, Zenon DEF ValidAt, CharacterAt, Unicode!Readable
    <2>2. ReadAt(bits, t, i).code_point \in CodePoints
      BY <1>2, ReadIsWritten, Zenon DEF ValidAt
    <2> QED
      BY <1>2, <2>1, <2>2
  <1>3. CASE ~ValidAt(bits, t, i)
    <2>1. CharacterAt(bits, t, i) = Unicode!ReplacementCharacter
      BY <1>3, Zenon DEF ValidAt, CharacterAt, Unicode!Readable
    <2> QED
      BY <1>1, <1>3, <2>1
  <1> QED
    BY <1>2, <1>3

LEMMA OneMoreIs ==
  ASSUME NEW from \in Encodings, NEW to \in Encodings, NEW t \in Seq(Units(from)), NEW i \in 1 .. Len(t),
         NEW rest \in Results(to)
  PROVE  /\ OneMore(from, to, t, i, rest) \in Results(to)
         /\ OneMore(from, to, t, i, rest).output = Spelled(to, CharacterAt(from, t, i)) \o rest.output
         /\ OneMore(from, to, t, i, rest).success <=> ValidAt(from, t, i) /\ rest.success
  <1> DEFINE w == Spelled(to, CharacterAt(from, t, i))
             valid == ValidAt(from, t, i) /\ rest.success
             all == w \o rest.output
  <1>1. OneMore(from, to, t, i, rest) = [success |-> valid, output |-> all]
    BY Zenon DEF OneMore, Unicode!Converted, ValidAt
  <1>2. valid \in BOOLEAN
    BY Zenon
  <1>3. rest.output \in Seq(Units(to)) /\ rest.success \in BOOLEAN
    BY DEF Results
  <1>4. w \in Seq(Units(to))
    BY CharacterTyped, WrittenTyped, Zenon
  <1>5. all \in Seq(Units(to))
    <2> DEFINE o == rest.output
               U == Units(to)
    <2> HIDE DEF w, o, U
    <2>1. w \in Seq(U) /\ o \in Seq(U)
      BY <1>3, <1>4 DEF U, o
    <2>2. w \o o \in Seq(U)
      BY <2>1
    <2> QED
      BY <2>2 DEF o, U
  <1>6. valid <=> ValidAt(from, t, i) /\ rest.success
    BY Zenon
  <1> HIDE DEF valid, all, w
  <1>7. /\ [success |-> valid, output |-> all] \in Results(to)
        /\ [success |-> valid, output |-> all].output = all
        /\ [success |-> valid, output |-> all].success = valid
    BY <1>2, <1>5 DEF Results
  <1>8. all = w \o rest.output
    BY DEF all
  <1> QED
    BY <1>1, <1>6, <1>7, <1>8, Zenon DEF w

IsConversion(f, from, to, t) ==
  f = [i \in 1 .. Len(t) + 1 |->
         IF i > Len(t) THEN Unicode!Nothing
         ELSE OneMore(from, to, t, i, f[ReadAt(from, t, i).next])]

LEMMA NothingIs ==
  ASSUME NEW bits
  PROVE  /\ Unicode!Nothing \in Results(bits)
         /\ Unicode!Nothing.success /\ Unicode!Nothing.output = <<>>
  <1>1. <<>> \in Seq(Units(bits))
    OBVIOUS
  <1> DEFINE yes == TRUE
  <1>2. Unicode!Nothing = [success |-> yes, output |-> <<>>]
    BY Zenon DEF Unicode!Nothing
  <1>3. yes \in BOOLEAN /\ yes
    BY Zenon
  <1> HIDE DEF yes
  <1> QED
    BY <1>1, <1>2, <1>3 DEF Results

LEMMA ConversionExists ==
  ASSUME NEW from \in Encodings, NEW to \in Encodings, NEW t \in Seq(Units(from))
  PROVE  \E f : f \in [1 .. Len(t) + 1 -> Results(to)] /\ IsConversion(f, from, to, t)
  <1> DEFINE n == Len(t)
             S == Results(to)
             next == [i \in 1 .. n |-> ReadAt(from, t, i).next]
             step == [p \in (1 .. n) \X S |-> OneMore(from, to, t, p[1], p[2])]
             last == Unicode!Nothing
  <1>1. n \in Nat /\ last \in S
    BY NothingIs
  <1>2. \A i \in 1 .. n : next[i] \in i + 1 .. n + 1 /\ next[i] = ReadAt(from, t, i).next
    BY ReadGoesOn
  <1>3. \A i \in 1 .. n, rest \in S : OneMore(from, to, t, i, rest) \in S
    BY OneMoreIs
  <1>4. /\ step \in [(1 .. n) \X S -> S]
        /\ \A i \in 1 .. n, rest \in S : step[<<i, rest>>] = OneMore(from, to, t, i, rest)
    <2> HIDE DEF n, S
    <2> QED BY <1>3
  <1> HIDE DEF step, next, last, n, S
  <1>5. PICK f \in [1 .. n + 1 -> S] : BackRecursion(f, n, last, next, step)
    BY <1>1, <1>2, <1>4, BackRecursionExists
  <1>6. \A i \in 1 .. n + 1 : f[i] = IF i > n THEN last
                                     ELSE OneMore(from, to, t, i, f[ReadAt(from, t, i).next])
    <2> TAKE i \in 1 .. n + 1
    <2>1. CASE i > n
      <3>1. i = n + 1
        BY <1>1, <2>1
      <3> QED
        BY <1>5, <2>1, <3>1 DEF BackRecursion
    <2>2. CASE ~(i > n)
      <3>1. i \in 1 .. n
        BY <1>1, <2>2
      <3>2. next[i] \in 1 .. n + 1 /\ next[i] = ReadAt(from, t, i).next
        BY <1>1, <1>2, <3>1
      <3>3. f[next[i]] \in S
        BY <1>5, <3>2
      <3>4. f[i] = step[<<i, f[next[i]]>>]
        BY <1>5, <3>1 DEF BackRecursion
      <3> QED
        BY <1>4, <2>2, <3>1, <3>2, <3>3, <3>4
    <2> QED
      BY <2>1, <2>2
  <1>7. f = [i \in 1 .. n + 1 |-> IF i > n THEN last
                                  ELSE OneMore(from, to, t, i, f[ReadAt(from, t, i).next])]
    BY <1>5, <1>6
  <1>8. IsConversion(f, from, to, t)
    BY <1>7, Zenon DEF IsConversion, n, last
  <1> QED
    BY <1>5, <1>8 DEF n, S

Converts(f, from, to, t) ==
  /\ f \in [1 .. Len(t) + 1 -> Results(to)]
  /\ f[Len(t) + 1] = Unicode!Nothing
  /\ \A i \in 1 .. Len(t) : f[i] = OneMore(from, to, t, i, f[ReadAt(from, t, i).next])

EndsIn(s, k, t) == Len(s) = k + Len(t) /\ \A i \in 1 .. Len(t) : s[k + i] = t[i]

(* There is one conversion of a text. *)
LEMMA SuffixConverts ==
  ASSUME NEW from \in Encodings, NEW to \in Encodings,
         NEW s \in Seq(Units(from)), NEW t \in Seq(Units(from)), NEW k \in Nat, EndsIn(s, k, t),
         NEW f, Converts(f, from, to, s), NEW g, Converts(g, from, to, t)
  PROVE  \A i \in 1 .. Len(t) + 1 : f[k + i] = g[i]
  <1> DEFINE n == Len(t)
             S == {i \in 1 .. n + 1 : f[k + i] = g[i]}
  <1>0. Len(s) = k + Len(t) /\ \A i \in 1 .. Len(t) : s[k + i] = t[i]
    BY DEF EndsIn
  <1>1. n \in Nat /\ Len(s) = k + n
    BY <1>0
  <1>2. ASSUME NEW i \in 1 .. n + 1, \A j \in i + 1 .. n + 1 : j \in S
        PROVE  i \in S
    <2>1. CASE i = n + 1
      <3>1. k + i = Len(s) + 1
        BY <1>1, <2>1
      <3>2. f[k + i] = Unicode!Nothing /\ g[i] = Unicode!Nothing
        BY <2>1, <3>1 DEF Converts
      <3> QED
        BY <3>2
    <2>2. CASE i # n + 1
      <3> DEFINE a == ReadAt(from, s, k + i)
                 b == ReadAt(from, t, i)
      <3>1. i \in 1 .. n /\ k + i \in 1 .. Len(s)
        <4> HIDE DEF n
        <4> QED BY <1>1, <2>2
      <3>2. a.code_point = b.code_point /\ a.next = b.next + k
        BY <1>0, <3>1, SuffixRead
      <3>3. b.next \in i + 1 .. n + 1
        BY <3>1, ReadGoesOn
      <3> HIDE DEF a, b
      <3>4. f[k + b.next] = g[b.next] /\ k + b.next = a.next
        <4> HIDE DEF n
        <4>1. b.next \in S
          BY <1>2, <3>3
        <4>2. b.next \in Int
          BY <1>1, <3>3
        <4> QED
          BY <3>2, <4>1, <4>2
      <3>5. f[k + i] = OneMore(from, to, s, k + i, f[a.next]) /\ g[i] = OneMore(from, to, t, i, g[b.next])
        BY <3>1 DEF Converts, a, b
      <3>6. \A rest : OneMore(from, to, s, k + i, rest) = OneMore(from, to, t, i, rest)
        BY <3>2, Zenon DEF OneMore, CharacterAt, Unicode!Readable, Unicode!Converted, a, b
      <3>7. f[k + i] = g[i]
        BY <3>4, <3>5, <3>6, Zenon
      <3> QED
        BY <3>7
    <2> QED
      BY <2>1, <2>2
  <1> HIDE DEF n, S
  <1>3. \A i \in 1 .. n + 1 : i \in S
    BY <1>1, <1>2, Backwards
  <1> QED
    BY <1>3 DEF S, n

LEMMA ConversionIs ==
  ASSUME NEW from \in Encodings, NEW to \in Encodings, NEW t \in Seq(Units(from))
  PROVE  \E f : Converts(f, from, to, t) /\ Unicode!ConvertUnicode(from, to, t) = f[1]
  <1> DEFINE converted == CHOOSE f : f = [i \in 1 .. Len(t) + 1 |->
               LET read == Unicode!ReadUnicodeCharacter(from, t, i)
               IN  IF i > Len(t) THEN Unicode!Nothing
                   ELSE Unicode!Converted(read, Unicode!WriteUnicodeCharacter(to, Unicode!Readable(read)),
                                          f[read.next])]
  <1>1. PICK g : g \in [1 .. Len(t) + 1 -> Results(to)] /\ IsConversion(g, from, to, t)
    BY ConversionExists
  <1>2. \E f : f = [i \in 1 .. Len(t) + 1 |->
               LET read == Unicode!ReadUnicodeCharacter(from, t, i)
               IN  IF i > Len(t) THEN Unicode!Nothing
                   ELSE Unicode!Converted(read, Unicode!WriteUnicodeCharacter(to, Unicode!Readable(read)),
                                          f[read.next])]
    BY <1>1, Zenon DEF IsConversion, OneMore, ReadAt, Spelled, CharacterAt
  <1>3. IsConversion(converted, from, to, t)
    BY <1>2, Zenon DEF IsConversion, OneMore, ReadAt, Spelled, CharacterAt
  <1>4. Unicode!ConvertUnicode(from, to, t) = converted[1]
    BY Zenon DEF Unicode!ConvertUnicode
  <1> HIDE DEF converted
  <1>5. \A i \in 1 .. Len(t) + 1 : converted[i] = IF i > Len(t) THEN Unicode!Nothing
                                     ELSE OneMore(from, to, t, i, converted[ReadAt(from, t, i).next])
    BY <1>3, Zenon DEF IsConversion
  <1> DEFINE n == Len(t)
             S == {i \in 1 .. n + 1 : converted[i] \in Results(to)}
  <1>6. n \in Nat
    OBVIOUS
  <1>7. ASSUME NEW i \in 1 .. n + 1, \A j \in i + 1 .. n + 1 : j \in S
        PROVE  i \in S
    <2>1. CASE i > n
      <3>1. converted[i] = Unicode!Nothing
        BY <1>5, <2>1
      <3> QED
        BY <3>1, NothingIs
    <2>2. CASE ~(i > n)
      <3> DEFINE j == ReadAt(from, t, i).next
      <3>1. i \in 1 .. n
        <4> HIDE DEF n
        <4> QED BY <1>6, <2>2
      <3>2. j \in i + 1 .. n + 1
        BY <3>1, ReadGoesOn
      <3>3. converted[j] \in Results(to)
        <4> HIDE DEF j
        <4> QED BY <1>7, <3>2
      <3>4. converted[i] = OneMore(from, to, t, i, converted[j])
        BY <1>5, <2>2
      <3> HIDE DEF j
      <3>5. converted[i] \in Results(to)
        BY <3>1, <3>3, <3>4, OneMoreIs
      <3> QED
        BY <3>5
    <2> QED
      BY <2>1, <2>2
  <1>8. \A i \in 1 .. n + 1 : i \in S
    <2> HIDE DEF n, S
    <2> QED BY <1>6, <1>7, Backwards
  <1>9. converted \in [1 .. Len(t) + 1 -> Results(to)]
    <2>1. converted = [i \in 1 .. Len(t) + 1 |-> converted[i]]
      BY <1>3, Zenon DEF IsConversion
    <2> QED
      BY <1>8, <2>1
  <1>10. Converts(converted, from, to, t)
    <2>1. Len(t) + 1 \in 1 .. Len(t) + 1 /\ Len(t) + 1 > Len(t)
      OBVIOUS
    <2>2. \A i \in 1 .. Len(t) : i \in 1 .. Len(t) + 1 /\ ~(i > Len(t))
      OBVIOUS
    <2> QED
      BY <1>5, <1>9, <2>1, <2>2, Zenon DEF Converts
  <1> QED
    BY <1>4, <1>10

PartAt(t, i, w) == i + Len(w) - 1 <= Len(t) /\ \A k \in 1 .. Len(w) : t[i + k - 1] = w[k]

Joins(w, z, t, i) == w \o z = Suffix(t, i) <=> PartAt(t, i, w) /\ z = Suffix(t, i + Len(w))

LEMMA JoinIsSuffix ==
  ASSUME NEW U, NEW w \in Seq(U), NEW z \in Seq(U), NEW t \in Seq(U), NEW i \in 1 .. Len(t)
  PROVE  Joins(w, z, t, i)
  <1> DEFINE n == Len(t)
             a == Len(w)
             b == Len(z)
             y == Suffix(t, i)
             j == i + a
  <1>1. n \in Nat /\ a \in Nat /\ b \in Nat /\ i \in 1 .. n /\ j \in Nat \ {0}
    OBVIOUS
  <1>2. y \in Seq(U) /\ Len(y) = n - i + 1 /\ \A k \in 1 .. n - i + 1 : y[k] = t[i + k - 1]
    BY <1>1, PieceIs DEF Suffix
  <1>3. /\ w \o z \in Seq(U) /\ Len(w \o z) = a + b
        /\ \A k \in 1 .. a : (w \o z)[k] = w[k]
        /\ \A k \in 1 .. b : (w \o z)[a + k] = z[k]
    BY JoinIs
  <1>4. ASSUME j - 1 <= n
        PROVE  /\ Suffix(t, j) \in Seq(U) /\ Len(Suffix(t, j)) = n - j + 1
               /\ \A k \in 1 .. n - j + 1 : Suffix(t, j)[k] = t[j + k - 1]
    <2>1. j <= n + 1 /\ n \in 0 .. Len(t)
      BY <1>1, <1>4
    <2> QED
      BY <1>1, <2>1, PieceIs DEF Suffix
  <1>5. ASSUME w \o z = y
        PROVE  /\ j - 1 <= n
               /\ \A k \in 1 .. a : t[i + k - 1] = w[k]
               /\ z = Suffix(t, j)
    <2> HIDE DEF n, a, b, y, j
    <2>0. j = i + a
      BY DEF j
    <2>1. a + b = n - i + 1
      BY <1>2, <1>3, <1>5
    <2>2. j - 1 <= n /\ n - j + 1 = b
      BY <1>1, <2>0, <2>1
    <2>3. ASSUME NEW k \in 1 .. a
          PROVE  t[i + k - 1] = w[k]
      <3>1. k \in 1 .. n - i + 1
        BY <1>1, <2>1
      <3> QED
        BY <1>2, <1>3, <1>5, <3>1
    <2>4. ASSUME NEW k \in 1 .. b
          PROVE  z[k] = Suffix(t, j)[k]
      <3>1. a + k \in 1 .. n - i + 1 /\ i + (a + k) - 1 = j + k - 1 /\ k \in 1 .. n - j + 1
        BY <1>1, <2>0, <2>1, <2>2
      <3>2. y[a + k] = t[j + k - 1]
        BY <1>2, <3>1
      <3> QED
        BY <1>3, <1>4, <1>5, <2>2, <3>1, <3>2
    <2>5. z = Suffix(t, j)
      BY <1>4, <2>2, <2>4, SameSequences DEF b
    <2> QED
      BY <2>2, <2>3, <2>5
  <1>6. ASSUME j - 1 <= n, \A k \in 1 .. a : t[i + k - 1] = w[k], z = Suffix(t, j)
        PROVE  w \o z = y
    <2>0. b = n - j + 1
      BY <1>4, <1>6
    <2> HIDE DEF n, a, b, y, j
    <2>1. j = i + a
      BY DEF j
    <2>2. a + b = n - i + 1
      BY <1>1, <2>0, <2>1
    <2>3. ASSUME NEW k \in 1 .. a + b
          PROVE  (w \o z)[k] = y[k]
      <3>1. CASE k <= a
        <4>1. k \in 1 .. a /\ k \in 1 .. n - i + 1
          BY <1>1, <2>2, <3>1
        <4> QED
          BY <1>2, <1>3, <1>6, <4>1
      <3>2. CASE ~(k <= a)
        <4> DEFINE l == k - a
        <4>1. l \in 1 .. b /\ k = a + l /\ k \in 1 .. n - i + 1 /\ l \in 1 .. n - j + 1
              /\ i + k - 1 = j + l - 1
          BY <1>1, <2>0, <2>1, <2>2, <3>2
        <4> HIDE DEF l
        <4>2. (w \o z)[k] = z[l]
          BY <1>3, <4>1
        <4>3. z[l] = t[j + l - 1]
          BY <1>4, <1>6, <4>1
        <4>4. y[k] = t[i + k - 1]
          BY <1>2, <4>1
        <4> QED
          BY <4>1, <4>2, <4>3, <4>4
      <3> QED
        BY <3>1, <3>2
    <2>4. Len(w \o z) = Len(y) /\ \A k \in 1 .. Len(w \o z) : (w \o z)[k] = y[k]
      BY <1>2, <1>3, <2>2, <2>3
    <2> QED
      BY <1>2, <1>3, <2>4, SameSequences
  <1>7. PartAt(t, i, w) <=> j - 1 <= n /\ \A k \in 1 .. a : t[i + k - 1] = w[k]
    <2>1. a \in Nat /\ i \in Nat
      OBVIOUS
    <2>2. i + a - 1 = j - 1
      <3> HIDE DEF a
      <3> QED BY <2>1 DEF j
    <2> QED BY <2>2, Zenon DEF PartAt
  <1> HIDE DEF n, a, y, j
  <1>8. w \o z = y <=> PartAt(t, i, w) /\ z = Suffix(t, j)
    BY <1>5, <1>6, <1>7
  <1> QED
    BY <1>8 DEF y, j, a, Joins

Convert(from, to, t) == Unicode!ConvertUnicode(from, to, t)

LEMMA SuffixConverted ==
  ASSUME NEW from \in Encodings, NEW to \in Encodings,
         NEW s \in Seq(Units(from)), NEW t \in Seq(Units(from)), NEW k \in Nat, EndsIn(s, k, t),
         NEW f, Converts(f, from, to, s), NEW g, Converts(g, from, to, t)
  PROVE  f[k + 1] = g[1]
  <1>1. \A i \in 1 .. Len(t) + 1 : f[k + i] = g[i]
    BY SuffixConverts
  <1>2. 1 \in 1 .. Len(t) + 1
    OBVIOUS
  <1> QED
    BY <1>1, <1>2

(* A text is converted one character after the other. *)
LEMMA ConvertIs ==
  ASSUME NEW from \in Encodings, NEW to \in Encodings, NEW t \in Seq(Units(from)),
         NEW f, Converts(f, from, to, t)
  PROVE  /\ Convert(from, to, t) = f[1]
         /\ \A i \in 1 .. Len(t) + 1 : f[i] \in Results(to)
         /\ f[Len(t) + 1].output = <<>> /\ f[Len(t) + 1].success
         /\ \A i \in 1 .. Len(t) :
              /\ ReadAt(from, t, i).next \in i + 1 .. Len(t) + 1
              /\ f[i].output = Spelled(to, CharacterAt(from, t, i)) \o f[ReadAt(from, t, i).next].output
              /\ f[i].success <=> ValidAt(from, t, i) /\ f[ReadAt(from, t, i).next].success
  <1> DEFINE n == Len(t)
  <1>1. n \in Nat
    OBVIOUS
  <1>2. PICK g : Converts(g, from, to, t) /\ Unicode!ConvertUnicode(from, to, t) = g[1]
    BY ConversionIs
  <1>3. g[1] = f[1]
    <2>1. PICK k \in Nat : k = 0
      OBVIOUS
    <2>2. EndsIn(t, k, t)
      BY <2>1 DEF EndsIn
    <2>3. f[k + 1] = g[1]
      BY <1>2, <2>2, SuffixConverted
    <2> QED
      BY <2>1, <2>3
  <1>4. \A i \in 1 .. n + 1 : f[i] \in Results(to)
    BY DEF Converts
  <1>5. f[n + 1].output = <<>> /\ f[n + 1].success
    BY NothingIs DEF Converts
  <1>6. ASSUME NEW i \in 1 .. n
        PROVE  /\ ReadAt(from, t, i).next \in i + 1 .. n + 1
               /\ f[i].output = Spelled(to, CharacterAt(from, t, i)) \o f[ReadAt(from, t, i).next].output
               /\ f[i].success <=> ValidAt(from, t, i) /\ f[ReadAt(from, t, i).next].success
    <2> DEFINE j == ReadAt(from, t, i).next
    <2>1. j \in i + 1 .. n + 1
      BY ReadGoesOn
    <2>2. f[i] = OneMore(from, to, t, i, f[j])
      BY DEF Converts
    <2> HIDE DEF j
    <2>3. f[j] \in Results(to)
      <3>1. j \in 1 .. n + 1
        BY <1>1, <2>1
      <3> QED
        BY <1>4, <3>1
    <2> DEFINE r == f[j]
    <2>4. /\ f[i].output = Spelled(to, CharacterAt(from, t, i)) \o r.output
          /\ f[i].success <=> ValidAt(from, t, i) /\ r.success
      <3>1. r \in Results(to) /\ f[i] = OneMore(from, to, t, i, r)
        BY <2>2, <2>3
      <3> HIDE DEF r
      <3>2. /\ OneMore(from, to, t, i, r).output = Spelled(to, CharacterAt(from, t, i)) \o r.output
            /\ OneMore(from, to, t, i, r).success <=> ValidAt(from, t, i) /\ r.success
        BY <3>1, OneMoreIs
      <3> QED
        BY <3>1, <3>2, Zenon
    <2> QED
      BY <2>1, <2>4 DEF j
  <1>7. Convert(from, to, t) = f[1]
    BY <1>2, <1>3 DEF Convert
  <1> QED
    BY <1>4, <1>5, <1>6, <1>7

LEMMA ConvertTyped ==
  ASSUME NEW from \in Encodings, NEW to \in Encodings, NEW t \in Seq(Units(from))
  PROVE  Convert(from, to, t) \in Results(to)
  <1>1. PICK f : Converts(f, from, to, t)
    BY ConversionIs
  <1>2. 1 \in 1 .. Len(t) + 1
    OBVIOUS
  <1> QED
    BY <1>1, <1>2, ConvertIs

(* The character that a text begins with is converted by itself. *)
LEMMA FirstConverted ==
  ASSUME NEW from \in Encodings, NEW to \in Encodings, NEW t \in Seq(Units(from)), NEW c \in CodePoints
  PROVE  /\ Convert(from, to, Spelled(from, c) \o t).output = Spelled(to, c) \o Convert(from, to, t).output
         /\ Convert(from, to, Spelled(from, c) \o t).success <=> Convert(from, to, t).success
  <1> DEFINE w == Spelled(from, c)
             s == w \o t
             k == Len(w)
  <1>1. w \in Seq(Units(from)) /\ k \in Nat \ {0} /\ Len(t) \in Nat
    BY WrittenTyped
  <1>2. /\ s \in Seq(Units(from)) /\ Len(s) = k + Len(t)
        /\ \A i \in 1 .. k : s[i] = w[i]
        /\ \A i \in 1 .. Len(t) : s[k + i] = t[i]
    <2> HIDE DEF w
    <2> QED BY <1>1, JoinIs
  <1>3. PICK f : Converts(f, from, to, s)
    <2> HIDE DEF s
    <2> QED BY <1>2, ConversionIs
  <1>4. PICK g : Converts(g, from, to, t)
    BY ConversionIs
  <1> HIDE DEF w, s, k
  <1>5. f[k + 1] = g[1] /\ 1 \in 1 .. Len(s)
    <2>1. k \in Nat /\ 1 \in 1 .. Len(s)
      BY <1>1, <1>2
    <2>2. EndsIn(s, k, t)
      BY <1>2 DEF EndsIn
    <2> QED
      BY <1>2, <1>3, <1>4, <2>1, <2>2, SuffixConverted
  <1>6. Stands(from, s, 1, c)
    <2>1. 1 + k - 1 <= Len(s) /\ \A i \in 1 .. k : s[1 + i - 1] = w[i]
      <3>1. \A i \in 1 .. k : 1 + i - 1 = i
        BY <1>1
      <3> QED
        BY <1>1, <1>2, <3>1
    <2> QED
      BY <2>1 DEF Stands, k, w, Spelled
  <1>7. ReadAt(from, s, 1).code_point = c /\ ReadAt(from, s, 1).next = k + 1
    <2>1. ReadAt(from, s, 1).code_point = c /\ ReadAt(from, s, 1).next = 1 + Len(w)
      BY <1>2, <1>5, <1>6, WrittenIsRead DEF w
    <2> QED
      BY <1>1, <2>1 DEF k
  <1>8. ValidAt(from, s, 1) /\ CharacterAt(from, s, 1) = c
    <2>1. c \in Int
      BY DEF CodePoints
    <2>2. ValidAt(from, s, 1)
      BY <1>7, <2>1, ValidAre DEF ValidAt
    <2> QED
      BY <1>2, <1>5, <1>7, <2>2, CharacterTyped
  <1>9. /\ f[1].output = Spelled(to, c) \o f[k + 1].output
        /\ f[1].success <=> f[k + 1].success
    <2>1. /\ f[1].output = Spelled(to, CharacterAt(from, s, 1)) \o f[ReadAt(from, s, 1).next].output
          /\ f[1].success <=> ValidAt(from, s, 1) /\ f[ReadAt(from, s, 1).next].success
      BY <1>2, <1>3, <1>5, ConvertIs
    <2> QED
      BY <1>7, <1>8, <2>1, Zenon
  <1>10. Convert(from, to, s) = f[1] /\ Convert(from, to, t) = g[1]
    BY <1>2, <1>3, <1>4, ConvertIs
  <1> QED
    BY <1>5, <1>9, <1>10 DEF s, w

LEMMA EmptyConverted ==
  ASSUME NEW from \in Encodings, NEW to \in Encodings
  PROVE  Convert(from, to, <<>>).success /\ Convert(from, to, <<>>).output = <<>>
  <1>0. <<>> \in Seq(Units(from)) /\ Len(<<>>) = 0
    OBVIOUS
  <1>1. PICK e : e = <<>> /\ e \in Seq(Units(from)) /\ Len(e) = 0
    BY <1>0, Zenon
  <1>2. PICK f : Converts(f, from, to, e)
    BY <1>1, ConversionIs
  <1>3. Len(e) + 1 = 1
    BY <1>1
  <1>4. Convert(from, to, e) = f[1] /\ f[Len(e) + 1].output = <<>> /\ f[Len(e) + 1].success
    <2>1. e \in Seq(Units(from))
      BY <1>1
    <2> QED
      BY <1>2, <2>1, ConvertIs
  <1> QED
    BY <1>1, <1>3, <1>4

(* A conversion, and the one back again. *)
LEMMA ThereAndBack ==
  ASSUME NEW from \in Encodings, NEW to \in Encodings, NEW t \in Seq(Units(from))
  PROVE  LET there == Convert(from, to, t)
             back == Convert(to, from, there.output)
         IN  back.success /\ (there.success <=> back.output = t)
  <1> DEFINE n == Len(t)
             Back(r) == Convert(to, from, r.output)
  <1>1. PICK f : Converts(f, from, to, t)
    BY ConversionIs
  <1>2. n \in Nat
    OBVIOUS
  <1> DEFINE S == {i \in 1 .. n + 1 : Back(f[i]).success /\ (f[i].success <=> Back(f[i]).output = Suffix(t, i))}
  <1>3. ASSUME NEW i \in 1 .. n + 1, \A j \in i + 1 .. n + 1 : j \in S
        PROVE  i \in S
    <2>1. CASE i = n + 1
      <3>1. f[i].output = <<>> /\ f[i].success
        BY <1>1, <2>1, ConvertIs
      <3>2. Suffix(t, i) = <<>>
        BY <2>1 DEF Suffix
      <3>3. Back(f[i]).success /\ Back(f[i]).output = <<>>
        BY <3>1, EmptyConverted
      <3> QED
        BY <3>1, <3>2, <3>3
    <2>2. CASE i # n + 1
      <3>1. i \in 1 .. n
        <4> HIDE DEF n
        <4> QED BY <1>2, <2>2
      <3> DEFINE j == ReadAt(from, t, i).next
                 c == CharacterAt(from, t, i)
                 w == Spelled(from, c)
                 z == Back(f[j]).output
      <3>2. /\ j \in i + 1 .. n + 1
            /\ f[i].output = Spelled(to, c) \o f[j].output
            /\ f[i].success <=> ValidAt(from, t, i) /\ f[j].success
        BY <1>1, <3>1, ConvertIs
      <3>3. c \in CodePoints
        BY <3>1, CharacterTyped
      <3>4. /\ ValidAt(from, t, i) => c = ReadAt(from, t, i).code_point
            /\ ~ValidAt(from, t, i) => c = Unicode!ReplacementCharacter
        BY <3>1, CharacterTyped
      <3>5. /\ ValidAt(from, t, i) => Stands(from, t, i, c)
        BY <3>1, <3>4, ReadIsWritten DEF ValidAt
      <3>6. Stands(from, t, i, c) => ValidAt(from, t, i) /\ j = i + Len(w)
        <4> HAVE Stands(from, t, i, c)
        <4>1. ReadAt(from, t, i).code_point = c /\ j = i + Len(w)
          BY <3>1, <3>3, WrittenIsRead
        <4>2. c \in Int
          BY <3>3 DEF CodePoints
        <4>3. ValidAt(from, t, i)
          BY <3>3, <4>1, <4>2, ValidAre DEF ValidAt
        <4> QED
          BY <4>1, <4>3
      <3> HIDE DEF j, c
      <3>7. j \in 1 .. n + 1 /\ f[j] \in Results(to)
        <4>1. j \in 1 .. n + 1
          BY <1>2, <3>2
        <4> QED
          BY <1>1, <4>1, ConvertIs
      <3>8. f[j].output \in Seq(Units(to))
        BY <3>7 DEF Results
      <3>9. z \in Seq(Units(from)) /\ w \in Seq(Units(from)) /\ Len(w) \in Nat
        <4>1. Back(f[j]) \in Results(from)
          BY <3>8, ConvertTyped
        <4>2. w \in Seq(Units(from)) /\ Len(w) \in Nat
          BY <3>3, WrittenTyped
        <4> HIDE DEF Back
        <4> QED
          BY <4>1, <4>2 DEF Results
      <3>10. Back(f[i]).output = w \o z /\ (Back(f[i]).success <=> Back(f[j]).success)
        <4> DEFINE y == f[j].output
        <4>1. y \in Seq(Units(to)) /\ f[i].output = Spelled(to, c) \o y
          BY <3>2, <3>8
        <4> HIDE DEF y
        <4>2. /\ Convert(to, from, Spelled(to, c) \o y).output = w \o Convert(to, from, y).output
              /\ Convert(to, from, Spelled(to, c) \o y).success <=> Convert(to, from, y).success
          BY <3>3, <4>1, FirstConverted
        <4> QED
          BY <4>1, <4>2, Zenon DEF y
      <3>11. Back(f[j]).success /\ (f[j].success <=> z = Suffix(t, j))
        <4>1. j \in S
          <5> HIDE DEF S
          <5> QED BY <1>3, <3>2
        <4> QED
          BY <4>1
      <3>12. w \o z = Suffix(t, i) <=> Stands(from, t, i, c) /\ z = Suffix(t, i + Len(w))
        <4>1. Stands(from, t, i, c) <=> PartAt(t, i, w)
          BY Zenon DEF Stands, Spelled, PartAt
        <4> HIDE DEF w, z
        <4> DEFINE U == Units(from)
        <4>2. w \in Seq(U) /\ z \in Seq(U) /\ t \in Seq(U) /\ i \in 1 .. Len(t)
          BY <3>1, <3>9
        <4> HIDE DEF U
        <4>3. Joins(w, z, t, i)
          BY <4>2, JoinIsSuffix
        <4> QED
          BY <4>1, <4>3, Zenon DEF Joins
      <3> HIDE DEF w, z, Back
      <3>13. f[i].success <=> Back(f[i]).output = Suffix(t, i)
        BY <3>2, <3>5, <3>6, <3>10, <3>11, <3>12
      <3> QED
        BY <3>10, <3>11, <3>13
    <2> QED
      BY <2>1, <2>2
  <1>4. 1 \in S
    <2> HIDE DEF S
    <2>1. \A i \in 1 .. n + 1 : i \in S
      <3> HIDE DEF n
      <3> QED BY <1>2, <1>3, Backwards
    <2> QED
      BY <1>2, <2>1
  <1>5. Convert(from, to, t) = f[1]
    BY <1>1, ConvertIs
  <1>6. Suffix(t, 1) = t
    BY DEF Suffix
  <1> QED
    BY <1>4, <1>5, <1>6, Zenon

(* Where a character may begin, a text can be converted in two pieces. *)
LEMMA InTwoPieces ==
  ASSUME NEW from \in Encodings, NEW to \in Encodings, NEW t \in Seq(Units(from)),
         NEW n \in 1 .. Len(t) - 1, ~IsTrail(from, t[n + 1])
  PROVE  Convert(from, to, t).output =
           Convert(from, to, SubSeq(t, 1, n)).output \o Convert(from, to, SubSeq(t, n + 1, Len(t))).output
  <1> DEFINE p == SubSeq(t, 1, n)
             q == SubSeq(t, n + 1, Len(t))
             m == Len(t)
  <1>0. m \in Nat /\ n \in Nat /\ 1 <= n /\ n < m
    OBVIOUS
  <1>1. p \in Seq(Units(from)) /\ Len(p) = n /\ \A k \in 1 .. n : p[k] = t[k]
    <2>1. n \in 0 .. Len(t) /\ 1 <= n + 1 /\ n - 1 + 1 = n /\ \A k \in 1 .. n : 1 + k - 1 = k
      BY <1>0
    <2>2. /\ p \in Seq(Units(from)) /\ Len(p) = n - 1 + 1
          /\ \A k \in 1 .. n - 1 + 1 : p[k] = t[1 + k - 1]
      BY <2>1, PieceIs
    <2> HIDE DEF p
    <2> QED
      BY <2>1, <2>2
  <1>2. q \in Seq(Units(from)) /\ m = n + Len(q) /\ \A k \in 1 .. Len(q) : t[n + k] = q[k]
    <2>1. m \in 0 .. Len(t) /\ n + 1 \in Nat \ {0} /\ n + 1 <= m + 1
      BY <1>0
    <2>2. /\ q \in Seq(Units(from)) /\ Len(q) = m - (n + 1) + 1
          /\ \A k \in 1 .. m - (n + 1) + 1 : q[k] = t[(n + 1) + k - 1]
      BY <2>1, PieceIs
    <2>3. m - (n + 1) + 1 = m - n /\ \A k \in 1 .. m - n : (n + 1) + k - 1 = n + k
      BY <1>0
    <2> HIDE DEF q, m
    <2> QED
      BY <1>0, <2>2, <2>3
  <1> HIDE DEF p, q
  <1>3. PICK f : Converts(f, from, to, t)
    BY ConversionIs
  <1>4. PICK g : Converts(g, from, to, p)
    BY <1>1, ConversionIs
  <1>5. PICK h : Converts(h, from, to, q)
    BY <1>2, ConversionIs
  <1>6. f[n + 1] = h[1]
    <2>1. EndsIn(t, n, q)
      BY <1>2 DEF EndsIn
    <2> QED
      BY <1>0, <1>2, <1>3, <1>5, <2>1, SuffixConverted
  <1> DEFINE rest == f[n + 1].output
             S == {i \in 1 .. n + 1 : f[i].output = g[i].output \o rest}
  <1>7. rest \in Seq(Units(to))
    <2>1. n + 1 \in 1 .. Len(t) + 1
      BY <1>0
    <2>2. f[n + 1] \in Results(to)
      BY <1>3, <2>1, ConvertIs
    <2> QED
      BY <2>2 DEF Results
  <1> HIDE DEF m
  <1>8. ASSUME NEW i \in 1 .. n + 1, \A j \in i + 1 .. n + 1 : j \in S
        PROVE  i \in S
    <2>1. CASE i = n + 1
      <3>1. g[i].output = <<>>
        BY <1>1, <1>4, <2>1, ConvertIs
      <3>2. <<>> \o rest = rest
        <4> HIDE DEF rest
        <4> QED BY <1>7
      <3> QED
        BY <2>1, <3>1, <3>2
    <2>2. CASE i # n + 1
      <3>1. i \in 1 .. n /\ i \in 1 .. Len(t) /\ i \in 1 .. Len(p)
        BY <1>0, <1>1, <2>2 DEF m
      <3> DEFINE a == ReadAt(from, t, i)
                 b == ReadAt(from, p, i)
                 w == Spelled(to, CharacterAt(from, t, i))
      <3>2. a.code_point = b.code_point /\ a.next = b.next
        BY <1>0, <1>1, <3>1, PrefixRead DEF m
      <3>3. CharacterAt(from, p, i) = CharacterAt(from, t, i)
        BY <3>2, Zenon DEF CharacterAt, Unicode!Readable
      <3>4. f[i].output = w \o f[a.next].output
        BY <1>3, <3>1, ConvertIs
      <3>5. b.next \in i + 1 .. n + 1 /\ g[i].output = w \o g[b.next].output
        BY <1>1, <1>4, <3>1, <3>3, ConvertIs
      <3>6. w \in Seq(Units(to))
        BY <3>1, CharacterTyped, WrittenTyped
      <3>7. f[b.next].output = g[b.next].output \o rest
        <4>1. b.next \in S
          <5> HIDE DEF S, b
          <5> QED BY <1>8, <3>5
        <4> QED
          BY <4>1
      <3>8. g[b.next].output \in Seq(Units(to))
        <4>1. b.next \in 1 .. Len(p) + 1
          BY <1>0, <1>1, <3>5
        <4>2. g[b.next] \in Results(to)
          BY <1>1, <1>4, <4>1, ConvertIs
        <4> HIDE DEF b
        <4> QED
          BY <4>2 DEF Results
      <3> DEFINE y == g[b.next].output
      <3>9. w \o (y \o rest) = (w \o y) \o rest
        <4> HIDE DEF w, y, rest
        <4>1. y \in Seq(Units(to))
          BY <3>8 DEF y
        <4> QED BY <1>7, <3>6, <4>1, SMTT(60)
      <3> HIDE DEF a, b, w, rest
      <3>10. f[i].output = g[i].output \o rest
        BY <3>2, <3>4, <3>5, <3>7, <3>9
      <3> QED
        BY <3>10
    <2> QED
      BY <2>1, <2>2
  <1>9. f[1].output = g[1].output \o rest
    <2>1. 1 \in S
      <3> HIDE DEF S
      <3>1. \A i \in 1 .. n + 1 : i \in S
        BY <1>0, <1>8, Backwards
      <3> QED
        BY <1>0, <3>1
    <2> QED
      BY <2>1
  <1>10. /\ Convert(from, to, t) = f[1] /\ Convert(from, to, p) = g[1] /\ Convert(from, to, q) = h[1]
    BY <1>1, <1>2, <1>3, <1>4, <1>5, ConvertIs
  <1> QED
    BY <1>6, <1>9, <1>10 DEF p, q

-----------------------------------------------------------------------------
(* Bytes and integers *)

Base == 2 ^ ByteBits
ByteValues == {byte \in Nat : byte < Base}
Place(i) == Bytes!Shift(i)

LEMMA BytePowers ==
  /\ \A k \in 0 .. 8 * ByteBits : 2 ^ k \in Nat \ {0}
  /\ \A a, b \in 0 .. 8 * ByteBits : a + b <= 8 * ByteBits => 2 ^ (a + b) = 2 ^ a * 2 ^ b
  <1> DEFINE N == 8 * ByteBits
  <1>0. ByteBits \in Nat /\ N \in Nat
    BY StringsAssumption
  <1>1. \A k \in 0 .. N : 2 ^ (k + 1) = 2 * 2 ^ k
    BY PowersAssumption
  <1>2. 2 ^ 0 = 1
    OBVIOUS
  <1> HIDE DEF N
  <1> DEFINE S == {k \in 0 .. N : 2 ^ k \in Nat \ {0}}
  <1>3. \A k \in 0 .. N : k \in S
    <2>1. 0 \in S
      BY <1>0, <1>2
    <2>2. ASSUME NEW k \in 1 .. N, k - 1 \in S
          PROVE  k \in S
      <3>1. 2 ^ ((k - 1) + 1) = 2 * 2 ^ (k - 1)
        BY <1>0, <1>1, <2>2
      <3>2. (k - 1) + 1 = k /\ k \in 0 .. N
        BY <1>0, <2>2
      <3>3. 2 ^ k = 2 * 2 ^ (k - 1)
        BY <3>1, <3>2
      <3> QED
        BY <2>2, <3>2, <3>3
    <2> HIDE DEF S
    <2> QED
      BY <1>0, <2>1, <2>2, UpTo
  <1>4. \A k \in 0 .. N : 2 ^ k \in Nat \ {0}
    BY <1>3
  <1> HIDE DEF S
  <1>5. ASSUME NEW a \in 0 .. N, NEW b \in 0 .. N, a + b <= N
        PROVE  2 ^ (a + b) = 2 ^ a * 2 ^ b
    <2> DEFINE R == {k \in 0 .. b : 2 ^ (a + k) = 2 ^ a * 2 ^ k}
    <2>1. 0 \in R
      <3>1. a + 0 = a /\ 2 ^ a \in Nat
        BY <1>0, <1>4
      <3> QED
        BY <1>0, <1>2, <3>1
    <2>2. ASSUME NEW k \in 1 .. b, k - 1 \in R
          PROVE  k \in R
      <3> DEFINE m == k - 1
      <3>1. m \in 0 .. N /\ a + m \in 0 .. N /\ m + 1 = k /\ (a + m) + 1 = a + k
        BY <1>0, <1>5, <2>2
      <3>2. 2 ^ (a + m) = 2 ^ a * 2 ^ m
        BY <2>2
      <3> HIDE DEF m
      <3>3. 2 ^ k = 2 * 2 ^ m /\ 2 ^ (a + k) = 2 * 2 ^ (a + m)
        <4>1. 2 ^ (m + 1) = 2 * 2 ^ m /\ 2 ^ ((a + m) + 1) = 2 * 2 ^ (a + m)
          BY <1>1, <3>1
        <4> QED
          BY <3>1, <4>1
      <3> DEFINE x == 2 ^ a
                 y == 2 ^ m
      <3>4. x \in Nat /\ y \in Nat
        BY <1>4, <3>1
      <3>5. 2 ^ (a + k) = 2 * (x * y) /\ 2 ^ k = 2 * y
        BY <3>2, <3>3
      <3>6. 2 * (x * y) = x * (2 * y)
        <4> HIDE DEF x, y
        <4> QED BY <3>4
      <3> QED
        BY <2>2, <3>5, <3>6
    <2>3. b \in R
      <3> HIDE DEF R
      <3>1. b \in Nat
        BY <1>0
      <3> QED BY <2>1, <2>2, <3>1, UpTo
    <2> QED
      BY <2>3
  <1> QED
    BY <1>4, <1>5 DEF N

LEMMA PlacesAre ==
  /\ Base \in Nat \ {0} /\ Place(0) = 1 /\ Place(1) = Base
  /\ \A i \in 0 .. 8 : Place(i) \in Nat \ {0}
  /\ \A i \in 0 .. 7 : Place(i + 1) = Place(i) * Base
  <1>0. ByteBits \in Nat
    BY StringsAssumption
  <1>1. \A i \in 0 .. 8 : ByteBits * i \in 0 .. 8 * ByteBits
    BY <1>0
  <1>2. ByteBits * 0 = 0 /\ ByteBits * 1 = ByteBits /\ ByteBits \in 0 .. 8 * ByteBits
    BY <1>0
  <1>3. \A i \in 0 .. 7 : ByteBits * (i + 1) = ByteBits * i + ByteBits /\ i \in 0 .. 8 /\ i + 1 \in 0 .. 8
    BY <1>0
  <1>4. 2 ^ 0 = 1
    OBVIOUS
  <1>5. Base \in Nat \ {0} /\ Place(0) = 1 /\ Place(1) = Base
    BY <1>2, <1>4, BytePowers DEF Base, Place, Bytes!Shift
  <1>6. \A i \in 0 .. 8 : Place(i) \in Nat \ {0}
    BY <1>1, BytePowers DEF Place, Bytes!Shift
  <1>7. ASSUME NEW i \in 0 .. 7
        PROVE  Place(i + 1) = Place(i) * Base
    <2> DEFINE a == ByteBits * i
    <2>1. /\ a \in 0 .. 8 * ByteBits /\ ByteBits * (i + 1) = a + ByteBits
          /\ a + ByteBits \in 0 .. 8 * ByteBits
      BY <1>1, <1>3
    <2> HIDE DEF a
    <2>2. 2 ^ (a + ByteBits) = 2 ^ a * 2 ^ ByteBits
      BY <1>0, <1>2, <2>1, BytePowers
    <2> QED
      BY <2>1, <2>2 DEF a, Base, Place, Bytes!Shift
  <1> QED
    BY <1>5, <1>6, <1>7

LEMMA BaseIs == Base \in Nat \ {0} /\ Place(0) = 1 /\ Place(1) = Base
  BY PlacesAre

LEMMA PlaceIs ==
  ASSUME NEW i \in Nat, i <= 8
  PROVE  Place(i) \in Nat \ {0} /\ (i < 8 => Place(i + 1) = Place(i) * Base)
  <1>1. i \in 0 .. 8 /\ (i < 8 => i \in 0 .. 7)
    OBVIOUS
  <1> QED
    BY <1>1, PlacesAre

LEMMA QuotientIs ==
  ASSUME NEW m \in Nat \ {0}, NEW a \in 0 .. m - 1, NEW b \in Nat
  PROVE  (a + m * b) \div m = b /\ (a + m * b) % m = a
  <1> DEFINE n == a + m * b
             q == n \div m
             r == n % m
  <1>1. n \in Int
    OBVIOUS
  <1>2. q \in Int /\ r \in 0 .. m - 1
    <2> HIDE DEF n
    <2> QED BY <1>1, RemainderFacts
  <1>3. n = m * q + r
    <2> HIDE DEF n
    <2> QED BY <1>1, DivisionFacts
  <1>4. a + m * b = m * q + r
    BY <1>3
  <1> HIDE DEF q, r, n
  <1>5. m * (b - q) = r - a
    BY <1>2, <1>4
  <1>6. b - q = 0
    <2> DEFINE d == b - q
    <2>1. d \in Int
      BY <1>2
    <2> DEFINE x == m * d
    <2>2. -m < x /\ x < m /\ x \in Int
      BY <1>2, <1>5
    <2> HIDE DEF d
    <2>3. /\ d >= 1 => x >= m
          /\ d <= -1 => x <= -m
      BY <2>1
    <2>4. ~(d >= 1) /\ ~(d <= -1)
      <3> HIDE DEF x
      <3> QED BY <2>2, <2>3
    <2>5. d = 0
      BY <2>1, <2>4
    <2> QED
      BY <2>5 DEF d
  <1>7. q = b
    BY <1>2, <1>6
  <1>8. r = a
    BY <1>2, <1>4, <1>7
  <1> QED
    BY <1>7, <1>8 DEF q, r, n

-----------------------------------------------------------------------------
Sums(f, n, term) ==
  /\ f \in [0 .. n -> Nat] /\ f[0] = 0
  /\ \A i \in 1 .. n : f[i] = f[i - 1] + term[i - 1]

IsSum(f, n, term) == f = [i \in 0 .. n |-> IF i = 0 THEN 0 ELSE f[i - 1] + term[i - 1]]

LEMMA SumIs ==
  ASSUME NEW n \in Nat, NEW term, \A i \in 0 .. n - 1 : term[i] \in Nat
  PROVE  \E f : Sums(f, n, term) /\ Bytes!Sum(n, term) = f[n]
  <1> DEFINE step == [p \in (1 .. n) \X Nat |-> p[2] + term[p[1] - 1]]
  <1>1. step \in [(1 .. n) \X Nat -> Nat] /\ \A i \in 1 .. n, m \in Nat : step[<<i, m>>] = m + term[i - 1]
    OBVIOUS
  <1> HIDE DEF step
  <1>2. PICK g \in [0 .. n -> Nat] : Recursion(g, n, 0, step)
    <2>1. 0 \in Nat
      OBVIOUS
    <2> QED BY <1>1, <2>1, RecursionExists
  <1>3. Sums(g, n, term)
    <2>1. ASSUME NEW i \in 1 .. n
          PROVE  g[i] = g[i - 1] + term[i - 1]
      <3>1. i - 1 \in 0 .. n
        OBVIOUS
      <3>2. g[i - 1] \in Nat
        BY <1>2, <3>1
      <3> QED
        BY <1>1, <1>2, <3>2 DEF Recursion
    <2> QED
      BY <1>2, <2>1 DEF Sums, Recursion
  <1>4. IsSum(g, n, term)
    BY <1>2, <1>3 DEF Sums, IsSum
  <1> DEFINE sum == CHOOSE f : f = [i \in 0 .. n |-> IF i = 0 THEN 0 ELSE f[i - 1] + term[i - 1]]
  <1>5. IsSum(sum, n, term)
    <2>1. \E f : f = [i \in 0 .. n |-> IF i = 0 THEN 0 ELSE f[i - 1] + term[i - 1]]
      BY <1>4, Zenon DEF IsSum
    <2> QED
      BY <2>1, Zenon DEF IsSum
  <1>6. Bytes!Sum(n, term) = sum[n]
    BY DEF Bytes!Sum
  <1> HIDE DEF sum
  <1> DEFINE S == {i \in 0 .. n : sum[i] = g[i]}
  <1>7. \A i \in 0 .. n : sum[i] = IF i = 0 THEN 0 ELSE sum[i - 1] + term[i - 1]
    BY <1>5, Zenon DEF IsSum
  <1>8. 0 \in S
    BY <1>3, <1>7 DEF Sums
  <1>9. ASSUME NEW i \in 1 .. n, i - 1 \in S
        PROVE  i \in S
    BY <1>3, <1>7, <1>9 DEF Sums
  <1>10. n \in S
    <2> HIDE DEF S
    <2>1. \A i \in 0 .. n : i \in S
      BY <1>8, <1>9, UpTo
    <2> QED
      BY <2>1
  <1> QED
    BY <1>3, <1>6, <1>10

Numbered(f, s) ==
  /\ f \in [0 .. Len(s) -> Nat] /\ f[0] = 0
  /\ \A i \in 1 .. Len(s) : f[i] = f[i - 1] * Base + s[i]

IsNumber(f, s) == f = [i \in 0 .. Len(s) |-> IF i = 0 THEN 0 ELSE f[i - 1] * 2 ^ ByteBits + s[i]]

LEMMA NumberIs ==
  ASSUME NEW s \in Seq(ByteValues)
  PROVE  \E f : Numbered(f, s) /\ NumberOf(s) = f[Len(s)]
  <1> DEFINE n == Len(s)
             step == [p \in (1 .. n) \X Nat |-> p[2] * Base + s[p[1]]]
  <1>0. n \in Nat /\ Base \in Nat /\ \A i \in 1 .. n : s[i] \in Nat
    <2>1. \A i \in 1 .. n : s[i] \in ByteValues
      OBVIOUS
    <2>2. Base \in Nat
      BY BaseIs
    <2>3. \A i \in 1 .. n : s[i] \in Nat
      BY <2>1 DEF ByteValues
    <2> QED
      BY <2>2, <2>3
  <1> HIDE DEF n
  <1>1. step \in [(1 .. n) \X Nat -> Nat] /\ \A i \in 1 .. n, m \in Nat : step[<<i, m>>] = m * Base + s[i]
    BY <1>0, SMTT(60)
  <1> HIDE DEF step
  <1>2. PICK g \in [0 .. n -> Nat] : Recursion(g, n, 0, step)
    <2>1. 0 \in Nat
      OBVIOUS
    <2> QED BY <1>0, <1>1, <2>1, RecursionExists
  <1>3. Numbered(g, s)
    <2>1. ASSUME NEW i \in 1 .. n
          PROVE  g[i] = g[i - 1] * Base + s[i]
      <3>1. i - 1 \in 0 .. n
        BY <1>0
      <3>2. g[i - 1] \in Nat
        BY <1>2, <3>1
      <3> QED
        BY <1>1, <1>2, <3>2 DEF Recursion
    <2> QED
      BY <1>2, <2>1 DEF Numbered, Recursion, n
  <1>4. IsNumber(g, s)
    BY <1>2, <1>3 DEF Numbered, IsNumber, n, Base
  <1> DEFINE number == CHOOSE f : f = [i \in 0 .. Len(s) |->
                         IF i = 0 THEN 0 ELSE f[i - 1] * 2 ^ ByteBits + s[i]]
  <1>5. IsNumber(number, s)
    <2>1. \E f : f = [i \in 0 .. Len(s) |-> IF i = 0 THEN 0 ELSE f[i - 1] * 2 ^ ByteBits + s[i]]
      BY <1>4, Zenon DEF IsNumber
    <2> QED
      BY <2>1, Zenon DEF IsNumber
  <1>6. NumberOf(s) = number[Len(s)]
    BY DEF NumberOf
  <1> HIDE DEF number
  <1> DEFINE S == {i \in 0 .. n : number[i] = g[i]}
  <1>7. \A i \in 0 .. n : number[i] = IF i = 0 THEN 0 ELSE number[i - 1] * Base + s[i]
    BY <1>5, Zenon DEF IsNumber, n, Base
  <1>8. 0 \in S
    BY <1>0, <1>3, <1>7 DEF Numbered
  <1>9. ASSUME NEW i \in 1 .. n, i - 1 \in S
        PROVE  i \in S
    BY <1>0, <1>3, <1>7, <1>9 DEF Numbered, n
  <1>10. n \in S
    <2> HIDE DEF S
    <2>1. \A i \in 0 .. n : i \in S
      BY <1>0, <1>8, <1>9, UpTo
    <2> QED
      BY <1>0, <2>1
  <1> QED
    BY <1>3, <1>6, <1>10 DEF n

Little(s) == Bytes!FromLittleEndian(s)

Weighed(f, s) ==
  /\ f \in [0 .. Len(s) -> Nat] /\ f[0] = 0
  /\ \A i \in 1 .. Len(s) : f[i] = f[i - 1] + s[i] * Place(i - 1)

LEMMA ByteValueAt ==
  ASSUME NEW s \in Seq(ByteValues), NEW i \in 1 .. Len(s)
  PROVE  s[i] \in Nat /\ s[i] < Base /\ s[i] \in 0 .. Base - 1
  <1>1. s[i] \in ByteValues
    OBVIOUS
  <1>2. s[i] \in Nat /\ s[i] < Base
    BY <1>1 DEF ByteValues
  <1> QED
    BY <1>2, BaseIs

LEMMA LittleIs ==
  ASSUME NEW s \in Seq(ByteValues), Len(s) <= 8
  PROVE  \E f : Weighed(f, s) /\ Little(s) = f[Len(s)]
  <1> DEFINE n == Len(s)
             term == [i \in 0 .. n - 1 |-> s[i + 1] * Place(i)]
  <1>0. n \in Nat /\ n <= 8
    OBVIOUS
  <1>1. \A i \in 0 .. n - 1 : term[i] = s[i + 1] * Place(i)
    OBVIOUS
  <1>2. ASSUME NEW i \in 0 .. n - 1
        PROVE  term[i] \in Nat
    <2>1. s[i + 1] \in Nat
      <3>1. i + 1 \in 1 .. Len(s)
        BY <1>0
      <3> QED
        BY <3>1, ByteValueAt
    <2>2. Place(i) \in Nat
      <3>1. i \in Nat /\ i <= 8
        BY <1>0
      <3> QED
        BY <3>1, PlaceIs
    <2> DEFINE x == s[i + 1]
               y == Place(i)
    <2>3. term[i] = x * y
      BY <1>1
    <2> HIDE DEF term, n
    <2>4. x * y \in Nat
      <3>1. x \in Nat /\ y \in Nat
        BY <2>1, <2>2
      <3> HIDE DEF x, y
      <3> QED BY <3>1
    <2> QED
      BY <2>3, <2>4
  <1>3. Little(s) = Bytes!Sum(n, term)
    BY DEF Little, Bytes!FromLittleEndian, Place
  <1> HIDE DEF n, term
  <1>4. n \in Nat
    BY <1>0
  <1>5. PICK f : Sums(f, n, term) /\ Bytes!Sum(n, term) = f[n]
    BY <1>2, <1>4, SumIs
  <1>6. ASSUME NEW i \in 1 .. n
        PROVE  f[i] = f[i - 1] + s[i] * Place(i - 1)
    <2>1. i - 1 \in 0 .. n - 1 /\ (i - 1) + 1 = i
      BY <1>0
    <2>2. term[i - 1] = s[i] * Place(i - 1)
      BY <1>1, <2>1
    <2> QED
      BY <1>5, <2>2 DEF Sums
  <1>7. Weighed(f, s)
    BY <1>5, <1>6 DEF Weighed, Sums, n
  <1> QED
    BY <1>3, <1>5, <1>7 DEF n

(* The bytes of the integer that was put together from them. *)
LEMMA BytesBack ==
  ASSUME NEW s \in Seq(ByteValues), Len(s) <= 8
  PROVE  Bytes!ToLittleEndian(Len(s), Little(s)) = s /\ Little(s) \in Nat
  <1> DEFINE n == Len(s)
  <1>0. n \in Nat /\ n <= 8 /\ s = [k \in 1 .. n |-> s[k]]
    OBVIOUS
  <1>1. PICK f : Weighed(f, s) /\ Little(s) = f[n]
    BY LittleIs
  <1>2. \A k \in 1 .. n : s[k] \in 0 .. Base - 1
    BY ByteValueAt
  <1>3. /\ f \in [0 .. n -> Nat] /\ f[0] = 0
        /\ \A k \in 1 .. n : f[k] = f[k - 1] + s[k] * Place(k - 1)
    BY <1>1 DEF Weighed
  <1> HIDE DEF n
  <1>4. Base \in Nat \ {0} /\ \A k \in 1 .. n : Place(k - 1) \in Nat \ {0} /\ Place(k) = Place(k - 1) * Base
    <2>1. \A k \in 1 .. n : k - 1 \in Nat /\ k - 1 < 8 /\ k - 1 <= 8 /\ (k - 1) + 1 = k
      BY <1>0
    <2> QED
      BY <2>1, BaseIs, PlaceIs
  <1> DEFINE S == {k \in 0 .. n : f[k] < Place(k)}
  <1>5. \A k \in 0 .. n : k \in S
    <2>1. 0 \in S
      BY <1>0, <1>3, BaseIs
    <2>2. ASSUME NEW k \in 1 .. n, k - 1 \in S
          PROVE  k \in S
      <3> DEFINE a == f[k - 1]
                 p == Place(k - 1)
                 d == s[k]
      <3>1. a \in Nat /\ p \in Nat \ {0} /\ d \in 0 .. Base - 1 /\ a < p
        BY <1>2, <1>3, <1>4, <2>2
      <3>2. f[k] = a + d * p /\ Place(k) = p * Base
        BY <1>3, <1>4
      <3>3. a + d * p < p * Base
        <4> HIDE DEF a, p, d
        <4>1. d * p <= (Base - 1) * p
          BY <1>4, <3>1
        <4>2. (Base - 1) * p = p * Base - p
          BY <1>4, <3>1
        <4> QED
          BY <1>4, <3>1, <4>1, <4>2
      <3> HIDE DEF a, p, d
      <3> QED
        BY <3>2, <3>3
    <2> HIDE DEF S
    <2> QED
      BY <1>0, <2>1, <2>2, UpTo
  <1>6. \A k \in 0 .. n : f[k] < Place(k)
    BY <1>5
  <1> HIDE DEF S
  <1>7. ASSUME NEW k \in 1 .. n
        PROVE  \E q \in Nat : f[n] = f[k] + Place(k) * q
    <2> DEFINE Above(j) == \E q, r \in Nat : f[j] = f[k] + Place(k) * q /\ Place(j) = Place(k) * r
               R == {j \in 0 .. n : j >= k => Above(j)}
    <2>0. Place(k) \in Nat /\ f[k] \in Nat
      BY <1>0, <1>3, PlaceIs
    <2>1. Above(k)
      <3>1. f[k] = f[k] + Place(k) * 0 /\ Place(k) = Place(k) * 1 /\ 0 \in Nat /\ 1 \in Nat
        BY <2>0
      <3> QED
        BY <3>1
    <2>2. 0 \in R
      BY <1>0
    <2>3. ASSUME NEW j \in 1 .. n, j - 1 \in R
          PROVE  j \in R
      <3>1. CASE j <= k
        BY <2>1, <3>1
      <3>2. CASE j > k
        <4>1. Above(j - 1)
          BY <2>3, <3>2
        <4>2. PICK q, r \in Nat : f[j - 1] = f[k] + Place(k) * q /\ Place(j - 1) = Place(k) * r
          BY <4>1
        <4> DEFINE p == Place(k)
                   a == f[k]
                   d == s[j]
                   u == q + d * r
                   v == r * Base
        <4>3. f[j] = f[j - 1] + d * Place(j - 1) /\ Place(j) = Place(j - 1) * Base /\ d \in Nat /\ Base \in Nat
          BY <1>2, <1>3, <1>4
        <4>4. f[j] = (a + p * q) + d * (p * r) /\ Place(j) = (p * r) * Base
          BY <4>2, <4>3
        <4>5. p \in Nat /\ a \in Nat /\ d \in Nat
          BY <2>0, <4>3
        <4>6. u \in Nat /\ v \in Nat /\ f[j] = a + p * u /\ Place(j) = p * v
          <5> HIDE DEF p, a, d
          <5>1. /\ (a + p * q) + d * (p * r) = a + p * (q + d * r)
                /\ (p * r) * Base = p * (r * Base)
                /\ q + d * r \in Nat /\ r * Base \in Nat
            BY <4>3, <4>5
          <5> QED
            BY <4>4, <5>1
        <4> HIDE DEF u, v
        <4>7. Above(j)
          BY <4>6
        <4> HIDE DEF Above
        <4> QED
          BY <4>7
      <3> HIDE DEF R
      <3> QED
        BY <1>0, <3>1, <3>2
    <2>4. n \in R
      <3> HIDE DEF R
      <3>1. \A j \in 0 .. n : j \in R
        BY <1>0, <2>2, <2>3, UpTo
      <3> QED
        BY <1>0, <3>1
    <2> QED
      BY <1>0, <2>4
  <1>8. ASSUME NEW k \in 1 .. n
        PROVE  Bytes!ByteAt(f[n], k - 1) = s[k]
    <2> DEFINE a == f[k - 1]
               p == Place(k - 1)
               d == s[k]
    <2>1. PICK q \in Nat : f[n] = f[k] + Place(k) * q
      BY <1>7
    <2>2. a \in Nat /\ p \in Nat \ {0} /\ d \in 0 .. Base - 1 /\ a < p
      <3>1. k - 1 \in 0 .. n
        BY <1>0
      <3> QED
        BY <1>2, <1>3, <1>4, <1>6, <3>1
    <2>3. f[n] = (a + d * p) + (p * Base) * q
      BY <1>3, <1>4, <2>1
    <2>4. Bytes!ByteAt(f[n], k - 1) = (f[n] \div p) % Base
      BY BaseIs DEF Bytes!ByteAt, Place
    <2> HIDE DEF a, p, d
    <2> DEFINE b == d + Base * q
    <2>5. (a + d * p) + (p * Base) * q = a + p * b /\ b \in Nat /\ a \in 0 .. p - 1
      <3>1. (a + d * p) + (p * Base) * q = a + p * (d + Base * q)
        BY <1>4, <2>2
      <3>2. d \in Nat /\ Base \in Nat /\ q \in Nat
        BY <1>4, <2>2
      <3>3. b \in Nat
        BY <3>2
      <3>4. a \in 0 .. p - 1
        BY <2>2
      <3> QED
        BY <3>1, <3>3, <3>4
    <2>6. (a + p * b) \div p = b
      <3> HIDE DEF b
      <3> QED BY <2>2, <2>5, QuotientIs
    <2>7. b % Base = d
      BY <1>4, <2>2, QuotientIs
    <2> HIDE DEF b
    <2>8. Bytes!ByteAt(f[n], k - 1) = d
      BY <2>3, <2>4, <2>5, <2>6, <2>7
    <2> QED
      BY <2>8 DEF d
  <1>9. Bytes!ToLittleEndian(n, f[n]) = [k \in 1 .. n |-> s[k]]
    BY <1>8, Zenon DEF Bytes!ToLittleEndian
  <1> QED
    BY <1>0, <1>1, <1>3, <1>9 DEF n

LEMMA ReverseIs ==
  ASSUME NEW s \in Seq(ByteValues)
  PROVE  /\ Reverse(s) \in Seq(ByteValues) /\ Len(Reverse(s)) = Len(s)
         /\ \A i \in 1 .. Len(s) : Reverse(s)[i] = s[Len(s) - i + 1]
         /\ Reverse(Reverse(s)) = s
  <1> DEFINE n == Len(s)
             r == Reverse(s)
  <1>0. n \in Nat /\ s = [i \in 1 .. n |-> s[i]] /\ \A i \in 1 .. n : s[i] \in ByteValues
    OBVIOUS
  <1>1. r = [i \in 1 .. n |-> s[n - i + 1]]
    BY DEF Reverse
  <1> HIDE DEF n, r
  <1>2. \A i \in 1 .. n : n - i + 1 \in 1 .. n /\ n - (n - i + 1) + 1 = i
    BY <1>0
  <1>3. r \in [1 .. n -> ByteValues] /\ \A i \in 1 .. n : r[i] = s[n - i + 1]
    BY <1>0, <1>1, <1>2
  <1>4. r \in Seq(ByteValues) /\ Len(r) = n
    BY <1>0, <1>3
  <1>5. Reverse(r) = [i \in 1 .. n |-> r[n - i + 1]]
    BY <1>4 DEF Reverse
  <1>6. \A i \in 1 .. n : r[n - i + 1] = s[i]
    BY <1>2, <1>3
  <1>7. Reverse(r) = [i \in 1 .. n |-> s[i]]
    BY <1>5, <1>6, Zenon
  <1> QED
    BY <1>0, <1>3, <1>4, <1>7 DEF n, r

(* The bytes in reverse are the same number with the other one first. *)
LEMMA NumberIsLittle ==
  ASSUME NEW s \in Seq(ByteValues), Len(s) <= 8
  PROVE  Little(Reverse(s)) = NumberOf(s)
  <1> DEFINE n == Len(s)
             t == Reverse(s)
  <1>0. n \in Nat /\ n <= 8
    OBVIOUS
  <1>1. t \in Seq(ByteValues) /\ Len(t) = n /\ \A i \in 1 .. n : t[i] = s[n - i + 1]
    BY ReverseIs
  <1> HIDE DEF t
  <1>2. PICK h : Numbered(h, s) /\ NumberOf(s) = h[n]
    BY NumberIs
  <1>3. PICK f : Weighed(f, t) /\ Little(t) = f[n]
    BY <1>0, <1>1, LittleIs
  <1>4. /\ h \in [0 .. n -> Nat] /\ h[0] = 0
        /\ \A i \in 1 .. n : h[i] = h[i - 1] * Base + s[i]
    BY <1>2 DEF Numbered
  <1>5. /\ f \in [0 .. n -> Nat] /\ f[0] = 0
        /\ \A i \in 1 .. n : f[i] = f[i - 1] + t[i] * Place(i - 1)
    BY <1>1, <1>3 DEF Weighed
  <1>6. \A i \in 1 .. n : s[i] \in Nat
    BY ByteValueAt
  <1> HIDE DEF n
  <1> DEFINE S == {k \in 0 .. n : f[k] + Place(k) * h[n - k] = h[n]}
  <1>7. 0 \in S
    <2>1. n - 0 = n /\ 0 \in 0 .. n /\ h[n] \in Nat /\ Place(0) = 1
      BY <1>0, <1>4, BaseIs
    <2>2. 0 + 1 * h[n] = h[n]
      BY <2>1
    <2> QED
      BY <1>5, <2>1, <2>2
  <1>8. ASSUME NEW k \in 1 .. n, k - 1 \in S
        PROVE  k \in S
    <2> DEFINE a == f[k - 1]
               p == Place(k - 1)
               j == n - k + 1
               g == h[j - 1]
               d == s[j]
    <2>1. k \in Nat /\ k - 1 \in 0 .. n /\ j \in 1 .. n /\ j - 1 \in 0 .. n /\ n - (k - 1) = j /\ n - k = j - 1
      BY <1>0
    <2>2. k - 1 \in Nat /\ k - 1 < 8 /\ k - 1 <= 8 /\ (k - 1) + 1 = k
      BY <1>0, <2>1
    <2>3. p \in Nat /\ Place(k) = p * Base /\ Base \in Nat
      BY <2>2, PlaceIs, BaseIs
    <2>4. t[k] = d
      BY <1>1
    <2>5. f[k] = a + d * p
      BY <1>5, <2>4
    <2> HIDE DEF j
    <2>6. h[j] = g * Base + d /\ g \in Nat /\ d \in Nat /\ a \in Nat
      BY <1>4, <1>5, <1>6, <2>1
    <2>7. a + p * h[j] = h[n]
      BY <1>8, <2>1
    <2>8. (a + d * p) + (p * Base) * g = a + p * (g * Base + d)
      <3> HIDE DEF a, p, g, d
      <3> QED BY <2>3, <2>6
    <2>9. f[k] + Place(k) * h[n - k] = h[n]
      <3>1. h[n - k] = g
        BY <2>1
      <3> HIDE DEF a, p, g, d
      <3> QED BY <2>3, <2>5, <2>6, <2>7, <2>8, <3>1
    <2> QED
      BY <2>9
  <1>9. f[n] + Place(n) * h[n - n] = h[n]
    <2>1. \A k \in 0 .. n : k \in S
      <3> HIDE DEF S
      <3> QED BY <1>0, <1>7, <1>8, UpTo
    <2> QED
      BY <1>0, <2>1
  <1>10. f[n] = h[n]
    <2>1. n - n = 0 /\ Place(n) \in Nat /\ n \in 0 .. n
      BY <1>0, PlaceIs, SMTT(60)
    <2>2. Place(n) * 0 = 0
      BY <2>1
    <2>3. f[n] + 0 = h[n]
      BY <1>4, <1>9, <2>1, <2>2
    <2> QED
      BY <1>5, <2>1, <2>3
  <1> QED
    BY <1>2, <1>3, <1>10 DEF t

(* Swapping bytes puts them together the other way around. *)
LEMMA SwapIs ==
  ASSUME NEW n \in Nat, n <= 8, NEW value,
         Bytes!ToLittleEndian(n, value) \in Seq(ByteValues)
  PROVE  Bytes!SwapBytes(n, value) = NumberOf(Bytes!ToLittleEndian(n, value))
  <1> DEFINE s == Bytes!ToLittleEndian(n, value)
             term == [i \in 0 .. n - 1 |-> Bytes!ByteAt(value, i) * Place(n - 1 - i)]
  <1>1. Len(s) = n /\ \A i \in 1 .. n : s[i] = Bytes!ByteAt(value, i - 1)
    BY DEF Bytes!ToLittleEndian
  <1>2. \A i \in 0 .. n - 1 : term[i] = s[i + 1] * Place(n - 1 - i)
    <2> TAKE i \in 0 .. n - 1
    <2>1. i + 1 \in 1 .. n /\ (i + 1) - 1 = i
      OBVIOUS
    <2>2. s[i + 1] = Bytes!ByteAt(value, i)
      <3> HIDE DEF s
      <3> QED BY <1>1, <2>1
    <2> QED
      BY <2>2
  <1>3. Bytes!SwapBytes(n, value) = Bytes!Sum(n, term)
    BY DEF Bytes!SwapBytes, Place
  <1>4. s \in Seq(ByteValues)
    OBVIOUS
  <1> HIDE DEF s, term
  <1>5. \A i \in 1 .. n : s[i] \in Nat
    BY <1>1, <1>4, ByteValueAt
  <1>6. ASSUME NEW i \in 0 .. n - 1
        PROVE  term[i] \in Nat
    <2> DEFINE x == s[i + 1]
               y == Place(n - 1 - i)
    <2>1. n - 1 - i \in Nat /\ n - 1 - i <= 8 /\ i + 1 \in 1 .. n
      OBVIOUS
    <2>2. x \in Nat /\ y \in Nat
      BY <1>5, <2>1, PlaceIs
    <2>3. term[i] = x * y
      BY <1>2
    <2> HIDE DEF x, y
    <2> QED
      BY <2>2, <2>3
  <1>7. PICK f : Sums(f, n, term) /\ Bytes!Sum(n, term) = f[n]
    BY <1>6, SumIs
  <1>8. PICK h : Numbered(h, s) /\ NumberOf(s) = h[n]
    BY <1>1, <1>4, NumberIs
  <1>9. /\ h \in [0 .. n -> Nat] /\ h[0] = 0
        /\ \A i \in 1 .. n : h[i] = h[i - 1] * Base + s[i]
    BY <1>1, <1>8 DEF Numbered
  <1>10. /\ f \in [0 .. n -> Nat] /\ f[0] = 0
         /\ \A i \in 1 .. n : f[i] = f[i - 1] + term[i - 1]
    BY <1>7 DEF Sums
  <1> DEFINE S == {k \in 0 .. n : f[k] = h[k] * Place(n - k)}
  <1>11. 0 \in S
    <2>1. n - 0 = n /\ Place(n) \in Nat
      BY PlaceIs
    <2>2. 0 = 0 * Place(n)
      BY <2>1
    <2> QED
      BY <1>9, <1>10, <2>1, <2>2
  <1>12. ASSUME NEW k \in 1 .. n, k - 1 \in S
         PROVE  k \in S
    <2> DEFINE p == Place(n - k)
               g == h[k - 1]
               d == s[k]
    <2>1. /\ k - 1 \in 0 .. n - 1 /\ k - 1 \in 0 .. n /\ (k - 1) + 1 = k
          /\ n - 1 - (k - 1) = n - k /\ n - (k - 1) = (n - k) + 1
          /\ n - k \in Nat /\ n - k <= 8 /\ n - k < 8
      OBVIOUS
    <2>2. p \in Nat /\ Place((n - k) + 1) = p * Base /\ Base \in Nat
      BY <2>1, PlaceIs, BaseIs
    <2>3. term[k - 1] = d * p
      BY <1>2, <2>1
    <2>4. f[k - 1] = g * (p * Base)
      BY <1>12, <2>1, <2>2
    <2>5. f[k] = g * (p * Base) + d * p
      BY <1>10, <2>3, <2>4
    <2>6. h[k] = g * Base + d /\ g \in Nat /\ d \in Nat
      BY <1>5, <1>9, <2>1
    <2>7. g * (p * Base) + d * p = (g * Base + d) * p
      <3> HIDE DEF p, g, d
      <3> QED BY <2>2, <2>6
    <2>8. f[k] = h[k] * p
      BY <2>5, <2>6, <2>7
    <2> QED
      BY <2>8
  <1>13. f[n] = h[n] * Place(n - n)
    <2>1. \A k \in 0 .. n : k \in S
      <3> HIDE DEF S
      <3> QED BY <1>11, <1>12, UpTo
    <2> QED
      BY <2>1
  <1>14. f[n] = h[n]
    <2>1. n - n = 0 /\ Place(0) = 1 /\ h[n] \in Nat
      BY <1>9, BaseIs
    <2> QED
      BY <1>13, <2>1
  <1> QED
    BY <1>3, <1>7, <1>8, <1>14 DEF s

(* Bytes become an integer and the same bytes again, in either order. *)
BytesKept(s) ==
  LET size == Len(s)
      value == NumberOf(s)
  IN  /\ Bytes!FromBigEndian(s) = value /\ Bytes!ToBigEndian(size, value) = s
      /\ Bytes!FromLittleEndian(Reverse(s)) = value
      /\ Bytes!ToLittleEndian(size, value) = Reverse(s)
      /\ Bytes!ToNativeEndian(size, Bytes!HostToNet(size, value)) = s
      /\ Bytes!NetToHost(size, Bytes!FromNativeEndian(s)) = value

LEMMA BytesBackAndForth ==
  ASSUME NEW s \in Seq(ByteValues), 1 <= Len(s), Len(s) <= 8
  PROVE  BytesKept(s)
  <1> DEFINE n == Len(s)
             t == Reverse(s)
             value == NumberOf(s)
             other == Little(s)
  <1>0. n \in Nat /\ n <= 8 /\ 1 <= n
    OBVIOUS
  <1>1. t \in Seq(ByteValues) /\ Len(t) = n /\ Reverse(t) = s
    BY ReverseIs
  <1>2. Little(t) = value
    BY NumberIsLittle
  <1>3. Little(s) = NumberOf(t)
    <2> HIDE DEF t
    <2> QED BY <1>0, <1>1, NumberIsLittle
  <1>4. Bytes!ToLittleEndian(n, value) = t
    <2> HIDE DEF t, value
    <2>1. Bytes!ToLittleEndian(Len(t), Little(t)) = t
      BY <1>0, <1>1, BytesBack
    <2> QED BY <1>1, <1>2, <2>1
  <1>5. Bytes!ToLittleEndian(n, other) = s
    BY BytesBack
  <1>6. Bytes!SwapBytes(n, value) = other
    <2> HIDE DEF t, n, value
    <2>1. Bytes!ToLittleEndian(n, value) \in Seq(ByteValues)
      BY <1>1, <1>4
    <2>2. Bytes!SwapBytes(n, value) = NumberOf(Bytes!ToLittleEndian(n, value))
      BY <1>0, <2>1, SwapIs
    <2> QED BY <1>3, <1>4, <2>2
  <1>7. Bytes!SwapBytes(n, other) = value
    <2> HIDE DEF n, other
    <2>1. Bytes!ToLittleEndian(n, other) \in Seq(ByteValues)
      BY <1>5
    <2>2. Bytes!SwapBytes(n, other) = NumberOf(Bytes!ToLittleEndian(n, other))
      BY <1>0, <2>1, SwapIs
    <2> QED BY <1>5, <2>2
  <1>8. n = 1 => value = s[1] /\ s = <<s[1]>>
    <2>1. SUFFICES ASSUME n = 1
                   PROVE  value = s[1] /\ s = <<s[1]>>
      OBVIOUS
    <2>2. PICK f : Numbered(f, s) /\ value = f[n]
      BY NumberIs
    <2>3. f[1] = f[0] * Base + s[1] /\ f[0] = 0
      BY <2>1, <2>2 DEF Numbered
    <2>4. s[1] \in Nat /\ Base \in Nat
      BY <2>1, ByteValueAt, BaseIs
    <2>5. f[1] = s[1]
      BY <2>3, <2>4
    <2>6. s = <<s[1]>>
      BY <2>1
    <2> QED
      BY <2>1, <2>2, <2>5, <2>6
  <1>9. Bytes!FromBigEndian(s) = value
    BY <1>7, <1>8, Zenon DEF Bytes!FromBigEndian, Little
  <1>10. Bytes!ToBigEndian(n, value) = s
    BY <1>5, <1>6, <1>8, Zenon DEF Bytes!ToBigEndian
  <1>11. Bytes!ToNativeEndian(n, Bytes!HostToNet(n, value)) = s
    BY <1>5, <1>6, Zenon DEF Bytes!ToNativeEndian, Bytes!HostToNet
  <1>12. Bytes!NetToHost(n, Bytes!FromNativeEndian(s)) = value
    BY <1>7, Zenon DEF Bytes!NetToHost, Bytes!FromNativeEndian, Little
  <1> QED
    BY <1>2, <1>4, <1>9, <1>10, <1>11, <1>12, Zenon DEF BytesKept, Little

-----------------------------------------------------------------------------
(* Whatever text is passed, of any length over any characters, bytes or    *)
(* code units, each conversion between UTF-8 and UTF-16 and between bytes  *)
(* and integers, of any number of bits per byte, is undone by the other,   *)
(* and a damaged character takes nothing with it                           *)
(* (ConversionsAreLossless).                                               *)
THEOREM ConversionsLossless == StringsSpec => []ConversionsAreLossless
  <1>1. ASSUME StringsTypeOK, topic = "utf8"
        PROVE  LET there == Unicode!UTF8ToUTF16(text)
                   back == Unicode!UTF16ToUTF8(there.output)
               IN  /\ back.success /\ (there.success <=> back.output = text)
                   /\ \A n \in 1 .. Len(text) - 1 :
                        ~Unicode!IsTrail8(text[n + 1]) =>
                          there.output = Unicode!UTF8ToUTF16(Before(n)).output
                                         \o Unicode!UTF8ToUTF16(After(n)).output
    <2>1. 8 \in Encodings /\ 16 \in Encodings
      BY DEF Encodings
    <2>2. text \in Seq(Units(8))
      <3>1. topic \in Topics /\ "utf8" \in DOMAIN Alphabet /\ text \in Seq(Alphabet["utf8"])
        BY <1>1 DEF StringsTypeOK, Topics
      <3>2. Alphabet["utf8"] \subseteq Units(8)
        BY <3>1, StringsAssumption DEF Units, Byte
      <3> QED
        BY <3>1, <3>2
    <2> DEFINE there == Convert(8, 16, text)
               back == Convert(16, 8, there.output)
    <2>3. back.success /\ (there.success <=> back.output = text)
      BY <2>1, <2>2, ThereAndBack, Zenon
    <2>4. ASSUME NEW n \in 1 .. Len(text) - 1, ~IsTrail(8, text[n + 1])
          PROVE  there.output = Convert(8, 16, Before(n)).output \o Convert(8, 16, After(n)).output
      BY <2>1, <2>2, <2>4, InTwoPieces, Zenon DEF Before, After
    <2>5. \A n : IsTrail(8, text[n + 1]) <=> Unicode!IsTrail8(text[n + 1])
      BY DEF IsTrail
    <2> QED
      BY <2>3, <2>4, <2>5, Zenon DEF Convert, Unicode!UTF8ToUTF16, Unicode!UTF16ToUTF8
  <1>2. ASSUME StringsTypeOK, topic = "utf16"
        PROVE  LET there == Unicode!UTF16ToUTF8(text)
                   back == Unicode!UTF8ToUTF16(there.output)
               IN  /\ back.success /\ (there.success <=> back.output = text)
                   /\ \A n \in 1 .. Len(text) - 1 :
                        ~Unicode!IsTrail16(text[n + 1]) =>
                          there.output = Unicode!UTF16ToUTF8(Before(n)).output
                                         \o Unicode!UTF16ToUTF8(After(n)).output
    <2>1. 8 \in Encodings /\ 16 \in Encodings
      BY DEF Encodings
    <2>2. text \in Seq(Units(16))
      <3>1. topic \in Topics /\ "utf16" \in DOMAIN Alphabet /\ text \in Seq(Alphabet["utf16"])
        BY <1>2 DEF StringsTypeOK, Topics
      <3>2. Alphabet["utf16"] \subseteq Units(16)
        BY <3>1, StringsAssumption DEF Units, Unit16
      <3> QED
        BY <3>1, <3>2
    <2> DEFINE there == Convert(16, 8, text)
               back == Convert(8, 16, there.output)
    <2>3. back.success /\ (there.success <=> back.output = text)
      BY <2>1, <2>2, ThereAndBack, Zenon
    <2>4. ASSUME NEW n \in 1 .. Len(text) - 1, ~IsTrail(16, text[n + 1])
          PROVE  there.output = Convert(16, 8, Before(n)).output \o Convert(16, 8, After(n)).output
      BY <2>1, <2>2, <2>4, InTwoPieces, Zenon DEF Before, After
    <2>5. \A n : IsTrail(16, text[n + 1]) <=> Unicode!IsTrail16(text[n + 1])
      BY DEF IsTrail
    <2> QED
      BY <2>3, <2>4, <2>5, Zenon DEF Convert, Unicode!UTF8ToUTF16, Unicode!UTF16ToUTF8
  <1>3. ASSUME StringsTypeOK, topic = "bytes", Len(text) \in {1, 2, 4, 8}
        PROVE  BytesKept(text)
    <2>1. topic \in Topics /\ "bytes" \in DOMAIN Alphabet /\ text \in Seq(Alphabet["bytes"])
      BY <1>3 DEF StringsTypeOK, Topics
    <2>2. Alphabet["bytes"] \subseteq ByteValues
      <3>1. Alphabet["bytes"] \subseteq 0 .. Base - 1
        BY <2>1, StringsAssumption DEF Base
      <3> QED
        BY <3>1, BaseIs DEF ByteValues
    <2>3. 1 <= Len(text) /\ Len(text) <= 8
      <3> DEFINE n == Len(text)
      <3>1. n \in {1, 2, 4, 8}
        BY <1>3
      <3> HIDE DEF n
      <3>2. 1 <= n /\ n <= 8
        BY <3>1
      <3> QED
        BY <3>2 DEF n
    <2>4. text \in Seq(ByteValues)
      BY <2>1, <2>2
    <2> QED
      BY <2>3, <2>4, BytesBackAndForth
  <1>4. StringsTypeOK => ConversionsAreLossless
    BY <1>1, <1>2, <1>3, Zenon DEF ConversionsAreLossless, BytesKept
  <1> QED
    BY <1>4, TextsKept, PTL

-----------------------------------------------------------------------------
(* Pattern matching                                                        *)


(* The rounds of the search.                                               *)
AtEnd(p, x) == x.pattern > Len(p)
AtWildcard(p, x) == ~AtEnd(p, x) /\ ~x.escape /\ Patterns!IsWildcard(p[x.pattern])
AtEscape(p, x) == ~AtEnd(p, x) /\ ~x.escape /\ p[x.pattern] = "\\"
OutOfString(s, x) == x.string > Len(s)
Agrees(s, p, x) ==
  /\ ~AtEnd(p, x) /\ ~AtWildcard(p, x) /\ ~AtEscape(p, x) /\ ~OutOfString(s, x)
  /\ p[x.pattern] = s[x.string] /\ p[x.pattern] # Patterns!CBU_SENTINEL

Arrives(s, p, x) == AtWildcard(p, x) \/ (AtEnd(p, x) /\ OutOfString(s, x))
Differs(s, p, x) == ~Arrives(s, p, x) /\ ~AtEscape(p, x) /\ ~Agrees(s, p, x)
GivesUp(s, p, x) ==
  Differs(s, p, x) /\ ((~AtEnd(p, x) /\ OutOfString(s, x)) \/ x.maximum_distance = 0)

Goes(x, pattern_start, string_start, pattern, string, escape, maximum_distance) ==
  x = [pattern_start |-> pattern_start, string_start |-> string_start,
       pattern |-> pattern, string |-> string,
       escape |-> escape, maximum_distance |-> maximum_distance]

Onward(s, p, x) ==
  IF AtEscape(p, x) THEN [x EXCEPT !.escape = TRUE, !.pattern = @ + 1]
  ELSE IF Agrees(s, p, x)
    THEN [x EXCEPT !.escape = FALSE, !.pattern = @ + 1, !.string = @ + 1]
  ELSE Patterns!Restart([x EXCEPT !.escape = AtEnd(p, x) /\ x.escape])

LEMMA SearchesAre ==
  ASSUME NEW s, NEW p, NEW x
  PROVE  x \in Patterns!Searches(s, p) <=>
           \E ps, q \in 1 .. Len(p) + 1, ss, t \in 1 .. Len(s) + 1, e \in BOOLEAN, d \in Int :
             Goes(x, ps, ss, q, t, e, d) /\ ps <= q /\ ss <= t
  <1> DEFINE R == [pattern_start : 1 .. Len(p) + 1, string_start : 1 .. Len(s) + 1,
                   pattern : 1 .. Len(p) + 1, string : 1 .. Len(s) + 1,
                   escape : BOOLEAN, maximum_distance : Int]
  <1>1. x \in Patterns!Searches(s, p) <=>
          x \in R /\ x.pattern_start <= x.pattern /\ x.string_start <= x.string
    BY DEF Patterns!Searches, Patterns!Cursors
  <1>2. ASSUME x \in R
        PROVE  Goes(x, x.pattern_start, x.string_start, x.pattern, x.string, x.escape, x.maximum_distance)
    BY <1>2 DEF Goes
  <1>3. ASSUME NEW ps, NEW q, NEW ss, NEW t, NEW e, NEW d, Goes(x, ps, ss, q, t, e, d)
        PROVE  /\ x.pattern_start = ps /\ x.string_start = ss /\ x.pattern = q /\ x.string = t
               /\ x.escape = e /\ x.maximum_distance = d
    BY <1>3 DEF Goes
  <1>4. ASSUME NEW ps \in 1 .. Len(p) + 1, NEW q \in 1 .. Len(p) + 1, NEW ss \in 1 .. Len(s) + 1,
               NEW t \in 1 .. Len(s) + 1, NEW e \in BOOLEAN, NEW d \in Int, Goes(x, ps, ss, q, t, e, d)
        PROVE  x \in R
    BY <1>4 DEF Goes
  <1>5. ASSUME x \in R, x.pattern_start <= x.pattern, x.string_start <= x.string
        PROVE  \E ps, q \in 1 .. Len(p) + 1, ss, t \in 1 .. Len(s) + 1, e \in BOOLEAN, d \in Int :
                 Goes(x, ps, ss, q, t, e, d) /\ ps <= q /\ ss <= t
    <2>1. /\ x.pattern_start \in 1 .. Len(p) + 1 /\ x.string_start \in 1 .. Len(s) + 1
          /\ x.pattern \in 1 .. Len(p) + 1 /\ x.string \in 1 .. Len(s) + 1
          /\ x.escape \in BOOLEAN /\ x.maximum_distance \in Int
      BY <1>5
    <2> HIDE DEF R
    <2> QED
      BY <1>2, <1>5, <2>1
  <1> HIDE DEF R
  <1>6. ASSUME NEW ps \in 1 .. Len(p) + 1, NEW q \in 1 .. Len(p) + 1, NEW ss \in 1 .. Len(s) + 1,
               NEW t \in 1 .. Len(s) + 1, NEW e \in BOOLEAN, NEW d \in Int,
               Goes(x, ps, ss, q, t, e, d), ps <= q, ss <= t
        PROVE  x \in Patterns!Searches(s, p)
    BY <1>1, <1>3, <1>4, <1>6
  <1> QED
    BY <1>1, <1>5, <1>6

(* Where the next round of the search begins, and how much closer to the   *)
(* end that is.                                                            *)
Restarted(p, x, y) ==
  Goes(y, x.pattern_start, x.string_start + 1, x.pattern_start, x.string_start + 1,
       AtEnd(p, x) /\ x.escape, x.maximum_distance - 1)

LEMMA OnwardIs ==
  ASSUME NEW A, NEW s \in Seq(A), NEW p \in Seq(A), NEW x \in Patterns!Searches(s, p),
         ~Arrives(s, p, x), ~GivesUp(s, p, x)
  PROVE  LET y == Onward(s, p, x) IN
         /\ y \in Patterns!Searches(s, p)
         /\ \/ /\ AtEscape(p, x) /\ x.pattern <= Len(p)
               /\ Goes(y, x.pattern_start, x.string_start, x.pattern + 1, x.string, TRUE,
                       x.maximum_distance)
            \/ /\ Agrees(s, p, x) /\ ~AtEscape(p, x) /\ x.pattern <= Len(p) /\ x.string <= Len(s)
               /\ Goes(y, x.pattern_start, x.string_start, x.pattern + 1, x.string + 1, FALSE,
                       x.maximum_distance)
            \/ /\ Differs(s, p, x) /\ x.string <= Len(s) /\ x.maximum_distance # 0
               /\ Restarted(p, x, y)
  <1> DEFINE y == Onward(s, p, x)
  <1>1. PICK ps \in 1 .. Len(p) + 1, q \in 1 .. Len(p) + 1, ss \in 1 .. Len(s) + 1,
             t \in 1 .. Len(s) + 1, e \in BOOLEAN, d \in Int :
               Goes(x, ps, ss, q, t, e, d) /\ ps <= q /\ ss <= t
    BY SearchesAre
  <1>2. /\ x.pattern_start = ps /\ x.string_start = ss /\ x.pattern = q /\ x.string = t
        /\ x.escape = e /\ x.maximum_distance = d
    BY <1>1 DEF Goes
  <1>3. Len(p) \in Nat /\ Len(s) \in Nat
    OBVIOUS
  <1>4. CASE AtEscape(p, x)
    <2>1. Goes(y, ps, ss, q + 1, t, TRUE, d)
      BY <1>1, <1>4 DEF Goes, Onward
    <2>2. q <= Len(p)
      BY <1>2, <1>3, <1>4 DEF AtEscape, AtEnd
    <2>3. q + 1 \in 1 .. Len(p) + 1 /\ ps <= q + 1 /\ TRUE \in BOOLEAN
      BY <1>1, <1>3, <2>2
    <2>4. y \in Patterns!Searches(s, p)
      <3> HIDE DEF y
      <3> QED BY <1>1, <2>1, <2>3, SearchesAre
    <2> QED
      BY <1>2, <1>4, <2>1, <2>2, <2>4
  <1>5. CASE ~AtEscape(p, x) /\ Agrees(s, p, x)
    <2>1. Goes(y, ps, ss, q + 1, t + 1, FALSE, d)
      BY <1>1, <1>5 DEF Goes, Onward
    <2>2. q <= Len(p) /\ t <= Len(s)
      BY <1>2, <1>3, <1>5 DEF Agrees, AtEnd, OutOfString
    <2>3. /\ q + 1 \in 1 .. Len(p) + 1 /\ ps <= q + 1 /\ FALSE \in BOOLEAN
          /\ t + 1 \in 1 .. Len(s) + 1 /\ ss <= t + 1
      BY <1>1, <1>3, <2>2
    <2>4. y \in Patterns!Searches(s, p)
      <3> HIDE DEF y
      <3> QED BY <1>1, <2>1, <2>3, SearchesAre
    <2> QED
      BY <1>2, <1>5, <2>1, <2>2, <2>4
  <1>6. CASE ~AtEscape(p, x) /\ ~Agrees(s, p, x)
    <2>1. Goes(y, ps, ss + 1, ps, ss + 1, AtEnd(p, x) /\ e, d - 1)
      BY <1>1, <1>6 DEF Goes, Onward, Patterns!Restart
    <2>2. Differs(s, p, x) /\ d # 0
      BY <1>2, <1>6 DEF Differs, GivesUp
    <2>3. t <= Len(s)
      BY <1>2, <1>3, <1>6, <2>2 DEF Differs, GivesUp, Arrives, OutOfString
    <2>4. /\ (AtEnd(p, x) /\ e) \in BOOLEAN /\ ss + 1 \in 1 .. Len(s) + 1
          /\ d - 1 \in Int /\ ps <= ps /\ ss + 1 <= ss + 1
      BY <1>1, <1>3, <2>3
    <2>5. y \in Patterns!Searches(s, p)
      <3> HIDE DEF y
      <3> DEFINE f == AtEnd(p, x) /\ e
                 u == ss + 1
                 w == d - 1
      <3>1. Goes(y, ps, u, ps, u, f, w) /\ f \in BOOLEAN
        BY <2>1, <2>4
      <3>2. u \in 1 .. Len(s) + 1 /\ w \in Int /\ ps <= ps /\ u <= u
        BY <2>4
      <3> HIDE DEF f, u, w
      <3> QED BY <1>1, <3>1, <3>2, SearchesAre, SMTT(60)
    <2>6. Restarted(p, x, y)
      BY <1>2, <2>1 DEF Restarted
    <2> QED
      BY <1>2, <2>2, <2>3, <2>5, <2>6
  <1> QED
    BY <1>4, <1>5, <1>6

(* What one round of the search makes of what the search from there gives. *)
SearchRound(f, s, p, x) ==
  LET patternEnds == x.pattern > Len(p)
      stringEnds == x.string > Len(s)
      isSpecial == ~patternEnds /\ ~x.escape
      Mismatch(escape) ==
        IF x.maximum_distance = 0 THEN Patterns!NotFound
        ELSE f[Patterns!Restart([x EXCEPT !.escape = escape])]
  IN  IF patternEnds THEN IF stringEnds THEN Patterns!FoundAt(x) ELSE Mismatch(x.escape)
      ELSE IF isSpecial /\ Patterns!IsWildcard(p[x.pattern]) THEN Patterns!FoundAt(x)
      ELSE IF isSpecial /\ p[x.pattern] = "\\"
        THEN f[[x EXCEPT !.escape = TRUE, !.pattern = @ + 1]]
      ELSE IF stringEnds THEN Patterns!NotFound
      ELSE IF p[x.pattern] = s[x.string] /\ p[x.pattern] # Patterns!CBU_SENTINEL
        THEN f[[x EXCEPT !.escape = FALSE, !.pattern = @ + 1, !.string = @ + 1]]
      ELSE Mismatch(FALSE)

IsSearch(f, s, p) == f = [x \in Patterns!Searches(s, p) |-> SearchRound(f, s, p, x)]

(* The search from each place, told from its next round. *)
Searched(f, s, p) ==
  \A x \in Patterns!Searches(s, p) :
    f[x] = IF Arrives(s, p, x) THEN Patterns!FoundAt(x)
           ELSE IF GivesUp(s, p, x) THEN Patterns!NotFound
           ELSE f[Onward(s, p, x)]

LEMMA SearchRoundIs ==
  ASSUME NEW s, NEW p, NEW f, NEW x \in Patterns!Searches(s, p)
  PROVE  SearchRound(f, s, p, x) =
           IF Arrives(s, p, x) THEN Patterns!FoundAt(x)
           ELSE IF GivesUp(s, p, x) THEN Patterns!NotFound
           ELSE f[Onward(s, p, x)]
  <1>1. x.escape \in BOOLEAN
    BY DEF Patterns!Searches
  <1>2. CASE AtEnd(p, x)
    <2>1. (AtEnd(p, x) /\ x.escape) = x.escape
      BY <1>1, <1>2
    <2>2. ~AtWildcard(p, x) /\ ~AtEscape(p, x) /\ ~Agrees(s, p, x)
      BY <1>2 DEF AtWildcard, AtEscape, Agrees
    <2>3. SearchRound(f, s, p, x) =
            IF OutOfString(s, x) THEN Patterns!FoundAt(x)
            ELSE IF x.maximum_distance = 0 THEN Patterns!NotFound
            ELSE f[Patterns!Restart([x EXCEPT !.escape = x.escape])]
      BY <1>2, Zenon DEF SearchRound, AtEnd, OutOfString
    <2>4. Arrives(s, p, x) <=> OutOfString(s, x)
      BY <1>2, <2>2 DEF Arrives
    <2>5. ~OutOfString(s, x) => (GivesUp(s, p, x) <=> x.maximum_distance = 0)
      BY <1>2, <2>2, <2>4 DEF GivesUp, Differs
    <2>6. Onward(s, p, x) = Patterns!Restart([x EXCEPT !.escape = x.escape])
      BY <2>1, <2>2, Zenon DEF Onward
    <2> QED
      BY <2>3, <2>4, <2>5, <2>6, Zenon
  <1>3. CASE ~AtEnd(p, x) /\ AtWildcard(p, x)
    <2>1. SearchRound(f, s, p, x) = Patterns!FoundAt(x)
      BY <1>3, Zenon DEF SearchRound, AtEnd, AtWildcard
    <2> QED
      BY <1>3, <2>1, Zenon DEF Arrives
  <1>4. CASE ~AtEnd(p, x) /\ ~AtWildcard(p, x) /\ AtEscape(p, x)
    <2>1. SearchRound(f, s, p, x) = f[[x EXCEPT !.escape = TRUE, !.pattern = @ + 1]]
      BY <1>4, Zenon DEF SearchRound, AtEnd, AtWildcard, AtEscape
    <2>2. ~Arrives(s, p, x) /\ ~GivesUp(s, p, x)
      BY <1>4, Zenon DEF Arrives, GivesUp, Differs
    <2> QED
      BY <1>4, <2>1, <2>2, Zenon DEF Onward
  <1>5. CASE ~AtEnd(p, x) /\ ~AtWildcard(p, x) /\ ~AtEscape(p, x)
    <2>1. SearchRound(f, s, p, x) =
            IF OutOfString(s, x) THEN Patterns!NotFound
            ELSE IF p[x.pattern] = s[x.string] /\ p[x.pattern] # Patterns!CBU_SENTINEL
              THEN f[[x EXCEPT !.escape = FALSE, !.pattern = @ + 1, !.string = @ + 1]]
            ELSE IF x.maximum_distance = 0 THEN Patterns!NotFound
            ELSE f[Patterns!Restart([x EXCEPT !.escape = FALSE])]
      BY <1>5, Zenon DEF SearchRound, AtEnd, AtWildcard, AtEscape, OutOfString
    <2>2. ~Arrives(s, p, x)
      BY <1>5, Zenon DEF Arrives
    <2>3. (AtEnd(p, x) /\ x.escape) = FALSE
      BY <1>5
    <2>4. CASE OutOfString(s, x)
      BY <1>5, <2>1, <2>2, <2>4, Zenon DEF GivesUp, Differs, Agrees
    <2>5. CASE ~OutOfString(s, x) /\ Agrees(s, p, x)
      <3>1. SearchRound(f, s, p, x) = f[[x EXCEPT !.escape = FALSE, !.pattern = @ + 1, !.string = @ + 1]]
        BY <2>1, <2>5, Zenon DEF Agrees
      <3> QED
        BY <1>5, <2>2, <2>5, <3>1, Zenon DEF GivesUp, Differs, Onward
    <2>6. CASE ~OutOfString(s, x) /\ ~Agrees(s, p, x)
      <3>1. ~(p[x.pattern] = s[x.string] /\ p[x.pattern] # Patterns!CBU_SENTINEL)
        BY <1>5, <2>6, Zenon DEF Agrees
      <3>2. SearchRound(f, s, p, x) =
              IF x.maximum_distance = 0 THEN Patterns!NotFound
              ELSE f[Patterns!Restart([x EXCEPT !.escape = FALSE])]
        BY <2>1, <2>6, <3>1, Zenon
      <3>3. GivesUp(s, p, x) <=> x.maximum_distance = 0
        BY <1>5, <2>2, <2>6, Zenon DEF GivesUp, Differs
      <3>4. Onward(s, p, x) = Patterns!Restart([x EXCEPT !.escape = FALSE])
        BY <1>5, <2>3, <2>6, Zenon DEF Onward
      <3> QED
        BY <2>2, <3>2, <3>3, <3>4, Zenon
    <2> QED
      BY <2>4, <2>5, <2>6
  <1> QED
    BY <1>2, <1>3, <1>4, <1>5

SearchResults(s, p) ==
  {Patterns!NotFound} \cup {Patterns!FoundAt(x) : x \in Patterns!Searches(s, p)}

(* How far a search is from its end. *)
RoundsLeft(s, p, x) ==
  ((Len(s) + 1) - x.string_start) * (Len(p) + 2) + ((Len(p) + 1) - x.pattern)

LEMMA ProductsAre ==
  ASSUME NEW K \in Nat, NEW N \in Nat, NEW a \in 0 .. N
  PROVE  /\ a * K \in Nat /\ N * K \in Nat /\ a * K <= N * K
         /\ a > 0 => (a - 1) * K \in Nat /\ a * K = (a - 1) * K + K
         /\ a < N => a * K + K <= N * K
  <1>1. N - a \in Nat /\ N = a + (N - a)
    OBVIOUS
  <1>2. PICK c \in Nat : N = a + c
    BY <1>1
  <1>3. a \in Nat /\ N * K = a * K + c * K /\ a * K \in Nat /\ c * K \in Nat
    BY <1>2
  <1>4. ASSUME a > 0
        PROVE  (a - 1) * K \in Nat /\ a * K = (a - 1) * K + K
    <2>1. PICK b \in Nat : a = b + 1 /\ a - 1 = b
      BY <1>3, <1>4
    <2>2. a * K = b * K + K /\ b * K \in Nat
      BY <2>1
    <2> QED
      BY <2>1, <2>2
  <1>5. ASSUME a < N
        PROVE  a * K + K <= N * K
    <2>1. PICK b \in Nat : c = b + 1
      <3>1. c - 1 \in Nat /\ c = (c - 1) + 1
        BY <1>2, <1>3, <1>5
      <3> QED BY <3>1
    <2>2. c * K = b * K + K /\ b * K \in Nat
      BY <2>1
    <2> DEFINE ak == a * K
               bk == b * K
               ck == c * K
               nk == N * K
    <2>3. nk = ak + ck /\ ck = bk + K /\ ak \in Nat /\ bk \in Nat
      BY <1>3, <2>2
    <2> HIDE DEF ak, bk, ck, nk
    <2>4. ak + K <= nk
      BY <2>3
    <2> QED
      BY <2>4 DEF ak, nk
  <1>6. a * K <= N * K
    <2> DEFINE ak == a * K
               ck == c * K
               nk == N * K
    <2>1. nk = ak + ck /\ ak \in Nat /\ ck \in Nat
      BY <1>3
    <2> HIDE DEF ak, ck, nk
    <2>2. ak <= nk
      BY <2>1
    <2> QED
      BY <2>2 DEF ak, nk
  <1>7. N * K \in Nat
    OBVIOUS
  <1> QED
    BY <1>3, <1>4, <1>5, <1>6, <1>7

LEMMA SearchTyped ==
  ASSUME NEW A, NEW s \in Seq(A), NEW p \in Seq(A), NEW x \in Patterns!Searches(s, p)
  PROVE  /\ x.string_start \in 1 .. Len(s) + 1 /\ x.pattern \in 1 .. Len(p) + 1
         /\ x.pattern_start \in 1 .. Len(p) + 1 /\ x.pattern_start <= x.pattern
         /\ x.string_start <= x.string /\ x.string \in 1 .. Len(s) + 1
         /\ x.escape \in BOOLEAN /\ x.maximum_distance \in Int
         /\ Len(s) \in Nat /\ Len(p) \in Nat
  BY DEF Patterns!Searches, Patterns!Cursors

LEMMA Closer ==
  ASSUME NEW A, NEW s \in Seq(A), NEW p \in Seq(A), NEW x \in Patterns!Searches(s, p)
  PROVE  /\ RoundsLeft(s, p, x) \in 0 .. (Len(s) + 1) * (Len(p) + 2)
         /\ ~Arrives(s, p, x) /\ ~GivesUp(s, p, x) =>
              RoundsLeft(s, p, Onward(s, p, x)) < RoundsLeft(s, p, x)
  <1> DEFINE K == Len(p) + 2
             N == Len(s) + 1
             a == N - x.string_start
             b == (Len(p) + 1) - x.pattern
             ak == a * K
             nk == N * K
             y == Onward(s, p, x)
             ay == N - y.string_start
             by == (Len(p) + 1) - y.pattern
             ayk == ay * K
  <1>1. K \in Nat /\ N \in Nat /\ b \in 0 .. K - 1 /\ a \in 0 .. N /\ a < N
    <2>1. /\ x.string_start \in 1 .. Len(s) + 1 /\ x.pattern \in 1 .. Len(p) + 1
          /\ Len(s) \in Nat /\ Len(p) \in Nat
      BY SearchTyped
    <2> QED BY <2>1
  <1>2. RoundsLeft(s, p, x) = ak + b
    BY Zenon DEF RoundsLeft
  <1>3. RoundsLeft(s, p, y) = ayk + by
    BY Zenon DEF RoundsLeft
  <1>4. nk = (Len(s) + 1) * (Len(p) + 2)
    BY Zenon
  <1>5. ASSUME ~Arrives(s, p, x), ~GivesUp(s, p, x)
        PROVE  (ay = a /\ by = b - 1) \/ (a > 0 /\ ay = a - 1 /\ by \in 0 .. K - 1)
    <2>1. y \in Patterns!Searches(s, p)
      BY <1>5, OnwardIs
    <2>2. \/ y.string_start = x.string_start /\ y.pattern = x.pattern + 1
          \/ y.string_start = x.string_start + 1 /\ y.pattern = x.pattern_start
      BY <1>5, OnwardIs DEF Goes, Restarted
    <2> HIDE DEF y
    <2>3. /\ y.string_start \in 1 .. Len(s) + 1 /\ y.pattern \in 1 .. Len(p) + 1
          /\ Len(s) \in Nat /\ Len(p) \in Nat
      BY <2>1, SearchTyped
    <2>4. /\ x.string_start \in 1 .. Len(s) + 1 /\ x.pattern \in 1 .. Len(p) + 1
          /\ x.pattern_start \in 1 .. Len(p) + 1
      BY SearchTyped
    <2>5. CASE y.string_start = x.string_start /\ y.pattern = x.pattern + 1
      BY <2>3, <2>4, <2>5
    <2>6. CASE y.string_start = x.string_start + 1 /\ y.pattern = x.pattern_start
      <3>1. a > 0
        BY <2>3, <2>4, <2>6
      <3>2. ay = a - 1
        BY <2>3, <2>4, <2>6
      <3>3. by \in 0 .. K - 1
        BY <2>3, <2>4, <2>6
      <3> QED
        BY <3>1, <3>2, <3>3, Zenon
    <2> QED
      BY <2>2, <2>5, <2>6
  <1> HIDE DEF K, N, a, b, y, ay, by
  <1>6. /\ ak \in Nat /\ nk \in Nat /\ ak + K <= nk
        /\ a > 0 => (a - 1) * K \in Nat /\ ak = (a - 1) * K + K
    BY <1>1, ProductsAre
  <1>7. ASSUME ~Arrives(s, p, x), ~GivesUp(s, p, x)
        PROVE  ayk + by < ak + b
    <2>1. CASE ay = a /\ by = b - 1
      <3>1. ayk = ak
        BY <2>1
      <3> HIDE DEF ak, ayk
      <3> QED BY <1>1, <1>6, <2>1, <3>1
    <2>2. CASE a > 0 /\ ay = a - 1 /\ by \in 0 .. K - 1
      <3>1. ayk \in Nat /\ ak = ayk + K
        BY <1>6, <2>2
      <3> HIDE DEF ak, ayk
      <3> QED BY <1>1, <2>2, <3>1
    <2> QED
      BY <1>5, <1>7, <2>1, <2>2
  <1> HIDE DEF ak, nk, ayk
  <1>8. ak + b \in 0 .. nk
    BY <1>1, <1>6
  <1>9. RoundsLeft(s, p, x) \in 0 .. (Len(s) + 1) * (Len(p) + 2)
    BY <1>2, <1>4, <1>8, Zenon
  <1>10. ~Arrives(s, p, x) /\ ~GivesUp(s, p, x) => RoundsLeft(s, p, y) < RoundsLeft(s, p, x)
    BY <1>2, <1>3, <1>7, Zenon
  <1> QED
    BY <1>9, <1>10, Zenon DEF y

LEMMA SearchIs ==
  ASSUME NEW A, NEW s \in Seq(A), NEW p \in Seq(A)
  PROVE  \E f : /\ Searched(f, s, p)
                /\ \A x : Patterns!SearchForChars(s, p, x) = f[x]
  <1> DEFINE D == Patterns!Searches(s, p)
             S == SearchResults(s, p)
             Ends == {x \in D : Arrives(s, p, x) \/ GivesUp(s, p, x)}
             bound == (Len(s) + 1) * (Len(p) + 2)
             measure == [x \in D |-> RoundsLeft(s, p, x)]
             last == [x \in D |-> IF Arrives(s, p, x) THEN Patterns!FoundAt(x) ELSE Patterns!NotFound]
             next == [x \in D |-> Onward(s, p, x)]
             from == CHOOSE f : IsSearch(f, s, p)
  <1>1. bound \in Nat
    <2>1. Len(s) + 1 \in Nat /\ Len(p) + 2 \in Nat
      OBVIOUS
    <2> QED BY <2>1
  <1>2. \A x \in D : measure[x] \in 0 .. bound /\ last[x] \in S
    BY Closer DEF SearchResults
  <1>3. \A x \in D : x \notin Ends => next[x] \in D /\ measure[next[x]] < measure[x]
    <2> TAKE x \in D
    <2> HAVE x \notin Ends
    <2>1. ~Arrives(s, p, x) /\ ~GivesUp(s, p, x)
      OBVIOUS
    <2>2. Onward(s, p, x) \in D /\ RoundsLeft(s, p, Onward(s, p, x)) < RoundsLeft(s, p, x)
      BY <2>1, OnwardIs, Closer
    <2> QED BY <2>2
  <1>4. \A x \in D : last[x] = IF Arrives(s, p, x) THEN Patterns!FoundAt(x) ELSE Patterns!NotFound
    OBVIOUS
  <1>5. \A x \in D : next[x] = Onward(s, p, x)
    OBVIOUS
  <1> HIDE DEF bound, measure, last, next
  <1>6. PICK g : Loop(g, D, S, Ends, last, next)
    <2>1. LoopEnds(D, S, Ends, bound, measure, last, next)
      BY <1>2, <1>3, Zenon DEF LoopEnds
    <2> HIDE DEF D, S, Ends
    <2> QED BY <1>1, <2>1, LoopExists
  <1>7. Searched(g, s, p)
    BY <1>4, <1>5, <1>6 DEF Searched, Loop
  <1>8. \A x \in D : g[x] = SearchRound(g, s, p, x)
    BY <1>7, SearchRoundIs DEF Searched
  <1>9. g = [x \in D |-> SearchRound(g, s, p, x)]
    <2> HIDE DEF S
    <2> QED BY <1>6, <1>8, Zenon DEF Loop
  <1>10. IsSearch(g, s, p)
    BY <1>9, Zenon DEF IsSearch
  <1>11. IsSearch(from, s, p)
    BY <1>10, Zenon
  <1>12. \A x : Patterns!SearchForChars(s, p, x) = from[x]
    BY Zenon DEF Patterns!SearchForChars, IsSearch, SearchRound
  <1> HIDE DEF from
  <1>13. \A x \in D : from[x] = SearchRound(from, s, p, x)
    BY <1>11, Zenon DEF IsSearch
  <1>14. Searched(from, s, p)
    BY <1>13, SearchRoundIs DEF Searched
  <1> QED
    BY <1>12, <1>14

(* What holds of each round of the search holds of its result. *)
SearchKeeps(s, p, I, R) ==
  /\ I \subseteq Patterns!Searches(s, p)
  /\ \A x \in I : /\ Arrives(s, p, x) => Patterns!FoundAt(x) \in R
                  /\ ~Arrives(s, p, x) /\ GivesUp(s, p, x) => Patterns!NotFound \in R
                  /\ ~Arrives(s, p, x) /\ ~GivesUp(s, p, x) => Onward(s, p, x) \in I

LEMMA SearchHolds ==
  ASSUME NEW A, NEW s \in Seq(A), NEW p \in Seq(A), NEW f, Searched(f, s, p),
         NEW R, NEW I, SearchKeeps(s, p, I, R)
  PROVE  \A x \in I : f[x] \in R
  <1>0. /\ I \subseteq Patterns!Searches(s, p)
        /\ \A x \in I : Arrives(s, p, x) => Patterns!FoundAt(x) \in R
        /\ \A x \in I : ~Arrives(s, p, x) /\ GivesUp(s, p, x) => Patterns!NotFound \in R
        /\ \A x \in I : ~Arrives(s, p, x) /\ ~GivesUp(s, p, x) => Onward(s, p, x) \in I
    BY DEF SearchKeeps
  <1> DEFINE Left(x) == RoundsLeft(s, p, x)
             P == {n \in Nat : \A x \in I : Left(x) < n => f[x] \in R}
  <1>1. \A x \in I : Left(x) \in Nat
    BY <1>0, Closer
  <1>2. 0 \in P
    <2> HIDE DEF Left
    <2> QED BY <1>1
  <1>3. ASSUME NEW n \in Nat, n \in P
        PROVE  n + 1 \in P
    <2>1. SUFFICES ASSUME NEW x \in I, Left(x) < n + 1
                   PROVE  f[x] \in R
      OBVIOUS
    <2>2. x \in Patterns!Searches(s, p)
      BY <1>0
    <2>3. f[x] = IF Arrives(s, p, x) THEN Patterns!FoundAt(x)
                 ELSE IF GivesUp(s, p, x) THEN Patterns!NotFound
                 ELSE f[Onward(s, p, x)]
      BY <2>2 DEF Searched
    <2>4. ASSUME ~Arrives(s, p, x), ~GivesUp(s, p, x)
          PROVE  f[Onward(s, p, x)] \in R
      <3>1. Onward(s, p, x) \in I
        BY <1>0, <2>4
      <3>2. Left(Onward(s, p, x)) < Left(x)
        BY <2>2, <2>4, Closer
      <3> DEFINE y == Onward(s, p, x)
      <3>3. Left(y) < n
        <4>1. Left(y) \in Nat /\ Left(x) \in Nat /\ Left(y) < Left(x)
          BY <1>1, <3>1, <3>2
        <4> HIDE DEF Left, y
        <4> QED BY <2>1, <4>1
      <3> HIDE DEF Left, y
      <3> QED BY <1>3, <3>1, <3>3 DEF y
    <2> QED
      BY <1>0, <2>3, <2>4
  <1>4. \A n \in Nat : n \in P
    <2> HIDE DEF P
    <2> QED BY <1>2, <1>3, InductiveSet
  <1>5. ASSUME NEW x \in I
        PROVE  f[x] \in R
    <2> DEFINE n == Left(x) + 1
    <2>1. n \in Nat /\ Left(x) < n
      BY <1>1
    <2>2. n \in P
      BY <1>4, <2>1
    <2> QED
      BY <2>1, <2>2
  <1> QED
    BY <1>5

-----------------------------------------------------------------------------
(* The pattern: what is escaped, and where the wildcards end.              *)
LEMMA EscapedIs ==
  ASSUME NEW p
  PROVE  /\ ~Patterns!Escaped(p, 1)
         /\ \A i \in Nat \ {0} :
              Patterns!Escaped(p, i + 1) <=> p[i] = "\\" /\ ~Patterns!Escaped(p, i)
  <1> DEFINE Run(i) == {j \in 1 .. i : \A k \in j .. i - 1 : p[k] = "\\"}
             First(i) == CHOOSE j \in Run(i) : \A k \in Run(i) : j <= k
  <1>1. \A i \in Nat \ {0} : Patterns!Escaped(p, i) <=> (i - First(i)) % 2 = 1
    BY Zenon DEF Patterns!Escaped
  <1>2. ASSUME NEW i \in Nat \ {0}
        PROVE  First(i) \in Run(i) /\ \A k \in Run(i) : First(i) <= k
    <2>1. i \in Run(i) /\ Run(i) \subseteq Nat
      OBVIOUS
    <2> HIDE DEF Run
    <2>2. \E j \in Run(i) : \A k \in Run(i) : j <= k
      BY <2>1, LeastNumber
    <2> QED
      BY <2>2
  <1>3. ASSUME NEW i \in Nat \ {0}, NEW j \in Run(i), \A k \in Run(i) : j <= k
        PROVE  First(i) = j
    <2>1. First(i) \in Run(i) /\ First(i) <= j /\ j <= First(i)
      BY <1>2, <1>3
    <2>2. First(i) \in Nat /\ j \in Nat
      BY <2>1
    <2> HIDE DEF First
    <2> QED
      BY <2>1, <2>2
  <1>4. ~Patterns!Escaped(p, 1)
    <2>1. 1 \in Run(1) /\ \A k \in Run(1) : 1 <= k
      OBVIOUS
    <2>2. First(1) = 1
      BY <1>3, <2>1
    <2> HIDE DEF First
    <2> QED
      BY <1>1, <2>2
  <1>5. ASSUME NEW i \in Nat \ {0}
        PROVE  Patterns!Escaped(p, i + 1) <=> p[i] = "\\" /\ ~Patterns!Escaped(p, i)
    <2>1. i + 1 \in Nat \ {0} /\ (i + 1) - 1 = i
      OBVIOUS
    <2>2. CASE p[i] = "\\"
      <3>1. First(i) \in Run(i) /\ \A k \in Run(i) : First(i) <= k
        BY <1>2
      <3>2. First(i) \in 1 .. i
        BY <3>1
      <3>3. \A j \in 1 .. i : j \in Run(i) => j \in Run(i + 1)
        BY <2>2
      <3>4. \A j \in Run(i + 1) : j \in Run(i) \/ j = i + 1
        OBVIOUS
      <3> HIDE DEF Run, First
      <3>5. First(i) \in Run(i + 1) /\ \A k \in Run(i + 1) : First(i) <= k
        BY <3>1, <3>2, <3>3, <3>4
      <3>6. First(i + 1) = First(i)
        BY <1>3, <2>1, <3>5
      <3>7. (i + 1) - First(i) = (i - First(i)) + 1 /\ i - First(i) \in Nat
        BY <3>2
      <3>8. \A n \in Nat : (n + 1) % 2 = 1 <=> ~(n % 2 = 1)
        OBVIOUS
      <3> QED
        BY <1>1, <2>1, <2>2, <3>6, <3>7, <3>8
    <2>3. CASE p[i] # "\\"
      <3>1. i + 1 \in Run(i + 1) /\ \A k \in Run(i + 1) : i + 1 <= k
        <4>1. \A k \in Run(i + 1) : ~(i \in k .. (i + 1) - 1)
          BY <2>3
        <4>2. \A k \in Run(i + 1) : k \in 1 .. i + 1
          OBVIOUS
        <4>3. i + 1 \in Run(i + 1)
          OBVIOUS
        <4> HIDE DEF Run
        <4> QED BY <4>1, <4>2, <4>3
      <3>2. First(i + 1) = i + 1
        BY <1>3, <2>1, <3>1
      <3> HIDE DEF First
      <3>3. ((i + 1) - First(i + 1)) % 2 = 0
        BY <3>2
      <3> QED
        BY <1>1, <2>1, <2>3, <3>3
    <2> QED
      BY <2>2, <2>3
  <1> QED
    BY <1>4, <1>5

LEMMA SameEscaped ==
  ASSUME NEW p, NEW q, NEW i \in Nat \ {0}, \A k \in 1 .. i - 1 : p[k] = q[k]
  PROVE  Patterns!Escaped(p, i) <=> Patterns!Escaped(q, i)
  <1> DEFINE Run(t) == {j \in 1 .. i : \A k \in j .. i - 1 : t[k] = "\\"}
  <1>1. Run(p) = Run(q)
    <2>1. ASSUME NEW j \in 1 .. i, NEW k \in j .. i - 1
          PROVE  k \in 1 .. i - 1 /\ p[k] = q[k]
      OBVIOUS
    <2> QED
      BY <2>1
  <1>2. ASSUME NEW t
        PROVE  Patterns!Escaped(t, i) <=>
                 (i - (CHOOSE j \in Run(t) : \A k \in Run(t) : j <= k)) % 2 = 1
    BY Zenon DEF Patterns!Escaped
  <1> HIDE DEF Run
  <1> QED
    BY <1>1, <1>2

LEMMA EatIs ==
  ASSUME NEW A, NEW p \in Seq(A), NEW c \in 1 .. Len(p) + 1
  PROVE  LET w == Patterns!EatWildcards(p, c) IN
         /\ w.pattern \in c .. Len(p) + 1
         /\ \A i \in c .. w.pattern - 1 : Patterns!IsWildcard(p[i])
         /\ w.pattern <= Len(p) => ~Patterns!IsWildcard(p[w.pattern])
         /\ \/ w.distance = -1 /\ \E i \in c .. w.pattern - 1 : p[i] = "*"
            \/ w.distance = w.pattern - c /\ \A i \in c .. w.pattern - 1 : p[i] # "*"
         /\ w.distance \in Int
  <1> DEFINE IsEnd(e) == /\ \A i \in c .. e - 1 : Patterns!IsWildcard(p[i])
                         /\ e <= Len(p) => ~Patterns!IsWildcard(p[e])
             end == CHOOSE e \in c .. Len(p) + 1 : IsEnd(e)
             Stops == {e \in c .. Len(p) + 1 : e <= Len(p) => ~Patterns!IsWildcard(p[e])}
             w == Patterns!EatWildcards(p, c)
  <1>1. PICK e \in Stops : \A m \in Stops : e <= m
    <2>1. Stops \subseteq Nat
      OBVIOUS
    <2>2. Len(p) + 1 \in Stops
      OBVIOUS
    <2> HIDE DEF Stops
    <2> QED BY <2>1, <2>2, LeastNumber
  <1>2. e \in c .. Len(p) + 1 /\ IsEnd(e)
    <2>1. e \in c .. Len(p) + 1 /\ (e <= Len(p) => ~Patterns!IsWildcard(p[e]))
      BY <1>1
    <2>2. ASSUME NEW i \in c .. e - 1
          PROVE  Patterns!IsWildcard(p[i])
      <3>1. i \in c .. Len(p) + 1 /\ i <= Len(p) /\ ~(e <= i)
        BY <2>1
      <3>2. i \notin Stops
        BY <1>1, <3>1
      <3> QED
        BY <3>1, <3>2
    <2> QED
      BY <2>1, <2>2
  <1>3. end \in c .. Len(p) + 1 /\ IsEnd(end)
    <2>1. \E m \in c .. Len(p) + 1 : IsEnd(m)
      BY <1>2
    <2> HIDE DEF IsEnd
    <2> QED BY <2>1
  <1>4. w = [distance |-> IF \E i \in c .. end - 1 : p[i] = "*" THEN Patterns!Infinite ELSE end - c,
             pattern |-> end]
    BY Zenon DEF Patterns!EatWildcards
  <1>5. w.pattern = end /\ w.distance = (IF \E i \in c .. end - 1 : p[i] = "*" THEN -1 ELSE end - c)
    <2> HIDE DEF end, w
    <2> QED BY <1>4 DEF Patterns!Infinite
  <1>6. end - c \in Int
    BY <1>3
  <1> HIDE DEF end, w
  <1> QED
    BY <1>3, <1>5, <1>6 DEF w

-----------------------------------------------------------------------------
(* What a pattern means: the places that its characters lead to.           *)
IsReached(r, p, s) ==
  r = [i \in 0 .. Len(p) |->
         IF i = 0 THEN {1}
         ELSE {t \in Patterns!Cursors(s) : \E u \in r[i - 1] : Patterns!Stands(p, i, s, u, t)}]

Reached(r, p, s) ==
  /\ r[0] = {1} /\ \A i \in 0 .. Len(p) : r[i] \subseteq 1 .. Len(s) + 1
  /\ \A i \in 1 .. Len(p), u, t \in 1 .. Len(s) + 1 :
       u \in r[i - 1] /\ Patterns!Stands(p, i, s, u, t) => t \in r[i]
  /\ \A i \in 1 .. Len(p) : \A t \in r[i] : \E u \in r[i - 1] : Patterns!Stands(p, i, s, u, t)
  /\ Patterns!Means(p, s) <=> Len(s) + 1 \in r[Len(p)]

LEMMA ReachedExists ==
  ASSUME NEW A, NEW s \in Seq(A), NEW p \in Seq(A)
  PROVE  \E r : IsReached(r, p, s)
  <1> DEFINE n == Len(p)
             C == Patterns!Cursors(s)
             S == SUBSET C
             To(i, from) == {t \in C : \E u \in from : Patterns!Stands(p, i, s, u, t)}
             step == [x \in (1 .. n) \X S |-> To(x[1], x[2])]
  <1>1. n \in Nat /\ {1} \in S
    BY DEF Patterns!Cursors
  <1>2. \A i, from : To(i, from) \in S
    OBVIOUS
  <1>3. /\ step \in [(1 .. n) \X S -> S]
        /\ \A i \in 1 .. n, from \in S : step[<<i, from>>] = To(i, from)
    <2> HIDE DEF n, S, To
    <2> QED BY <1>2
  <1> HIDE DEF step, n, S, To
  <1>4. PICK r \in [0 .. n -> S] : Recursion(r, n, {1}, step)
    <2>1. step \in [(1 .. n) \X S -> S]
      BY <1>3
    <2> QED BY <1>1, <2>1, RecursionExists
  <1>5. \A i \in 0 .. n : r[i] = IF i = 0 THEN {1} ELSE To(i, r[i - 1])
    <2> TAKE i \in 0 .. n
    <2>1. CASE i = 0
      BY <1>4, <2>1 DEF Recursion
    <2>2. CASE i \in 1 .. n
      <3>1. i - 1 \in 0 .. n
        BY <1>1, <2>2
      <3>2. r[i - 1] \in S /\ i # 0
        BY <1>4, <2>2, <3>1
      <3> QED BY <1>3, <1>4, <2>2, <3>2 DEF Recursion
    <2> QED
      BY <1>1, <2>1, <2>2
  <1>6. r = [i \in 0 .. n |-> IF i = 0 THEN {1} ELSE To(i, r[i - 1])]
    BY <1>4, <1>5
  <1> QED
    BY <1>6, Zenon DEF IsReached, n, To

LEMMA ReachedIs ==
  ASSUME NEW A, NEW s \in Seq(A), NEW p \in Seq(A)
  PROVE  \E r : Reached(r, p, s)
  <1> DEFINE r == CHOOSE f : IsReached(f, p, s)
             To(i, from) == {t \in Patterns!Cursors(s) : \E u \in from : Patterns!Stands(p, i, s, u, t)}
  <1>1. IsReached(r, p, s)
    <2>1. \E f : IsReached(f, p, s)
      BY ReachedExists
    <2> QED
      BY <2>1, Zenon
  <1>2. Patterns!Means(p, s) <=> Len(s) + 1 \in r[Len(p)]
    BY Zenon DEF Patterns!Means, IsReached
  <1> HIDE DEF r
  <1>3. \A i \in 0 .. Len(p) : r[i] = IF i = 0 THEN {1} ELSE To(i, r[i - 1])
    BY <1>1, Zenon DEF IsReached
  <1>4. Len(p) \in Nat /\ Len(s) \in Nat /\ Patterns!Cursors(s) = 1 .. Len(s) + 1
    BY DEF Patterns!Cursors
  <1>5. r[0] = {1}
    <2>1. 0 \in 0 .. Len(p)
      BY <1>4
    <2> QED
      BY <1>3, <2>1, Zenon
  <1>6. \A i \in 1 .. Len(p) : r[i] = To(i, r[i - 1])
    <2> TAKE i \in 1 .. Len(p)
    <2>1. i \in 0 .. Len(p) /\ i # 0
      BY <1>4
    <2> QED
      BY <1>3, <2>1, Zenon
  <1>7. \A i \in 0 .. Len(p) : r[i] \subseteq 1 .. Len(s) + 1
    <2> TAKE i \in 0 .. Len(p)
    <2>1. CASE i = 0
      BY <1>4, <1>5, <2>1
    <2>2. CASE i \in 1 .. Len(p)
      BY <1>4, <1>6, <2>2
    <2> QED
      BY <1>4, <2>1, <2>2
  <1>8. \A i \in 1 .. Len(p), u, t \in 1 .. Len(s) + 1 :
          u \in r[i - 1] /\ Patterns!Stands(p, i, s, u, t) => t \in r[i]
    BY <1>4, <1>6
  <1>9. \A i \in 1 .. Len(p) : \A t \in r[i] : \E u \in r[i - 1] : Patterns!Stands(p, i, s, u, t)
    BY <1>6
  <1> QED
    BY <1>2, <1>5, <1>7, <1>8, <1>9, Zenon DEF Reached

(* A way through the string, place by place. *)
Way(at, p, s, n) ==
  /\ at \in [0 .. Len(p) -> 1 .. Len(s) + 1] /\ at[0] = 1
  /\ \A i \in 1 .. n : Patterns!Stands(p, i, s, at[i - 1], at[i])

LEMMA WayExists ==
  ASSUME NEW A, NEW s \in Seq(A), NEW p \in Seq(A), Patterns!Means(p, s)
  PROVE  \E at : Way(at, p, s, Len(p)) /\ at[Len(p)] = Len(s) + 1
  <1> DEFINE n == Len(p)
             C == 1 .. Len(s) + 1
  <1>0. n \in Nat /\ Len(s) \in Nat
    OBVIOUS
  <1>1. PICK r : Reached(r, p, s)
    BY ReachedIs
  <1> DEFINE S == {i \in 0 .. n : \A t \in r[i] : \E at : Way(at, p, s, i) /\ at[i] = t}
  <1>2. 0 \in S
    <2> DEFINE at == [i \in 0 .. n |-> 1]
    <2>1. Way(at, p, s, 0) /\ at[0] = 1
      BY <1>0 DEF Way
    <2>2. r[0] = {1} /\ 0 \in 0 .. n
      BY <1>0, <1>1 DEF Reached
    <2> HIDE DEF at
    <2> QED
      BY <2>1, <2>2
  <1>3. ASSUME NEW i \in 1 .. n, i - 1 \in S
        PROVE  i \in S
    <2>1. SUFFICES ASSUME NEW t \in r[i]
                   PROVE  \E at : Way(at, p, s, i) /\ at[i] = t
      BY <1>0
    <2>2. PICK u \in r[i - 1] : Patterns!Stands(p, i, s, u, t)
      BY <1>1 DEF Reached
    <2>3. PICK w : Way(w, p, s, i - 1) /\ w[i - 1] = u
      BY <1>3
    <2> DEFINE at == [w EXCEPT ![i] = t]
    <2>4. i \in 0 .. n /\ i - 1 \in 0 .. n /\ i \in Nat /\ t \in C
      BY <1>0, <1>1 DEF Reached
    <2>5. w \in [0 .. n -> C]
      BY <2>3 DEF Way
    <2>6. at \in [0 .. n -> C] /\ at[i] = t /\ \A k \in 0 .. i - 1 : at[k] = w[k]
      BY <2>4, <2>5
    <2> HIDE DEF at, C
    <2>7. at[0] = 1
      BY <2>3, <2>4, <2>6 DEF Way
    <2>8. ASSUME NEW k \in 1 .. i
          PROVE  Patterns!Stands(p, k, s, at[k - 1], at[k])
      <3>1. at[k - 1] = w[k - 1]
        <4>1. k - 1 \in 0 .. i - 1
          BY <2>4
        <4> QED BY <2>6, <4>1
      <3>2. CASE k = i
        BY <2>2, <2>3, <2>6, <3>1, <3>2
      <3>3. CASE k # i
        <4>1. k \in 1 .. i - 1 /\ k \in 0 .. i - 1
          BY <2>4, <3>3
        <4>2. at[k] = w[k]
          BY <2>6, <4>1
        <4>3. Patterns!Stands(p, k, s, w[k - 1], w[k])
          BY <2>3, <4>1 DEF Way
        <4> QED
          BY <3>1, <4>2, <4>3
      <3> QED
        BY <3>2, <3>3
    <2> QED
      BY <2>6, <2>7, <2>8 DEF Way, C
  <1>4. n \in S
    <2>1. \A i \in 0 .. n : i \in S
      <3> HIDE DEF S, n
      <3> QED BY <1>0, <1>2, <1>3, UpTo
    <2>2. n \in 0 .. n
      BY <1>0
    <2> QED
      BY <2>1, <2>2
  <1>5. Len(s) + 1 \in r[n]
    BY <1>1 DEF Reached
  <1> QED
    BY <1>4, <1>5

(* A backslash that escapes nothing may be left out. *)
LEMMA FrontMeans ==
  ASSUME NEW A, NEW s \in Seq(A), NEW p \in Seq(A), Patterns!DanglingEscape(p),
         NEW r, Reached(r, p, s), Len(s) + 1 \in r[Len(p) - 1]
  PROVE  Patterns!Means(Front(p), s)
  <1> DEFINE n == Len(p)
             q == Front(p)
  <1>1. /\ n \in Nat \ {0} /\ Len(s) \in Nat
        /\ p[n] = "\\" /\ ~Patterns!Escaped(p, n)
    BY DEF Patterns!DanglingEscape
  <1>2. q \in Seq(A) /\ Len(q) = n - 1 /\ \A i \in 1 .. n - 1 : q[i] = p[i]
    <2>1. q = SubSeq(p, 1, n - 1)
      BY Zenon DEF Front
    <2> DEFINE m == n - 1
    <2>2. m \in 0 .. Len(p)
      BY <1>1
    <2> HIDE DEF n, q, m
    <2>3. SubSeq(p, 1, m) \in Seq(A) /\ Len(SubSeq(p, 1, m)) = m
      BY <2>2
    <2>4. \A i \in 1 .. m : SubSeq(p, 1, m)[i] = p[i]
      BY <2>2
    <2> QED
      BY <2>1, <2>3, <2>4 DEF m
  <1> HIDE DEF q, n
  <1>3. PICK w : Reached(w, q, s)
    BY <1>2, ReachedIs
  <1>4. ASSUME NEW i \in 1 .. n - 1, NEW u, NEW t, Patterns!Stands(p, i, s, u, t)
        PROVE  Patterns!Stands(q, i, s, u, t)
    <2>1. i \in Nat \ {0} /\ \A k \in 1 .. i - 1 : p[k] = q[k]
      BY <1>1, <1>2
    <2>2. Patterns!Escaped(p, i) <=> Patterns!Escaped(q, i)
      BY <2>1, SameEscaped
    <2>3. q[i] = p[i] /\ i < n
      BY <1>1, <1>2
    <2>4. i = n - 1 => ~(p[i] = "\\" /\ ~Patterns!Escaped(p, i))
      <3>1. SUFFICES ASSUME i = n - 1
                     PROVE  ~(p[i] = "\\" /\ ~Patterns!Escaped(p, i))
        OBVIOUS
      <3>2. i + 1 = n
        BY <1>1, <3>1
      <3> QED
        BY <1>1, <2>1, <3>2, EscapedIs
    <2>5. i < n - 1 \/ i = n - 1
      BY <1>1
    <2>6. Patterns!EscapeAt(p, i) <=> Patterns!EscapeAt(q, i)
      BY <1>2, <2>2, <2>3, <2>4, <2>5, <1>1 DEF Patterns!EscapeAt, n
    <2>7. Patterns!WildcardAt(p, i) <=> Patterns!WildcardAt(q, i)
      BY <2>2, <2>3 DEF Patterns!WildcardAt
    <2> QED
      BY <1>4, <2>3, <2>6, <2>7 DEF Patterns!Stands
  <1> DEFINE S == {i \in 0 .. n - 1 : r[i] \subseteq w[i]}
  <1>5. 0 \in S
    BY <1>1, <1>3 DEF Reached
  <1>6. ASSUME NEW i \in 1 .. n - 1, i - 1 \in S
        PROVE  i \in S
    <2>1. i \in 1 .. Len(p) /\ i \in 1 .. Len(q) /\ i \in 0 .. Len(p) /\ i - 1 \in 0 .. Len(p) /\ i \in 0 .. n - 1
      BY <1>1, <1>2 DEF n
    <2>2. ASSUME NEW t \in r[i]
          PROVE  t \in w[i]
      <3>1. PICK u \in r[i - 1] : Patterns!Stands(p, i, s, u, t)
        BY <2>1 DEF Reached
      <3>2. u \in w[i - 1] /\ u \in 1 .. Len(s) + 1 /\ t \in 1 .. Len(s) + 1
        BY <1>6, <2>1 DEF Reached
      <3>3. Patterns!Stands(q, i, s, u, t)
        BY <1>4, <3>1
      <3> QED
        BY <1>3, <2>1, <3>2, <3>3 DEF Reached
    <2> QED
      BY <2>1, <2>2
  <1>7. n - 1 \in S
    <2>1. n - 1 \in Nat /\ n - 1 \in 0 .. n - 1
      BY <1>1
    <2>2. \A i \in 0 .. n - 1 : i \in S
      <3> HIDE DEF S
      <3> QED BY <1>5, <1>6, <2>1, UpTo
    <2> QED
      BY <2>1, <2>2
  <1>8. Len(s) + 1 \in w[n - 1]
    BY <1>7 DEF n
  <1> QED
    BY <1>2, <1>3, <1>8 DEF Reached, q

-----------------------------------------------------------------------------
(* What is found is meant.                                                 *)

(* Where the search for a text may begin. *)
Begins(p, e) ==
  /\ e \in 1 .. Len(p) + 1
  /\ e <= Len(p) => ~Patterns!IsWildcard(p[e]) /\ ~Patterns!Escaped(p, e)
  /\ e = 1 \/ Patterns!WildcardAt(p, e - 1)

NoWildcards(p, e, q) == \A k \in e .. q - 1 : ~Patterns!WildcardAt(p, k)

(* What the flag says when the search is at q. *)
Flagged(p, e, q, escape) ==
  IF q > Len(p) THEN escape => Patterns!DanglingEscape(p)
  ELSE \/ escape <=> Patterns!Escaped(p, q)
       \/ q = e /\ escape /\ (p[e] # "\\" \/ e = Len(p))

LEMMA LiteralAt ==
  ASSUME NEW A, NEW p \in Seq(A), NEW e, Begins(p, e), NEW q \in e .. Len(p),
         NEW escape \in BOOLEAN, Flagged(p, e, q, escape),
         escape \/ (~Patterns!IsWildcard(p[q]) /\ p[q] # "\\")
  PROVE  /\ ~Patterns!EscapeAt(p, q) /\ ~Patterns!WildcardAt(p, q)
         /\ Flagged(p, e, q + 1, FALSE)
  <1>1. Len(p) \in Nat /\ e \in 1 .. Len(p) + 1 /\ q \in Nat \ {0} /\ q <= Len(p) /\ ~(q > Len(p))
    BY DEF Begins
  <1>2. ~Patterns!WildcardAt(p, q) /\ ~(p[q] = "\\" /\ ~Patterns!Escaped(p, q) /\ q < Len(p))
    <2>1. CASE ~escape
      BY <2>1 DEF Patterns!WildcardAt
    <2>2. CASE escape /\ Patterns!Escaped(p, q)
      BY <2>2 DEF Patterns!WildcardAt
    <2>3. CASE escape /\ ~Patterns!Escaped(p, q)
      <3>1. q = e /\ (p[e] # "\\" \/ e = Len(p))
        BY <1>1, <2>3 DEF Flagged
      <3>2. ~Patterns!IsWildcard(p[q])
        BY <1>1, <3>1 DEF Begins
      <3> QED
        BY <1>1, <3>1, <3>2 DEF Patterns!WildcardAt
    <2> QED
      BY <2>1, <2>2, <2>3
  <1>3. Flagged(p, e, q + 1, FALSE)
    <2>1. CASE q = Len(p)
      <3>1. q + 1 > Len(p)
        BY <1>1, <2>1
      <3> QED
        BY <3>1 DEF Flagged
    <2>2. CASE q < Len(p)
      <3>1. ~(q + 1 > Len(p))
        BY <1>1, <2>2
      <3>2. ~Patterns!Escaped(p, q + 1)
        BY <1>1, <1>2, <2>2, EscapedIs
      <3> QED
        BY <3>1, <3>2 DEF Flagged
    <2>3. q = Len(p) \/ q < Len(p)
      BY <1>1
    <2> QED
      BY <2>1, <2>2, <2>3, Zenon
  <1> QED
    BY <1>2, <1>3 DEF Patterns!EscapeAt

LEMMA EscapeSkipped ==
  ASSUME NEW A, NEW p \in Seq(A), NEW e, Begins(p, e), NEW q \in e .. Len(p),
         Flagged(p, e, q, FALSE), p[q] = "\\"
  PROVE  /\ ~Patterns!WildcardAt(p, q)
         /\ IF q < Len(p) THEN Patterns!EscapeAt(p, q) ELSE Patterns!DanglingEscape(p)
         /\ Flagged(p, e, q + 1, TRUE)
  <1>1. Len(p) \in Nat /\ e \in 1 .. Len(p) + 1 /\ q \in Nat \ {0} /\ q <= Len(p) /\ ~(q > Len(p))
    BY DEF Begins
  <1>2. ~Patterns!Escaped(p, q)
    BY <1>1 DEF Flagged
  <1>3. Patterns!Escaped(p, q + 1)
    BY <1>1, <1>2, EscapedIs
  <1>4. ~Patterns!WildcardAt(p, q)
    BY DEF Patterns!WildcardAt, Patterns!IsWildcard
  <1>5. CASE q < Len(p)
    <2>1. ~(q + 1 > Len(p))
      BY <1>1, <1>5
    <2> QED
      BY <1>2, <1>3, <1>4, <1>5, <2>1 DEF Flagged, Patterns!EscapeAt
  <1>6. CASE q = Len(p)
    <2>1. q + 1 > Len(p) /\ ~(q < Len(p))
      BY <1>1, <1>6
    <2>2. Patterns!DanglingEscape(p)
      BY <1>1, <1>2, <1>6 DEF Patterns!DanglingEscape
    <2> QED
      BY <1>4, <2>1, <2>2 DEF Flagged
  <1>7. q = Len(p) \/ q < Len(p)
    BY <1>1
  <1> QED
    BY <1>5, <1>6, <1>7, Zenon

LEMMA FlagAfterMismatch ==
  ASSUME NEW A, NEW p \in Seq(A), NEW e, Begins(p, e), e # 1, NEW q \in e .. Len(p) + 1,
         ~Patterns!RestartsEscaped(p), NoWildcards(p, e, q),
         NEW escape \in BOOLEAN, Flagged(p, e, q, escape)
  PROVE  Flagged(p, e, e, q > Len(p) /\ escape)
  <1>1. /\ Len(p) \in Nat /\ e \in 2 .. Len(p) + 1 /\ q \in 2 .. Len(p) + 1
        /\ Patterns!WildcardAt(p, e - 1)
    BY DEF Begins
  <1>2. CASE e > Len(p)
    <2>1. q = e
      BY <1>1, <1>2
    <2> QED
      BY <1>2, <2>1 DEF Flagged
  <1>3. CASE ~(e > Len(p)) /\ ~(q > Len(p) /\ escape)
    <2>1. ~Patterns!Escaped(p, e)
      BY <1>1, <1>3 DEF Begins
    <2> QED
      BY <1>3, <2>1 DEF Flagged
  <1>4. CASE ~(e > Len(p)) /\ q > Len(p) /\ escape
    <2>1. Patterns!DanglingEscape(p)
      BY <1>4 DEF Flagged
    <2>2. q - 1 = Len(p) /\ e \in 2 .. Len(p)
      BY <1>1, <1>4
    <2>3. \A k \in e .. Len(p) : ~Patterns!WildcardAt(p, k)
      BY <2>2 DEF NoWildcards
    <2>4. ~Patterns!EscapeAt(p, e)
      BY <1>1, <2>1, <2>2, <2>3 DEF Patterns!RestartsEscaped
    <2>5. p[e] # "\\" \/ e = Len(p)
      BY <1>1, <1>4, <2>2, <2>4 DEF Patterns!EscapeAt, Begins
    <2> QED
      BY <1>4, <2>5 DEF Flagged
  <1> QED
    BY <1>2, <1>3, <1>4

-----------------------------------------------------------------------------
(* The places from which a search with this distance may begin are meant.  *)
Wide(r, s, e, string_start, d) ==
  \A t \in string_start .. Len(s) + 1 : (d < 0 \/ t <= string_start + d) => t \in r[e - 1]

Placed(r, p, q, t) ==
  t \in r[q - 1] \/ (q > Len(p) /\ Patterns!DanglingEscape(p) /\ t \in r[Len(p) - 1])

Sane(r, p, s, e, x) ==
  /\ x.pattern_start = e /\ (e = 1 => x.maximum_distance = 0)
  /\ Wide(r, s, e, x.string_start, x.maximum_distance)
  /\ NoWildcards(p, e, x.pattern) /\ Placed(r, p, x.pattern, x.string)
  /\ Flagged(p, e, x.pattern, x.escape)

Accepts(r, p, s) == Placed(r, p, Len(p) + 1, Len(s) + 1)

(* What a search may have found. *)
SoundResult(r, p, s, e, y) ==
  y.found =>
    IF y.pattern > Len(p) THEN Accepts(r, p, s)
    ELSE y.pattern > e /\ Patterns!WildcardAt(p, y.pattern) /\ y.string \in r[y.pattern - 1]

LEMMA ResultsAre ==
  ASSUME NEW A, NEW s \in Seq(A), NEW p \in Seq(A)
  PROVE  /\ ~Patterns!NotFound.found
         /\ \A x : LET y == Patterns!FoundAt(x) IN
                   y.found /\ y.pattern = x.pattern /\ y.string = x.string
         /\ \A y \in SearchResults(s, p) :
              /\ y.found \in BOOLEAN
              /\ y.found => y.pattern \in 1 .. Len(p) + 1 /\ y.string \in 1 .. Len(s) + 1
  <1>1. ~Patterns!NotFound.found
    BY DEF Patterns!NotFound
  <1>2. \A x : LET y == Patterns!FoundAt(x) IN
              y.found /\ y.pattern = x.pattern /\ y.string = x.string
    BY DEF Patterns!FoundAt
  <1>3. ASSUME NEW y \in SearchResults(s, p)
        PROVE  /\ y.found \in BOOLEAN
               /\ y.found => y.pattern \in 1 .. Len(p) + 1 /\ y.string \in 1 .. Len(s) + 1
    <2>1. CASE y = Patterns!NotFound
      BY <2>1 DEF Patterns!NotFound
    <2>2. CASE \E x \in Patterns!Searches(s, p) : y = Patterns!FoundAt(x)
      <3>1. PICK x \in Patterns!Searches(s, p) : y = Patterns!FoundAt(x)
        BY <2>2
      <3>2. y.found = TRUE /\ y.pattern = x.pattern /\ y.string = x.string
        BY <3>1 DEF Patterns!FoundAt
      <3> QED
        BY <3>2, SearchTyped
    <2> QED
      BY <2>1, <2>2 DEF SearchResults
  <1> QED
    BY <1>1, <1>2, <1>3

LEMMA RoundSane ==
  ASSUME NEW A, NEW s \in Seq(A), NEW p \in Seq(A), ~Patterns!RestartsEscaped(p),
         NEW r, Reached(r, p, s), NEW e, Begins(p, e),
         NEW x \in Patterns!Searches(s, p), Sane(r, p, s, e, x),
         ~Arrives(s, p, x), ~GivesUp(s, p, x)
  PROVE  Sane(r, p, s, e, Onward(s, p, x))
  <1> DEFINE y == Onward(s, p, x)
             q == x.pattern
             t == x.string
             n == Len(p)
  <1>1. /\ q \in 1 .. n + 1 /\ t \in 1 .. Len(s) + 1 /\ e \in 1 .. n + 1 /\ e <= q
        /\ x.string_start \in 1 .. Len(s) + 1 /\ x.escape \in BOOLEAN /\ x.maximum_distance \in Int
        /\ n \in Nat /\ Len(s) \in Nat /\ x.pattern_start = e
    BY SearchTyped DEF Sane
  <1>2. /\ e = 1 => x.maximum_distance = 0
        /\ Wide(r, s, e, x.string_start, x.maximum_distance)
        /\ NoWildcards(p, e, q) /\ Placed(r, p, q, t) /\ Flagged(p, e, q, x.escape)
    BY DEF Sane
  <1>3. /\ y \in Patterns!Searches(s, p)
        /\ \/ /\ AtEscape(p, x) /\ q <= n
              /\ Goes(y, x.pattern_start, x.string_start, q + 1, t, TRUE, x.maximum_distance)
           \/ /\ Agrees(s, p, x) /\ ~AtEscape(p, x) /\ q <= n /\ t <= Len(s)
              /\ Goes(y, x.pattern_start, x.string_start, q + 1, t + 1, FALSE, x.maximum_distance)
           \/ /\ Differs(s, p, x) /\ t <= Len(s) /\ x.maximum_distance # 0
              /\ Restarted(p, x, y)
    BY OnwardIs
  <1>4. ~(q > n) => t \in r[q - 1]
    BY <1>2 DEF Placed
  <1> HIDE DEF y
  <1>5. CASE /\ AtEscape(p, x) /\ q <= n
             /\ Goes(y, x.pattern_start, x.string_start, q + 1, t, TRUE, x.maximum_distance)
    <2>1. ~x.escape /\ p[q] = "\\" /\ Flagged(p, e, q, FALSE) /\ q \in e .. n
      <3>1. ~x.escape /\ p[q] = "\\"
        BY <1>5 DEF AtEscape
      <3>2. x.escape = FALSE
        BY <1>1, <3>1
      <3>3. q \in e .. n
        BY <1>1, <1>5
      <3> QED
        BY <1>2, <3>1, <3>2, <3>3, Zenon
    <2>2. /\ ~Patterns!WildcardAt(p, q) /\ Flagged(p, e, q + 1, TRUE)
          /\ IF q < n THEN Patterns!EscapeAt(p, q) ELSE Patterns!DanglingEscape(p)
      BY <2>1, EscapeSkipped
    <2>3. NoWildcards(p, e, q + 1)
      BY <1>1, <1>2, <2>2 DEF NoWildcards
    <2>4. t \in r[q - 1] /\ q \in 1 .. n
      BY <1>1, <1>4, <1>5
    <2>5. Placed(r, p, q + 1, t)
      <3>1. CASE q < n
        <4>1. Patterns!Stands(p, q, s, t, t)
          BY <2>2, <3>1 DEF Patterns!Stands
        <4>2. t \in r[q]
          BY <1>1, <2>4, <4>1 DEF Reached
        <4>3. (q + 1) - 1 = q
          BY <1>1
        <4> QED
          BY <4>2, <4>3 DEF Placed
      <3>2. CASE q = n
        <4>1. q + 1 > n /\ t \in r[n - 1] /\ Patterns!DanglingEscape(p)
          BY <1>1, <2>2, <2>4, <3>2
        <4> QED
          BY <4>1 DEF Placed
      <3> QED
        BY <1>1, <2>4, <3>1, <3>2
    <2>6. /\ y.pattern_start = e /\ y.string_start = x.string_start /\ y.pattern = q + 1
          /\ y.string = t /\ y.escape = TRUE /\ y.maximum_distance = x.maximum_distance
      BY <1>1, <1>5 DEF Goes
    <2> QED
      BY <1>2, <2>2, <2>3, <2>5, <2>6 DEF Sane, y
  <1>6. CASE /\ Agrees(s, p, x) /\ ~AtEscape(p, x) /\ q <= n /\ t <= Len(s)
             /\ Goes(y, x.pattern_start, x.string_start, q + 1, t + 1, FALSE, x.maximum_distance)
    <2>1. /\ q \in e .. n /\ q \in 1 .. n /\ p[q] = s[t] /\ p[q] # Patterns!CBU_SENTINEL
          /\ x.escape \/ (~Patterns!IsWildcard(p[q]) /\ p[q] # "\\")
      BY <1>1, <1>6 DEF Agrees, AtWildcard, AtEscape, AtEnd
    <2>2. /\ ~Patterns!EscapeAt(p, q) /\ ~Patterns!WildcardAt(p, q) /\ Flagged(p, e, q + 1, FALSE)
      BY <1>1, <1>2, <2>1, LiteralAt
    <2>3. NoWildcards(p, e, q + 1)
      BY <1>1, <1>2, <2>2 DEF NoWildcards
    <2>4. Patterns!Stands(p, q, s, t, t + 1)
      BY <1>6, <2>1, <2>2 DEF Patterns!Stands
    <2>5. t \in r[q - 1] /\ t + 1 \in 1 .. Len(s) + 1
      BY <1>1, <1>4, <1>6, SMTT(60)
    <2>6. t + 1 \in r[q]
      BY <1>1, <2>1, <2>4, <2>5 DEF Reached
    <2>7. Placed(r, p, q + 1, t + 1)
      <3>1. (q + 1) - 1 = q
        BY <1>1
      <3> QED
        BY <2>6, <3>1 DEF Placed
    <2>8. /\ y.pattern_start = e /\ y.string_start = x.string_start /\ y.pattern = q + 1
          /\ y.string = t + 1 /\ y.escape = FALSE /\ y.maximum_distance = x.maximum_distance
      BY <1>1, <1>6 DEF Goes
    <2> QED
      BY <1>2, <2>2, <2>3, <2>7, <2>8 DEF Sane, y
  <1>7. CASE /\ Differs(s, p, x) /\ t <= Len(s) /\ x.maximum_distance # 0
             /\ Restarted(p, x, y)
    <2> DEFINE u == x.string_start + 1
               d == x.maximum_distance
    <2>1. /\ y.pattern_start = e /\ y.string_start = u /\ y.pattern = e /\ y.string = u
          /\ y.escape = (q > n /\ x.escape) /\ y.maximum_distance = d - 1
      BY <1>1, <1>7 DEF Restarted, Goes, AtEnd
    <2>2. e # 1 /\ q \in e .. n + 1
      BY <1>1, <1>2, <1>7
    <2>3. Flagged(p, e, e, q > n /\ x.escape)
      BY <1>1, <1>2, <2>2, FlagAfterMismatch
    <2>4. NoWildcards(p, e, e)
      BY <1>1 DEF NoWildcards
    <2>5. u \in 1 .. Len(s) + 1
      BY <1>3, <2>1, SearchTyped
    <2>6. Wide(r, s, e, u, d - 1)
      <3>1. SUFFICES ASSUME NEW v \in u .. Len(s) + 1, d - 1 < 0 \/ v <= u + (d - 1)
                     PROVE  v \in r[e - 1]
        BY DEF Wide
      <3>2. v \in x.string_start .. Len(s) + 1 /\ (d < 0 \/ v <= x.string_start + d)
        BY <1>1, <1>7, <3>1, SMTT(60)
      <3> QED
        BY <1>2, <3>2 DEF Wide
    <2>7. u \in r[e - 1]
      <3>1. u \in x.string_start .. Len(s) + 1 /\ (d < 0 \/ u <= x.string_start + d)
        BY <1>1, <1>7, <2>5
      <3> QED
        BY <1>2, <3>1 DEF Wide
    <2>8. Placed(r, p, e, u)
      BY <2>7 DEF Placed
    <2> HIDE DEF u
    <2> QED
      BY <2>1, <2>2, <2>3, <2>4, <2>6, <2>8 DEF Sane, y
  <1> QED
    BY <1>3, <1>5, <1>6, <1>7

LEMMA SoundSearch ==
  ASSUME NEW A, NEW s \in Seq(A), NEW p \in Seq(A), ~Patterns!RestartsEscaped(p),
         NEW r, Reached(r, p, s), NEW e, Begins(p, e), NEW f, Searched(f, s, p),
         NEW x \in Patterns!Searches(s, p), Sane(r, p, s, e, x)
  PROVE  SoundResult(r, p, s, e, f[x])
  <1> DEFINE I == {y \in Patterns!Searches(s, p) : Sane(r, p, s, e, y)}
             R == {y \in SearchResults(s, p) : SoundResult(r, p, s, e, y)}
  <1>1. ASSUME NEW y \in I, Arrives(s, p, y)
        PROVE  Patterns!FoundAt(y) \in R
    <2> DEFINE z == Patterns!FoundAt(y)
    <2>1. z \in SearchResults(s, p)
      BY DEF SearchResults
    <2>2. z.found /\ z.pattern = y.pattern /\ z.string = y.string
      BY ResultsAre
    <2> HIDE DEF z
    <2>3. /\ y.pattern \in 1 .. Len(p) + 1 /\ y.string \in 1 .. Len(s) + 1 /\ Len(p) \in Nat
          /\ Len(s) \in Nat /\ y.pattern_start <= y.pattern
      BY SearchTyped
    <2>4. /\ y.pattern_start = e /\ Placed(r, p, y.pattern, y.string)
          /\ Flagged(p, e, y.pattern, y.escape)
      BY DEF Sane
    <2>5. CASE AtWildcard(p, y)
      <3>1. ~y.escape /\ Patterns!IsWildcard(p[y.pattern]) /\ ~(y.pattern > Len(p))
        BY <2>5 DEF AtWildcard, AtEnd
      <3>2. ~Patterns!Escaped(p, y.pattern)
        BY <2>4, <3>1 DEF Flagged
      <3>3. y.pattern # e
        BY <2>3, <3>1 DEF Begins
      <3>4. y.string \in r[y.pattern - 1]
        BY <2>4, <3>1 DEF Placed
      <3>5. e \in 1 .. Len(p) + 1
        BY DEF Begins
      <3>6. y.pattern > e
        BY <2>3, <2>4, <3>3, <3>5
      <3>7. SoundResult(r, p, s, e, z)
        BY <2>2, <3>1, <3>2, <3>4, <3>6 DEF SoundResult, Patterns!WildcardAt
      <3> QED
        BY <2>1, <3>7 DEF z
    <2>6. CASE AtEnd(p, y) /\ OutOfString(s, y)
      <3>1. y.pattern > Len(p) /\ y.pattern = Len(p) + 1 /\ y.string = Len(s) + 1
        BY <2>3, <2>6 DEF AtEnd, OutOfString
      <3>2. Accepts(r, p, s)
        BY <2>4, <3>1 DEF Accepts
      <3>3. SoundResult(r, p, s, e, z)
        BY <2>2, <3>1, <3>2 DEF SoundResult
      <3> QED
        BY <2>1, <3>3 DEF z
    <2> QED
      BY <1>1, <2>5, <2>6 DEF Arrives
  <1>2. Patterns!NotFound \in R
    BY ResultsAre DEF SearchResults, SoundResult
  <1>3. ASSUME NEW y \in I, ~Arrives(s, p, y), ~GivesUp(s, p, y)
        PROVE  Onward(s, p, y) \in I
    <2>1. y \in Patterns!Searches(s, p) /\ Sane(r, p, s, e, y)
      OBVIOUS
    <2> QED
      BY <1>3, <2>1, OnwardIs, RoundSane
  <1>4. x \in I /\ I \subseteq Patterns!Searches(s, p)
    OBVIOUS
  <1> HIDE DEF I, R
  <1>5. SearchKeeps(s, p, I, R)
    BY <1>1, <1>2, <1>3, <1>4 DEF SearchKeeps
  <1>6. f[x] \in R
    BY <1>4, <1>5, SearchHolds
  <1> QED
    BY <1>6 DEF R

-----------------------------------------------------------------------------
(* From one sequence of wildcards to the next.                             *)
Places(s, p) == [pattern : Patterns!Cursors(p), string : Patterns!Cursors(s)]
Place2(q, t) == [pattern |-> q, string |-> t]

SearchFrom(p, at) ==
  LET w == Patterns!EatWildcards(p, at.pattern)
  IN  Patterns!Search(w.pattern, at.string, w.distance)

MatchRound(g, s, p, at) ==
  LET result == Patterns!SearchForChars(s, p, SearchFrom(p, at))
  IN  /\ result.found
      /\ result.pattern <= Len(p) => g[[pattern |-> result.pattern, string |-> result.string]]

IsMatch(g, s, p) == g = [at \in Places(s, p) |-> MatchRound(g, s, p, at)]

(* Whether there is a match from each place, told from the next search. *)
Matched(g, f, s, p) ==
  \A at \in Places(s, p) :
    LET y == f[SearchFrom(p, at)]
    IN  g[at] <=> y.found /\ (y.pattern <= Len(p) => g[Place2(y.pattern, y.string)])

Started(s, p, at, x, w) ==
  /\ x \in Patterns!Searches(s, p)
  /\ x.pattern_start = w.pattern /\ x.pattern = w.pattern
  /\ x.string_start = at.string /\ x.string = at.string
  /\ x.escape = FALSE /\ x.maximum_distance = w.distance
  /\ at.pattern \in 1 .. Len(p) + 1 /\ at.string \in 1 .. Len(s) + 1

LEMMA SearchFromIs ==
  ASSUME NEW A, NEW s \in Seq(A), NEW p \in Seq(A), NEW at \in Places(s, p)
  PROVE  Started(s, p, at, SearchFrom(p, at), Patterns!EatWildcards(p, at.pattern))
  <1> DEFINE w == Patterns!EatWildcards(p, at.pattern)
             e == w.pattern
             d == w.distance
             t == at.string
             x == SearchFrom(p, at)
  <1>1. at.pattern \in 1 .. Len(p) + 1 /\ t \in 1 .. Len(s) + 1 /\ Len(p) \in Nat
    BY DEF Places, Patterns!Cursors
  <1>2. e \in at.pattern .. Len(p) + 1 /\ d \in Int
    BY <1>1, EatIs
  <1>3. Goes(x, e, t, e, t, FALSE, d)
    BY Zenon DEF SearchFrom, Patterns!Search, Goes
  <1>4. e \in 1 .. Len(p) + 1 /\ e <= e /\ t <= t /\ FALSE \in BOOLEAN
    BY <1>1, <1>2
  <1> HIDE DEF e, d, t, x
  <1>5. x \in Patterns!Searches(s, p)
    BY <1>1, <1>2, <1>3, <1>4, SearchesAre
  <1>6. /\ x.pattern_start = e /\ x.pattern = e /\ x.string_start = t /\ x.string = t
        /\ x.escape = FALSE /\ x.maximum_distance = d
    BY <1>3 DEF Goes
  <1> QED
    BY <1>1, <1>5, <1>6 DEF e, d, t, x, Started

LEMMA FoundBehind ==
  ASSUME NEW A, NEW s \in Seq(A), NEW p \in Seq(A), NEW f, Searched(f, s, p), NEW at \in Places(s, p)
  PROVE  LET y == f[SearchFrom(p, at)] IN
         /\ y.found \in BOOLEAN
         /\ y.found => y.pattern \in at.pattern + 1 .. Len(p) + 1 \cup {Len(p) + 1} /\ y.string \in 1 .. Len(s) + 1
  <1> DEFINE x == SearchFrom(p, at)
             e == x.pattern_start
             I == {z \in Patterns!Searches(s, p) : z.pattern_start = e}
             R == {y \in SearchResults(s, p) : y.found /\ y.pattern <= Len(p) => y.pattern > e}
  <1>1. /\ x \in I /\ e \in at.pattern .. Len(p) + 1 /\ at.pattern \in 1 .. Len(p) + 1 /\ Len(p) \in Nat
        /\ e <= Len(p) => ~Patterns!IsWildcard(p[e])
    <2> DEFINE w == Patterns!EatWildcards(p, at.pattern)
    <2>1. /\ x \in Patterns!Searches(s, p) /\ e = w.pattern /\ at.pattern \in 1 .. Len(p) + 1
      <3>1. x \in Patterns!Searches(s, p) /\ x.pattern_start = w.pattern /\ at.pattern \in 1 .. Len(p) + 1
        <4>1. Started(s, p, at, x, w)
          BY SearchFromIs, Zenon
        <4> HIDE DEF w, x
        <4> QED
          BY <4>1 DEF Started
      <3> QED
        BY <3>1, Zenon
    <2>2. w.pattern \in at.pattern .. Len(p) + 1 /\ (w.pattern <= Len(p) => ~Patterns!IsWildcard(p[w.pattern]))
      BY <2>1, EatIs
    <2> HIDE DEF x, w
    <2> QED
      BY <2>1, <2>2
  <1> HIDE DEF x, e
  <1>2. ASSUME NEW z \in I
        PROVE  /\ Arrives(s, p, z) => Patterns!FoundAt(z) \in R
               /\ ~Arrives(s, p, z) /\ ~GivesUp(s, p, z) => Onward(s, p, z) \in I
    <2>1. z \in Patterns!Searches(s, p) /\ z.pattern_start = e
      OBVIOUS
    <2>2. z.pattern \in 1 .. Len(p) + 1 /\ e <= z.pattern
      BY <2>1, SearchTyped
    <2>3. ASSUME Arrives(s, p, z)
          PROVE  Patterns!FoundAt(z) \in R
      <3> DEFINE y == Patterns!FoundAt(z)
      <3>1. y \in SearchResults(s, p)
        BY DEF SearchResults
      <3>2. y.pattern = z.pattern
        BY ResultsAre
      <3> HIDE DEF y
      <3>3. z.pattern <= Len(p) => Patterns!IsWildcard(p[z.pattern])
        BY <1>1, <2>2, <2>3 DEF Arrives, AtWildcard, AtEnd
      <3>4. z.pattern <= Len(p) => z.pattern # e
        BY <1>1, <3>3
      <3>5. z.pattern <= Len(p) => z.pattern > e
        BY <1>1, <2>2, <3>4
      <3> QED
        BY <3>1, <3>2, <3>5 DEF y
    <2>4. ASSUME ~Arrives(s, p, z), ~GivesUp(s, p, z)
          PROVE  Onward(s, p, z) \in I
      BY <2>1, <2>4, OnwardIs DEF Goes, Restarted
    <2> QED
      BY <2>3, <2>4
  <1>3. Patterns!NotFound \in R
    BY ResultsAre DEF SearchResults
  <1>4. I \subseteq Patterns!Searches(s, p)
    OBVIOUS
  <1> HIDE DEF I, R
  <1>5. SearchKeeps(s, p, I, R)
    BY <1>2, <1>3, <1>4 DEF SearchKeeps
  <1>6. f[x] \in R
    BY <1>1, <1>5, SearchHolds
  <1>7. f[x] \in SearchResults(s, p) /\ (f[x].found /\ f[x].pattern <= Len(p) => f[x].pattern > e)
    BY <1>6 DEF R
  <1> DEFINE y == f[x]
  <1> HIDE DEF y
  <1>8. /\ y.found \in BOOLEAN
        /\ y.found => y.pattern \in 1 .. Len(p) + 1 /\ y.string \in 1 .. Len(s) + 1
    BY <1>7, ResultsAre DEF y
  <1>9. y.found => y.pattern \in at.pattern + 1 .. Len(p) + 1 \cup {Len(p) + 1}
    <2>1. y.found /\ y.pattern <= Len(p) => y.pattern > e
      BY <1>7 DEF y
    <2> QED
      BY <1>1, <1>8, <2>1
  <1> QED
    BY <1>8, <1>9, Zenon DEF x, y

LEMMA MatchIs ==
  ASSUME NEW A, NEW s \in Seq(A), NEW p \in Seq(A)
  PROVE  \E f, g : /\ Searched(f, s, p) /\ Matched(g, f, s, p)
                   /\ Patterns!MatchPattern(s, p) = g[Place2(1, 1)]
                   /\ \A at \in Places(s, p) : g[at] \in BOOLEAN
  <1>1. PICK f : Searched(f, s, p) /\ \A x : Patterns!SearchForChars(s, p, x) = f[x]
    BY SearchIs
  <1> DEFINE D == Places(s, p)
             Found(at) == f[SearchFrom(p, at)]
             Goes2(at) == Found(at).found /\ Found(at).pattern <= Len(p)
             Ends == {at \in D : ~Goes2(at)}
             measure == [at \in D |-> (Len(p) + 1) - at.pattern]
             last == [at \in D |-> Found(at).found]
             next == [at \in D |-> Place2(Found(at).pattern, Found(at).string)]
             bound == Len(p)
             from == CHOOSE g : IsMatch(g, s, p)
  <1>2. \A at \in D : at.pattern \in 1 .. Len(p) + 1
    BY DEF Places, Patterns!Cursors
  <1>3. \A at \in D : measure[at] \in 0 .. bound /\ last[at] \in BOOLEAN
    <2> TAKE at \in D
    <2>1. measure[at] = (Len(p) + 1) - at.pattern /\ last[at] = Found(at).found
      OBVIOUS
    <2>2. Found(at).found \in BOOLEAN
      BY <1>1, FoundBehind
    <2>3. at.pattern \in 1 .. Len(p) + 1 /\ Len(p) \in Nat
      BY <1>2
    <2> HIDE DEF measure, last, Found, D
    <2> QED
      BY <2>1, <2>2, <2>3
  <1>4. ASSUME NEW at \in D, at \notin Ends
        PROVE  next[at] \in D /\ measure[next[at]] < measure[at]
    <2>1. Found(at).found /\ Found(at).pattern <= Len(p)
      BY <1>4
    <2> DEFINE q == Found(at).pattern
               t == Found(at).string
               b == Place2(q, t)
    <2>2. q \in at.pattern + 1 .. Len(p) + 1 \cup {Len(p) + 1} /\ t \in 1 .. Len(s) + 1 /\ q <= Len(p)
      BY <1>1, <2>1, FoundBehind
    <2>3. at.pattern \in 1 .. Len(p) + 1 /\ Len(p) \in Nat
      BY <1>2
    <2>4. next[at] = b
      OBVIOUS
    <2> HIDE DEF q, t, next, Found, D
    <2>5. q \in 1 .. Len(p) + 1 /\ q > at.pattern
      BY <2>2, <2>3
    <2>6. b \in D /\ b.pattern = q
      BY <2>2, <2>5 DEF Place2, Places, Patterns!Cursors, D
    <2> HIDE DEF b
    <2>7. measure[b] = (Len(p) + 1) - q /\ measure[at] = (Len(p) + 1) - at.pattern
      BY <2>6
    <2> HIDE DEF measure
    <2> QED
      BY <2>3, <2>4, <2>5, <2>6, <2>7
  <1>5. \A at \in D : last[at] = Found(at).found /\ next[at] = Place2(Found(at).pattern, Found(at).string)
    OBVIOUS
  <1>6. bound \in Nat
    OBVIOUS
  <1>7. \A at \in D : at \in Ends <=> ~Goes2(at)
    OBVIOUS
  <1> HIDE DEF D, measure, last, next, bound, Ends, Found
  <1>8. LoopEnds(D, BOOLEAN, Ends, bound, measure, last, next)
    BY <1>3, <1>4 DEF LoopEnds
  <1>9. PICK g : Loop(g, D, BOOLEAN, Ends, last, next)
    BY <1>6, <1>8, LoopExists
  <1>10. g \in [D -> BOOLEAN] /\ \A at \in D : g[at] = IF at \in Ends THEN last[at] ELSE g[next[at]]
    BY <1>9 DEF Loop
  <1>11. \A at \in D : MatchRound(g, s, p, at) =
           (Found(at).found /\ (Found(at).pattern <= Len(p) => g[Place2(Found(at).pattern, Found(at).string)]))
    BY <1>1, Zenon DEF MatchRound, Place2, Found
  <1>12. ASSUME NEW at \in D
         PROVE  g[at] = MatchRound(g, s, p, at)
    <2> DEFINE y == Found(at)
    <2>1. g[at] \in BOOLEAN /\ y.found \in BOOLEAN
      <3>1. last[at] = y.found /\ last[at] \in BOOLEAN
        BY <1>3, <1>5
      <3> QED
        BY <1>10, <3>1
    <2> HIDE DEF y
    <2>2. MatchRound(g, s, p, at) = (y.found /\ (y.pattern <= Len(p) => g[Place2(y.pattern, y.string)]))
      BY <1>11 DEF y
    <2>3. CASE at \in Ends
      <3>1. g[at] = y.found
        BY <1>5, <1>10, <2>3, Zenon DEF y
      <3>2. ~(y.found /\ y.pattern <= Len(p))
        BY <1>7, <2>3, Zenon DEF y
      <3> QED
        BY <2>1, <2>2, <3>1, <3>2, Zenon
    <2>4. CASE at \notin Ends
      <3>1. g[at] = g[Place2(y.pattern, y.string)]
        BY <1>5, <1>10, <2>4, Zenon DEF y
      <3>2. y.found /\ y.pattern <= Len(p)
        BY <1>7, <2>4, Zenon DEF y
      <3> QED
        BY <2>1, <2>2, <3>1, <3>2, Zenon
    <2> QED
      BY <2>3, <2>4
  <1>13. g = [at \in D |-> MatchRound(g, s, p, at)]
    BY <1>10, <1>12, Zenon
  <1>14. IsMatch(from, s, p)
    BY <1>13, Zenon DEF IsMatch, D
  <1>15. Patterns!MatchPattern(s, p) = from[Place2(1, 1)]
    BY Zenon DEF Patterns!MatchPattern, Patterns!MatchPatternT, IsMatch, MatchRound, SearchFrom,
                 Place2, Places
  <1> HIDE DEF from
  <1>16. \A at \in D : from[at] = MatchRound(from, s, p, at)
    BY <1>14, Zenon DEF IsMatch, D
  <1>17. \A at \in D : MatchRound(from, s, p, at) =
           (Found(at).found /\ (Found(at).pattern <= Len(p) => from[Place2(Found(at).pattern, Found(at).string)]))
    BY <1>1, Zenon DEF MatchRound, Place2, Found
  <1>18. Matched(from, f, s, p) /\ \A at \in D : from[at] \in BOOLEAN
    BY <1>16, <1>17, Zenon DEF Matched, Found, D
  <1> QED
    BY <1>1, <1>15, <1>18, Zenon DEF D

(* Where a sequence of wildcards may begin. *)
StartsRun(p, c) == c = 1 \/ (c <= Len(p) /\ Patterns!WildcardAt(p, c))

LEMMA RunIs ==
  ASSUME NEW A, NEW p \in Seq(A), NEW c \in 1 .. Len(p) + 1, StartsRun(p, c)
  PROVE  LET w == Patterns!EatWildcards(p, c) IN
         /\ Begins(p, w.pattern) /\ w.pattern \in c .. Len(p) + 1
         /\ \A k \in c .. w.pattern - 1 : Patterns!WildcardAt(p, k)
         /\ w.pattern = 1 => w.distance = 0
         /\ c > 1 => w.pattern > c
  <1> DEFINE w == Patterns!EatWildcards(p, c)
             e == w.pattern
  <1>1. /\ e \in c .. Len(p) + 1
        /\ \A i \in c .. e - 1 : Patterns!IsWildcard(p[i])
        /\ e <= Len(p) => ~Patterns!IsWildcard(p[e])
        /\ \/ w.distance = -1 /\ \E i \in c .. e - 1 : p[i] = "*"
           \/ w.distance = e - c /\ \A i \in c .. e - 1 : p[i] # "*"
    BY EatIs
  <1> HIDE DEF w
  <1>2. c \in 1 .. Len(p) + 1 /\ Len(p) \in Nat
    OBVIOUS
  <1>3. ASSUME NEW k \in c + 1 .. e
        PROVE  ~Patterns!Escaped(p, k)
    <2>1. k - 1 \in c .. e - 1 /\ k - 1 \in Nat \ {0} /\ (k - 1) + 1 = k
      BY <1>1, <1>2
    <2>2. p[k - 1] # "\\"
      BY <1>1, <2>1 DEF Patterns!IsWildcard
    <2> QED
      BY <2>1, <2>2, EscapedIs
  <1>4. ASSUME NEW k \in c .. e - 1
        PROVE  Patterns!WildcardAt(p, k)
    <2>1. Patterns!IsWildcard(p[k])
      BY <1>1
    <2>2. CASE k = c
      <3>1. ~Patterns!Escaped(p, k)
        BY <2>2, EscapedIs DEF StartsRun, Patterns!WildcardAt
      <3> QED
        BY <2>1, <3>1 DEF Patterns!WildcardAt
    <2>3. CASE k # c
      <3>1. k \in c + 1 .. e
        BY <1>1, <1>2, <2>3
      <3> QED
        BY <1>3, <2>1, <3>1 DEF Patterns!WildcardAt
    <2> QED
      BY <2>2, <2>3
  <1>5. e = c => c = 1
    BY <1>1 DEF StartsRun, Patterns!WildcardAt
  <1>6. e <= Len(p) => ~Patterns!Escaped(p, e)
    <2>1. CASE e = c
      BY <1>5, <2>1, EscapedIs
    <2>2. CASE e # c
      <3>1. e \in c + 1 .. e
        BY <1>1, <1>2, <2>2
      <3> QED
        BY <1>3, <3>1
    <2> QED
      BY <2>1, <2>2
  <1>7. e = 1 \/ Patterns!WildcardAt(p, e - 1)
    <2>1. CASE e = c
      BY <1>5, <2>1
    <2>2. CASE e # c
      <3>1. e - 1 \in c .. e - 1
        BY <1>1, <1>2, <2>2
      <3> QED
        BY <1>4, <3>1
    <2> QED
      BY <2>1, <2>2
  <1>8. Begins(p, e)
    <2>1. e \in 1 .. Len(p) + 1
      BY <1>1, <1>2
    <2> QED
      BY <1>1, <1>6, <1>7, <2>1 DEF Begins
  <1>9. e = 1 => w.distance = 0
    <2>1. SUFFICES ASSUME e = 1
                   PROVE  w.distance = 0
      OBVIOUS
    <2>2. c = 1
      BY <1>1, <1>2, <2>1
    <2> HIDE DEF e
    <2> QED
      BY <1>1, <2>1, <2>2
  <1>10. c > 1 => e > c
    <2> HIDE DEF e
    <2> QED
      BY <1>1, <1>2, <1>5
  <1> QED
    BY <1>1, <1>4, <1>8, <1>9, <1>10 DEF w

(* The wildcards lead to every place that their distance allows. *)
LEMMA RunReaches ==
  ASSUME NEW A, NEW s \in Seq(A), NEW p \in Seq(A), NEW r, Reached(r, p, s),
         NEW c \in 1 .. Len(p) + 1, StartsRun(p, c), NEW u \in r[c - 1]
  PROVE  LET w == Patterns!EatWildcards(p, c) IN Wide(r, s, w.pattern, u, w.distance)
  <1> DEFINE w == Patterns!EatWildcards(p, c)
             e == w.pattern
             n == e - c
             Star(j) == \E i \in c .. (c + j) - 1 : p[i] = "*"
             S == {j \in 0 .. n :
                     \A t \in u .. Len(s) + 1 : Star(j) \/ t <= u + j => t \in r[(c + j) - 1]}
  <1>1. /\ e \in c .. Len(p) + 1
        /\ \/ w.distance = -1 /\ \E i \in c .. e - 1 : p[i] = "*"
           \/ w.distance = e - c /\ \A i \in c .. e - 1 : p[i] # "*"
    BY EatIs
  <1>2. \A k \in c .. e - 1 : Patterns!WildcardAt(p, k)
    BY RunIs
  <1>3. /\ c \in 1 .. Len(p) + 1 /\ Len(p) \in Nat /\ Len(s) \in Nat
        /\ u \in 1 .. Len(s) + 1 /\ u \in r[c - 1]
    BY DEF Reached
  <1> HIDE DEF w
  <1>4. 0 \in S
    <2>1. ASSUME NEW t \in u .. Len(s) + 1, Star(0) \/ t <= u + 0
          PROVE  t \in r[(c + 0) - 1]
      <3>1. ~Star(0)
        BY <1>3
      <3>2. t = u /\ (c + 0) - 1 = c - 1
        BY <1>3, <2>1, <3>1
      <3> QED
        BY <3>2
    <2>2. 0 \in 0 .. n
      BY <1>1, <1>3
    <2> HIDE DEF n, Star
    <2> QED
      BY <2>1, <2>2
  <1>5. ASSUME NEW j \in 1 .. n, j - 1 \in S
        PROVE  j \in S
    <2> DEFINE i == (c + j) - 1
               h == j - 1
    <2>1. /\ i \in c .. e - 1 /\ i \in 1 .. Len(p) /\ j \in Nat /\ j >= 1 /\ h \in Nat /\ j = h + 1
          /\ (c + h) - 1 = i - 1
      BY <1>1, <1>3
    <2>2. \A t \in u .. Len(s) + 1 : Star(h) \/ t <= u + h => t \in r[i - 1]
      <3> HIDE DEF n, Star, i, h
      <3>1. \A t \in u .. Len(s) + 1 : Star(h) \/ t <= u + h => t \in r[(c + h) - 1]
        BY <1>5 DEF h
      <3> QED
        BY <2>1, <3>1
    <2>3. Star(j) => Star(h) \/ p[i] = "*"
      <3>1. SUFFICES ASSUME NEW k \in c .. (c + j) - 1, p[k] = "*"
                     PROVE  Star(h) \/ p[i] = "*"
        OBVIOUS
      <3>2. k = i \/ k \in c .. (c + h) - 1
        BY <1>3, <2>1
      <3> QED
        BY <3>1, <3>2
    <2>4. Patterns!WildcardAt(p, i) /\ ~Patterns!EscapeAt(p, i) /\ p[i] \in {"*", "?"}
      BY <1>2, <2>1 DEF Patterns!WildcardAt, Patterns!EscapeAt, Patterns!IsWildcard
    <2> HIDE DEF i, h, n, Star
    <2>5. ASSUME NEW v \in 1 .. Len(s) + 1, NEW t \in 1 .. Len(s) + 1, v \in r[i - 1],
                 v <= t, p[i] = "?" => t <= v + 1
          PROVE  t \in r[i]
      <3>1. Patterns!Stands(p, i, s, v, t)
        BY <2>4, <2>5 DEF Patterns!Stands
      <3> QED
        BY <2>1, <2>5, <3>1 DEF Reached
    <2>6. ASSUME NEW t \in u .. Len(s) + 1, Star(j) \/ t <= u + j
          PROVE  t \in r[i]
      <3>1. u \in u .. Len(s) + 1 /\ u <= u + h /\ t \in 1 .. Len(s) + 1
        BY <1>3, <2>1
      <3>2. u \in r[i - 1]
        BY <2>2, <3>1
      <3>3. CASE p[i] = "*"
        <4>1. u <= t /\ p[i] # "?"
          BY <1>3, <3>3
        <4> QED
          BY <1>3, <2>5, <3>1, <3>2, <4>1
      <3>4. CASE Star(h) \/ t <= u + h
        <4>1. t \in r[i - 1] /\ t <= t /\ t <= t + 1
          BY <2>2, <3>1, <3>4
        <4> QED
          BY <2>5, <3>1, <4>1
      <3>5. CASE p[i] # "*" /\ ~(Star(h) \/ t <= u + h)
        <4>1. ~Star(j)
          BY <2>3, <3>5
        <4>2. t = u + j
          BY <1>3, <2>1, <2>6, <3>5, <4>1
        <4>3. t - 1 \in u .. Len(s) + 1 /\ t - 1 <= u + h /\ t - 1 \in 1 .. Len(s) + 1
              /\ t - 1 <= t /\ t <= (t - 1) + 1
          BY <1>3, <2>1, <3>1, <4>2
        <4>4. t - 1 \in r[i - 1]
          BY <2>2, <4>3
        <4> QED
          BY <2>5, <3>1, <4>3, <4>4
      <3> QED
        BY <3>3, <3>4, <3>5
    <2>7. j \in 0 .. n
      BY <1>5
    <2> QED
      BY <2>6, <2>7 DEF i
  <1>6. n \in Nat /\ (c + n) - 1 = e - 1 /\ n \in 0 .. n
    BY <1>1, <1>3, SMTT(60)
  <1>7. n \in S
    <2>1. \A j \in 0 .. n : j \in S
      <3> HIDE DEF S, n
      <3> QED BY <1>4, <1>5, <1>6, UpTo
    <2> QED
      BY <1>6, <2>1
  <1>8. \A t \in u .. Len(s) + 1 : (\E i \in c .. e - 1 : p[i] = "*") \/ t <= u + n => t \in r[e - 1]
    <2>1. \A t \in u .. Len(s) + 1 : Star(n) \/ t <= u + n => t \in r[(c + n) - 1]
      <3> HIDE DEF n, Star
      <3> QED BY <1>7
    <2>2. (c + n) - 1 = e - 1
      BY <1>6
    <2> QED
      BY <2>1, <2>2
  <1>9. ASSUME NEW t \in u .. Len(s) + 1, w.distance < 0 \/ t <= u + w.distance
        PROVE  t \in r[e - 1]
    <2>1. CASE \E i \in c .. e - 1 : p[i] = "*"
      BY <1>8, <2>1
    <2>2. CASE w.distance = e - c
      <3>1. t <= u + n
        BY <1>1, <1>3, <1>9, <2>2
      <3> QED
        BY <1>8, <3>1
    <2> QED
      BY <1>1, <2>1, <2>2
  <1> QED
    BY <1>9 DEF Wide, w

LEMMA SoundStart ==
  ASSUME NEW A, NEW s \in Seq(A), NEW p \in Seq(A), NEW r, Reached(r, p, s),
         NEW at \in Places(s, p), StartsRun(p, at.pattern), at.string \in r[at.pattern - 1],
         NEW e, e = Patterns!EatWildcards(p, at.pattern).pattern
  PROVE  Begins(p, e) /\ e \in at.pattern .. Len(p) + 1 /\ Sane(r, p, s, e, SearchFrom(p, at))
  <1> DEFINE c == at.pattern
             u == at.string
             w == Patterns!EatWildcards(p, c)
             d == w.distance
             x == SearchFrom(p, at)
  <1>1. Started(s, p, at, x, w)
    BY SearchFromIs, Zenon
  <1>2. /\ x.pattern_start = e /\ x.pattern = e /\ x.string_start = u /\ x.string = u
        /\ x.escape = FALSE /\ x.maximum_distance = d
        /\ c \in 1 .. Len(p) + 1 /\ u \in 1 .. Len(s) + 1
    BY <1>1 DEF Started
  <1>3. /\ Begins(p, e) /\ e \in c .. Len(p) + 1 /\ (e = 1 => d = 0)
    BY <1>2, RunIs
  <1>4. Wide(r, s, e, u, d)
    BY <1>2, RunReaches
  <1>5. d = -1 \/ d = e - c
    BY <1>2, EatIs
  <1> HIDE DEF x, d, w
  <1>6. u \in r[e - 1]
    <2>1. u \in u .. Len(s) + 1 /\ (d < 0 \/ u <= u + d)
      BY <1>2, <1>3, <1>5
    <2> QED
      BY <1>4, <2>1 DEF Wide
  <1>7. Placed(r, p, e, u)
    BY <1>6 DEF Placed
  <1>8. NoWildcards(p, e, e)
    BY <1>2, <1>3 DEF NoWildcards
  <1>9. Flagged(p, e, e, FALSE)
    BY <1>3 DEF Flagged, Begins
  <1>10. Sane(r, p, s, e, x)
    BY <1>2, <1>3, <1>4, <1>7, <1>8, <1>9 DEF Sane
  <1> QED
    BY <1>3, <1>10 DEF x

LEMMA MatchSound ==
  ASSUME NEW A, NEW s \in Seq(A), NEW p \in Seq(A), ~Patterns!RestartsEscaped(p),
         Patterns!MatchPattern(s, p)
  PROVE  Patterns!Means(p, s) \/ (Patterns!DanglingEscape(p) /\ Patterns!Means(Front(p), s))
  <1>1. PICK f, g : /\ Searched(f, s, p) /\ Matched(g, f, s, p)
                    /\ Patterns!MatchPattern(s, p) = g[Place2(1, 1)]
                    /\ \A at \in Places(s, p) : g[at] \in BOOLEAN
    BY MatchIs
  <1>2. PICK r : Reached(r, p, s)
    BY ReachedIs
  <1> DEFINE n == Len(p)
             m == n + 1
             OnWay(at) == /\ StartsRun(p, at.pattern) /\ at.string \in r[at.pattern - 1] /\ g[at]
             S == {k \in 0 .. m :
                     \A at \in Places(s, p) : at.pattern > m - k /\ OnWay(at) => Accepts(r, p, s)}
  <1>3. n \in Nat /\ Len(s) \in Nat /\ m \in Nat
    OBVIOUS
  <1>4. \A at \in Places(s, p) : at.pattern \in 1 .. m /\ at.string \in 1 .. Len(s) + 1
    BY DEF Places, Patterns!Cursors
  <1>5. 0 \in S
    <2>1. \A at \in Places(s, p) : ~(at.pattern > m - 0)
      BY <1>3, <1>4
    <2>2. 0 \in 0 .. m
      BY <1>3
    <2> QED
      BY <2>1, <2>2
  <1>6. ASSUME NEW k \in 1 .. m, k - 1 \in S
        PROVE  k \in S
    <2>1. ASSUME NEW at \in Places(s, p), at.pattern > m - k, OnWay(at)
          PROVE  Accepts(r, p, s)
      <3> DEFINE x == SearchFrom(p, at)
                 y == f[x]
                 e == Patterns!EatWildcards(p, at.pattern).pattern
                 b == Place2(y.pattern, y.string)
      <3>1. Begins(p, e) /\ e \in at.pattern .. Len(p) + 1 /\ Sane(r, p, s, e, x)
        BY <1>2, <2>1, SoundStart
      <3>2. x \in Patterns!Searches(s, p)
        BY SearchFromIs, Zenon DEF Started
      <3> HIDE DEF e, x
      <3>3. SoundResult(r, p, s, e, y)
        BY <1>1, <1>2, <3>1, <3>2, SoundSearch
      <3>4. y.found /\ (y.pattern <= Len(p) => g[b])
        BY <1>1, <2>1 DEF Matched, x
      <3>5. y.pattern \in 1 .. Len(p) + 1 /\ y.string \in 1 .. Len(s) + 1
        <4>1. y.found => y.pattern \in at.pattern + 1 .. Len(p) + 1 \cup {Len(p) + 1} /\ y.string \in 1 .. Len(s) + 1
          BY <1>1, FoundBehind DEF x
        <4> HIDE DEF y
        <4> QED
          BY <1>3, <1>4, <3>4, <4>1
      <3> HIDE DEF y
      <3>6. CASE y.pattern > Len(p)
        BY <3>3, <3>4, <3>6 DEF SoundResult
      <3>7. CASE y.pattern <= Len(p)
        <4>1. y.pattern > e /\ Patterns!WildcardAt(p, y.pattern) /\ y.string \in r[y.pattern - 1]
          BY <1>3, <3>3, <3>4, <3>5, <3>7 DEF SoundResult
        <4>2. b \in Places(s, p) /\ b.pattern = y.pattern /\ b.string = y.string
          BY <3>5 DEF Place2, Places, Patterns!Cursors
        <4> HIDE DEF b
        <4>3. OnWay(b)
          BY <3>4, <3>7, <4>1, <4>2 DEF StartsRun
        <4>4. b.pattern > m - (k - 1)
          BY <1>3, <1>4, <2>1, <3>1, <4>1, <4>2, <3>5
        <4> HIDE DEF OnWay, m
        <4> QED
          BY <1>6, <4>2, <4>3, <4>4
      <3> QED
        BY <1>3, <3>5, <3>6, <3>7
    <2>2. k \in 0 .. m
      BY <1>6
    <2> QED
      BY <2>1, <2>2
  <1>7. m \in S
    <2>1. m \in 0 .. m
      BY <1>3
    <2>2. \A k \in 0 .. m : k \in S
      <3> HIDE DEF S, m
      <3> QED BY <1>3, <1>5, <1>6, UpTo
    <2> QED
      BY <2>1, <2>2
  <1>8. Accepts(r, p, s)
    <2> DEFINE b == Place2(1, 1)
    <2>1. b \in Places(s, p) /\ b.pattern = 1 /\ b.string = 1
      BY <1>3 DEF Place2, Places, Patterns!Cursors
    <2>2. g[b] /\ r[0] = {1} /\ 1 - 1 = 0
      <3>1. g[b]
        BY <1>1
      <3>2. r[0] = {1}
        BY <1>2 DEF Reached
      <3> HIDE DEF b
      <3> QED
        BY <3>1, <3>2
    <2> HIDE DEF b
    <2>3. OnWay(b)
      BY <2>1, <2>2 DEF StartsRun
    <2>4. b.pattern > m - m
      BY <1>3, <2>1
    <2> HIDE DEF OnWay
    <2> QED
      BY <1>7, <2>1, <2>3, <2>4
  <1>9. \/ Len(s) + 1 \in r[n]
        \/ Patterns!DanglingEscape(p) /\ Len(s) + 1 \in r[n - 1]
    <2>1. (Len(p) + 1) - 1 = n
      BY <1>3
    <2> QED
      BY <1>8, <2>1 DEF Accepts, Placed
  <1>10. CASE Len(s) + 1 \in r[n]
    BY <1>2, <1>10 DEF Reached
  <1>11. CASE Patterns!DanglingEscape(p) /\ Len(s) + 1 \in r[n - 1]
    BY <1>2, <1>11, FrontMeans
  <1> QED
    BY <1>9, <1>10, <1>11

-----------------------------------------------------------------------------
(* What is meant is found.                                                 *)

(* A text between wildcards. *)
TextIn(p, e, q) ==
  /\ Begins(p, e) /\ q \in e .. Len(p) + 1 /\ NoWildcards(p, e, q)
  /\ q <= Len(p) => Patterns!WildcardAt(p, q)

(* A search for the text that is in the middle of it, or in front of where *)
(* a match has it, and will come there.                                    *)
KeepsUp(way, p, e, q, exact, x) ==
  /\ x.pattern_start = e /\ x.pattern <= q
  /\ x.string_start <= way[e - 1] /\ (exact => x.string_start = way[e - 1])
  /\ x.string - x.string_start = way[x.pattern - 1] - way[e - 1]
  /\ x.escape <=> (x.pattern <= Len(p) /\ Patterns!Escaped(p, x.pattern))
  /\ x.maximum_distance < 0 \/ x.string_start + x.maximum_distance >= way[e - 1]

LEMMA WayTyped ==
  ASSUME NEW A, NEW s \in Seq(A), NEW p \in Seq(A), NEW way, Way(way, p, s, Len(p)),
         NEW i \in 0 .. Len(p)
  PROVE  way[i] \in 1 .. Len(s) + 1
  BY DEF Way

(* Where a search is that follows the match. *)
LEMMA KeptUpAt ==
  ASSUME NEW A, NEW s \in Seq(A), NEW p \in Seq(A), ~Patterns!DanglingEscape(p),
         NEW way, Way(way, p, s, Len(p)), NEW e, NEW q, TextIn(p, e, q), NEW exact,
         NEW x \in Patterns!Searches(s, p), KeepsUp(way, p, e, q, exact, x), ~Arrives(s, p, x)
  PROVE  LET i == x.pattern IN
         \/ /\ AtEscape(p, x) /\ ~Agrees(s, p, x) /\ i < q /\ i < Len(p)
            /\ way[i] = way[i - 1] /\ Patterns!Escaped(p, i + 1)
         \/ /\ ~AtEscape(p, x) /\ ~AtWildcard(p, x) /\ ~AtEnd(p, x) /\ i < q
            /\ way[i] = way[i - 1] + 1 /\ way[i - 1] <= Len(s)
            /\ s[way[i - 1]] = p[i] /\ p[i] # Patterns!CBU_SENTINEL
            /\ ~Patterns!Escaped(p, i + 1)
         \/ AtEnd(p, x) /\ q = Len(p) + 1
  <1> DEFINE i == x.pattern
             n == Len(p)
  <1>1. /\ i \in 1 .. n + 1 /\ x.pattern_start = e /\ e <= i /\ i <= q /\ x.escape \in BOOLEAN
        /\ n \in Nat /\ Len(s) \in Nat /\ e \in 1 .. n + 1 /\ q \in e .. n + 1
        /\ x.escape <=> (i <= n /\ Patterns!Escaped(p, i))
    BY SearchTyped DEF KeepsUp, TextIn, Begins
  <1>2. CASE i = n + 1
    BY <1>1, <1>2 DEF AtEnd
  <1>3. CASE i \in 1 .. n
    <2>1. ~AtEnd(p, x) /\ (x.escape <=> Patterns!Escaped(p, i)) /\ i \in Nat \ {0} /\ i <= n
      BY <1>1, <1>3 DEF AtEnd
    <2>2. ~AtWildcard(p, x)
      BY DEF Arrives
    <2>3. ~Patterns!WildcardAt(p, i)
      BY <2>1, <2>2 DEF AtWildcard, Patterns!WildcardAt
    <2>4. i # q
      BY <2>1, <2>3 DEF TextIn
    <2>5. i < q
      BY <1>1, <2>4
    <2>6. AtEscape(p, x) => i < n
      <3>1. AtEscape(p, x) => p[i] = "\\" /\ ~Patterns!Escaped(p, i)
        BY <2>1 DEF AtEscape
      <3>2. i = n => ~(p[i] = "\\" /\ ~Patterns!Escaped(p, i))
        BY <1>1, <1>3, SMTT(60) DEF Patterns!DanglingEscape
      <3> QED
        BY <1>1, <1>3, <3>1, <3>2
    <2>7. AtEscape(p, x) <=> Patterns!EscapeAt(p, i)
      BY <2>1, <2>6 DEF AtEscape, Patterns!EscapeAt
    <2>8. Patterns!Stands(p, i, s, way[i - 1], way[i])
      BY <1>3 DEF Way
    <2>9. Patterns!Escaped(p, i + 1) <=> p[i] = "\\" /\ ~Patterns!Escaped(p, i)
      BY <2>1, EscapedIs
    <2>10. Patterns!Escaped(p, i + 1) <=> AtEscape(p, x)
      BY <2>1, <2>9 DEF AtEscape
    <2>11. CASE AtEscape(p, x)
      <3>1. way[i] = way[i - 1]
        BY <2>7, <2>8, <2>11 DEF Patterns!Stands
      <3> QED
        BY <2>5, <2>6, <2>10, <2>11, <3>1 DEF Agrees
    <2>12. CASE ~AtEscape(p, x)
      <3>1. /\ way[i] = way[i - 1] + 1 /\ way[i - 1] <= Len(s)
            /\ s[way[i - 1]] = p[i] /\ s[way[i - 1]] # Patterns!CBU_SENTINEL
        BY <2>3, <2>7, <2>8, <2>12 DEF Patterns!Stands
      <3> QED
        BY <2>1, <2>2, <2>5, <2>10, <2>12, <3>1
    <2> QED
      BY <2>11, <2>12
  <1> QED
    BY <1>1, <1>2, <1>3

LEMMA RoundKeepsUp ==
  ASSUME NEW A, NEW s \in Seq(A), NEW p \in Seq(A), ~Patterns!DanglingEscape(p),
         NEW way, Way(way, p, s, Len(p)), way[Len(p)] = Len(s) + 1,
         NEW e, NEW q, TextIn(p, e, q), NEW exact \in BOOLEAN,
         NEW x \in Patterns!Searches(s, p), KeepsUp(way, p, e, q, exact, x), ~Arrives(s, p, x)
  PROVE  ~GivesUp(s, p, x) /\ KeepsUp(way, p, e, q, exact, Onward(s, p, x))
  <1> DEFINE i == x.pattern
             n == Len(p)
             b == x.string_start
             d == x.maximum_distance
             t == x.string
             a == way[e - 1]
             h == way[i - 1]
             y == Onward(s, p, x)
  <1>1. /\ i \in 1 .. n + 1 /\ x.pattern_start = e /\ e <= i /\ i <= q /\ x.escape \in BOOLEAN
        /\ n \in Nat /\ Len(s) \in Nat /\ e \in 1 .. n + 1 /\ q \in e .. n + 1
        /\ b \in 1 .. Len(s) + 1 /\ t \in 1 .. Len(s) + 1 /\ d \in Int
    BY SearchTyped DEF KeepsUp, TextIn, Begins
  <1>2. /\ b <= a /\ (exact => b = a) /\ t - b = h - a /\ (d < 0 \/ b + d >= a)
        /\ x.escape <=> (i <= n /\ Patterns!Escaped(p, i))
    BY DEF KeepsUp
  <1>3. a \in 1 .. Len(s) + 1 /\ h \in 1 .. Len(s) + 1
    <2>1. e - 1 \in 0 .. n /\ i - 1 \in 0 .. n
      BY <1>1, SMTT(60)
    <2> QED
      BY <2>1, WayTyped
  <1>4. b = a => t = h
    <2> HIDE DEF a, b, d, t, h, i, n
    <2> QED BY <1>1, <1>2, <1>3
  <1>5. t <= h
    <2> HIDE DEF a, b, d, t, h, i, n
    <2> QED BY <1>1, <1>2, <1>3
  <1>6. \/ /\ AtEscape(p, x) /\ ~Agrees(s, p, x) /\ i < q /\ i < n
           /\ way[i] = h /\ Patterns!Escaped(p, i + 1)
        \/ /\ ~AtEscape(p, x) /\ ~AtWildcard(p, x) /\ ~AtEnd(p, x) /\ i < q
           /\ way[i] = h + 1 /\ h <= Len(s)
           /\ s[h] = p[i] /\ p[i] # Patterns!CBU_SENTINEL
           /\ ~Patterns!Escaped(p, i + 1)
        \/ AtEnd(p, x) /\ q = n + 1
    BY KeptUpAt
  <1>7. Differs(s, p, x) => b # a
    <2>1. SUFFICES ASSUME Differs(s, p, x), b = a
                   PROVE  FALSE
      OBVIOUS
    <2>2. t = h /\ ~AtEscape(p, x) /\ ~Agrees(s, p, x)
      BY <1>4, <2>1 DEF Differs
    <2>3. CASE AtEnd(p, x)
      <3>1. i - 1 = n
        BY <1>1, <2>3 DEF AtEnd
      <3>2. t = Len(s) + 1
        BY <2>2, <3>1
      <3> QED
        BY <1>1, <2>3, <3>2 DEF Arrives, OutOfString
    <2>4. CASE ~AtEnd(p, x)
      <3>1. /\ ~AtWildcard(p, x) /\ t <= Len(s) /\ s[t] = p[i] /\ p[i] # Patterns!CBU_SENTINEL
        BY <1>6, <2>2, <2>4
      <3>2. ~OutOfString(s, x)
        BY <1>1, <3>1 DEF OutOfString
      <3> QED
        BY <2>2, <2>4, <3>1, <3>2 DEF Agrees
    <2> QED
      BY <2>3, <2>4
  <1>8. ~GivesUp(s, p, x)
    <2>1. SUFFICES ASSUME Differs(s, p, x), (~AtEnd(p, x) /\ OutOfString(s, x)) \/ d = 0
                   PROVE  FALSE
      BY DEF GivesUp
    <2>2. b # a /\ ~AtEscape(p, x)
      BY <1>7, <2>1 DEF Differs
    <2>3. d # 0
      <3>1. b # a
        BY <2>2
      <3> HIDE DEF a, b, d, t, h, i, n
      <3> QED BY <1>1, <1>2, <1>3, <3>1
    <2>4. ~AtEnd(p, x) => h <= Len(s)
      BY <1>6, <2>2
    <2> QED
      BY <1>1, <1>3, <1>5, <2>1, <2>3, <2>4 DEF OutOfString
  <1>9. \/ /\ AtEscape(p, x) /\ i <= n
           /\ Goes(y, x.pattern_start, b, i + 1, t, TRUE, d)
        \/ /\ Agrees(s, p, x) /\ ~AtEscape(p, x) /\ i <= n /\ t <= Len(s)
           /\ Goes(y, x.pattern_start, b, i + 1, t + 1, FALSE, d)
        \/ /\ Differs(s, p, x) /\ t <= Len(s) /\ d # 0
           /\ Restarted(p, x, y)
    BY <1>8, OnwardIs
  <1> HIDE DEF y
  <1>10. CASE AtEscape(p, x) /\ Goes(y, x.pattern_start, b, i + 1, t, TRUE, d)
    <2>1. /\ y.pattern_start = e /\ y.string_start = b /\ y.pattern = i + 1
          /\ y.string = t /\ y.escape = TRUE /\ y.maximum_distance = d
      BY <1>1, <1>10 DEF Goes
    <2>2. ~AtEnd(p, x)
      BY <1>10 DEF AtEscape
    <2>3. i < q /\ i < n /\ way[i] = h /\ Patterns!Escaped(p, i + 1)
      BY <1>6, <1>10, <2>2
    <2>4. i + 1 <= q /\ (i + 1) - 1 = i /\ i + 1 <= n
      BY <1>1, <2>3, SMTT(60)
    <2>5. way[y.pattern - 1] = h /\ y.string - y.string_start = h - a
      BY <1>2, <2>1, <2>3, <2>4
    <2>6. y.escape <=> (y.pattern <= Len(p) /\ Patterns!Escaped(p, y.pattern))
      BY <2>1, <2>3, <2>4
    <2> QED
      BY <1>2, <1>8, <2>1, <2>4, <2>5, <2>6 DEF KeepsUp, y
  <1>11. CASE /\ Agrees(s, p, x) /\ ~AtEscape(p, x)
              /\ Goes(y, x.pattern_start, b, i + 1, t + 1, FALSE, d)
    <2>1. /\ y.pattern_start = e /\ y.string_start = b /\ y.pattern = i + 1
          /\ y.string = t + 1 /\ y.escape = FALSE /\ y.maximum_distance = d
      BY <1>1, <1>11 DEF Goes
    <2>2. ~AtEnd(p, x)
      BY <1>11 DEF Agrees
    <2>3. i < q /\ way[i] = h + 1 /\ ~Patterns!Escaped(p, i + 1)
      BY <1>6, <1>11, <2>2
    <2>4. i + 1 <= q /\ (i + 1) - 1 = i /\ (t + 1) - b = (h + 1) - a
      <3>1. i < q /\ t - b = h - a
        BY <1>2, <2>3
      <3> HIDE DEF a, b, d, t, h, i, n
      <3> QED BY <1>1, <1>3, <3>1
    <2>5. way[y.pattern - 1] = h + 1
      BY <2>1, <2>3, <2>4
    <2>6. y.string - y.string_start = way[y.pattern - 1] - a
      BY <2>1, <2>4, <2>5
    <2>7. y.escape <=> (y.pattern <= Len(p) /\ Patterns!Escaped(p, y.pattern))
      BY <2>1, <2>3
    <2>8. /\ y.pattern_start = e /\ y.pattern <= q
          /\ y.string_start <= a /\ (exact => y.string_start = a)
          /\ y.maximum_distance < 0 \/ y.string_start + y.maximum_distance >= a
      BY <1>2, <2>1, <2>4
    <2> QED
      BY <1>8, <2>6, <2>7, <2>8 DEF KeepsUp, y
  <1>12. CASE Differs(s, p, x) /\ d # 0 /\ Restarted(p, x, y)
    <2>1. /\ y.pattern_start = e /\ y.string_start = b + 1 /\ y.pattern = e
          /\ y.string = b + 1 /\ y.escape = (AtEnd(p, x) /\ x.escape) /\ y.maximum_distance = d - 1
      BY <1>1, <1>12 DEF Restarted, Goes
    <2>2. b < a /\ ~exact
      <3>1. b # a
        BY <1>7, <1>12
      <3> HIDE DEF a, b, d, t, h, i, n
      <3> QED BY <1>1, <1>2, <1>3, <3>1
    <2>3. y.escape = FALSE
      <3>1. AtEnd(p, x) => x.escape = FALSE
        BY <1>1, <1>2 DEF AtEnd
      <3> QED
        BY <2>1, <3>1
    <2>4. e <= Len(p) => ~Patterns!Escaped(p, e)
      BY DEF TextIn, Begins
    <2>5. e <= q /\ b + 1 <= a /\ (b + 1) - (b + 1) = a - a /\ (d - 1 < 0 \/ (b + 1) + (d - 1) >= a)
      <3>1. d < 0 \/ b + d >= a
        BY <1>2
      <3> HIDE DEF a, b, d, t, h, i, n
      <3> QED BY <1>1, <1>3, <2>2, <3>1
    <2>6. y.string - y.string_start = way[y.pattern - 1] - a
      BY <2>1, <2>5
    <2>7. y.escape <=> (y.pattern <= Len(p) /\ Patterns!Escaped(p, y.pattern))
      BY <2>1, <2>3, <2>4
    <2>8. /\ y.pattern_start = e /\ y.pattern <= q
          /\ y.string_start <= a /\ (exact => y.string_start = a)
          /\ y.maximum_distance < 0 \/ y.string_start + y.maximum_distance >= a
      BY <2>1, <2>2, <2>5
    <2> QED
      BY <1>8, <2>6, <2>7, <2>8 DEF KeepsUp, y
  <1> QED
    BY <1>8, <1>9, <1>10, <1>11, <1>12 DEF y

(* What a search that follows the match finds. *)
MeantResult(way, q, exact, y) ==
  y.found /\ y.pattern = q /\ y.string <= way[q - 1] /\ (exact => y.string = way[q - 1])

LEMMA SearchKeepsUp ==
  ASSUME NEW A, NEW s \in Seq(A), NEW p \in Seq(A), ~Patterns!DanglingEscape(p),
         NEW way, Way(way, p, s, Len(p)), way[Len(p)] = Len(s) + 1,
         NEW e, NEW q, TextIn(p, e, q), NEW exact \in BOOLEAN,
         NEW f, Searched(f, s, p),
         NEW x \in Patterns!Searches(s, p), KeepsUp(way, p, e, q, exact, x)
  PROVE  MeantResult(way, q, exact, f[x])
  <1> DEFINE I == {y \in Patterns!Searches(s, p) : KeepsUp(way, p, e, q, exact, y)}
             R == {y \in SearchResults(s, p) : MeantResult(way, q, exact, y)}
  <1>1. ASSUME NEW y \in I, Arrives(s, p, y)
        PROVE  Patterns!FoundAt(y) \in R
    <2> DEFINE z == Patterns!FoundAt(y)
               a == way[e - 1]
               b == y.string_start
               t == y.string
               i == y.pattern
               h == way[i - 1]
    <2>1. z \in SearchResults(s, p)
      BY DEF SearchResults
    <2>2. z.found /\ z.pattern = i /\ z.string = t
      BY ResultsAre
    <2>3. /\ i \in 1 .. Len(p) + 1 /\ t \in 1 .. Len(s) + 1 /\ Len(p) \in Nat
          /\ Len(s) \in Nat /\ y.pattern_start <= i /\ b \in 1 .. Len(s) + 1
      BY SearchTyped
    <2>4. /\ y.pattern_start = e /\ i <= q /\ b <= a /\ (exact => b = a) /\ t - b = h - a
          /\ y.escape <=> (i <= Len(p) /\ Patterns!Escaped(p, i))
      BY DEF KeepsUp
    <2>5. e \in 1 .. Len(p) + 1 /\ q \in e .. Len(p) + 1 /\ NoWildcards(p, e, q)
      BY DEF TextIn, Begins
    <2>6. a \in 1 .. Len(s) + 1 /\ h \in 1 .. Len(s) + 1
      <3>1. e - 1 \in 0 .. Len(p) /\ i - 1 \in 0 .. Len(p)
        BY <2>3, <2>5
      <3> QED
        BY <3>1, WayTyped
    <2>7. t <= h /\ (exact => t = h)
      <3> HIDE DEF a, b, t, i, h
      <3> QED BY <2>3, <2>4, <2>6
    <2>8. i = q
      <3>1. CASE AtWildcard(p, y)
        <4>1. i <= Len(p) /\ ~Patterns!Escaped(p, i) /\ Patterns!IsWildcard(p[i])
          BY <2>3, <2>4, <3>1 DEF AtWildcard, AtEnd
        <4>2. Patterns!WildcardAt(p, i)
          BY <4>1 DEF Patterns!WildcardAt
        <4>3. ~(i \in e .. q - 1)
          BY <2>5, <4>2 DEF NoWildcards
        <4> QED
          BY <2>3, <2>4, <2>5, <4>3
      <3>2. CASE AtEnd(p, y)
        BY <2>3, <2>4, <2>5, <3>2 DEF AtEnd
      <3> QED
        BY <1>1, <3>1, <3>2 DEF Arrives
    <2> HIDE DEF z, i, t
    <2>9. MeantResult(way, q, exact, z)
      BY <2>2, <2>7, <2>8 DEF MeantResult
    <2> QED
      BY <2>1, <2>9 DEF z
  <1>2. ASSUME NEW y \in I, ~Arrives(s, p, y)
        PROVE  ~GivesUp(s, p, y) /\ Onward(s, p, y) \in I
    <2>1. y \in Patterns!Searches(s, p) /\ KeepsUp(way, p, e, q, exact, y)
      OBVIOUS
    <2>2. ~GivesUp(s, p, y) /\ KeepsUp(way, p, e, q, exact, Onward(s, p, y))
      BY <1>2, <2>1, RoundKeepsUp
    <2>3. Onward(s, p, y) \in Patterns!Searches(s, p)
      BY <1>2, <2>1, <2>2, OnwardIs
    <2> QED
      BY <2>2, <2>3
  <1>3. x \in I /\ I \subseteq Patterns!Searches(s, p)
    OBVIOUS
  <1> HIDE DEF I, R
  <1>4. SearchKeeps(s, p, I, R)
    BY <1>1, <1>2, <1>3 DEF SearchKeeps
  <1>5. f[x] \in R
    BY <1>3, <1>4, SearchHolds
  <1> QED
    BY <1>5 DEF R

(* The match does not go further than the wildcards' distance. *)
LEMMA WayOverRun ==
  ASSUME NEW A, NEW s \in Seq(A), NEW p \in Seq(A), NEW way, Way(way, p, s, Len(p)),
         NEW c \in 1 .. Len(p) + 1, StartsRun(p, c)
  PROVE  LET w == Patterns!EatWildcards(p, c) IN
         /\ way[c - 1] <= way[w.pattern - 1]
         /\ w.distance = -1 \/ way[w.pattern - 1] <= way[c - 1] + w.distance
  <1> DEFINE w == Patterns!EatWildcards(p, c)
             e == w.pattern
             n == e - c
             S == {j \in 0 .. n : /\ way[c - 1] <= way[(c + j) - 1]
                                  /\ w.distance = -1 \/ way[(c + j) - 1] <= way[c - 1] + j}
  <1>1. /\ e \in c .. Len(p) + 1
        /\ w.distance = -1 \/ (w.distance = n /\ \A i \in c .. e - 1 : p[i] # "*")
    BY EatIs
  <1>2. \A k \in c .. e - 1 : Patterns!WildcardAt(p, k)
    BY RunIs
  <1>3. c \in 1 .. Len(p) + 1 /\ Len(p) \in Nat /\ Len(s) \in Nat
    OBVIOUS
  <1> HIDE DEF w
  <1>4. 0 \in S
    <2>1. (c + 0) - 1 = c - 1 /\ c - 1 \in 0 .. Len(p) /\ 0 \in 0 .. n
      BY <1>1, <1>3
    <2>2. way[c - 1] \in 1 .. Len(s) + 1
      BY <2>1, WayTyped
    <2>3. way[(c + 0) - 1] = way[c - 1]
      BY <2>1
    <2> DEFINE a == way[c - 1]
               v == way[(c + 0) - 1]
    <2>4. a \in Int /\ v = a
      BY <1>3, <2>2, <2>3
    <2> HIDE DEF a, v, n
    <2>5. a <= v /\ v <= a + 0
      BY <2>4
    <2> QED
      BY <2>1, <2>5 DEF a, v
  <1>5. ASSUME NEW j \in 1 .. n, j - 1 \in S
        PROVE  j \in S
    <2> DEFINE i == (c + j) - 1
               h == j - 1
               a == way[c - 1]
               u == way[i - 1]
               v == way[i]
    <2>1. /\ i \in c .. e - 1 /\ i \in 1 .. Len(p) /\ j \in Nat /\ j >= 1
          /\ (c + h) - 1 = i - 1 /\ c - 1 \in 0 .. Len(p) /\ i \in 0 .. Len(p) /\ i - 1 \in 0 .. Len(p)
          /\ j \in 0 .. n
      BY <1>1, <1>3
    <2>2. a \in 1 .. Len(s) + 1 /\ u \in 1 .. Len(s) + 1 /\ v \in 1 .. Len(s) + 1
      BY <2>1, WayTyped
    <2>3. a <= u /\ (w.distance = -1 \/ u <= a + h)
      <3>1. way[c - 1] <= way[(c + h) - 1] /\ (w.distance = -1 \/ way[(c + h) - 1] <= way[c - 1] + h)
        BY <1>5
      <3> QED
        BY <2>1, <3>1
    <2>4. Patterns!WildcardAt(p, i) /\ ~Patterns!EscapeAt(p, i) /\ p[i] \in {"*", "?"}
      BY <1>2, <2>1 DEF Patterns!WildcardAt, Patterns!EscapeAt, Patterns!IsWildcard
    <2>5. Patterns!Stands(p, i, s, u, v)
      BY <2>1 DEF Way
    <2>6. u <= v /\ (p[i] = "?" => v <= u + 1)
      BY <2>4, <2>5 DEF Patterns!Stands
    <2>7. w.distance = -1 \/ p[i] = "?"
      BY <1>1, <2>1, <2>4
    <2> HIDE DEF a, u, v, i, n
    <2>8. a <= v /\ (w.distance = -1 \/ v <= a + j)
      BY <1>3, <2>1, <2>2, <2>3, <2>6, <2>7
    <2> QED
      BY <2>1, <2>8 DEF a, v, i
  <1>6. n \in Nat /\ (c + n) - 1 = e - 1 /\ n \in 0 .. n
    BY <1>1, <1>3
  <1>7. n \in S
    <2>1. \A j \in 0 .. n : j \in S
      <3> HIDE DEF S, n
      <3> QED BY <1>4, <1>5, <1>6, UpTo
    <2> QED
      BY <1>6, <2>1
  <1>8. way[c - 1] <= way[e - 1] /\ (w.distance = -1 \/ way[e - 1] <= way[c - 1] + n)
    <2>1. way[c - 1] <= way[(c + n) - 1] /\ (w.distance = -1 \/ way[(c + n) - 1] <= way[c - 1] + n)
      <3> HIDE DEF n
      <3> QED BY <1>7
    <2> QED
      BY <1>6, <2>1
  <1>9. w.distance = -1 \/ way[e - 1] <= way[c - 1] + w.distance
    <2> HIDE DEF n
    <2> QED BY <1>1, <1>8
  <1> QED
    BY <1>8, <1>9 DEF w

(* Every text ends. *)
LEMMA TextEnds ==
  ASSUME NEW A, NEW p \in Seq(A), NEW e, Begins(p, e)
  PROVE  \E q : TextIn(p, e, q)
  <1> DEFINE Stops == {k \in e .. Len(p) + 1 : k <= Len(p) => Patterns!WildcardAt(p, k)}
  <1>1. e \in 1 .. Len(p) + 1 /\ Len(p) \in Nat
    BY DEF Begins
  <1>2. Len(p) + 1 \in Stops /\ Stops \subseteq Nat
    BY <1>1
  <1>3. PICK q \in Stops : \A k \in Stops : q <= k
    <2> HIDE DEF Stops
    <2> QED BY <1>2, LeastNumber
  <1>4. q \in e .. Len(p) + 1 /\ (q <= Len(p) => Patterns!WildcardAt(p, q))
    BY <1>3
  <1>5. NoWildcards(p, e, q)
    <2>1. SUFFICES ASSUME NEW k \in e .. q - 1, Patterns!WildcardAt(p, k)
                   PROVE  FALSE
      BY DEF NoWildcards
    <2>2. k \in e .. Len(p) + 1 /\ ~(q <= k)
      BY <1>1, <1>4
    <2>3. k \in Stops
      BY <2>1, <2>2
    <2> QED
      BY <1>3, <2>2, <2>3
  <1> QED
    BY <1>4, <1>5 DEF TextIn

(* A place from which the search comes to the match's. *)
Promising(way, p, c) ==
  /\ StartsRun(p, c.pattern) /\ c.string <= way[c.pattern - 1]
  /\ c.string = way[c.pattern - 1] \/ Patterns!EatWildcards(p, c.pattern).distance = -1

LEMMA PromiseKept ==
  ASSUME NEW A, NEW s \in Seq(A), NEW p \in Seq(A), ~Patterns!DanglingEscape(p),
         ~Patterns!NeedsBacktracking(p),
         NEW way, Way(way, p, s, Len(p)), way[Len(p)] = Len(s) + 1,
         NEW f, Searched(f, s, p), NEW c \in Places(s, p), Promising(way, p, c)
  PROVE  LET y == f[SearchFrom(p, c)] IN
         /\ y.found /\ y.pattern \in c.pattern .. Len(p) + 1 /\ y.string \in 1 .. Len(s) + 1
         /\ y.pattern <= Len(p) => /\ y.pattern > c.pattern
                                   /\ Promising(way, p, Place2(y.pattern, y.string))
  <1> DEFINE x == SearchFrom(p, c)
             w == Patterns!EatWildcards(p, c.pattern)
             e == w.pattern
             d == w.distance
             b == c.string
             v == way[c.pattern - 1]
             a == way[e - 1]
             y == f[x]
  <1>1. Started(s, p, c, x, w)
    BY SearchFromIs, Zenon
  <1>2. /\ x \in Patterns!Searches(s, p)
        /\ x.pattern_start = e /\ x.pattern = e /\ x.string_start = b /\ x.string = b
        /\ x.escape = FALSE /\ x.maximum_distance = d
        /\ c.pattern \in 1 .. Len(p) + 1 /\ b \in 1 .. Len(s) + 1
    BY <1>1 DEF Started
  <1>3. /\ StartsRun(p, c.pattern) /\ b <= v /\ (b = v \/ d = -1)
    BY DEF Promising
  <1>4. Begins(p, e) /\ e \in c.pattern .. Len(p) + 1
    BY <1>2, <1>3, RunIs
  <1>5. v <= a /\ (d = -1 \/ a <= v + d) /\ d \in Int
    BY <1>2, <1>3, WayOverRun, EatIs
  <1>6. v \in 1 .. Len(s) + 1 /\ a \in 1 .. Len(s) + 1
    <2>1. c.pattern - 1 \in 0 .. Len(p) /\ e - 1 \in 0 .. Len(p)
      BY <1>2, <1>4, SMTT(60)
    <2> QED
      BY <2>1, WayTyped
  <1>7. PICK q : TextIn(p, e, q)
    BY <1>4, TextEnds
  <1> DEFINE exact == e = 1
  <1>8. exact \in BOOLEAN
    OBVIOUS
  <1> HIDE DEF x, w
  <1>9. e = 1 => b = a
    <2>1. SUFFICES ASSUME e = 1
                   PROVE  b = a
      OBVIOUS
    <2>2. e - 1 = 0 /\ way[0] = 1
      BY <2>1 DEF Way
    <2>3. a = 1
      BY <2>2
    <2> HIDE DEF a, v, b, e
    <2> QED
      BY <1>2, <1>3, <1>5, <1>6, <2>3
  <1>10. KeepsUp(way, p, e, q, exact, x)
    <2>1. e <= q /\ e \in 1 .. Len(p) + 1
      BY <1>2, <1>4, <1>7 DEF TextIn
    <2>2. b <= a /\ b - b = a - a /\ (d < 0 \/ b + d >= a)
      <3> HIDE DEF a, v, b, e, d
      <3> QED BY <1>2, <1>3, <1>5, <1>6
    <2>3. e <= Len(p) => ~Patterns!Escaped(p, e)
      BY <1>4 DEF Begins
    <2>4. x.string - x.string_start = way[x.pattern - 1] - way[e - 1]
      BY <1>2, <2>2
    <2>5. x.escape <=> (x.pattern <= Len(p) /\ Patterns!Escaped(p, x.pattern))
      BY <1>2, <2>3
    <2>6. /\ x.pattern_start = e /\ x.pattern <= q
          /\ x.string_start <= way[e - 1] /\ (exact => x.string_start = way[e - 1])
          /\ x.maximum_distance < 0 \/ x.string_start + x.maximum_distance >= way[e - 1]
      BY <1>2, <1>9, <2>1, <2>2
    <2> HIDE DEF e, exact
    <2> QED
      BY <2>4, <2>5, <2>6 DEF KeepsUp
  <1>11. MeantResult(way, q, exact, y)
    <2> HIDE DEF exact, e
    <2> QED BY <1>2, <1>7, <1>8, <1>10, SearchKeepsUp
  <1>12. y.string \in 1 .. Len(s) + 1 /\ y.found
    <2>1. y.found => y.pattern \in c.pattern + 1 .. Len(p) + 1 \cup {Len(p) + 1} /\ y.string \in 1 .. Len(s) + 1
      BY FoundBehind DEF x
    <2>2. y.found
      BY <1>11 DEF MeantResult
    <2> QED
      BY <2>1, <2>2
  <1>13. /\ y.pattern = q /\ y.string <= way[q - 1] /\ (e = 1 => y.string = way[q - 1])
         /\ q \in e .. Len(p) + 1 /\ NoWildcards(p, e, q)
         /\ q <= Len(p) => Patterns!WildcardAt(p, q)
    BY <1>7, <1>11 DEF MeantResult, TextIn
  <1> HIDE DEF y, e
  <1>14. y.pattern \in c.pattern .. Len(p) + 1
    BY <1>2, <1>4, <1>13
  <1>15. ASSUME q <= Len(p)
         PROVE  q > c.pattern /\ Promising(way, p, Place2(q, y.string))
    <2> DEFINE t == Place2(q, y.string)
    <2>1. t.pattern = q /\ t.string = y.string
      BY DEF Place2
    <2> HIDE DEF t
    <2>2. e \in 1 .. Len(p) + 1 /\ Len(p) \in Nat /\ q \in 1 .. Len(p) /\ e <= q
      BY <1>2, <1>4, <1>13, <1>15
    <2>3. e # q
      BY <1>4, <1>13, <1>15, <2>2 DEF Begins, Patterns!WildcardAt
    <2>4. q > e /\ q > c.pattern
      BY <1>2, <1>4, <2>2, <2>3
    <2>5. StartsRun(p, t.pattern)
      BY <1>13, <1>15, <2>1 DEF StartsRun
    <2>6. y.string = way[q - 1] \/ Patterns!EatWildcards(p, q).distance = -1
      <3>1. SUFFICES ASSUME e # 1
                     PROVE  Patterns!EatWildcards(p, q).distance = -1
        BY <1>13
      <3>2. Patterns!WildcardAt(p, e - 1) /\ e - 1 \in 1 .. q - 2
        BY <1>4, <2>2, <2>4, <3>1 DEF Begins
      <3>3. q - 1 \in e .. q - 1
        BY <2>2, <2>4
      <3>4. ~Patterns!WildcardAt(p, q - 1)
        BY <1>13, <3>3 DEF NoWildcards
      <3>5. Patterns!WildcardAt(p, q) /\ q > 1 /\ q \in DOMAIN p
        BY <1>13, <1>15, <2>2, <2>4
      <3> QED
        BY <3>2, <3>4, <3>5 DEF Patterns!NeedsBacktracking, Patterns!Infinite
    <2>7. Promising(way, p, t)
      BY <1>13, <2>1, <2>5, <2>6 DEF Promising
    <2> QED
      BY <2>4, <2>7 DEF t
  <1> QED
    BY <1>12, <1>13, <1>14, <1>15 DEF y, x

LEMMA MatchComplete ==
  ASSUME NEW A, NEW s \in Seq(A), NEW p \in Seq(A), ~Patterns!DanglingEscape(p),
         ~Patterns!NeedsBacktracking(p), Patterns!Means(p, s)
  PROVE  Patterns!MatchPattern(s, p)
  <1>1. PICK f, g : /\ Searched(f, s, p) /\ Matched(g, f, s, p)
                    /\ Patterns!MatchPattern(s, p) = g[Place2(1, 1)]
                    /\ \A at \in Places(s, p) : g[at] \in BOOLEAN
    BY MatchIs
  <1>2. PICK way : Way(way, p, s, Len(p)) /\ way[Len(p)] = Len(s) + 1
    BY WayExists
  <1> DEFINE n == Len(p)
             m == n + 1
             S == {k \in 0 .. m :
                     \A c \in Places(s, p) : c.pattern > m - k /\ Promising(way, p, c) => g[c]}
  <1>3. n \in Nat /\ Len(s) \in Nat /\ m \in Nat
    OBVIOUS
  <1>4. \A c \in Places(s, p) : c.pattern \in 1 .. m /\ c.string \in 1 .. Len(s) + 1
    BY DEF Places, Patterns!Cursors
  <1>5. 0 \in S
    <2>1. \A c \in Places(s, p) : ~(c.pattern > m - 0)
      BY <1>3, <1>4
    <2>2. 0 \in 0 .. m
      BY <1>3
    <2> QED
      BY <2>1, <2>2
  <1>6. ASSUME NEW k \in 1 .. m, k - 1 \in S
        PROVE  k \in S
    <2>1. ASSUME NEW c \in Places(s, p), c.pattern > m - k, Promising(way, p, c)
          PROVE  g[c]
      <3> DEFINE x == SearchFrom(p, c)
                 y == f[x]
                 b == Place2(y.pattern, y.string)
      <3>1. /\ y.found /\ y.pattern \in c.pattern .. Len(p) + 1 /\ y.string \in 1 .. Len(s) + 1
            /\ y.pattern <= Len(p) => y.pattern > c.pattern /\ Promising(way, p, b)
        BY <1>1, <1>2, <2>1, PromiseKept
      <3>2. g[c] <=> y.found /\ (y.pattern <= Len(p) => g[b])
        BY <1>1 DEF Matched
      <3> HIDE DEF y
      <3>3. ASSUME y.pattern <= Len(p)
            PROVE  g[b]
        <4>1. y.pattern \in 1 .. Len(p) + 1
          BY <1>3, <1>4, <3>1
        <4>2. b \in Places(s, p) /\ b.pattern = y.pattern
          BY <3>1, <4>1 DEF Place2, Places, Patterns!Cursors
        <4>3. Promising(way, p, b) /\ y.pattern > c.pattern
          BY <3>1, <3>3
        <4> HIDE DEF b
        <4>4. b.pattern > m - (k - 1)
          BY <1>3, <1>4, <2>1, <4>1, <4>2, <4>3
        <4> HIDE DEF m
        <4> QED
          BY <1>6, <4>2, <4>3, <4>4
      <3> QED
        BY <3>1, <3>2, <3>3
    <2>2. k \in 0 .. m
      BY <1>6
    <2> QED
      BY <2>1, <2>2
  <1>7. m \in S
    <2>1. m \in 0 .. m
      BY <1>3
    <2>2. \A k \in 0 .. m : k \in S
      <3> HIDE DEF S, m
      <3> QED BY <1>3, <1>5, <1>6, UpTo
    <2> QED
      BY <2>1, <2>2
  <1>8. g[Place2(1, 1)]
    <2> DEFINE b == Place2(1, 1)
    <2>1. b \in Places(s, p) /\ b.pattern = 1 /\ b.string = 1
      BY <1>3 DEF Place2, Places, Patterns!Cursors
    <2> HIDE DEF b
    <2>2. way[0] = 1 /\ 1 - 1 = 0
      BY <1>2 DEF Way
    <2>3. Promising(way, p, b)
      BY <2>1, <2>2 DEF Promising, StartsRun
    <2>4. b.pattern > m - m
      BY <1>3, <2>1
    <2>5. g[b]
      <3> HIDE DEF m
      <3> QED BY <1>7, <2>1, <2>3, <2>4
    <2> QED
      BY <2>5 DEF b
  <1> QED
    BY <1>1, <1>8

(* MatchPattern finds a match only where the pattern means one, and finds  *)
(* it unless a bounded sequence of wildcards stands behind another one; a  *)
(* backslash at the end of the pattern means nothing or itself, unless the *)
(* text that it ends begins with one, too: for every pattern and string    *)
(* over every alphabet (MatchesMeant; pattern.cc, lines 24-123).           *)
THEOREM MatchesAreMeant == StringsSpec => []MatchesMeant
  <1>1. ASSUME StringsTypeOK, topic = "pattern", NEW n \in 0 .. Len(text)
        PROVE  LET pattern == Before(n)
                   matches == Patterns!MatchPattern(After(n), pattern)
                   means == Patterns!Means(pattern, After(n))
               IN  IF Patterns!DanglingEscape(pattern)
                     THEN matches /\ ~Patterns!RestartsEscaped(pattern) =>
                            means \/ Patterns!Means(Front(pattern), After(n))
                     ELSE IF Patterns!NeedsBacktracking(pattern) THEN matches => means
                     ELSE matches <=> means
    <2> DEFINE A == Alphabet["pattern"]
               p == Before(n)
               s == After(n)
    <2>1. text \in Seq(A)
      BY <1>1 DEF StringsTypeOK
    <2>2. p \in Seq(A) /\ s \in Seq(A)
      <3>1. n \in Nat /\ Len(text) \in Nat /\ n <= Len(text)
        BY <1>1, <2>1
      <3> HIDE DEF A
      <3>2. SubSeq(text, 1, n) \in Seq(A)
        BY <1>1, <2>1, <3>1
      <3>3. SubSeq(text, n + 1, Len(text)) \in Seq(A)
        BY <1>1, <2>1, <3>1
      <3> QED
        BY <3>2, <3>3 DEF Before, After
    <2> HIDE DEF A, p, s
    <2>3. ~Patterns!DanglingEscape(p) => ~Patterns!RestartsEscaped(p)
      BY DEF Patterns!RestartsEscaped
    <2>4. Patterns!MatchPattern(s, p) /\ ~Patterns!RestartsEscaped(p) =>
            Patterns!Means(p, s) \/ (Patterns!DanglingEscape(p) /\ Patterns!Means(Front(p), s))
      BY <2>2, MatchSound
    <2>5. ~Patterns!DanglingEscape(p) /\ ~Patterns!NeedsBacktracking(p) /\ Patterns!Means(p, s) =>
            Patterns!MatchPattern(s, p)
      BY <2>2, MatchComplete
    <2>6. IF Patterns!DanglingEscape(p)
            THEN Patterns!MatchPattern(s, p) /\ ~Patterns!RestartsEscaped(p) =>
                   Patterns!Means(p, s) \/ Patterns!Means(Front(p), s)
            ELSE IF Patterns!NeedsBacktracking(p)
                   THEN Patterns!MatchPattern(s, p) => Patterns!Means(p, s)
            ELSE Patterns!MatchPattern(s, p) <=> Patterns!Means(p, s)
      BY <2>3, <2>4, <2>5
    <2> QED
      BY <2>6, Zenon DEF p, s
  <1>2. StringsTypeOK => MatchesMeant
    BY <1>1, Zenon DEF MatchesMeant
  <1> QED
    BY <1>2, TextsKept, PTL
=============================================================================
