--------------------------- MODULE KeyboardProofs ---------------------------
(***************************************************************************)
(* Proofs about the keyboard handler, for any set of keys, any number of   *)
(* them held, any number of bytes on the way and a ring of any size: no    *)
(* order of presses and releases leaves a modifier stuck, and every entry  *)
(* of keymap that is queued is of the right row and column.                *)
(***************************************************************************)
EXTENDS Keyboard, SequenceTheorems, TLAPS

-----------------------------------------------------------------------------
Byte == 0..255

\* The byte before the last of a two-byte code, and that code as a number.
Prefix == \he0
Extended(byte) == \he000 + byte

\* The codes in bytes w that are still to be read, at the place of their last
\* byte; e is ext_scan_code.  (At a byte 0xe0 this is no key's code.)
Code(w, e, i) ==
  IF (i = 1 /\ e) \/ (i # 1 /\ w[i - 1] = Prefix) THEN Extended(w[i]) ELSE w[i]

Modifier == {\h1d, \he01d, \h2a, \h36, \h38, \he038}

\* No make code of S is among the codes from the j-th on.
NoMake(w, e, S, j) == \A i \in j..Len(w) : Code(w, e, i) \notin S

\* What is still to be read leaves a flag clear that is flag now: its keys S do
\* not go down, or not after one of them has gone up.
EndsClear(w, e, S, flag) ==
  \/ ~flag /\ NoMake(w, e, S, 1)
  \/ \E j \in 1..Len(w) : Code(w, e, j) - 128 \in S /\ NoMake(w, e, S, j + 1)

\* w does not end in the middle of a code.
WholeCodes(w, e) == IF w = << >> THEN ~e ELSE w[Len(w)] # Prefix

\* The codes a key may send, as numbers: of one byte, or behind 0xe0.
OneByte == (0..255) \ {\he0}
TwoBytes == (\he000..\he0ff) \ {\he0e0}
CodeNumber == OneByte \cup TwoBytes

BytesOf(x) == IF x > 255 THEN <<Prefix, x % 256>> ELSE <<x>>

SentBehind(w, x) == w \o BytesOf(x)

-----------------------------------------------------------------------------
\* The second byte of a code behind 0xe0.
LEMMA SecondByte ==
  ASSUME NEW x \in TwoBytes
  PROVE  x % 256 \in Byte /\ x % 256 # Prefix /\ Extended(x % 256) = x
  BY SMT DEF TwoBytes, Byte, Prefix, Extended

\* Bytes sent behind the others leave their codes alone and add one.
LEMMA SentCode ==
  ASSUME NEW w \in Seq(Byte), NEW e \in BOOLEAN, WholeCodes(w, e), NEW x \in CodeNumber,
         NEW v, v = SentBehind(w, x)
  PROVE  /\ v \in Seq(Byte) /\ v # << >> /\ WholeCodes(v, e)
         /\ Len(w) \in Nat /\ Len(v) \in Nat /\ Len(v) > Len(w)
         /\ \A i \in 1..Len(w) : Code(v, e, i) = Code(w, e, i)
         /\ Code(v, e, Len(v)) = x
         /\ \A i \in (Len(w) + 1)..(Len(v) - 1) : Code(v, e, i) = Prefix
  <1> DEFINE n == Len(w)
  <1>0. v = w \o BytesOf(x)
    BY DEF SentBehind
  <1>1. n \in Nat /\ (w = << >> <=> n = 0)
    BY LenProperties, EmptySeq
  <1>2. CASE x <= 255
    <2>1. x \in Byte /\ x # Prefix /\ BytesOf(x) = <<x>>
      BY <1>2, SMT DEF CodeNumber, OneByte, TwoBytes, BytesOf, Prefix, Byte
    <2>2. /\ v \in Seq(Byte) /\ Len(v) = n + 1 /\ v[n + 1] = x
          /\ \A i \in 1..n : v[i] = w[i]
      BY <1>0, <2>1, <1>1, SMT
    <2>3. \A i \in 1..n : Code(v, e, i) = Code(w, e, i)
      BY <1>1, <2>2, SMT DEF Code
    <2>4. Code(v, e, n + 1) = x
      <3>1. CASE n = 0
        BY <1>1, <2>2, <3>1, SMT DEF Code, WholeCodes
      <3>2. CASE n > 0
        <4>1. v[n] = w[n] /\ w[n] # Prefix
          BY <1>1, <2>2, <3>2, SMT DEF WholeCodes
        <4> QED BY <1>1, <2>2, <3>2, <4>1, SMT DEF Code
      <3> QED BY <1>1, <3>1, <3>2, SMT
    <2>5. WholeCodes(v, e) /\ v # << >>
      BY <1>1, <2>1, <2>2, SMT DEF WholeCodes
    <2> QED BY <1>1, <2>2, <2>3, <2>4, <2>5, SMT
  <1>3. CASE x > 255
    <2> DEFINE b == x % 256
    <2>1. b \in Byte /\ b # Prefix /\ Extended(b) = x /\ BytesOf(x) = <<Prefix, b>>
      <3>1. x \in TwoBytes
        BY <1>3, SMT DEF CodeNumber, OneByte
      <3>2. BytesOf(x) = <<Prefix, b>>
        BY <1>3 DEF BytesOf
      <3> QED BY <3>1, <3>2, SecondByte
    <2> HIDE DEF b
    <2>2. /\ v \in Seq(Byte) /\ Len(v) = n + 2 /\ v[n + 1] = Prefix /\ v[n + 2] = b
          /\ \A i \in 1..n : v[i] = w[i]
      <3> DEFINE c == <<Prefix, b>>
      <3>1. Prefix \in Byte
        BY SMT DEF Prefix, Byte
      <3>2. c \in Seq(Byte) /\ Len(c) = 2 /\ c[1] = Prefix /\ c[2] = b
        BY <2>1, <3>1, SMT
      <3> HIDE DEF c
      <3>3. v = w \o c
        BY <1>0, <2>1 DEF c
      <3>4. v \in Seq(Byte) /\ Len(v) = Len(w) + Len(c)
            /\ \A i \in 1..(Len(w) + Len(c)) : v[i] = IF i <= Len(w) THEN w[i] ELSE c[i - Len(w)]
        <4>1. (w \o c) \in Seq(Byte) /\ Len(w \o c) = Len(w) + Len(c)
              /\ \A i \in 1..(Len(w) + Len(c)) :
                   (w \o c)[i] = IF i <= Len(w) THEN w[i] ELSE c[i - Len(w)]
          BY <3>2, ConcatProperties
        <4> QED BY <3>3, <4>1
      <3> QED BY <1>1, <3>2, <3>4, SMT
    <2>3. \A i \in 1..n : Code(v, e, i) = Code(w, e, i)
      BY <1>1, <2>2, SMT DEF Code
    <2>4. Code(v, e, n + 1) = Prefix
      <3>1. CASE n = 0
        BY <1>1, <2>2, <3>1, SMT DEF Code, WholeCodes
      <3>2. CASE n > 0
        <4>1. v[n] = w[n] /\ w[n] # Prefix
          BY <1>1, <2>2, <3>2, SMT DEF WholeCodes
        <4> QED BY <1>1, <2>2, <3>2, <4>1, SMT DEF Code
      <3> QED BY <1>1, <3>1, <3>2, SMT
    <2>5. Code(v, e, n + 2) = x
      BY <1>1, <2>1, <2>2, SMT DEF Code
    <2>6. WholeCodes(v, e) /\ v # << >>
      BY <1>1, <2>1, <2>2, SMT DEF WholeCodes
    <2> QED BY <1>1, <2>2, <2>3, <2>4, <2>5, <2>6, SMT
  <1> QED BY <1>2, <1>3, SMT DEF CodeNumber, OneByte, TwoBytes

\* A code that is not a make of S keeps a flag on its way to clear.
LEMMA SentKeepsClear ==
  ASSUME NEW w \in Seq(Byte), NEW e \in BOOLEAN, WholeCodes(w, e), NEW x \in CodeNumber,
         NEW v, v = SentBehind(w, x), NEW S \in SUBSET Modifier, NEW flag \in BOOLEAN, x \notin S
  PROVE  /\ EndsClear(w, e, S, flag) => EndsClear(v, e, S, flag)
         /\ x - 128 \in S => EndsClear(v, e, S, flag)
  <1>1. /\ Len(w) \in Nat /\ Len(v) \in Nat /\ Len(v) > Len(w)
        /\ \A i \in 1..Len(w) : Code(v, e, i) = Code(w, e, i)
        /\ Code(v, e, Len(v)) = x
        /\ \A i \in (Len(w) + 1)..(Len(v) - 1) : Code(v, e, i) = Prefix
    BY SentCode
  <1>2. Prefix \notin S
    BY SMT DEF Modifier, Prefix
  <1>3. \A i \in (Len(w) + 1)..Len(v) : Code(v, e, i) \notin S
    <2> SUFFICES ASSUME NEW i \in (Len(w) + 1)..Len(v) PROVE Code(v, e, i) \notin S
      OBVIOUS
    <2>1. i = Len(v) \/ i \in (Len(w) + 1)..(Len(v) - 1)
      BY <1>1, SMT
    <2> QED BY <1>1, <1>2, <2>1
  <1>4. \A j \in 1..(Len(w) + 1) : NoMake(w, e, S, j) => NoMake(v, e, S, j)
    <2> SUFFICES ASSUME NEW j \in 1..(Len(w) + 1), NoMake(w, e, S, j), NEW i \in j..Len(v)
                 PROVE  Code(v, e, i) \notin S
      BY DEF NoMake
    <2>1. CASE i \in j..Len(w)
      <3>1. i \in 1..Len(w)
        BY <1>1, <2>1, SMT
      <3> QED BY <1>1, <2>1, <3>1 DEF NoMake
    <2>2. CASE i \notin j..Len(w)
      <3>1. i \in (Len(w) + 1)..Len(v)
        BY <1>1, <2>2, SMT
      <3> QED BY <1>3, <3>1
    <2> QED BY <2>1, <2>2
  <1>5. EndsClear(w, e, S, flag) => EndsClear(v, e, S, flag)
    <2>1. CASE ~flag /\ NoMake(w, e, S, 1)
      <3>1. 1 \in 1..(Len(w) + 1)
        BY <1>1, SMT
      <3> QED BY <1>4, <2>1, <3>1 DEF EndsClear
    <2>2. ASSUME NEW j \in 1..Len(w), Code(w, e, j) - 128 \in S, NoMake(w, e, S, j + 1)
          PROVE  EndsClear(v, e, S, flag)
      <3>1. j + 1 \in 1..(Len(w) + 1) /\ j \in 1..Len(v)
        BY <1>1, SMT
      <3> QED BY <1>1, <1>4, <2>2, <3>1 DEF EndsClear
    <2> QED BY <2>1, <2>2 DEF EndsClear
  <1>6. x - 128 \in S => EndsClear(v, e, S, flag)
    <2>1. Len(v) \in 1..Len(v) /\ (Len(v) + 1)..Len(v) = {}
      BY <1>1, SMT
    <2> QED BY <1>1, <2>1 DEF EndsClear, NoMake
  <1> QED BY <1>5, <1>6

\* Reading a byte takes the first code off and leaves the others as they are.
LEMMA ReceivedCode ==
  ASSUME NEW w \in Seq(Byte), NEW e \in BOOLEAN, WholeCodes(w, e), w # << >>,
         NEW f \in BOOLEAN, f <=> (Head(w) = Prefix)
  PROVE  /\ Tail(w) \in Seq(Byte) /\ WholeCodes(Tail(w), f)
         /\ Len(w) \in Nat \ {0} /\ Len(Tail(w)) = Len(w) - 1
         /\ \A i \in 1..(Len(w) - 1) : Code(Tail(w), f, i) = Code(w, e, i + 1)
  <1>1. Len(w) \in Nat \ {0}
    BY EmptySeq, Zenon
  <1>2. /\ Tail(w) \in Seq(Byte) /\ Len(Tail(w)) = Len(w) - 1
        /\ \A i \in 1..(Len(w) - 1) : Tail(w)[i] = w[i + 1]
    BY HeadTailProperties
  <1>3. Head(w) = w[1]
    BY SMT
  <1>4. ASSUME NEW i \in 1..(Len(w) - 1) PROVE Code(Tail(w), f, i) = Code(w, e, i + 1)
    <2>1. CASE i = 1
      <3>1. Tail(w)[1] = w[2] /\ i + 1 # 1 /\ (i + 1) - 1 = 1 /\ i + 1 = 2
        BY <1>1, <1>2, <2>1, SMT
      <3> QED BY <1>3, <2>1, <3>1 DEF Code
    <2>2. CASE i # 1
      <3>1. i - 1 \in 1..(Len(w) - 1)
        BY <1>1, <2>2, SMT
      <3>2. Tail(w)[i - 1] = w[i] /\ Tail(w)[i] = w[i + 1]
        BY <1>2, <3>1, SMT
      <3>3. i + 1 # 1 /\ (i + 1) - 1 = i
        BY SMT
      <3> QED BY <2>2, <3>2, <3>3 DEF Code
    <2> QED BY <2>1, <2>2
  <1>5. WholeCodes(Tail(w), f)
    <2>1. CASE Len(w) = 1
      <3>1. Tail(w) = << >>
        <4>1. Len(Tail(w)) = 0
          BY <1>2, <2>1
        <4> QED BY <1>2, <4>1, EmptySeq
      <3> QED BY <1>3, <2>1, <3>1 DEF WholeCodes
    <2>2. CASE Len(w) # 1
      <3> DEFINE n == Len(w)
      <3>0. n \in Nat \ {0} /\ n # 1
        BY <1>1, <2>2
      <3> HIDE DEF n
      <3>1. n - 1 \in 1..(n - 1) /\ n - 1 # 0 /\ (n - 1) + 1 = n
        BY <3>0, SMT
      <3>2. Tail(w) # << >> /\ Tail(w)[n - 1] = w[n] /\ Len(Tail(w)) = n - 1
        BY <1>2, <3>1, EmptySeq DEF n
      <3> QED BY <3>2 DEF WholeCodes, n
    <2> QED BY <2>1, <2>2
  <1> QED BY <1>1, <1>2, <1>4, <1>5

\* A flag that a break code of S clears, and that only a make code of S sets,
\* stays on its way to clear.
LEMMA ReceivedKeepsClear ==
  ASSUME NEW w \in Seq(Byte), NEW e \in BOOLEAN, WholeCodes(w, e), w # << >>,
         NEW f \in BOOLEAN, f <=> (Head(w) = Prefix), NEW S \in SUBSET Modifier,
         NEW flag \in BOOLEAN, NEW next \in BOOLEAN,
         Code(w, e, 1) - 128 \in S => ~next,
         Code(w, e, 1) \notin S => (next => flag),
         EndsClear(w, e, S, flag)
  PROVE  EndsClear(Tail(w), f, S, next)
  <1>1. /\ Len(w) \in Nat \ {0} /\ Len(Tail(w)) = Len(w) - 1
        /\ \A i \in 1..(Len(w) - 1) : Code(Tail(w), f, i) = Code(w, e, i + 1)
    BY ReceivedCode
  <1>2. \A j \in 1..Len(w) : NoMake(w, e, S, j + 1) => NoMake(Tail(w), f, S, j)
    <2> SUFFICES ASSUME NEW j \in 1..Len(w), NoMake(w, e, S, j + 1), NEW i \in j..(Len(w) - 1)
                 PROVE  Code(Tail(w), f, i) \notin S
      BY <1>1 DEF NoMake
    <2>1. i \in 1..(Len(w) - 1) /\ i + 1 \in (j + 1)..Len(w)
      BY <1>1, SMT
    <2> QED BY <1>1, <2>1 DEF NoMake
  <1>3. 1 \in 1..Len(w)
    BY <1>1, SMT
  <1>4. CASE ~flag /\ NoMake(w, e, S, 1)
    <2>1. Code(w, e, 1) \notin S
      BY <1>3, <1>4 DEF NoMake
    <2>2. NoMake(w, e, S, 1 + 1)
      <3>1. \A i \in (1 + 1)..Len(w) : i \in 1..Len(w)
        BY <1>1, SMT
      <3> QED BY <1>4, <3>1 DEF NoMake
    <2> QED BY <1>2, <1>3, <1>4, <2>1, <2>2 DEF EndsClear
  <1>5. ASSUME NEW j \in 1..Len(w), Code(w, e, j) - 128 \in S, NoMake(w, e, S, j + 1)
        PROVE  EndsClear(Tail(w), f, S, next)
    <2>1. CASE j = 1
      BY <1>2, <1>3, <1>5, <2>1 DEF EndsClear
    <2>2. CASE j # 1
      <3>1. j - 1 \in 1..(Len(w) - 1) /\ (j - 1) + 1 = j
        BY <1>1, <2>2, SMT
      <3>2. Code(Tail(w), f, j - 1) = Code(w, e, j)
        BY <1>1, <3>1
      <3>3. NoMake(Tail(w), f, S, (j - 1) + 1)
        BY <1>2, <1>5, <3>1
      <3> QED BY <1>1, <1>5, <3>1, <3>2, <3>3 DEF EndsClear
    <2> QED BY <2>1, <2>2
  <1> QED BY <1>4, <1>5 DEF EndsClear

-----------------------------------------------------------------------------
\* A modifier whose keys are up is off, or will be when the bytes are read.
Clears(S, flag) == held \cap S = {} => EndsClear(wire, ext_scan_code, S, flag)

KeyboardInv ==
  /\ KeyboardTypeOK
  /\ repeating \in held \cup {NoKey}
  /\ WholeCodes(wire, ext_scan_code)
  /\ Clears(Ctrl, ctrl_status) /\ Clears(Shift, shift_status) /\ Clears(Alt, alt_status)

\* What KeyboardTypeOK says of the single variables.
LEMMA KeyboardTypes ==
  ASSUME KeyboardInv
  PROVE  /\ wire \in Seq(Byte) /\ ext_scan_code \in BOOLEAN
         /\ ctrl_status \in BOOLEAN /\ shift_status \in BOOLEAN
         /\ alt_status \in BOOLEAN /\ caps_lock_status \in BOOLEAN
         /\ keyboard_buffer \in Seq(Char)
  BY DEF KeyboardInv, KeyboardTypeOK, Byte

\* The modifiers' codes.
LEMMA ModifierSets ==
  /\ Ctrl \in SUBSET Modifier /\ Shift \in SUBSET Modifier /\ Alt \in SUBSET Modifier
  BY DEF Ctrl, Shift, Alt, Modifier, ctrl_l_make, ctrl_r_make, shift_l_make, shift_r_make,
         alt_l_make, alt_r_make

\* The codes a key sends, in bytes and as numbers.
LEMMA KeyCodes ==
  ASSUME NEW k \in Key
  PROVE  /\ k \in CodeNumber /\ MakeCode(k) = BytesOf(k)
         /\ k + 128 \in CodeNumber /\ BreakCode(k) = BytesOf(k + 128)
         /\ k + 128 \notin Modifier /\ (k + 128) - 128 = k
  <1>1. k \in Int /\ (k \in 1..127 \/ k \in \he001..\he07f) /\ k # \h60 /\ k # \he060
    BY KeyboardAssumption, SMT
  <1>2. k \in CodeNumber /\ k + 128 \in CodeNumber
    BY <1>1, SMT DEF CodeNumber, OneByte, TwoBytes
  <1>3. k + 128 \notin Modifier /\ (k + 128) - 128 = k
    BY <1>1, SMT DEF Modifier
  <1>4. MakeCode(k) = BytesOf(k)
    BY <1>1, SMT DEF MakeCode, BytesOf, Prefix
  <1>5. CASE k \in 1..127
    <2>1. ~(k > 255) /\ ~(k + 128 > 255)
      BY <1>5, SMT
    <2>2. BreakCode(k) = BytesOf(k + 128)
      BY <2>1 DEF BreakCode, BytesOf
    <2> QED BY <1>2, <1>3, <1>4, <2>2
  <1>6. CASE k \in \he001..\he07f
    <2>1. k > 255 /\ k + 128 > 255 /\ (k % 256) + 128 = (k + 128) % 256
      BY <1>6, SMT
    <2>2. BreakCode(k) = BytesOf(k + 128)
      BY <2>1 DEF BreakCode, BytesOf, Prefix
    <2> QED BY <1>2, <1>3, <1>4, <2>2
  <1> QED BY <1>1, <1>5, <1>6

\* Nothing is down and nothing is on at the start.
LEMMA KeyboardInitInv == KeyboardInit => KeyboardInv
  <1> SUFFICES ASSUME KeyboardInit PROVE KeyboardInv
    OBVIOUS
  <1> USE DEF KeyboardInit
  <1>1. wire \in Seq(Byte) /\ keyboard_buffer \in Seq(Char) /\ Len(wire) = 0
        /\ Len(keyboard_buffer) = 0
    BY EmptySeq
  <1>2. KeyboardTypeOK
    <2>1. Len(keyboard_buffer) < buf_size
      BY <1>1, KeyboardAssumption, SMT
    <2> QED BY <1>1, <2>1 DEF KeyboardTypeOK, Byte
  <1>3. \A S : EndsClear(wire, ext_scan_code, S, FALSE)
    <2>1. 1..Len(wire) = {}
      BY <1>1, SMT
    <2> QED BY <2>1 DEF EndsClear, NoMake
  <1> QED BY <1>2, <1>3 DEF KeyboardInv, Clears, WholeCodes

\* A code sent while its key is down, or as it goes up.
LEMMA SendStep ==
  ASSUME KeyboardInv, NEW x \in CodeNumber, Sends(BytesOf(x)),
         held' \subseteq Key, repeating' \in held' \cup {NoKey},
         \A S \in SUBSET Modifier : held' \cap S = {} =>
            x \notin S /\ (held \cap S = {} \/ x - 128 \in S)
  PROVE  KeyboardInv'
  <1>1. /\ wire' = SentBehind(wire, x)
        /\ UNCHANGED <<ext_scan_code, modifiers, keyboard_buffer>>
    BY DEF Sends, SentBehind
  <1>2. WholeCodes(wire, ext_scan_code)
    BY DEF KeyboardInv
  <1>3. wire' \in Seq(Byte) /\ WholeCodes(wire', ext_scan_code)
    BY <1>1, <1>2, KeyboardTypes, SentCode
  <1>4. ASSUME NEW S \in SUBSET Modifier, NEW flag \in BOOLEAN, Clears(S, flag),
               held' \cap S = {}
        PROVE  EndsClear(wire', ext_scan_code, S, flag)
    BY <1>1, <1>2, <1>4, KeyboardTypes, SentKeepsClear DEF Clears
  <1>5. KeyboardTypeOK'
    BY <1>1, <1>3 DEF KeyboardInv, KeyboardTypeOK, modifiers, Byte
  <1>6. Clears(Ctrl, ctrl_status)' /\ Clears(Shift, shift_status)' /\ Clears(Alt, alt_status)'
    <2>1. UNCHANGED <<ext_scan_code, ctrl_status, shift_status, alt_status>>
      BY <1>1 DEF modifiers
    <2>2. held' \cap Ctrl = {} => EndsClear(wire', ext_scan_code, Ctrl, ctrl_status)
      BY <1>4, KeyboardTypes, ModifierSets DEF KeyboardInv
    <2>3. held' \cap Shift = {} => EndsClear(wire', ext_scan_code, Shift, shift_status)
      BY <1>4, KeyboardTypes, ModifierSets DEF KeyboardInv
    <2>4. held' \cap Alt = {} => EndsClear(wire', ext_scan_code, Alt, alt_status)
      BY <1>4, KeyboardTypes, ModifierSets DEF KeyboardInv
    <2> QED BY <2>1, <2>2, <2>3, <2>4 DEF Clears, Ctrl, Shift, Alt
  <1>7. WholeCodes(wire, ext_scan_code)'
    BY <1>1, <1>3 DEF WholeCodes
  <1> QED BY <1>5, <1>6, <1>7 DEF KeyboardInv

\* The environment's steps: press, repeat and release.
LEMMA KeyStep ==
  ASSUME KeyboardInv, repeat \/ \E k \in Key : press(k) \/ release(k)
  PROVE  KeyboardInv'
  <1>0. held \subseteq Key /\ repeating \in held \cup {NoKey}
    BY DEF KeyboardInv, KeyboardTypeOK
  <1>1. CASE repeat
    <2>1. repeating \in Key /\ repeating \in held /\ held' = held /\ repeating' = repeating
      BY <1>0, <1>1, KeyboardAssumption DEF repeat
    <2>2. repeating \in CodeNumber /\ Sends(BytesOf(repeating))
      BY <1>1, <2>1, KeyCodes DEF repeat
    <2> QED BY <1>0, <2>1, <2>2, SendStep
  <1>2. ASSUME NEW k \in Key, press(k) PROVE KeyboardInv'
    <2>1. k \in CodeNumber /\ Sends(BytesOf(k)) /\ held' = held \cup {k} /\ repeating' = k
      BY <1>2, KeyCodes DEF press
    <2>2. held' \subseteq Key /\ repeating' \in held' \cup {NoKey}
      BY <1>0, <2>1
    <2>3. \A S \in SUBSET Modifier : held' \cap S = {} => k \notin S /\ held \cap S = {}
      BY <2>1
    <2> QED BY <2>1, <2>2, <2>3, SendStep
  <1>3. ASSUME NEW k \in Key, release(k) PROVE KeyboardInv'
    <2>1. /\ k + 128 \in CodeNumber /\ Sends(BytesOf(k + 128)) /\ held' = held \ {k}
          /\ repeating' = IF repeating = k THEN NoKey ELSE repeating
      BY <1>3, KeyCodes DEF release
    <2>2. held' \subseteq Key /\ repeating' \in held' \cup {NoKey}
      BY <1>0, <2>1
    <2>3. \A S \in SUBSET Modifier : held' \cap S = {} =>
             k + 128 \notin S /\ (held \cap S = {} \/ (k + 128) - 128 \in S)
      BY <2>1, KeyCodes
    <2> QED BY <2>1, <2>2, <2>3, SendStep
  <1> QED BY <1>1, <1>2, <1>3

-----------------------------------------------------------------------------
\* The keys of the main block that are neither modifiers nor the same in both
\* columns are letters, or in the list of keys that caps lock leaves alone.
LEMMA LettersAndOthers ==
  ASSUME NEW code \in 1..\h3a, code \notin SameInBoth,
         code \notin {\h1d, \h2a, \h36, \h38, \h3a}
  PROVE  (\/ code < \h0e
          \/ code \in {\h29, \h1a, \h1b, \h2b, \h27, \h28, \h33, \h34, \h35})
         <=> code \notin Letter
  BY SMT DEF SameInBoth, Letter

\* A visible character has a code of one byte, and is the one Typed describes.
LEMMA VisibleIsTyped ==
  ASSUME KeyboardInv, NEW code, Known(code),
         keymap(code % 256, column(code)) # char_invisible
  PROVE  /\ code \in 1..\h3a
         /\ keymap(code % 256, column(code)) = Typed(code)
         /\ Typed(code) \in Char
  <1> DEFINE col == column(code)
             list == \/ code < \h0e
                     \/ code \in {\h29, \h1a, \h1b, \h2b, \h27, \h28, \h33, \h34, \h35}
  <1>1. code \in 1..\h3a /\ code % 256 = code
    <2>1. code = alt_r_make => code % 256 = \h38
      BY SMT DEF alt_r_make
    <2>2. code = ctrl_r_make => code % 256 = \h1d
      BY SMT DEF ctrl_r_make
    <2>3. code \notin {alt_r_make, ctrl_r_make}
      BY <2>1, <2>2 DEF keymap, Invisible
    <2>4. code \in 1..\h3a
      BY <2>3 DEF Known
    <2> QED BY <2>4, SMT
  <1>2. ~Invisible(code, col) /\ keymap(code, col) = <<code, IF code \in SameInBoth THEN 0 ELSE col>>
    BY <1>1 DEF keymap
  <1>3. col = IF list THEN IF shift_status THEN 1 ELSE 0
              ELSE IF shift_status # caps_lock_status THEN 1 ELSE 0
    BY DEF column
  <1>4. code \notin SameInBoth => (list <=> code \notin Letter)
    <2>1. code \notin {\h1d, \h2a, \h36, \h38, \h3a}
      BY <1>2 DEF Invisible
    <2> QED BY <1>1, <2>1, LettersAndOthers
  <1>5. shift_status \in BOOLEAN /\ caps_lock_status \in BOOLEAN
    BY KeyboardTypes
  <1>6. code \notin SameInBoth =>
          col = IF (code \in Letter /\ caps_lock_status) # shift_status THEN 1 ELSE 0
    <2> HIDE DEF list, col
    <2>1. CASE shift_status = TRUE /\ caps_lock_status = TRUE
      BY <1>3, <1>4, <2>1
    <2>2. CASE shift_status = TRUE /\ caps_lock_status = FALSE
      BY <1>3, <1>4, <2>2
    <2>3. CASE shift_status = FALSE /\ caps_lock_status = TRUE
      BY <1>3, <1>4, <2>3
    <2>4. CASE shift_status = FALSE /\ caps_lock_status = FALSE
      BY <1>3, <1>4, <2>4
    <2> QED BY <1>5, <2>1, <2>2, <2>3, <2>4
  <1> HIDE DEF list, col
  <1>7. keymap(code, col) = Typed(code)
    BY <1>2, <1>6 DEF Typed
  <1>8. Typed(code) \in Char
    <2>1. code # 0 /\ Typed(code)[1] = code /\ Typed(code) \in (1..\h3a) \X {0, 1}
      BY <1>1, SMT DEF Typed
    <2> QED BY <2>1, SMT DEF Char, char_invisible, Typed
  <1> QED BY <1>1, <1>7, <1>8 DEF col

\* What the handler does to the buffer: at most one character, behind the
\* others, while there is room.
LEMMA HandlerBuffer ==
  ASSUME KeyboardInv, init_keyboard_handler
  PROVE  /\ keyboard_buffer' \in Seq(Char) /\ Len(keyboard_buffer') < buf_size
         /\ \/ keyboard_buffer' = keyboard_buffer
            \/ keyboard_buffer' = Append(keyboard_buffer, Typed(Head(wire)))
  <1> DEFINE byte == Head(wire)
             x == IF ext_scan_code THEN \he000 + byte ELSE byte
  <1>1. keyboard_buffer \in Seq(Char) /\ Len(keyboard_buffer) < buf_size
    BY DEF KeyboardInv, KeyboardTypeOK
  <1>2. UNCHANGED keyboard_buffer \/ (Known(x) /\ make_code(x))
    <2>1. \/ UNCHANGED <<modifiers, keyboard_buffer>>
          \/ break_code(x - 128)
          \/ Known(x) /\ make_code(x)
      BY DEF init_keyboard_handler
    <2> HIDE DEF x
    <2> QED BY <2>1 DEF break_code
  <1>3. x \in 1..\h3a => x = byte
    <2>1. byte \in 0..255
      BY KeyboardTypes, HeadTailProperties DEF init_keyboard_handler, Byte
    <2>2. \he000 + byte \notin 1..\h3a
      BY <2>1, SMT
    <2> QED BY <2>2
  <1> HIDE DEF x
  <1>4. CASE Known(x) /\ make_code(x) /\ ~UNCHANGED keyboard_buffer
    <2> DEFINE char == keymap(x % 256, column(x))
    <2>1. /\ char # char_invisible /\ ~is_queue_full
          /\ keyboard_buffer' = Append(keyboard_buffer, char)
      BY <1>4 DEF make_code
    <2>2. x \in 1..\h3a /\ char = Typed(x) /\ Typed(x) \in Char
      BY <1>4, <2>1, VisibleIsTyped
    <2> HIDE DEF char
    <2>3. keyboard_buffer' = Append(keyboard_buffer, Typed(byte)) /\ Typed(byte) \in Char
      BY <1>3, <2>1, <2>2
    <2>4. keyboard_buffer' \in Seq(Char) /\ Len(keyboard_buffer') = Len(keyboard_buffer) + 1
      BY <1>1, <2>3, AppendProperties
    <2>5. Len(keyboard_buffer) \in Nat /\ Len(keyboard_buffer) # buf_size - 1
      BY <1>1, <2>1, LenProperties DEF is_queue_full
    <2>6. Len(keyboard_buffer') < buf_size
      BY <1>1, <2>4, <2>5, KeyboardAssumption, SMT
    <2> QED BY <2>3, <2>4, <2>6
  <1>5. CASE UNCHANGED keyboard_buffer
    BY <1>1, <1>5
  <1> QED BY <1>2, <1>4, <1>5

\* What it does to the flags: the last byte of a make code may set its own, that
\* of a break code clears it, and every other byte leaves the flag alone.
Flagged(S, flag, next) ==
  LET x == Code(wire, ext_scan_code, 1)
  IN  /\ next \in BOOLEAN
      /\ x - 128 \in S => ~next
      /\ x \notin S => (next => flag)

\* The handler treats each of the three flags that way.
LEMMA HandlerFlags ==
  ASSUME KeyboardInv, init_keyboard_handler
  PROVE  /\ Flagged(Ctrl, ctrl_status, ctrl_status')
         /\ Flagged(Shift, shift_status, shift_status')
         /\ Flagged(Alt, alt_status, alt_status')
         /\ caps_lock_status' \in BOOLEAN
         /\ ext_scan_code' \in BOOLEAN /\ (ext_scan_code' <=> (Head(wire) = Prefix))
  <1> DEFINE byte == Head(wire)
             x == Code(wire, ext_scan_code, 1)
  <1>1. byte \in 0..255 /\ ext_scan_code \in BOOLEAN /\ byte = wire[1]
    <2>1. byte \in 0..255
      BY KeyboardTypes, HeadTailProperties DEF init_keyboard_handler, Byte
    <2>2. byte = wire[1]
      BY SMT
    <2> QED BY <2>1, <2>2, KeyboardTypes
  <1>2. x = IF ext_scan_code THEN \he000 + byte ELSE byte
    BY <1>1 DEF Code, Extended
  <1>3. x \in Int
    BY <1>1, <1>2, SMT
  <1>4. /\ ctrl_status \in BOOLEAN /\ shift_status \in BOOLEAN
        /\ alt_status \in BOOLEAN /\ caps_lock_status \in BOOLEAN
    BY KeyboardTypes
  <1> HIDE DEF x
  <1>5. CASE byte = \he0
    <2>1. ext_scan_code' = TRUE /\ UNCHANGED modifiers
      BY <1>5, <1>1, SMT DEF init_keyboard_handler, IsBreak
    <2>2. x - 128 \notin Modifier
      BY <1>1, <1>2, <1>5, SMT DEF Modifier
    <2> QED BY <1>4, <1>5, <2>1, <2>2, ModifierSets DEF Flagged, x, Prefix, modifiers
  <1>6. CASE byte # \he0 /\ IsBreak(byte)
    <2>1. ext_scan_code' = FALSE /\ break_code(x - 128)
      BY <1>2, <1>6 DEF init_keyboard_handler
    <2> QED BY <1>4, <1>6, <2>1 DEF Flagged, x, Prefix, break_code
  <1>7. CASE byte # \he0 /\ ~IsBreak(byte)
    <2>1. ext_scan_code' = FALSE /\ (make_code(x) \/ UNCHANGED modifiers)
      BY <1>2, <1>7 DEF init_keyboard_handler
    <2>2. x - 128 \notin Modifier
      BY <1>1, <1>2, <1>7, SMT DEF Modifier, IsBreak
    <2>3. CASE UNCHANGED modifiers
      BY <1>4, <1>7, <2>1, <2>2, <2>3, ModifierSets DEF Flagged, x, Prefix, modifiers
    <2>4. CASE make_code(x)
      <3>1. /\ ctrl_status' \in BOOLEAN /\ shift_status' \in BOOLEAN
            /\ alt_status' \in BOOLEAN /\ caps_lock_status' \in BOOLEAN
            /\ (x \notin Ctrl => ctrl_status' = ctrl_status)
            /\ (x \notin Shift => shift_status' = shift_status)
            /\ (x \notin Alt => alt_status' = alt_status)
        BY <1>4, <2>4 DEF make_code, modifiers
      <3> QED BY <1>7, <2>1, <2>2, <3>1, ModifierSets DEF Flagged, x, Prefix
    <2> QED BY <2>1, <2>3, <2>4
  <1> QED BY <1>5, <1>6, <1>7

\* The keyboard interrupt keeps the invariant.
LEMMA HandlerStep ==
  ASSUME KeyboardInv, init_keyboard_handler
  PROVE  KeyboardInv'
  <1>1. wire # << >> /\ wire' = Tail(wire) /\ UNCHANGED <<held, repeating>>
    BY DEF init_keyboard_handler
  <1>2. WholeCodes(wire, ext_scan_code)
    BY DEF KeyboardInv
  <1>3. (ext_scan_code' <=> (Head(wire) = Prefix)) /\ ext_scan_code' \in BOOLEAN
    BY HandlerFlags
  <1>4. wire' \in Seq(Byte) /\ WholeCodes(wire', ext_scan_code')
    BY <1>1, <1>2, <1>3, KeyboardTypes, ReceivedCode
  <1>5. ASSUME NEW S \in SUBSET Modifier, NEW flag \in BOOLEAN, NEW next,
               Clears(S, flag), Flagged(S, flag, next), held \cap S = {}
        PROVE  EndsClear(wire', ext_scan_code', S, next)
    <2>1. EndsClear(wire, ext_scan_code, S, flag)
      BY <1>5 DEF Clears
    <2>2. /\ next \in BOOLEAN
          /\ Code(wire, ext_scan_code, 1) - 128 \in S => ~next
          /\ Code(wire, ext_scan_code, 1) \notin S => (next => flag)
      BY <1>5 DEF Flagged
    <2>3. EndsClear(Tail(wire), ext_scan_code', S, next)
      BY <1>1, <1>2, <1>3, <1>5, <2>1, <2>2, KeyboardTypes, ReceivedKeepsClear
    <2> QED BY <1>1, <2>3
  <1>6. KeyboardTypeOK'
    BY <1>1, <1>3, <1>4, HandlerFlags, HandlerBuffer
       DEF KeyboardInv, KeyboardTypeOK, Flagged, Byte
  <1>7. held \cap Ctrl = {} => EndsClear(wire', ext_scan_code', Ctrl, ctrl_status')
    BY <1>5, KeyboardTypes, HandlerFlags, ModifierSets DEF KeyboardInv
  <1>8. held \cap Shift = {} => EndsClear(wire', ext_scan_code', Shift, shift_status')
    BY <1>5, KeyboardTypes, HandlerFlags, ModifierSets DEF KeyboardInv
  <1>9. held \cap Alt = {} => EndsClear(wire', ext_scan_code', Alt, alt_status')
    BY <1>5, KeyboardTypes, HandlerFlags, ModifierSets DEF KeyboardInv
  <1>10. repeating' \in held' \cup {NoKey}
    BY <1>1 DEF KeyboardInv
  <1>11. Clears(Ctrl, ctrl_status)' /\ Clears(Shift, shift_status)' /\ Clears(Alt, alt_status)'
    BY <1>1, <1>7, <1>8, <1>9 DEF Clears, Ctrl, Shift, Alt
  <1> QED BY <1>4, <1>6, <1>10, <1>11 DEF KeyboardInv, WholeCodes

\* Every step keeps the invariant.
LEMMA KeyboardNextInv == KeyboardInv /\ [KeyboardNext]_keyboardVars => KeyboardInv'
  <1> SUFFICES ASSUME KeyboardInv, [KeyboardNext]_keyboardVars PROVE KeyboardInv'
    OBVIOUS
  <1>1. CASE repeat \/ \E k \in Key : press(k) \/ release(k)
    BY <1>1, KeyStep
  <1>2. CASE init_keyboard_handler
    BY <1>2, HandlerStep
  <1>3. CASE queue_getchar
    <2>1. /\ keyboard_buffer # << >> /\ keyboard_buffer' = Tail(keyboard_buffer)
          /\ UNCHANGED <<physical, ext_scan_code, modifiers>>
      BY <1>3 DEF queue_getchar
    <2>2. keyboard_buffer \in Seq(Char) /\ Len(keyboard_buffer) < buf_size
      BY DEF KeyboardInv, KeyboardTypeOK
    <2>3. keyboard_buffer' \in Seq(Char) /\ Len(keyboard_buffer') = Len(keyboard_buffer) - 1
      BY <2>1, <2>2, HeadTailProperties
    <2>4. Len(keyboard_buffer') < buf_size
      <3>1. Len(keyboard_buffer) \in Nat
        BY <2>2, LenProperties
      <3> QED BY <2>2, <2>3, <3>1, KeyboardAssumption, SMT
    <2>5. KeyboardTypeOK'
      BY <2>1, <2>3, <2>4 DEF KeyboardInv, KeyboardTypeOK, physical, modifiers
    <2> QED BY <2>1, <2>5 DEF KeyboardInv, Clears, EndsClear, NoMake, Code, WholeCodes,
                              Ctrl, Shift, Alt, physical, modifiers
  <1>4. CASE UNCHANGED keyboardVars
    BY <1>4 DEF keyboardVars, physical, modifiers, KeyboardInv, KeyboardTypeOK, Clears,
                EndsClear, NoMake, Code, WholeCodes, Ctrl, Shift, Alt
  <1> QED BY <1>1, <1>2, <1>3, <1>4 DEF KeyboardNext

\* The invariant holds throughout.
LEMMA KeyboardSafety == KeyboardSpec => []KeyboardInv
  BY KeyboardInitInv, KeyboardNextInv, PTL DEF KeyboardSpec

\* The handler reads nothing but bytes, and keyboard_buffer holds only visible
\* characters of keymap and is never filled to its last slot.
THEOREM KeyboardTypeCorrect == KeyboardSpec => []KeyboardTypeOK
  <1>1. KeyboardInv => KeyboardTypeOK
    BY DEF KeyboardInv
  <1> QED BY <1>1, KeyboardSafety, PTL

\* init_keyboard_handler: whatever keys are pressed and released, in whatever
\* order, a modifier is on only while a key of its name is down, once the bytes
\* on the way have been read.
THEOREM ModifiersComeOff == KeyboardSpec => []NoStuckModifier
  <1>1. KeyboardInv => NoStuckModifier
    <2> SUFFICES ASSUME KeyboardInv, wire = << >> PROVE NoStuckModifier
      BY DEF NoStuckModifier
    <2>1. ~ext_scan_code
      BY DEF KeyboardInv, WholeCodes
    <2>2. Len(wire) = 0 /\ 1..Len(wire) = {}
      <3>1. Len(wire) = 0
        BY EmptySeq
      <3> QED BY <3>1, SMT
    <2>3. \A S, flag : EndsClear(wire, ext_scan_code, S, flag) => ~flag
      BY <2>2 DEF EndsClear
    <2> QED BY <2>1, <2>3 DEF KeyboardInv, Clears, NoStuckModifier
  <1> QED BY <1>1, KeyboardSafety, PTL

\* init_keyboard_handler: its list of keys that caps lock leaves alone agrees
\* with the letters, so every entry queued is of the right row and column of
\* keymap, and it is queued behind the others.
THEOREM TypedCharactersQueued == KeyboardSpec => QueuesRightColumn
  <1> DEFINE Queued == Len(keyboard_buffer') > Len(keyboard_buffer) =>
                         keyboard_buffer' = Append(keyboard_buffer, Typed(Head(wire)))
  <1>1. KeyboardInv /\ [KeyboardNext]_keyboardVars => [Queued]_keyboardVars
    <2> SUFFICES ASSUME KeyboardInv, KeyboardNext,
                        Len(keyboard_buffer') > Len(keyboard_buffer)
                 PROVE  keyboard_buffer' = Append(keyboard_buffer, Typed(Head(wire)))
      OBVIOUS
    <2>1. keyboard_buffer \in Seq(Char) /\ Len(keyboard_buffer) \in Nat
      BY KeyboardTypes, LenProperties
    <2>2. keyboard_buffer' # keyboard_buffer
      BY <2>1, SMT
    <2>3. ~queue_getchar
      <3>1. queue_getchar => Len(keyboard_buffer') = Len(keyboard_buffer) - 1
        BY <2>1, HeadTailProperties DEF queue_getchar
      <3> QED BY <2>1, <3>1, SMT
    <2>4. ~(repeat \/ \E k \in Key : press(k) \/ release(k))
      BY <2>2 DEF repeat, press, release, Sends
    <2>5. init_keyboard_handler
      BY <2>3, <2>4 DEF KeyboardNext
    <2> QED BY <2>2, <2>5, HandlerBuffer
  <1> QED BY <1>1, KeyboardSafety, PTL DEF KeyboardSpec, QueuesRightColumn

=============================================================================
