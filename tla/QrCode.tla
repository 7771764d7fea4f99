------------------------------- MODULE QrCode -------------------------------
(***************************************************************************)
(* The QR image of an invite code (src/qr-code.ts): byte mode, error       *)
(* correction level L, the mask with the least penalty.  The reference is  *)
(* what a reader of QR codes does with the image.                          *)
(*                                                                         *)
(* A matrix is the set of its dark modules <<row, column>>.                *)
(***************************************************************************)
EXTENDS Integers, Sequences, FiniteSets, Bitwise

CONSTANTS
    InviteLengths,  \* bytes of an invite code
    Strides         \* kinds of invite codes of one length

ASSUME QrAssumption == InviteLengths \cup Strides \subseteq Nat \ {0}

VARIABLES
    invite,  \* the bytes of the invite code shown; none is empty
    matrix   \* inviteQrMatrix, the dark modules

qrVars == <<invite, matrix>>

QrTypeOK == invite \in Seq(0..255) /\ matrix \subseteq Nat \X Nat

QrInit == invite = <<>> /\ matrix = {}

\* F(value); TLC computes the value once.
Once(value, F(_)) == CHOOSE y \in {F(x) : x \in {value}} : TRUE

\* Letters, as encodeInviteCode's base64url has them.
InviteCode(length, stride) == [i \in 1..length |-> 65 + ((i * stride) % 26)]

(***************************************************************************)
(* Versions.                                                               *)
(***************************************************************************)
DataCounts  == <<<<19>>, <<34>>, <<55>>, <<80>>, <<108>>, <<68, 68>>, <<78, 78>>,
                 <<97, 97>>, <<116, 116>>, <<68, 68, 69, 69>>>>
ErrorCounts == <<7, 10, 15, 20, 26, 18, 20, 24, 30, 18>>
AlignmentPatternPositions ==
    <<{}, {6, 18}, {6, 22}, {6, 26}, {6, 30}, {6, 34}, {6, 22, 38},
      {6, 24, 42}, {6, 26, 46}, {6, 28, 50}>>

RECURSIVE TotalOf(_)
TotalOf(counts) == IF counts = <<>> THEN 0 ELSE Head(counts) + TotalOf(Tail(counts))

Capacity(version)   == TotalOf(DataCounts[version])
LengthBits(version) == IF version < 10 THEN 8 ELSE 16
Fits(version, bytes) == 4 + LengthBits(version) + 8 * bytes <= 8 * Capacity(version)

\* invite-code-too-large when none of them fits
ChooseVersion(bytes) ==
    CHOOSE v \in DOMAIN DataCounts :
        Fits(v, bytes) /\ \A w \in 1..(v - 1) : ~Fits(w, bytes)

(***************************************************************************)
(* Bits and codewords.                                                     *)
(***************************************************************************)
BitOf(value, i)  == (value \div 2^i) % 2
BitsOf(value, n) == [i \in 1..n |-> BitOf(value, n - i)]

RECURSIVE ValueOf(_)
ValueOf(bits) ==
    IF bits = <<>> THEN 0 ELSE 2 * ValueOf(SubSeq(bits, 1, Len(bits) - 1)) + bits[Len(bits)]

ByteAt(bits, k) == ValueOf(SubSeq(bits, 8 * k - 7, 8 * k))

\* Mode, length, bytes, terminator, and zeros up to a whole byte.
DataBits(version, data) ==
    LET bits == BitsOf(4, 4) \o BitsOf(Len(data), LengthBits(version))
                    \o [i \in 1..8 * Len(data) |-> BitOf(data[((i - 1) \div 8) + 1], 7 - ((i - 1) % 8))]
        ended == IF Len(bits) + 4 <= 8 * Capacity(version) THEN bits \o BitsOf(0, 4) ELSE bits
    IN  ended \o BitsOf(0, (8 - (Len(ended) % 8)) % 8)

DataCodewords(version, data) ==
    Once(DataBits(version, data), LAMBDA bits :
        [k \in 1..Capacity(version) |->
            IF k <= Len(bits) \div 8 THEN ByteAt(bits, k)
            ELSE IF k % 2 = 1 THEN 236 ELSE 17])

(***************************************************************************)
(* Reed-Solomon codes over the field of 256 elements.                      *)
(***************************************************************************)
Doubled(x) == IF 2 * x >= 256 THEN (2 * x) ^^ 285 ELSE 2 * x

\* Sequences are worked through by halves, which keeps the recursion shallow.
FirstHalf(s)  == SubSeq(s, 1, Len(s) \div 2)
SecondHalf(s) == SubSeq(s, Len(s) \div 2 + 1, Len(s))

\* x, doubled once, doubled twice, ...
RECURSIVE Doublings(_, _)
Doublings(n, x) ==
    IF n = 1 THEN <<x>>
    ELSE Once(Doublings(n \div 2, x), LAMBDA powers :
             powers \o Doublings(n - n \div 2, Doubled(powers[n \div 2])))

GfExp == Doublings(255, 1)
GfLog == Once(Doublings(255, 1),
              LAMBDA exp : [x \in 1..255 |-> CHOOSE i \in 0..254 : exp[i + 1] = x])
GfPower(power) == GfExp[(power % 255) + 1]
GfMultiply(x, y) == IF x = 0 \/ y = 0 THEN 0 ELSE GfPower(GfLog[x] + GfLog[y])

\* p * (x + a), coefficients from the highest
MultiplyPolynomials(p, a) ==
    [k \in 1..(Len(p) + 1) |-> (IF k <= Len(p) THEN p[k] ELSE 0)
                                 ^^ (IF k > 1 THEN GfMultiply(p[k - 1], a) ELSE 0)]

RECURSIVE ProductOfRoots(_)
ProductOfRoots(n) ==
    IF n = 0 THEN <<1>>
    ELSE Once(ProductOfRoots(n - 1), LAMBDA p : MultiplyPolynomials(p, GfPower(n - 1)))

GeneratorPolynomial(n) == Tail(ProductOfRoots(n))

RECURSIVE Remainder(_, _, _)
Remainder(data, generator, rest) ==
    IF Len(data) = 1
    THEN LET factor  == data[1] ^^ Head(rest)
             shifted == Append(Tail(rest), 0)
         IN  [i \in DOMAIN rest |-> shifted[i] ^^ GfMultiply(generator[i], factor)]
    ELSE Once(Remainder(FirstHalf(data), generator, rest),
              LAMBDA next : Remainder(SecondHalf(data), generator, next))

ErrorCorrection(words, n) ==
    Once(GeneratorPolynomial(n), LAMBDA generator :
        Once(words, LAMBDA data : Remainder(data, generator, [i \in 1..n |-> 0])))

\* The first of every block, the second of every block that has one, ...
Interleaved(blocks) ==
    LET n      == Len(blocks)
        rounds == SelectSeq([k \in 1..(n * Len(blocks[n])) |-> <<((k - 1) % n) + 1, ((k - 1) \div n) + 1>>],
                            LAMBDA at : at[2] <= Len(blocks[at[1]]))
    IN  [k \in DOMAIN rounds |-> blocks[rounds[k][1]][rounds[k][2]]]

Codewords(version, words) ==
    LET counts == DataCounts[version]
        start(b) == TotalOf(SubSeq(counts, 1, b - 1))
        blocks == [b \in DOMAIN counts |-> SubSeq(words, start(b) + 1, start(b) + counts[b])]
    IN  Once(blocks, Interleaved)
            \o Once([b \in DOMAIN counts |-> ErrorCorrection(blocks[b], ErrorCounts[version])], Interleaved)

(***************************************************************************)
(* The function patterns.                                                  *)
(***************************************************************************)
Size(version)  == 4 * version + 17
Modules(size)  == (0..size - 1) \X (0..size - 1)
Larger(a, b)   == IF a < b THEN b ELSE a
Apart(a, b)    == Larger(a - b, b - a)
Ring(at, centre) == Larger(Apart(at[1], centre[1]), Apart(at[2], centre[2]))
Around(size, centres, radius) ==
    {at \in Modules(size) : \E centre \in centres : Ring(at, centre) <= radius}

FinderCentres(size) == {<<3, 3>>, <<3, size - 4>>, <<size - 4, 3>>}
Timing(size) == {at \in Modules(size) : \/ at[1] = 6 /\ at[2] \in 8..size - 9
                                        \/ at[2] = 6 /\ at[1] \in 8..size - 9}

\* Only where neither a finder nor the timing pattern is.
AlignmentCentres(version) ==
    LET size      == Size(version)
        positions == AlignmentPatternPositions[version]
    IN  (positions \X positions) \ (Around(size, FinderCentres(size), 4) \cup Timing(size))

TypeInfo(size) ==
    UNION {{<<8, i>>, <<i, 8>>} : i \in (0..8 \ {6}) \cup (size - 8..size - 1)}

FunctionPatterns(version) ==
    LET size == Size(version)
    IN  Around(size, FinderCentres(size), 4) \cup Timing(size) \cup TypeInfo(size)
            \cup Around(size, AlignmentCentres(version), 2)

DarkPatterns(version) ==
    LET size == Size(version)
    IN  {at \in Around(size, FinderCentres(size), 4) :
            \E centre \in FinderCentres(size) : Ring(at, centre) \in {0, 1, 3}}
        \cup {at \in Timing(size) : (at[1] + at[2]) % 2 = 0}
        \cup {at \in Around(size, AlignmentCentres(version), 2) :
                \E centre \in AlignmentCentres(version) : Ring(at, centre) \in {0, 2}}

\* Level L and the mask, ten check bits, and the fixed mask of type information.
BchTypeInfo(mask) ==
    LET data == 8 + mask
        rest[d \in 0..5] ==
            IF d = 0 THEN data * 1024
            ELSE IF rest[d - 1] >= 2^(15 - d) THEN rest[d - 1] ^^ (1335 * 2^(5 - d)) ELSE rest[d - 1]
    IN  (data * 1024 + rest[5]) ^^ 21522

TypeInfoPlaces(size, i) ==
    {IF i < 6 THEN <<i, 8>> ELSE IF i < 8 THEN <<i + 1, 8>> ELSE <<size - 15 + i, 8>>,
     IF i < 8 THEN <<8, size - i - 1>> ELSE IF i = 8 THEN <<8, 7>> ELSE <<8, 14 - i>>}

DarkTypeInfo(size, mask) ==
    {<<size - 8, 8>>} \cup
    UNION {TypeInfoPlaces(size, i) : i \in {i \in 0..14 : BitOf(BchTypeInfo(mask), i) = 1}}

(***************************************************************************)
(* Data and mask.                                                          *)
(***************************************************************************)
\* Mutant: the column of the timing pattern is not skipped.
PathThroughTiming(size, i) ==
    LET pair == i \div (2 * size)
        r    == (i % (2 * size)) \div 2
    IN  <<IF pair % 2 = 0 THEN size - 1 - r ELSE r, size - 1 - 2 * pair - (i % 2)>>

\* Two columns at a time, from the right, up and down in turn; column 6 is skipped.
Path(size, i) ==
    LET pair  == i \div (2 * size)
        right == size - 1 - 2 * pair
        r     == (i % (2 * size)) \div 2
    IN  <<IF pair % 2 = 0 THEN size - 1 - r ELSE r,
          (IF right <= 6 THEN right - 1 ELSE right) - (i % 2)>>

MaskData(mask, at) ==
    LET r == at[1]
        c == at[2]
    IN  CASE mask = 0 -> (r + c) % 2 = 0
          [] mask = 1 -> r % 2 = 0
          [] mask = 2 -> c % 3 = 0
          [] mask = 3 -> (r + c) % 3 = 0
          [] mask = 4 -> ((r \div 2) + (c \div 3)) % 2 = 0
          [] mask = 5 -> ((r * c) % 2) + ((r * c) % 3) = 0
          [] mask = 6 -> (((r * c) % 2) + ((r * c) % 3)) % 2 = 0
          [] mask = 7 -> (((r + c) % 2) + ((r * c) % 3)) % 2 = 0

\* The modules of a path outside a set, in its order.
Along(size, Step(_, _), taken) ==
    Once(taken, LAMBDA set : SelectSeq([i \in 1..size * (size - 1) |-> Step(size, i - 1)],
                                       LAMBDA at : at \notin set))

\* Codewords fill the free modules along the path, zeros what they leave.
DarkData(version, codewords, mask) ==
    LET bit(k) == /\ k <= 8 * Len(codewords)
                  /\ BitOf(codewords[((k - 1) \div 8) + 1], 7 - ((k - 1) % 8)) = 1
    IN  Once(Along(Size(version), Path, FunctionPatterns(version)), LAMBDA free :
            {free[k] : k \in {k \in DOMAIN free : bit(k) # MaskData(mask, free[k])}})

(***************************************************************************)
(* The penalty of a matrix.                                                *)
(***************************************************************************)
Lines(size) ==
    {[i \in 0..size - 1 |-> <<k, i>>] : k \in 0..size - 1}
        \cup {[i \in 0..size - 1 |-> <<i, k>>] : k \in 0..size - 1}

\* A run of n >= 5 has n - 4 windows of five and counts n - 2.
PenaltyRuns(size, dark) ==
    LET five(line, i) == \A j \in i + 1..i + 4 : (line[j] \in dark) = (line[i] \in dark)
        windows == {w \in Lines(size) \X (0..size - 5) : five(w[1], w[2])}
        first(w) == w[2] = 0 \/ (w[1][w[2] - 1] \in dark) # (w[1][w[2]] \in dark)
    IN  Cardinality(windows) + 2 * Cardinality({w \in windows : first(w)})

PenaltyBlocks(size, dark) ==
    3 * Cardinality({at \in (0..size - 2) \X (0..size - 2) :
            LET block == {<<at[1] + i, at[2] + j>> : i, j \in {0, 1}}
            IN  block \subseteq dark \/ block \cap dark = {}})

FinderLike == <<TRUE, FALSE, TRUE, TRUE, TRUE, FALSE, TRUE, FALSE, FALSE, FALSE, FALSE>>

PenaltyFinderLike(size, dark) ==
    40 * Cardinality({w \in Lines(size) \X (0..size - 11) :
            \/ \A j \in 1..11 : (w[1][w[2] + j - 1] \in dark) = FinderLike[j]
            \/ \A j \in 1..11 : (w[1][w[2] + j - 1] \in dark) = FinderLike[12 - j]})

PenaltyDarkRatio(size, dark) ==
    10 * (Apart(100 * Cardinality(dark), 50 * size * size) \div (5 * size * size))

Penalty(size, dark) ==
    PenaltyRuns(size, dark) + PenaltyBlocks(size, dark)
        + PenaltyFinderLike(size, dark) + PenaltyDarkRatio(size, dark)

(***************************************************************************)
(* The image.                                                              *)
(***************************************************************************)
Candidates(version, codewords) ==
    [mask \in 0..7 |-> DarkPatterns(version) \cup DarkTypeInfo(Size(version), mask)
                          \cup DarkData(version, codewords, mask)]

\* The first of those with the least penalty.
Best(penalty) ==
    CHOOSE m \in 0..7 : \A n \in 0..7 :
        penalty[m] < penalty[n] \/ (penalty[m] = penalty[n] /\ m <= n)

BuildMatrix(version, data) ==
    Once(Codewords(version, DataCodewords(version, data)), LAMBDA codewords :
        Once(Candidates(version, codewords), LAMBDA candidates :
            candidates[Once([mask \in 0..7 |-> Penalty(Size(version), candidates[mask])], Best)]))

InviteCodes == {InviteCode(length, stride) : length \in InviteLengths, stride \in Strides}

CreateQrMatrix == [text \in InviteCodes |-> BuildMatrix(ChooseVersion(Len(text)), text)]

\* A room is created, and its invite is shown.
ShowInvite ==
    \E text \in InviteCodes : invite' = text /\ matrix' = CreateQrMatrix[text]

QrNext == ShowInvite

QrSpec == QrInit /\ [][QrNext]_qrVars

(***************************************************************************)
(* What a reader of QR codes does (ISO/IEC 18004), for a matrix of known   *)
(* version without damage.                                                 *)
(***************************************************************************)
FormatOfMask == <<30660, 29427, 32170, 30877, 26159, 25368, 27713, 26998>>

\* The two copies of the format, from the highest bit.
FormatCopies(size) ==
    {[i \in 1..15 |-> CASE i <= 6 -> <<8, i - 1>>
                        [] i = 7 -> <<8, 7>>
                        [] i = 8 -> <<8, 8>>
                        [] i = 9 -> <<7, 8>>
                        [] i > 9 -> <<15 - i, 8>>],
     [i \in 1..15 |-> IF i <= 7 THEN <<size - i, 8>> ELSE <<8, size - 16 + i>>]}

Dark(at) == IF at \in matrix THEN 1 ELSE 0

ReadMasks(size) ==
    {m \in 0..7 : \A copy \in FormatCopies(size) :
        ValueOf([i \in 1..15 |-> Dark(copy[i])]) = FormatOfMask[m + 1]}

\* Finders and their format, timing, every alignment pattern that is not at a
\* finder, and from version 7 on the two blocks of version information.
ReadFunctions(version) ==
    LET size    == Size(version)
        corner(at) == \/ at[1] <= 8 /\ (at[2] <= 8 \/ at[2] >= size - 8)
                      \/ at[1] >= size - 8 /\ at[2] <= 8
        centres == {at \in AlignmentPatternPositions[version] \X AlignmentPatternPositions[version] :
                        ~corner(at)}
        information(a, b) == version >= 7 /\ a <= 5 /\ b \in size - 11..size - 9
    IN  {at \in Modules(size) :
            \/ corner(at) \/ 6 \in {at[1], at[2]}
            \/ \E centre \in centres : Ring(at, centre) <= 2
            \/ information(at[1], at[2]) \/ information(at[2], at[1])}

ReadPath(size, i) ==
    LET pair  == i \div (2 * size)
        right == IF pair < (size - 7) \div 2 THEN size - 1 - 2 * pair ELSE size - 2 - 2 * pair
        r     == (i \div 2) % size
    IN  <<IF pair % 2 = 1 THEN r ELSE size - 1 - r, IF i % 2 = 0 THEN right ELSE right - 1>>

ReadWords(version, mask) ==
    LET bit(at) == IF MaskData(mask, at) THEN 1 - Dark(at) ELSE Dark(at)
    IN  Once(Along(Size(version), ReadPath, ReadFunctions(version)), LAMBDA data :
            Once([k \in DOMAIN data |-> bit(data[k])], LAMBDA bits :
                [k \in 1..Len(bits) \div 8 |-> ByteAt(bits, k)]))

\* Where the words of a block are: the longer blocks come last.
ReadBlock(version, words, b) ==
    LET counts == DataCounts[version]
        n      == Len(counts)
        short  == Cardinality({c \in DOMAIN counts : counts[c] = counts[1]})
    IN  [j \in 1..counts[b] |-> IF j <= counts[1] THEN words[(j - 1) * n + b]
                                                  ELSE words[counts[1] * n + b - short]]
        \o [j \in 1..ErrorCounts[version] |-> words[TotalOf(counts) + (j - 1) * n + b]]

\* The polynomial value * x^n + word at x.
RECURSIVE Evaluated(_, _, _)
Evaluated(word, x, value) ==
    IF Len(word) = 1 THEN GfMultiply(value, x) ^^ word[1]
    ELSE Once(Evaluated(FirstHalf(word), x, value),
              LAMBDA next : Evaluated(SecondHalf(word), x, next))

Undamaged(version, block) ==
    \A i \in 0..ErrorCounts[version] - 1 : Evaluated(block, GfPower(i), 0) = 0

RECURSIVE Joined(_)
Joined(parts) == IF parts = <<>> THEN <<>> ELSE Head(parts) \o Joined(Tail(parts))

ReadData(version, words) ==
    Joined([b \in DOMAIN DataCounts[version] |->
               SubSeq(ReadBlock(version, words, b), 1, DataCounts[version][b])])

\* The bytes of the text, after mode and length.
TextOf(version, data) ==
    LET first == 4 + LengthBits(version)
    IN  Once([i \in 1..8 * Len(data) |-> BitOf(data[((i - 1) \div 8) + 1], 7 - ((i - 1) % 8))],
             LAMBDA bits : [k \in 1..ValueOf(SubSeq(bits, 5, first)) |->
                               ValueOf(SubSeq(bits, first + 8 * k - 7, first + 8 * k))])

(***************************************************************************)
(* Properties.                                                             *)
(***************************************************************************)
\* A reader recovers from the image the invite code it stands for: the image
\* has one mask in both copies of the format, no block is damaged, and the
\* bytes are those of the code (README.md:252 of the repository: the
\* application shows the same code as a QR image).  It does not hold from
\* version 7 on, for 135 bytes and more: SetupFunctionPatterns draws no version
\* information.
QrShowsInvite ==
    invite # <<>> =>
        LET version == ChooseVersion(Len(invite))
        IN  \E mask \in ReadMasks(Size(version)) : \E words \in {ReadWords(version, mask)} :
                /\ \A b \in DOMAIN DataCounts[version] :
                       \E block \in {ReadBlock(version, words, b)} : Undamaged(version, block)
                /\ TextOf(version, ReadData(version, words)) = invite
=============================================================================
