------------------------------- MODULE Curve --------------------------------
(***************************************************************************)
(* The arithmetic of neo/Core/Cryptography/ECCurve.py: a prime field, the  *)
(* points of a curve over it, and their encodings.  The node decodes every *)
(* public key with it and orders the members of a multi-signature contract *)
(* by it.  Keys are multiplied and messages signed and verified by         *)
(* libraries.                                                              *)
(*                                                                         *)
(* The prime is a parameter with CurveP % 4 = 3, as the node's is.  A      *)
(* field value is kept as it comes out of the code: FieldNeg gives CurveP  *)
(* and not zero for zero.  A coordinate takes the one byte that a value    *)
(* below 256 needs.                                                        *)
(***************************************************************************)
EXTENDS Integers, Sequences

CONSTANTS
    CurveP,   \* the prime of the field
    CurveA,   \* the curve is y^2 = x^3 + CurveA x + CurveB
    CurveB

ASSUME CurveAssumption ==
    /\ CurveP \in 3..255 /\ CurveP % 4 = 3
    /\ CurveA \in 0..(CurveP - 1)
    /\ CurveB \in 1..(CurveP - 1)

(* The extended Euclidean algorithm: <<d, x, y>> with d = x a + y b. *)
RECURSIVE GCD(_, _)
GCD(a, b) ==
    IF a = 0 THEN <<b, 0, 1>>
    ELSE LET g == GCD(b % a, a)
         IN <<g[1], g[3] - (b \div a) * g[2], g[2]>>

(* Zero has zero for its inverse. *)
modinv(x, m) == GCD(x, m)[2]

RECURSIVE modpow(_, _, _)
modpow(base, exponent, m) ==
    IF exponent = 0 THEN 1
    ELSE LET half == modpow(base, exponent \div 2, m)
         IN IF exponent % 2 = 0 THEN (half * half) % m
            ELSE (half * half * base) % m

FieldAdd(a, b) == (a + b) % CurveP
FieldSub(a, b) == (a - b) % CurveP
FieldMul(a, b) == (a * b) % CurveP
FieldDiv(a, b) == (a * modinv(b, CurveP)) % CurveP
FieldPow(a, n) == modpow(a, n, CurveP)
FieldEq(a, b)  == (a - b) % CurveP = 0
FieldNeg(a)    == CurveP - a

(* sqrtCQ for a prime whose second bit is set: the only candidate is tried *)
(* and -1 stands for None.                                                 *)
sqrtCQ(val) ==
    LET z == modpow(val, (CurveP \div 4) + 1, CurveP)
    IN IF (z * z) % CurveP = val THEN z ELSE -1

-----------------------------------------------------------------------------
(* Points. *)

Point(x, y) == [x |-> x, y |-> y]

Infinity == Point(0, 0)

(* Not so for the negative of Infinity, whose y is CurveP. *)
IsZero(p) == p.x = 0 /\ p.y = 0

PointEq(p, q) == FieldEq(p.x, q.x) /\ FieldEq(p.y, q.y)

(* x^3 + a x + b *)
YSquare(x) == FieldAdd(FieldAdd(FieldPow(x, 3), FieldMul(CurveA, x)), CurveB)

IsOnCurve(p) == IsZero(p) \/ FieldEq(FieldPow(p.y, 2), YSquare(p.x))

(* The third point of the line through p and q, mirrored. *)
ThirdPoint(p, q, slope) ==
    LET x == FieldSub(FieldPow(slope, 2), FieldAdd(p.x, q.x))
    IN Point(x, FieldSub(FieldMul(slope, FieldSub(p.x, x)), p.y))

Tangent(p) == FieldDiv(FieldAdd(FieldMul(3, FieldPow(p.x, 2)), CurveA), FieldMul(2, p.y))
Chord(p, q) == FieldDiv(FieldSub(p.y, q.y), FieldSub(p.x, q.x))

\* Mutant: two points with one abscissa are taken to be the same.
PointAddAnyDoubled(p, q) ==
    IF IsZero(p) THEN q
    ELSE IF IsZero(q) THEN p
    ELSE IF FieldEq(p.x, q.x) THEN ThirdPoint(p, q, Tangent(p))
    ELSE ThirdPoint(p, q, Chord(p, q))

PointAdd(p, q) ==
    IF IsZero(p) THEN q
    ELSE IF IsZero(q) THEN p
    ELSE IF PointEq(p, q)
    THEN IF FieldEq(p.y, 0) THEN Infinity ELSE ThirdPoint(p, q, Tangent(p))
    ELSE IF FieldEq(p.x, q.x) THEN Infinity
    ELSE ThirdPoint(p, q, Chord(p, q))

PointNeg(p) == Point(p.x, FieldNeg(p.y))

PointSub(p, q) == PointAdd(p, PointNeg(q))

(* __lt__: points with the same abscissa are not ordered. *)
PointLess(p, q) == ~PointEq(p, q) /\ p.x < q.x

-----------------------------------------------------------------------------
(* Encodings. *)

EncodingLength == 1

(* encode_point *)
EncodePoint(p, compressed) ==
    IF PointEq(p, Infinity) THEN <<0>>
    ELSE IF compressed THEN <<IF p.y % 2 = 0 THEN 2 ELSE 3, p.x>>
    ELSE <<4, p.x, p.y>>

NoPoint == Point(-1, -1)

(* decompress_from_curve; the remainder of None raises. *)
DecompressFromCurve(x, flag) ==
    LET root == sqrtCQ(YSquare(x))
    IN IF root = -1 THEN NoPoint
       ELSE Point(x, IF root % 2 # flag THEN (CurveP - root) % CurveP ELSE root)

(* decode_from_hex; NoPoint when it raises.  A point that is not           *)
(* compressed is not checked to be on the curve.                           *)
DecodeFromHex(b) ==
    IF b = <<>> THEN NoPoint
    ELSE IF b[1] = 0 THEN Infinity
    ELSE IF b[1] \in {2, 3} /\ Len(b) = EncodingLength + 1
    THEN DecompressFromCurve(b[2], b[1] % 2)
    ELSE IF b[1] = 4 /\ Len(b) = 2 * EncodingLength + 1
    THEN Point(b[2], b[3])
    ELSE NoPoint

(* decode_secp256r1 with check_on_curve *)
DecodeChecked(b) ==
    LET p == DecodeFromHex(b)
    IN IF p # NoPoint /\ IsOnCurve(p) THEN p ELSE NoPoint
=============================================================================
