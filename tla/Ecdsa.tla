--------------------------------- MODULE Ecdsa ---------------------------------
(***************************************************************************)
(* ec.c: ECDSA as makeself and pkg sign with it and sceverify verifies.    *)
(*                                                                         *)
(* Numbers modulo the order N are digits, with the functions of BigNum, so *)
(* that what those do with a number that is not below N is what the code   *)
(* does.  An elt is always below the prime p, where BnRegisters shows that *)
(* bn.c does arithmetic modulo p: it is its value here.  An elt has one    *)
(* digit less than a number modulo N, 20 bytes against 21.                 *)
(***************************************************************************)
EXTENDS BigNum

CONSTANTS LEN,      \* 21 in the code
          Curves,   \* records [p, a, b, N, x, y], x and y those of the base point
          Keys,     \* private keys
          Given     \* values of the R and S that a file may have

P_R == BASE ^ (LEN - 1)    \* the Montgomery factor of elts

ASSUME GivenAssumption == Given \subseteq 0..(BASE ^ LEN - 1)

ASSUME CurvesAssumption ==
    \A cv \in Curves : /\ cv.p \in 3..(P_R - 1) /\ cv.p % 2 = 1
                       /\ cv.N \in 3..(P_R * BASE - 1) /\ cv.N % 2 = 1
                       /\ P_R <= 2 * cv.N    \* one bn_reduce is enough for a hash

VARIABLES curve,   \* the parameters in use
          k,       \* the private key, of which the public key is made
          hash, pc,
          m,       \* the random number of generate_ecdsa
          R, S,    \* the two buffers of the signature
          given,   \* R and S as ecdsa_verify got them
          w1, w2,
          ok       \* what ecdsa_verify returns

vars == <<curve, k, hash, pc, m, R, S, given, w1, w2, ok>>

-----------------------------------------------------------------------------
(* Elts, in Montgomery form *)

p == curve.p

\* What there is to multiply with to divide by v.
Reciprocal[v \in 0..(p - 1)] == IF v = 0 THEN 0 ELSE CHOOSE u \in 0..(p - 1) : (u * v) % p = 1

elt_add(x, y) == (x + y) % p
elt_sub(x, y) == (x - y) % p
elt_mul(x, y) == (x * y * Reciprocal[P_R % p]) % p
elt_inv(x) == (Reciprocal[x] * P_R * P_R) % p

to_mon(x) == (x * P_R) % p
from_mon(x) == (x * Reciprocal[P_R % p]) % p

Points == [x : 0..(p - 1), y : 0..(p - 1)]
Point(x, y) == [x |-> x, y |-> y]
point_zero == Point(0, 0)
point_to_mon(q) == Point(to_mon(q.x), to_mon(q.y))
point_from_mon(q) == Point(from_mon(q.x), from_mon(q.y))

\* Wrong on purpose: the sign of the difference.
BadThird(s, q, x) ==
    LET rx == elt_sub(elt_mul(s, s), elt_add(q.x, x))
    IN  Point(rx, elt_sub(elt_mul(s, elt_sub(rx, q.x)), q.y))

\* Of the line with slope s through q and a point at x: minus its third point.
Third(s, q, x) ==
    LET rx == elt_sub(elt_mul(s, s), elt_add(q.x, x))
    IN  Point(rx, elt_sub(elt_mul(s, elt_sub(q.x, rx)), q.y))

point_double[q \in Points] ==
    LET xx == elt_mul(q.x, q.x)
        s  == elt_mul(elt_add(elt_add(elt_add(xx, xx), xx), to_mon(curve.a)),
                      elt_inv(elt_add(q.y, q.y)))
    IN  IF q.y = 0 THEN point_zero ELSE Third(s, q, q.x)

point_add[q, r \in Points] ==
    LET s == elt_mul(elt_inv(elt_sub(r.x, q.x)), elt_sub(r.y, q.y))
    IN  IF q = point_zero THEN r
        ELSE IF r = point_zero THEN q
        ELSE IF q.x # r.x THEN Third(s, q, r.x)
        ELSE IF q.y = r.y THEN point_double[q] ELSE point_zero

\* Doubled for every bit of the number, from the highest on.
point_mul(a, q) ==
    LET d[j \in 0..(BITS * Len(a))] ==
          IF j = 0 THEN point_zero
          ELSE IF Bit(a, j) = 1 THEN point_add[point_double[d[j - 1]], q]
          ELSE point_double[d[j - 1]]
    IN  d[BITS * Len(a)]

G == point_to_mon(Point(curve.x, curve.y))
Q == point_mul(Number(k % curve.N, LEN), G)
N == Number(curve.N, LEN)

\* The hash as a number; its 20 bytes are one less than those of N.
e == bn_reduce[Number(hash, LEN), N]
Num(x) == Number(x, LEN)

-----------------------------------------------------------------------------
Init == /\ curve \in Curves
        /\ k \in Keys
        /\ hash \in 0..(P_R - 1)
        /\ m = bn_zero(LEN)
        /\ w1 = bn_zero(LEN) /\ w2 = bn_zero(LEN)
        /\ ok = "none"
        /\ \/ pc = "draw" /\ R = bn_zero(LEN) /\ S = bn_zero(LEN)
           \/ /\ pc = "verify"       \* a signature from a file, of any octets
              /\ R \in {Num(v) : v \in Given} /\ S \in {Num(v) : v \in Given}
        /\ given = <<R, S>>

\* generate_ecdsa: m from /dev/random, its first digit cleared, and again
\* until it is below N.
TryAgain ==
    /\ pc = "draw"
    /\ \E v \in 0..(P_R - 1) :
         /\ m' = Num(v)
         /\ pc' = IF bn_compare[Num(v), N] >= 0 THEN "draw" ELSE "R"
    /\ UNCHANGED <<curve, k, hash, R, S, given, w1, w2, ok>>

GenerateR ==
    /\ pc = "R"
    /\ R' = Num(point_from_mon(point_mul(m, G)).x)
    /\ pc' = "S"
    /\ UNCHANGED <<curve, k, hash, m, S, given, w1, w2, ok>>

\* Wrong on purpose: the hash is not in Montgomery form.
BadGenerateS ==
    /\ pc = "S"
    /\ LET kk    == bn_to_mon[bn_reduce[Num(k), N], N]
           Rm    == bn_to_mon[R, N]
           sum   == bn_add[bn_mon_mul[Rm, kk, N], e, N]
           minv  == bn_mon_inv[bn_to_mon[m, N], N]
       IN  /\ S' = bn_from_mon[bn_mon_mul[minv, sum, N], N]
           /\ R' = bn_from_mon[Rm, N]
    /\ given' = <<R', S'>>
    /\ pc' = "verify"
    /\ UNCHANGED <<curve, k, hash, m, w1, w2, ok>>

\* S = (e + R k) / m, and R there and back: it may not be below N.
GenerateS ==
    /\ pc = "S"
    /\ LET kk    == bn_to_mon[bn_reduce[Num(k), N], N]
           Rm    == bn_to_mon[R, N]
           sum   == bn_add[bn_mon_mul[Rm, kk, N], bn_to_mon[e, N], N]
           minv  == bn_mon_inv[bn_to_mon[m, N], N]
       IN  /\ S' = bn_from_mon[bn_mon_mul[minv, sum, N], N]
           /\ R' = bn_from_mon[Rm, N]
    /\ given' = <<R', S'>>
    /\ pc' = "verify"
    /\ UNCHANGED <<curve, k, hash, m, w1, w2, ok>>

\* check_ecdsa converts the caller's R and S in place ..
CheckToMon ==
    /\ pc = "verify"
    /\ R' = bn_to_mon[R, N] /\ S' = bn_to_mon[S, N]
    /\ pc' = "w"
    /\ UNCHANGED <<curve, k, hash, m, given, w1, w2, ok>>

\* Wrong on purpose: the two factors are exchanged.
BadCheckW ==
    /\ pc = "w"
    /\ LET Sinv == bn_mon_inv[S, N]
       IN  /\ w2' = bn_from_mon[bn_mon_mul[bn_to_mon[e, N], Sinv, N], N]
           /\ w1' = bn_from_mon[bn_mon_mul[R, Sinv, N], N]
    /\ pc' = "compare"
    /\ UNCHANGED <<curve, k, hash, m, R, S, given, ok>>

CheckW ==
    /\ pc = "w"
    /\ LET Sinv == bn_mon_inv[S, N]
       IN  /\ w1' = bn_from_mon[bn_mon_mul[bn_to_mon[e, N], Sinv, N], N]
           /\ w2' = bn_from_mon[bn_mon_mul[R, Sinv, N], N]
    /\ pc' = "compare"
    /\ UNCHANGED <<curve, k, hash, m, R, S, given, ok>>

\* .. and back before it compares.
CheckCompare ==
    /\ pc = "compare"
    /\ LET r1 == point_from_mon(point_add[point_mul(w1, G), point_mul(w2, Q)])
       IN  /\ R' = bn_from_mon[R, N] /\ S' = bn_from_mon[S, N]
           /\ ok' = IF bn_compare[bn_reduce[Num(r1.x), N], R'] = 0 THEN "OK" ELSE "FAIL"
    /\ pc' = "done"
    /\ UNCHANGED <<curve, k, hash, m, given, w1, w2>>

Next == TryAgain \/ GenerateR \/ GenerateS \/ CheckToMon \/ CheckW \/ CheckCompare

Spec == Init /\ [][Next]_vars

-----------------------------------------------------------------------------
(* Properties *)

\* The curve itself, in ordinary coordinates, with "O" for its zero.
Slope(num, den) == CHOOSE s \in 0..(p - 1) : (s * den) % p = num % p

Plus(u, v) ==
    LET s  == IF u = v THEN Slope(3 * u[1] * u[1] + curve.a, 2 * u[2])
              ELSE Slope(u[2] - v[2], u[1] - v[1])
        x3 == (s * s - u[1] - v[1]) % p
    IN  IF u = "O" THEN v ELSE IF v = "O" THEN u
        ELSE IF u[1] = v[1] /\ (u[2] + v[2]) % p = 0 THEN "O"
        ELSE <<x3, (s * (u[1] - x3) - u[2]) % p>>

Times(t) == LET d[j \in 0..t] == IF j = 0 THEN "O" ELSE Plus(d[j - 1], <<curve.x, curve.y>>)
            IN  d[t]

\* point_mul with its doublings and additions, in Montgomery form and with
\* the zero of the curve stored as (0, 0), is repeated addition.
MultiplesRight ==
    pc = "S" =>
        LET mG == point_from_mon(point_mul(m, G))
        IN  mG = IF Times(Value(m)) = "O" THEN point_zero
                 ELSE Point(Times(Value(m))[1], Times(Value(m))[2])

\* check_ecdsa says OK exactly when the equation of ECDSA holds for the numbers
\* that it leaves in R and S, whatever octets they were: with u such that
\* u S = e + R k modulo N, the x coordinate of u times the base point is R modulo
\* N.  Nothing divides by S = 0, for which u is 0, and the zero of the curve has
\* 0 for an x coordinate: R = S = 0 is accepted for every hash.  Below N the
\* numbers are those of the caller, and R and S, which point into the header of
\* the file, are not changed; from N on bn_to_mon makes others of them.
Equation(r, s) ==
    LET u == IF s % curve.N = 0 THEN 0
             ELSE CHOOSE v \in 0..(curve.N - 1) : (v * s) % curve.N = (hash + r * k) % curve.N
        x == IF Times(u) = "O" THEN 0 ELSE Times(u)[1]
    IN  x % curve.N = r

CheckIsEquation ==
    pc = "done" =>
        /\ ok = "OK" <=> Equation(Value(R), Value(S))
        /\ Value(given[1]) < curve.N => R = given[1]
        /\ Value(given[2]) < curve.N => S = given[2]

\* What ecdsa_sign makes, ecdsa_verify accepts: for every key, hash and m, if
\* the x coordinate that becomes R is below N and S is not 0.
SignatureVerifies ==
    pc = "done" /\ Value(m) # 0 /\ Value(S) # 0 /\ Times(Value(m))[1] < curve.N =>
        ok = "OK"
=============================================================================
