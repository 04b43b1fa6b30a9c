------------------------------- MODULE Curve -------------------------------
(***************************************************************************)
(* What the group code promises: the points of the curve are the multiples *)
(* of the generator, and a Jacobian point stands for one of them whatever  *)
(* its z coordinate is.  Nothing here is code of the library; the group    *)
(* law is the textbook one on affine integers, and the scalar              *)
(* multiplications and signatures are checked against it.                  *)
(***************************************************************************)
EXTENDS Group, Scalar

CONSTANTS Gx, Gy   \* the generator

Infinity == <<>>

RefAdd(p, q) ==
    LET slope == IF p = q THEN ((3 * p[1] * p[1]) % P) * Pow(2 * p[2], P - 2)
                          ELSE (q[2] - p[2]) * Pow((q[1] - p[1]) % P, P - 2)
        x == (slope * slope - p[1] - q[1]) % P
    IN  CASE p = Infinity -> q
          [] p # Infinity /\ q = Infinity -> p
          [] p # Infinity /\ q # Infinity /\ p[1] = q[1] /\ p[2] # q[2] -> Infinity
          [] OTHER -> <<x, (slope * (p[1] - x) - p[2]) % P>>

(* Mult[k] is k times the generator.                                       *)
Mult ==
    LET m[k \in 0 .. N - 1] ==
            IF k = 0 THEN Infinity
            ELSE IF k % 2 = 1 THEN RefAdd(m[k - 1], <<Gx, Gy>>)
            ELSE LET h == m[k \div 2] IN RefAdd(h, h)
    IN  [k \in 0 .. N - 1 |-> m[k]]

Affine(k) == Ge(FeSetInt(Mult[k][1]), FeSetInt(Mult[k][2]))

GeStandsFor(a, k) == IF k = 0 THEN a.inf ELSE ~a.inf /\ <<a.x.v, a.y.v>> = Mult[k]

StandsFor(a, k) ==
    IF k = 0 THEN a.inf
    ELSE /\ ~a.inf
         /\ a.z.v # 0
         /\ a.x.v = (Mult[k][1] * a.z.v * a.z.v) % P
         /\ a.y.v = (((Mult[k][2] * a.z.v * a.z.v) % P) * a.z.v) % P

ASSUME CurveAssumption ==
    /\ P % 4 = 3
    /\ Pow(Beta, 3) = 1 /\ Beta # 1
    /\ RefAdd(Mult[N - 1], <<Gx, Gy>>) = Infinity
    /\ \A k \in 1 .. N - 1 :
        /\ Mult[k] # Infinity
        /\ Mult[(k * Lambda) % N] = <<(Beta * Mult[k][1]) % P, Mult[k][2]>>
=============================================================================
