--------------------------- MODULE AdditionChains ---------------------------
(***************************************************************************)
(* The powers that inverses and square roots are computed as, at full      *)
(* size: fe_inv and fe_sqrt (field_impl.h) and scalar_inverse              *)
(* (scalar_impl.h).  A number is represented by its exponent of the        *)
(* input, so that squaring doubles and multiplication adds.  Each function *)
(* is a sequence of rounds: the number from is squared times times and     *)
(* multiplied with the number by into the number to.  The number k is the  *)
(* code's xk, the input itself is 1 and the running result t or t1 is 0.   *)
(***************************************************************************)
EXTENDS Integers, Sequences

Round(from, times, by, to) == [from |-> from, times |-> times, by |-> by, to |-> to]
Block(from, times, by, to) == <<Round(from, times, by, to)>>
Ladder(first, rounds) ==
    [i \in 1 .. Len(rounds) |-> Round(IF i = 1 THEN first ELSE 0, rounds[i][1], rounds[i][2], 0)]

(* x ^ (2^k - 1) for the runs of ones in the exponent.                     *)
FieldBlocks ==
    Block(1, 1, 1, 2) \o Block(2, 1, 1, 3) \o Block(3, 3, 3, 6) \o Block(6, 3, 3, 9)
    \o Block(9, 2, 2, 11) \o Block(11, 11, 11, 22) \o Block(22, 22, 22, 44)
    \o Block(44, 44, 44, 88) \o Block(88, 88, 88, 176) \o Block(176, 44, 44, 220)
    \o Block(220, 3, 3, 223)

FeInvChain == FieldBlocks \o Ladder(223, <<<<23, 22>>, <<5, 1>>, <<3, 2>>, <<2, 1>>>>)

(* Mutant: one squaring at the end is missing.                             *)
FeSqrtChainShort == FieldBlocks \o Ladder(223, <<<<23, 22>>, <<6, 2>>, <<1, 0>>>>)

(* The last two squarings are not followed by a multiplication.            *)
FeSqrtChain == FieldBlocks \o Ladder(223, <<<<23, 22>>, <<6, 2>>, <<2, 0>>>>)

ScalarBlocks ==
    Block(1, 1, 1, 2) \o Block(2, 1, 1, 3) \o Block(3, 1, 1, 4) \o Block(4, 2, 2, 6)
    \o Block(6, 1, 1, 7) \o Block(7, 1, 1, 8) \o Block(8, 7, 7, 15) \o Block(15, 15, 15, 30)
    \o Block(30, 30, 30, 60) \o Block(60, 60, 60, 120) \o Block(120, 7, 7, 127)

ScalarTail ==
    <<<<2, 1>>, <<4, 3>>, <<2, 1>>, <<2, 1>>, <<2, 1>>, <<4, 3>>, <<3, 2>>, <<4, 3>>, <<5, 3>>,
      <<4, 2>>, <<2, 1>>, <<2, 1>>, <<5, 4>>, <<2, 1>>, <<3, 1>>, <<4, 1>>, <<2, 1>>, <<10, 3>>,
      <<4, 3>>, <<9, 8>>, <<2, 1>>, <<3, 1>>, <<3, 1>>, <<5, 4>>, <<2, 1>>, <<5, 2>>, <<4, 2>>,
      <<2, 1>>, <<8, 2>>, <<3, 2>>, <<3, 1>>, <<6, 1>>, <<8, 6>>>>

ScalarInverseChain == ScalarBlocks \o Ladder(127, ScalarTail)

Chain(f) == CASE f = "fe_inv" -> FeInvChain
              [] f = "fe_sqrt" -> FeSqrtChain
              [] f = "scalar_inverse" -> ScalarInverseChain

-----------------------------------------------------------------------------
(* Exponents as words of 16 bits, the lowest first.                        *)
Words == 1 .. 17
Plus(a, b) ==
    LET full[i \in Words] == a[i] + b[i] + (IF i = 1 THEN 0 ELSE full[i - 1] \div 65536)
    IN  [i \in Words |-> full[i] % 65536]
Zero == [i \in Words |-> 0]
One == [Zero EXCEPT ![1] = 1]

(* 2^256 - 2^32 - 977 - 2, and a quarter of 2^256 - 2^32 - 977 + 1.        *)
PrimeMinus2 == <<64557, 65535, 65534, 65535, 65535, 65535, 65535, 65535, 65535, 65535, 65535,
                 65535, 65535, 65535, 65535, 65535, 0>>
QuarterPrime == <<65292, 49151, 65535, 65535, 65535, 65535, 65535, 65535, 65535, 65535, 65535,
                  65535, 65535, 65535, 65535, 16383, 0>>

(* SECP256K1_N_0 .. SECP256K1_N_7 in halves, minus 2.                      *)
OrderMinus2 == <<16703, 53302, 24204, 49106, 41019, 44872, 56550, 47790, 65534, 65535, 65535,
                 65535, 65535, 65535, 65535, 65535, 0>>

Exponent(f) == CASE f = "fe_inv" -> PrimeMinus2
                 [] f = "fe_sqrt" -> QuarterPrime
                 [] f = "scalar_inverse" -> OrderMinus2

-----------------------------------------------------------------------------
VARIABLES function, \* the function that runs
          round,    \* the round it is in
          left,     \* squarings left in this round
          acc,      \* the number being squared
          x         \* the numbers computed so far

vars == <<function, round, left, acc, x>>

Done == round > Len(Chain(function))
Now == Chain(function)[round]

Init ==
    /\ function \in {"fe_inv", "fe_sqrt", "scalar_inverse"}
    /\ round = 1 /\ left = 1 /\ acc = One
    /\ x = [k \in {1} |-> One]

Square ==
    /\ ~Done /\ left > 0
    /\ acc' = Plus(acc, acc)
    /\ left' = left - 1
    /\ UNCHANGED <<function, round, x>>

Multiply ==
    /\ ~Done /\ left = 0
    /\ LET result == IF Now.by = 0 THEN acc ELSE Plus(acc, x[Now.by])
           all == [k \in DOMAIN x \cup {Now.to} |-> IF k = Now.to THEN result ELSE x[k]]
           next == Chain(function)[round + 1]
       IN  /\ x' = all
           /\ round' = round + 1
           /\ IF round < Len(Chain(function)) THEN acc' = all[next.from] /\ left' = next.times
                                              ELSE acc' = result /\ left' = 0
    /\ UNCHANGED function

Next == Square \/ Multiply
Spec == Init /\ [][Next]_vars

(* What comes out is the power the code's comments announce: the inverse   *)
(* as the (p - 2)th power, the root as the ((p + 1) / 4)th, the inverse of *)
(* a scalar as the (n - 2)th; and nothing wrapped on the way.              *)
ChainsReachExponent == Done => x[0] = Exponent(function)
=============================================================================
