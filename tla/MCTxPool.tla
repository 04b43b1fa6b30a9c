------------------------------ MODULE MCTxPool ------------------------------
(* The transaction pool on one account, with two transactions for each of two
   nonces that differ in price and cost, and one without a valid sender.   *)
EXTENDS TxPool

Tx(id, nonce, price) ==
    [id |-> id, from |-> "a", nonce |-> nonce, price |-> price, gas |-> 1,
     value |-> 0, intrinsic |-> 1]

MCTxs == {Tx(1, 0, 1), Tx(2, 0, 2), Tx(3, 1, 1), Tx(4, 1, 2),
          [Tx(5, 0, 1) EXCEPT !.from = "invalid"]}
=============================================================================
