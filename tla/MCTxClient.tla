----------------------------- MODULE MCTxClient -----------------------------
(* Model values for TxClient.                                                *)
EXTENDS TxClient
CONSTANTS t1, t2, e1, e2
MCEndpoints == <<e1, e2>>
MCBody == [t \in Submissions |-> t]
MCGas == [t \in Submissions |-> IF t = t1 THEN "estimate" ELSE "price"]
=============================================================================
