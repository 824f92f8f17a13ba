---------------------------- MODULE MCPaymentCallback ----------------------------
(* Ann pays twice, Bob once.                                                       *)
EXTENDS PaymentCallback, TLC

CONSTANTS p1, p2, p3, ann, bob

MCUserOf == [p \in Payment |-> IF p = p3 THEN bob ELSE ann]
MCAmount == [p \in Payment |-> IF p = p1 THEN 1 ELSE 2]
==================================================================================
