--------------------------- MODULE MCPaymentIntake ---------------------------
(* Small instances of PaymentIntake.  The first operation pays what every  *)
(* escrow asks for, the second what the first escrow asks for.             *)
EXTENDS PaymentIntake, TLC

MCMatching == [o \in Operations |-> IF o = 1 THEN Escrows ELSE {1}]

RequestSymmetry == Permutations(Requests)

(* States that differ only in what can no longer matter count as one.  No  *)
(* guard and no invariant tells FUNDED from a later state, and no action   *)
(* makes an escrow CREATED again or brings it back to the page.  A failure *)
(* is never forgotten, and once an operation failed, neither what it owed  *)
(* nor whether it was ever marked is asked for: PaymentApplied speaks of   *)
(* taken \ failed, and ReplaySkipsNothing of taken \cup failed.            *)
Waiting == {e \in Escrows : state[e] = "CREATED" /\ e > created - Take}

StillOwed == [o \in Operations |-> IF o \in failed THEN {}
                                   ELSE owed[o] \cap Waiting]

PaymentView ==
    <<emitted, created, Waiting, processed, call, replay, cursor, StillOwed,
      taken \ failed, failed, funded>>
=============================================================================
