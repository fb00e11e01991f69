------------------------------- MODULE MCCnab -------------------------------
(* Small instances of Cnab for TLC. *)
EXTENDS Cnab, TLC

CONSTANTS p1, p2, p3

\* Two payments of one number, one of them too large for its field; a third
\* has no document type.
MCOurNumber == p1 :> "PAY-1" @@ p2 :> "PAY-1" @@ p3 :> "PAY-3"
MCAmount == p1 :> 1507 @@ p2 :> 70 @@ p3 :> 70
MCDocumentType == p1 :> 1 @@ p2 :> 1 @@ p3 :> 0
=============================================================================
