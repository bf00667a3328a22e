------------------------------ MODULE MCLedger ------------------------------
(* Instances of Ledger: two items whose sources are of every useful pair of *)
(* kinds.                                                                   *)
EXTENDS Ledger, TLC

CONSTANTS a, b

Source(name, evidence, type, routine, artifact) ==
  [source |-> name, evidence |-> evidence, type |-> type,
   routine |-> routine, artifact |-> artifact]

PressA == Source("press_a", "reputable_media", "RELEASE", FALSE, TRUE)
PressB == Source("press_b", "reputable_media", "RELEASE", FALSE, TRUE)
Financial == Source("financial_press", "reputable_media", "RAISE", FALSE, TRUE)
Company == Source("company", "official_company", "RAISE", FALSE, TRUE)
Regulator == Source("regulator", "regulatory_filing", "RAISE", FALSE, FALSE)

MediaPair == {a :> PressA @@ b :> PressB}
MediaAndRegulator == {a :> Financial @@ b :> Regulator}
CompanyAndRegulator == {a :> Company @@ b :> Regulator}
PressPairs == MediaPair \cup MediaAndRegulator
AllPairs == MediaPair \cup MediaAndRegulator \cup CompanyAndRegulator

TwoAndNone == a :> 2 @@ b :> 0
OneAndOne == a :> 1 @@ b :> 1
TwoAndOne == a :> 2 @@ b :> 1
TwoAndTwo == a :> 2 @@ b :> 2
ThreeAndOne == a :> 3 @@ b :> 1
=============================================================================
