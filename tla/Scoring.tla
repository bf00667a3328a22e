------------------------------- MODULE Scoring -------------------------------
(***************************************************************************)
(* The pure rules of the radar: what a kind of evidence verifies, how two  *)
(* pieces of evidence combine, the 100-point score and the alert rule      *)
(* (scoring.py, and the helpers at the end of pipeline.py).                *)
(***************************************************************************)
EXTENDS Integers

\* The four labels an update can carry (contracts.py EventStatus).
Statuses == {"NEW_ENTITY", "DISCOVERED_LATE", "MATERIAL_UPDATE", "MINOR_UPDATE"}

\* Weakest first; the order is _verification_rank.
Verifications ==
  {"REPORTED_UNCONFIRMED", "COMPANY_CLAIM", "VERIFIED_PRIMARY", "CORROBORATED"}

Rank ==
  [v \in Verifications |->
     CASE v = "REPORTED_UNCONFIRMED" -> 1
       [] v = "COMPANY_CLAIM"        -> 2
       [] v = "VERIFIED_PRIMARY"     -> 3
       [] v = "CORROBORATED"         -> 4]

PrimaryEvidence ==
  {"paper", "regulatory_filing", "exchange_filing", "official_filing",
   "official_repo", "official_standard"}

VerificationFor(evidence) ==
  CASE evidence \in PrimaryEvidence    -> "VERIFIED_PRIMARY"
    [] evidence = "official_company"   -> "COMPANY_CLAIM"
    [] OTHER                           -> "REPORTED_UNCONFIRMED"

\* (Mutant: CORROBORATED is not kept.)
CombinedVerificationForgetful(current, supporting) ==
  CASE /\ current = supporting
       /\ current \in {"REPORTED_UNCONFIRMED", "COMPANY_CLAIM"} -> current
    [] "VERIFIED_PRIMARY" \in {current, supporting} -> "CORROBORATED"
    [] OTHER                                        -> "COMPANY_CLAIM"

\* The tests are made in the code's order: two equal labels of the two lower
\* kinds stay as they are, anything that meets a primary source becomes
\* CORROBORATED -- two primary labels included.
CombinedVerification(current, supporting) ==
  CASE "CORROBORATED" \in {current, supporting}     -> "CORROBORATED"
    [] /\ current = supporting
       /\ current \in {"REPORTED_UNCONFIRMED", "COMPANY_CLAIM"} -> current
    [] "VERIFIED_PRIMARY" \in {current, supporting} -> "CORROBORATED"
    [] OTHER                                        -> "COMPANY_CLAIM"

-----------------------------------------------------------------------------
EvidenceScore(evidence) ==
  CASE evidence \in {"regulatory_filing", "exchange_filing"} -> 25
    [] evidence \in {"paper", "official_repo"}               -> 24
    [] evidence = "official_standard"                        -> 23
    [] evidence \in {"official_company", "podcast_interview"} -> 22
    [] evidence = "reputable_media"                          -> 15
    [] evidence = "media"                                    -> 10
    [] OTHER                                                 -> 12

Novelty(status) ==
  CASE status = "NEW_ENTITY"      -> 18
    [] status = "MATERIAL_UPDATE" -> 20
    [] status = "DISCOVERED_LATE" -> 10
    [] status = "MINOR_UPDATE"    -> 3

HighImpact ==
  {"MODEL_RELEASE", "PODCAST_INTERVIEW", "FOUNDER_INTERVIEW",
   "REASONING_BREAKTHROUGH", "RLVR_BENCHMARK", "PROTOCOL_RELEASE",
   "IPO_FILING", "RAISE", "M_AND_A", "CAPEX_COMPUTE", "REGULATORY_EXPORT"}

Impact(type) ==
  CASE type \in HighImpact                              -> 18
    [] type \in {"PAPER", "RELEASE", "RESEARCH_REPORT"} -> 14
    [] OTHER                                            -> 8

Clamp(low, high, n) == IF n < low THEN low ELSE IF n > high THEN high ELSE n

\* score_event with the defaults enrichment leaves in place: a primary link
\* and an artifact link are always assumed.
ScoreEvent(strength, evidence, status, verification, type, duplicate, routine) ==
  LET actionability == IF EvidenceScore(evidence) >= 22 THEN 10 ELSE 6
      penalties == (IF duplicate THEN 40 ELSE 0)
                   + (IF verification = "REPORTED_UNCONFIRMED" THEN 25 ELSE 0)
                   + (IF routine THEN 20 ELSE 0)
  IN  Clamp(0, 100, Clamp(0, 30, strength) + EvidenceScore(evidence)
                    + Novelty(status) + Impact(type) + actionability - penalties)

DigestThreshold == 45
AlertThreshold  == 80

CapitalTypes ==
  {"IPO_FILING", "RAISE", "M_AND_A", "CAPEX_COMPUTE", "MATERIAL_CONTRACT",
   "EARNINGS_GUIDANCE", "OWNERSHIP", "REGULATORY_EXPORT"}

\* A capital event needs primary or corroborated evidence; a company's own
\* claim may alert only when it is about something that has shipped.
AlertEligible(score, verification, type, releaseEvidence) ==
  /\ score >= AlertThreshold
  /\ verification # "REPORTED_UNCONFIRMED"
  /\ type = "PAPER" => releaseEvidence
  /\ verification = "COMPANY_CLAIM"
       => type \in {"MODEL_RELEASE", "RELEASE", "PROTOCOL_RELEASE"} \ CapitalTypes
=============================================================================
