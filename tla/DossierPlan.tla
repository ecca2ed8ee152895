----------------------------- MODULE DossierPlan -----------------------------
(* The pure functions of a dossier's plan (src/sinistres), used by every   *)
(* module that keeps dossiers.  Days are numbers; None stands for a date,  *)
(* a link, a rule or a mark that is not there.                             *)
EXTENDS Integers

CONSTANT None

(* sinistreStatus, for a dossier that is not closed: link is the outcome   *)
(* of the linked line.                                                     *)
SinistreStatus(link, declared) ==
  CASE declared # None  -> "DECLARE"
    [] declared = None /\ link = None -> "AVANT_ARRETE"
    [] declared = None /\ link = "RECONNU" -> "ARRETE_PUBLIE"
    [] OTHER -> "ARRETE_REFUSE"

(* anchorDatesOf: the insurer's deadlines run from the later of the        *)
(* declaration and the publication, once both are known.                   *)
InsurerAnchor(declared, published) ==
  IF declared = None \/ published = None THEN None
  ELSE IF declared > published THEN declared ELSE published

(* resolveStepPlannedDate for a legal step: its delay from the anchor, a   *)
(* date only where both the anchor and a rule are known.                   *)
LegalStepDate(anchor, duration) ==
  IF anchor = None \/ duration = None THEN None ELSE anchor + duration

(* stepStatus: a mark is kept as it is, a date that passed is late, one    *)
(* within SOON_THRESHOLD_DAYS is to do.                                    *)
StepStatus(mark, planned, today, soon) ==
  CASE mark # None    -> mark
    [] mark = None /\ planned = None -> "A_VENIR"
    [] mark = None /\ planned # None /\ planned < today -> "EN_RETARD"
    [] OTHER          -> IF planned - today <= soon THEN "A_FAIRE" ELSE "A_VENIR"

(* beatsCurrentWinner: a recognition before a refusal, then the earliest.  *)
BeatsCurrentWinner(new, old) ==
  IF new.outcome # old.outcome THEN new.outcome = "RECONNU"
  ELSE new.publishedAt < old.publishedAt
=============================================================================
