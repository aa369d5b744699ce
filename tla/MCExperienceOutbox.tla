------------------------- MODULE MCExperienceOutbox -------------------------
(* A small instance of ExperienceOutbox: one subject, two revisions. *)
EXTENDS ExperienceOutbox, TLC

CONSTANTS s1, w1, w2
=============================================================================
