----------------------------- MODULE MCSendMail -----------------------------
(***************************************************************************)
(* Instances of SendMail for TLC.                                          *)
(***************************************************************************)
EXTENDS SendMail, TLC

CONSTANTS u1, a, b, h1, h2

OneClient == {u1}
OneMail   == {a}
TwoMails  == {a, b}
OneSlot   == {h1}
TwoSlots  == {h1, h2}
=============================================================================
