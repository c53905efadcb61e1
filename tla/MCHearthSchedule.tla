-------------------------- MODULE MCHearthSchedule --------------------------
(* Two days of two targets, and proposals that share days in every way.     *)
EXTENDS HearthSchedule
CONSTANTS mon, tue, night, noon

MCDays    == {mon, tue}
MCTargets == {night, noon}
MCOwn     == {night}
MCProposals ==
  LET e(bits, t) == [bits |-> bits, target |-> t]
  IN {<<>>, <<e({mon, tue}, noon), e({mon, tue}, noon)>>}
=============================================================================
