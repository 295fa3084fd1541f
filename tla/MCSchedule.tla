----------------------------- MODULE MCSchedule -----------------------------
(* Times in units of a sweep: a ticket lives 4, the timer waits 1. *)
EXTENDS Schedule

MCRawConfigs ==
    {[Unset EXCEPT !.interval = -1, !.lead = 3, !.refresh = 2],
     [Unset EXCEPT !.schedule = "fixed", !.refresh = 2],
     [Unset EXCEPT !.schedule = "on_demand", !.refresh = 2],
     [Unset EXCEPT !.probe = FALSE]}
=============================================================================
