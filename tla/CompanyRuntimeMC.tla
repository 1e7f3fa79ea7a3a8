-------------------------- MODULE CompanyRuntimeMC --------------------------
(* Instances of CompanyRuntime for TLC: what company.yaml may say in a run.   *)
EXTENDS CompanyRuntime

Shape(enabled, ceoToo, jobToo, teamToo) ==
    [valid |-> TRUE, enabled |-> enabled, ceo |-> ceoToo, job |-> jobToo, team |-> teamToo]

DefaultShape == Shape(TRUE, TRUE, FALSE, FALSE)
BrokenShape == [DefaultShape EXCEPT !.valid = FALSE]

\* With everything; disabled; unreadable.  The admin page's is a fourth.
AllShapes == {Shape(TRUE, TRUE, TRUE, TRUE), Shape(FALSE, TRUE, TRUE, TRUE), BrokenShape}
=============================================================================
