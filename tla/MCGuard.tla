------------------------------- MODULE MCGuard -------------------------------
(* Guard for TLC: requests as model values.                                  *)
EXTENDS Guard

CONSTANTS x1, x2, f1

OneOfEach == {x1, f1}
ThreeRequests == {x1, x2, f1}
OneXhr == {x1}
TwoXhr == {x1, x2}

=============================================================================
