--------------------------- MODULE MCProviderCopies ----------------------------
EXTENDS ProviderCopies, TLC

CONSTANTS f1, f2, f3, r1, r2, s1

ThreeFiles == {f1, f2, f3}
TwoRuns == (f1 :> r1) @@ (f2 :> r2) @@ (f3 :> r2)
OneStuck == {f1}
OneSweep == {s1}
DayOneOrNone == {1, None}
AnyFault == CopyFaultKinds

================================================================================
