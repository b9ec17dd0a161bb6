---- MODULE MCSupervisor ----
EXTENDS Supervisor, TLC
CONSTANTS am, bd
\* A program that starts each daemon once, or one of them twice.
OnceOrAgain == {am :> 1 @@ bd :> 1, am :> 2 @@ bd :> 0, am :> 0 @@ bd :> 2}
====
