---- MODULE MCPipelineRun ----
EXTENDS PipelineRun, TLC
CONSTANTS a, b, c, d, x, y, z
\* a leaves a process running, b follows it, c needs both b and d.
Needs == (a :> {}) @@ (b :> {a}) @@ (c :> {b, d}) @@ (d :> {})
Policy == (a :> "continue") @@ (b :> "continue") @@ (c :> "retry") @@ (d :> "fail")
Writes == (a :> x) @@ (b :> y) @@ (c :> z) @@ (d :> z)
====
