------------------------- MODULE MCInferredSpanTree -------------------------
EXTENDS InferredSpanTree, TLC

\* No hook, which is filtered like a hook called by the engine, and a hook that
\* called a function of the SDK.
HookTops == {<<>>, <<ApmFrame, ApmFrame>>}

Opt(reduction, minDuration, canSetParent, sampled, others) ==
    [reduction |-> reduction, minDuration |-> minDuration, canSetParent |-> canSetParent,
     sampled |-> sampled, foreign |-> others]

\* Span reduction is the default; minimum durations, an SDK whose spans cannot
\* be moved, a request that is not sampled, and other instrumentation.
AllOptions ==
    {Opt(TRUE, 2, TRUE, TRUE, FALSE), Opt(FALSE, 2, TRUE, TRUE, FALSE), Opt(TRUE, 0, FALSE, TRUE, FALSE),
     Opt(TRUE, 0, TRUE, FALSE, FALSE), Opt(TRUE, 0, TRUE, TRUE, TRUE)}

FrameSymmetry == Permutations(Frames)
=============================================================================
