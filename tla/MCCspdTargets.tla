----------------------------- MODULE MCCspdTargets -----------------------------
(* Values for the constants of CspdTargets that a .cfg cannot write down.        *)
EXTENDS CspdTargets

\* A full prompt and one with padding.
MCPrompts == {<<2, 1>>}

\* No response tokens, a short response, a full one, and one with a hole where
\* a tool answered.
MCMasks == {{}, {1}, {1, 2, 3}, {1, 3}}

\* Below the range, certain failure, even odds, certain success.
MCValues == {-6, 0, 4}

\* A tail of one quarter, and candidates that are the whole distribution.
MCTopProbs == {<<2, 1>>, <<3, 1>>}
================================================================================
