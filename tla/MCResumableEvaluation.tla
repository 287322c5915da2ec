----------------------- MODULE MCResumableEvaluation -----------------------
EXTENDS ResumableEvaluation

CONSTANTS r1, r2, baseline, with_graph

MCRows == <<r1, r2>>
MCCondition == <<baseline, with_graph>>
=============================================================================
