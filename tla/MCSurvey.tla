------------------------------ MODULE MCSurvey ------------------------------
EXTENDS SurveyInterview
CONSTANTS a, b, c, d
MCStarts == {<<>>, <<a, b, c>>}
MCOneStart == {<<a, b, c>>}
MCPipes == {<<a, b>>}
=============================================================================
