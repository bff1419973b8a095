----------------------------- MODULE MCAiRunReading ----------------------------
EXTENDS AiRunReading

\* The two model calls of a step, and the step.
TwoCallsAndTheirStep == {<<"ai_model_calls", "ai_model_calls", "ai_run_steps">>}

================================================================================
