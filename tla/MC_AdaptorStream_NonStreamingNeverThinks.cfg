CONSTANTS
    qwen_thinking = qwen_thinking
    qwen_plus = qwen_plus
    gpt = gpt
    Models <- MCModels
    Thinking <- MCThinking
    RetryTimes = 2
INIT Init
NEXT Next
CHECK_DEADLOCK FALSE
INVARIANT NonStreamingNeverThinks
