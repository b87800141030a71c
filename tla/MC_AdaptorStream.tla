------------------------- MODULE MC_AdaptorStream --------------------------
(***************************************************************************)
(* One thinking model and two others, and up to three attempts.            *)
(***************************************************************************)
EXTENDS AdaptorStream

CONSTANTS qwen_thinking, qwen_plus, gpt

MCModels == {qwen_thinking, qwen_plus, gpt}
MCThinking == {qwen_thinking}
=============================================================================
