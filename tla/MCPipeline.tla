----------------------------- MODULE MCPipeline -----------------------------
(* Pipeline with an encoder whose errors end its thread, with flac, and    *)
(* with flac on a stream of another rate than its own.                     *)
EXTENDS Pipeline

MCEncoders == {"lame", "flac", "flacRefuses"}
=============================================================================
